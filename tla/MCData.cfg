CONSTANTS
    Transfers = {"test42", "test138"}
    Service <- MCService
    Size <- MCSize
    Needed <- MCNeeded
    Block = 2
    EchoRead = 2
    UpRoom = 2
    DownRoom = 1
    Nobody = "nobody"
SPECIFICATION FairDataSpec
INVARIANTS
    DataTypeOK
    BytesConserved
    ConnectionsAccounted
    NoEmbrace
    SoundTransfersPass
PROPERTIES
    TransfersEnd
    ConnectionsForgotten
