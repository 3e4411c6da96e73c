CONSTANTS
    Runs <- TwoRuns
    Amigas <- TwoAmigas
    None = "none"
SPECIFICATION FairControlSpec
INVARIANTS
    ControlTypeOK
    OneControlConnection
    CallsAnnounced
    UndisturbedRunPasses
PROPERTIES
    ConnectionsAccepted
    RunsEnd
