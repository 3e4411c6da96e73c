CONSTANTS
    Pings = 3
    Multi = {1, 2}
    Required = 1
    Silent = {3}
    TimeoutMs = 2
    PerMs = 4
    MicrosPerSec = 8
    ULongRange = 16
    Starts <- FreshAndWrapping
    Foreign = 0
    MaxInbox = 2
SPECIFICATION PingSpec
INVARIANTS
    WaitBounded
    OwnReplyOnly
    SoundPingsPass
