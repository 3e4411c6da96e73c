CONSTANTS
    Categories <- AllCategories
    Descriptors <- SixSockets
    Many = 3
    CrashLists <- Amiberry711
    Garbage <- Uninitialized
SPECIFICATION ResSpec
INVARIANT CrashesSkipped
