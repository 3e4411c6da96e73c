CONSTANTS
    Profiles <- MCProfiles
    Versions <- MCVersions
    Tests = {t}
    Categories = {c}
    NoCategory = NoCategory
    MAX_FAILURES_DISPLAY = 2
    MAX_NOTES = 1
    MaxTests = 4
    ScreenRows = 4
    MaxRows = 3
SPECIFICATION TapSpec
INVARIANTS
    TypeOK
    CountersMatchLog
    ScreenMatchesLog
    FailureListExact
    OnlyOverlookedScrollsOff
PROPERTY KeepsPromise
