CONSTANTS
    Profiles <- MCProfiles
    Versions <- MCVersions
    Tests = {1, 2, 3, 4, 5}
    Categories = {"socket", "dns", "misc"}
    NoCategory = ""
    MAX_FAILURES_DISPLAY = 1
    MAX_NOTES = 1
    MaxTests = 5
    ScreenRows = 6
    MaxRows = 1
    Table <- MCTable
    Network = {4}
    Guarded = {3}
    Fallible = {2, 4, 5}
    Filters <- MCFilters
    NoFilter = "none"
    PageModes = {TRUE, FALSE}
    Verboses = {FALSE}
SPECIFICATION FairSuiteSpec
INVARIANTS
    SuiteTypeOK
    CleanExit
    ExitDocumented
    RunsExactlySelected
    UnknownDiagnosed
PROPERTIES
    KeepsContract
    Terminates
    BreakHonoured
