CONSTANTS
    Profiles <- RealProfiles
    Versions <- Roadshow
    Tests <- AllTests
    Categories <- Names
    NoCategory = ""
    MAX_FAILURES_DISPLAY = 16
    MAX_NOTES = 8
    MaxTests = 142
    ScreenRows = 25
    MaxRows = 2
    Table <- RealTable
    Network <- HelperTests
    Guarded <- AskKnownCrash
    Fallible = {76}
    Filters <- AllOrSignals
    NoFilter = "none"
    PageModes = {FALSE}
    Verboses = {FALSE}
SPECIFICATION SuiteSpec
INVARIANT KnownMeansListed
