CONSTANTS
    Runs <- TwoRuns
    Amigas <- OneAmiga
    None = "none"
SPECIFICATION ControlSpec
INVARIANT BackToBackRunsPass
