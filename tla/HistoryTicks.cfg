SPECIFICATION Spec
CONSTANTS
    Tickers <- CaptureAndCallback
    Keys = {k1, k2}
    Lengths <- OneLength
    Start = 10
    MaxTime = 14
    MaxBytes = 3
    Duration = 2
    Threshold = 1
    DeleteInterval = 1
    RESOLUTION = 2
    CHECK_AFTER_N_SECS = 2
INVARIANTS TypeOK ApprovedQualify TotalsConserved
PROPERTIES ApprovedStay RecentKept
SYMMETRY Symmetry
CHECK_DEADLOCK FALSE
