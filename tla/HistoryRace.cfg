SPECIFICATION Spec
CONSTANTS
    Tickers <- CaptureAndMain
    Keys = {k1}
    Lengths <- OneLength
    Start = 10
    MaxTime = 15
    MaxBytes = 4
    Duration = 1
    Threshold = 1
    DeleteInterval = 1
    RESOLUTION = 2
    CHECK_AFTER_N_SECS = 2
INVARIANTS RecordIsInTable
CHECK_DEADLOCK FALSE
