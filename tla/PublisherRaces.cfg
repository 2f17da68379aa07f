SPECIFICATION Spec
CONSTANTS
    Tickers <- CaptureAndMain
    Losses <- NoLoss
    Tokens <- TwoTokens
    CanQuit = FALSE
INVARIANTS SettledMeansSent
CHECK_DEADLOCK FALSE
