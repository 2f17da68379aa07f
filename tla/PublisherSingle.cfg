SPECIFICATION FairSpec
CONSTANTS
    Tickers <- Capture
    Losses <- NoLoss
    Tokens <- TwoTokens
    CanQuit = FALSE
INVARIANTS MemorySafe InFlightIsPending SettledMeansSent
PROPERTIES EveryMessageSettles Reconnects OneReportAtATime
CHECK_DEADLOCK FALSE
