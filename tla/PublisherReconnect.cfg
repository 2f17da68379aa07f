SPECIFICATION FairSpec
CONSTANTS
    Tickers <- Capture
    Losses = {l1}
    Tokens <- TwoTokens
    CanQuit = FALSE
PROPERTIES Reconnects
CHECK_DEADLOCK FALSE
