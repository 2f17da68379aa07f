SPECIFICATION Spec
CONSTANTS
    Tickers <- CaptureAndCallback
    Losses = {l1}
    Tokens <- OneToken
    CanQuit = TRUE
INVARIANTS TypeOK ConstructWhenIdle ReadyBelongsToTick
CHECK_DEADLOCK FALSE
