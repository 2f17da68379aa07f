SPECIFICATION Spec
CONSTANTS
    Boxes <- TwoBoxes
    Conns <- OneConn
    Net = 4
    Hosts = 2
    Settings <- PlainSettings
    Begun <- NoneBegun
    Start = 0
    MaxClock = 1
    MaxReports = 2
    MaxKeys = 1
    VersionAddresses <- TopTwo
INVARIANT TotalsNotExceeded
CHECK_DEADLOCK FALSE
