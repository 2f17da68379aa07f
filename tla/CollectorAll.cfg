SPECIFICATION Spec
CONSTANTS
    Boxes <- TwoBoxes
    Conns <- SomeConns
    Net = 4
    Hosts = 2
    Settings <- SomeSettings
    Begun <- SomeBegun
    Start = 3
    MaxClock = 4
    MaxReports = 2
    MaxKeys = 2
    VersionAddresses <- TopTwo
INVARIANTS TypeOK TableIsReports OneEntryEach DiesOfClearing PrintedInOrder
CHECK_DEADLOCK FALSE
