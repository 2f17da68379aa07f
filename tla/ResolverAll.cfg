SPECIFICATION FairSpec
CONSTANTS
    Inet <- TwoInet
    Inet6 <- ThreeInet6
    LinkLocal <- OnlyL
    Subnet <- Subnets
    Workers <- TwoWorkers
    Callers <- OneCaller
    RESOLVE_QUEUE_LENGTH = 3
    Methods <- AllMethods
INVARIANTS TypeOK ResolvedOnce TextsLive
PROPERTIES AddressTried
CHECK_DEADLOCK FALSE
