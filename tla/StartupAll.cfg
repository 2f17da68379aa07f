SPECIFICATION Spec
CONSTANTS
    Alphabet <- Alphabetical
    Texts <- SomeTexts
    Number <- FiveOrNothing
    Nets <- SomeNets
    FirstInterface = "eth0"
    Ports <- TwoPorts
    Protocols <- TwoProtocols
    Numbers <- OneNumber
    Brokers <- OneBroker
    Octet = 2
    PORT_LIST_LEN = 2
    BLOCK_LIST_LEN = 2
    MaxSwitches = 2
    MaxLines = 2
INVARIANTS TypeOK EveryKeyFound Precedence NetIsMasked PortsAsAsked
CHECK_DEADLOCK FALSE
