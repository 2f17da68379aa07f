SPECIFICATION Spec
CONSTANTS
    HwAddrs <- SomeHwAddrs
    Addrs <- SomeAddrs
    Ports <- SomePorts
    Frames <- SomeFrames
    Messages <- SomeMessages
    Worlds <- SomeWorlds
INVARIANTS TypeOK ConversationIsOneRecord FilterSeparates LinkAgrees AddressIsOwn
PROPERTIES NoLateAlarm SetUpEnds
CHECK_DEADLOCK FALSE
