SPECIFICATION SpecMq
CONSTANTS
    FileMax = 3
    BlockMax = 1
    IndexMinInterval = 1
    Limits = {1, 3}
    Long = {2}
    MaxLog = 3
    MaxFaults = 1
    MaxPuts = 2
    MaxFlight = 2
INVARIANTS NothingForgotten SeesLogInOrder CommitIsCovered IndexLeadsToPacket
CHECK_DEADLOCK FALSE
