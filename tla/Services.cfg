SPECIFICATION Spec
CONSTANTS
    Conn = {c1}
    Base = base
    Io = {io}
    NULL = NULL
    MaxSends = 3
    Chunks = 3
    InitRetryDelay = 1
    MaxRetryDelay = 3
    MaxDowns = 2
    Brokers = {"b1"}
    Directories = {"d1"}
    Descriptors = 2
    MaxFaults = 3
INVARIANTS AssertionsHold PointersAreLive OutputIsKept
PROPERTIES ConnectionsEnd Reconnects ThreadsStartAndEnd BusdFollowsBrokers
CHECK_DEADLOCK FALSE
