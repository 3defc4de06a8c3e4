SPECIFICATION Spec
CONSTANTS
    TreeKey = {1, 2, 3, 4, 5, 6, 7, 8}
    MaxKeys = 8
    BTreeTurns = 2
    BPlusTurns = 1
    FewKeys = {1, 2, 3, 4, 5, 6}
    FewTurns = 2
    Strangers = {}
    HashKey = {1, 2}
    Value = {1, 2}
    MaxNode = 2
    MaxCrashes = 2
    Writer = {w1, w2}
    Reader = {r1}
    Blocks = 2
    MaxWrites = 3
    MaxSegments = 2
    PerMilli = 2
    MaxClock = 3
    Worker = {v1, v2, v3}
    Work = {k1, k2, k3}
    Capacity = 2
    Key = {"a"}
    Data = {1, 2}
    Flag = {0}
    AofLength = 6
    MaxCommands = 4
    MaxForks = 2
    MemCrashes = 1
    User = {"u1", "u2"}
    LogSize = 1
    MaxRequests = 2
    MaxTerms = 2
INVARIANTS TreesAreWhole HashSurvives SharedRingIsQueue SleepersAreNotNeeded FileFollowsCommands OkIsApplied
PROPERTIES BPlusTreeAdds IdsIncrease
CHECK_DEADLOCK FALSE
