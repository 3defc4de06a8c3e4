SPECIFICATION SpecRaft
CONSTANTS
    Server = {n1, n2}
    NOBODY = NOBODY
    MaxTerm = 1
    MaxElections = 1
    MaxUpdates = 4
    MaxRestarts = 1
    LogLen = 2
    SnapLen = 2
    MaxEmits = 3
    Duplicates = FALSE
SYMMETRY Symmetry
INVARIANTS AppliedCountsState LeaderRingIntact
PROPERTY IsElection
CHECK_DEADLOCK FALSE
