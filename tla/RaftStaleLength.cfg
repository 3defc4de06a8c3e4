SPECIFICATION SpecRaft
CONSTANTS
    Server = {n1, n2, n3}
    NOBODY = NOBODY
    MaxTerm = 2
    MaxElections = 2
    MaxUpdates = 6
    MaxRestarts = 0
    LogLen = 2
    SnapLen = 1
    MaxEmits = 2
    Duplicates = TRUE
SYMMETRY Symmetry
INVARIANT AppliedIsReplicated
CHECK_DEADLOCK FALSE
