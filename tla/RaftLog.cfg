SPECIFICATION SpecRaft
CONSTANTS
    Server = {n1, n2, n3}
    NOBODY = NOBODY
    MaxTerm = 1
    MaxElections = 1
    MaxUpdates = 5
    MaxRestarts = 0
    LogLen = 2
    SnapLen = 1
    MaxEmits = 2
    Duplicates = TRUE
SYMMETRY Symmetry
INVARIANTS StateMachinesAgree AckedIsReplicated
CHECK_DEADLOCK FALSE
