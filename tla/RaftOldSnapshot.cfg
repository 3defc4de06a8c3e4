SPECIFICATION SpecFew
CONSTANTS
    Server = {n1, n2}
    NOBODY = NOBODY
    MaxTerm = 1
    MaxElections = 1
    MaxUpdates = 6
    MaxRestarts = 0
    LogLen = 2
    SnapLen = 1
    MaxEmits = 3
    Duplicates = TRUE
SYMMETRY Symmetry
PROPERTY AppliedGrows
CHECK_DEADLOCK FALSE
