SPECIFICATION SpecMC
CONSTANTS
    Server = {n1, n2, n3}
    NOBODY = NOBODY
    MaxTerm = 2
    MaxElections = 3
    MaxUpdates = 4
    MaxRestarts = 0
    MaxSilent = 0
    FullTerm = 2
    FullUpdates = 4
SYMMETRY Symmetry
INVARIANT AssertionsHold
CHECK_DEADLOCK FALSE
