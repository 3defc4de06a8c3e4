SPECIFICATION SpecMC
CONSTANTS
    Server = {n1, n2, n3}
    NOBODY = NOBODY
    MaxTerm = 2
    MaxElections = 2
    MaxUpdates = 4
    MaxRestarts = 1
    MaxSilent = 1
    FullTerm = 1
    FullUpdates = 2
SYMMETRY Symmetry
INVARIANT UpdatesComeFromWinners
PROPERTY KnownLeaderSentUpdate
CHECK_DEADLOCK FALSE
