SPECIFICATION SpecMC
CONSTANTS
    Server = {n1, n2, n3}
    NOBODY = NOBODY
    MaxTerm = 2
    MaxElections = 2
    MaxUpdates = 0
    MaxRestarts = 0
    MaxSilent = 0
    FullTerm = 2
    FullUpdates = 0
SYMMETRY Symmetry
INVARIANTS TypeOK OneGrantPerTerm OneLeaderPerTerm VotesAreGrants
PROPERTIES TermAndVoteAreStable KeepsPromise
CHECK_DEADLOCK FALSE
