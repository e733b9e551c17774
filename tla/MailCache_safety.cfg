CONSTANTS
    Clients = {c1, c2}
    Limits = {1, 2}
    Casts <- MCCasts
    Cap = 2
    Bodiless = {2}
    MaxUID = 3
    MaxChanges = 3
    MaxSeq = 3
SPECIFICATION MCSpec
SYMMETRY Symmetry
INVARIANTS
    TypeOK
    NothingMissed
    UpdatedIsShown
CHECK_DEADLOCK FALSE
