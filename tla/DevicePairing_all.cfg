CONSTANTS
    Users = {u1, u2}
    ChosenIds = {d1}
    PushTokens = {p1, p2}
    Requests = {q1, q2}
    Nobody = Nobody
    TTL = 2
    MaxTime = 4
    MaxCalls = 4
    MaxTokens = 2
    MaxSecrets = 2
    MaxFaults = 1
    MaxTouches = 1
SPECIFICATION MCSpec
SYMMETRY Symmetry
INVARIANTS
    TypeOK
    OwnerStands
    TokenOnce
    RevokedStaysOut
CHECK_DEADLOCK FALSE
