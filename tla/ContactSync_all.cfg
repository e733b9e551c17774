CONSTANTS
    UID = {a, b, c}
    Clients = {p, q}
    MaxSeq = 4
SPECIFICATION Spec
INVARIANTS
    TypeOK
    UpToDate
    OneSelf
PROPERTIES
    Converges
