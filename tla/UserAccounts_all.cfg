CONSTANTS
    Requests = {r1, r2}
    FirstFiles <- MCFirstFiles
    MaxAccounts = 3
    MaxOps = 2
    MaxFaults = 1
SPECIFICATION Spec
SYMMETRY Symmetry
INVARIANTS
    TypeOK
    AdminRemains
    CredentialsWork
    ClearIsComplete
CHECK_DEADLOCK FALSE
