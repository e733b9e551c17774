CONSTANTS
    Attempts = {r1, r2, r3, r4}
    MaxFailures = 3
SPECIFICATION LockoutSpec
INVARIANTS
    GuessesBounded
    NeverEarly
