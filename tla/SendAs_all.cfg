CONSTANTS
    Requests = {r1, r2}
    Emails = {e1}
    Cap = 1
    MaxIds = 2
    MaxFaults = 1
SPECIFICATION Spec
INVARIANTS
    TypeOK
    SentWasProved
    ProbesBounded
PROPERTIES
    EventuallySettled
    KeepsLifecycle
