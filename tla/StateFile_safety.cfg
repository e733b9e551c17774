CONSTANTS
    Daemon = Daemon
    Server = Server
    Profiles <- AllProfiles
    UIDs <- OneUID
    Devices = {d}
    Torn = Torn
    Lost = Lost
    NoOp = NoOp
    MaxQueue = 2
SPECIFICATION Spec
INVARIANTS
    TypeOK
    NoLostUpdate
    PhoneSeesEachOnce
CHECK_DEADLOCK FALSE
