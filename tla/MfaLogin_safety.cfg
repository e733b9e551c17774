CONSTANTS
    Requests = {r1, r2}
    MaxTOTPAttempts = 1
    MaxChallenges = 2
    MaxStep = 1
    MaxSecrets = 1
    MaxCodes = 2
    MaxIssued = 2
    MaxLogins = 2
SPECIFICATION Spec
SYMMETRY Symmetry
INVARIANTS
    TypeOK
    SecondFactorOnce
    TOTPOncePerChallenge
CHECK_DEADLOCK FALSE
