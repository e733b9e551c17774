CONSTANTS
    HeaderFields = {"from", "subject"}
    MaxTestNestingDepth = 2
    MaxMatchConditions = 3
    Requests = {r1, r2}
    Payloads <- MCPayloads
    Scripts <- MCScripts
    FirstRules <- MCFirstRules
    Content <- MCContent
    FirstPlace <- MCFirstPlace
    MaxRules = 2
    MaxIds = 4
    MaxWrites = 2
    MaxRuns = 1
    MaxFaults = 1
SPECIFICATION MCSpec
INVARIANTS
    RunHitsEvaluated
CHECK_DEADLOCK FALSE
