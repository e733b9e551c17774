CONSTANTS
    MaxUID = 2
    Oversized <- SecondOversized
    Budget = 1
    MaxCrashes = 1
SPECIFICATION Spec
INVARIANTS
    TypeOK
    CheckpointCovers
    NotifiedOnce
    OutageNeverRetires
    JournalTruthful
