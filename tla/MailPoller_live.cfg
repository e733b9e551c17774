CONSTANTS
    MaxUID = 2
    Oversized <- SecondOversized
    Budget = 1
    MaxCrashes = 0
SPECIFICATION Spec
PROPERTIES
    EventuallyServed
