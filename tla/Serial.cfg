SPECIFICATION ScenesSpec
CONSTANTS
    MaxWrites = 3
    MaxQueued = 1
    MaxAttempts = 2
    MaxGens = 2
    MaxConnects = 2
INVARIANTS
    LinkSound
PROPERTIES
    LossSettlesInTime
CHECK_DEADLOCK FALSE
