SPECIFICATION Spec
CHECK_DEADLOCK FALSE
CONSTANTS
    Vehicles = {"v"}
    Pages <- OrderPages
    MaxRequests = 3
    Commands = {"arming", "mode"}
    Arming = "arming"
    Tries <- TriesOf
    Motors = {"m1", "m2"}
    MaxWaiting = 3
    NParams = 2
    Values = {"a", "b"}
    Airframes <- NewFrame
    MaxPending = 2
    SetAttempts = 2
    MaxStalls = 1
    MaxReads = 2
    Batch = 1
    MaxLoads = 1
    MaxAir = 2
INVARIANT DisarmIsLast
