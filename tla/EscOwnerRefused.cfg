SPECIFICATION Spec
CONSTANTS
    c1 = c1
    c2 = c2
    Clients = {c1}
    NTargets = 2
    MaxTries = 2
    MaxSessions = 1
    MaxJobs = 1
    MaxTargetGen = 1
    ReadyGate = TRUE
INVARIANTS
    OwnerCommandsAdmitted
