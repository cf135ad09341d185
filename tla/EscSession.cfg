SPECIFICATION FairSpec
CONSTANTS
    c1 = c1
    c2 = c2
    Clients = {c1, c2}
    NTargets = 3
    MaxTries = 2
    MaxSessions = 2
    MaxJobs = 2
    MaxTargetGen = 1
    ReadyGate = FALSE
INVARIANTS
    SessionConsistent
PROPERTIES
    SafetyBoundaries
    SessionsResolve
    NoNewTargetAfterOwnerLoss
    LeaseSpec
