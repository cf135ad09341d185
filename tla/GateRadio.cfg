SPECIFICATION FairSpec
CONSTANTS
    fc1 = fc1
    fc2 = fc2
    copter = copter
    plane = plane
    Targets = {fc1}
    Identities = {copter, plane}
    EscModes = {"raw", "px4"}
    NWrites = 2
    MaxOpens = 1
    MaxEpoch = 13
    MaxVgen = 4
    MaxRadio = 2
    MaxGens = 0
    Transfers = FALSE
INVARIANTS
    SessionsConsistent
PROPERTIES
    RadioWriteEnds
    ChainsOnSafeVehicle
CHECK_DEADLOCK FALSE
