SPECIFICATION FairSpec
CONSTANTS
    fc1 = fc1
    fc2 = fc2
    copter = copter
    plane = plane
    Targets = {fc1, fc2}
    Identities = {copter}
    EscModes = {"raw"}
    NWrites = 1
    MaxOpens = 2
    MaxEpoch = 13
    MaxVgen = 4
    MaxRadio = 1
    MaxGens = 2
    Transfers = TRUE
INVARIANTS
    DownloadsAccounted
PROPERTIES
    ConfirmationFresh
    ShareSpec
    SyncEnds
CHECK_DEADLOCK FALSE
