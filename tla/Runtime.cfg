SPECIFICATION RuntimeSpec
CONSTANTS
    Indices = {1, 2}
    MaxAttempts = 2
    MaxLinks = 2
    MaxGens = 3
    MaxDrops = 1
    MaxRefreshes = 1
    MaxSilent = 1
    MaxQueue = 2
    KnownIds = {1}
    Items <- MCItems
    MaxItems = 3
    MaxPayload = 8
    MaxBuffered = 12
    Sources = {1, 2, 3}
    SigningLinks = {0}
    MaxTracked = 2
    MaxAge = 1
    MaxFuture = 1
    MaxTime = 2
    RequireSigned = FALSE
    AllowStale = FALSE
    EscCount = 3
    Mcus <- MCMcus
    Layouts <- MCLayouts
    Supported <- MCSupported
    InitAttempts = 2
    MaxTimeouts = 2
    MaxOrders = 1
    MaxSwaps = 1
    Revisions = {2, 3}
    MaxEdits = 2
    Autopilots <- MCAutopilots
    MinBeats = 2
    StaleTicks = 2
    MaxKnown = 3
    MaxResets = 1
INVARIANTS
    PageConsistent
    FramesDelivered
    LayoutSound
    TargetUnambiguous
PROPERTIES
    TrustHolds
    SettingsOwn
    UserSyncUndisturbed
    AutomaticEnds
CHECK_DEADLOCK FALSE
