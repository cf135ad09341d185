SPECIFICATION FairSpec
CONSTANTS
    page = page
    other = other
    level = level
    left = left
    compass1 = compass1
    compass2 = compass2
    Flows = {"px4", "accel", "mag", "oneShot"}
    Clients = {page, other}
    Positions = {level, left}
    Compasses = {compass1, compass2}
    NoClient = NoClient
    NoPosition = NoPosition
    MaxSessions = 2
INVARIANTS
    OutcomesShown
    CalibrationConsistent
PROPERTIES
    OperatorBounds
    LedgerSpec
    SessionEnds
CHECK_DEADLOCK FALSE
