SPECIFICATION FairSpec
CHECK_DEADLOCK FALSE
CONSTANTS
    Vehicles = {"v"}
    Server = "v"
    Files = {"a"}
    Dirs = {"r", "s"}
    Skip = "skip"
    Listing <- Listed2
    Selections <- Selected
    Offers = {{"fs_download"}, {"log_download"}, {"log_erase"}}
    FileLen = 1
    Tries = 1
    MaxPasses = 1
    GapFill = 0
    MaxPages = 3
    PageLen = 1
    MaxEntries = 3
    MaxDepth = 2
    MaxItems = 3
    MaxRetained = 1
    SeqCycle = 6
    MaxAge = 1
    AirLimit = 1
    Logs = 2
    Size = 2
    RealLen = 2
    Chunk = 1
    Attempts = 1
    MaxFrames = 2
    LogPasses = 2
    MaxRounds = 2
    LogRetained = 1
    LogAirLimit = 1
PROPERTIES TransfersEnd
