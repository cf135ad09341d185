SPECIFICATION Spec
VIEW Rotated
CHECK_DEADLOCK FALSE
CONSTANTS
    Vehicles = {"v", "w"}
    Server = "v"
    Files = {"a"}
    Dirs = {"r", "s"}
    Skip = "skip"
    Listing <- Listed2
    Selections <- Selected
    Offers = {{"fs_list", "fs_delete", "target_select"}, {"fs_list", "log_list"}, {"fs_download"}, {"log_list", "log_erase"}, {"log_download", "target_select"}}
    FileLen = 2
    Tries = 2
    MaxPasses = 2
    GapFill = 1
    MaxPages = 3
    PageLen = 2
    MaxEntries = 3
    MaxDepth = 2
    MaxItems = 2
    MaxRetained = 1
    SeqCycle = 15
    MaxAge = 4
    AirLimit = 1
    Logs = 2
    Size = 4
    RealLen = 3
    Chunk = 2
    Attempts = 2
    MaxFrames = 3
    LogPasses = 2
    MaxRounds = 2
    LogRetained = 1
    LogAirLimit = 1
INVARIANTS RequestsSound OutcomesTrue
