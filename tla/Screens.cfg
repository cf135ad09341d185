SPECIFICATION ScreensSpec
CONSTANTS
    MaxChanges = 3
    MaxClicks = 1
    MaxFailures = 1
    MaxVisits = 2
    Vehicles = {1, 2}
    Dirs = {"logs", "root"}
    Names = {1}
    Home = "logs"
    OnCard <- MCOnCard
    MaxSteps = 5
    MaxSwitches = 1
    MaxRefusals = 1
    Crafts = {"a", "b"}
    MaxLogs = 2
    MaxPanel = 5
    MaxCraft = 1
    ImuInstances = {0}
    StaleAfter = 2
    Debounce = 1
    MaxOffline = 1
    Packs = {0, 1}
    BatteryStale = 2
    MaxFeedResets = 2
INVARIANTS
    ShellHeld
    BrowserSound
    ErasesWhatWasTicked
    BestStreamShown
    BatteryTrue
CHECK_DEADLOCK FALSE
