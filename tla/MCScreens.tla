------------------------------ MODULE MCScreens ------------------------------
(***************************************************************************)
(* Small instances of the modules of the page's screens and stores, each a *)
(* scene of its own: the scene is chosen at first and only its module      *)
(* moves, so the state spaces add up and share one run.                    *)
(***************************************************************************)
EXTENDS ShellSession, FileBrowser, LogPanel, SensorFeed, BatteryFeed

VARIABLE scene

MCOnCard == [v \in Vehicles |-> [d \in Dirs |-> {1}]]

ScreensInit ==
    /\ scene \in {"shell", "browser", "logs", "sensors", "battery"}
    /\ ShellInit /\ BrowserInit /\ LogPanelInit /\ SensorInit /\ BatteryInit
    /\ scene = "battery" \/ fitted = {}

ShellScene == scene = "shell" /\ ShellNext
    /\ UNCHANGED <<scene, browserVars, logPanelVars, sensorVars, batteryVars>>
BrowserScene == scene = "browser" /\ BrowserNext
    /\ UNCHANGED <<scene, shellVars, logPanelVars, sensorVars, batteryVars>>
LogsScene == scene = "logs" /\ LogPanelNext
    /\ UNCHANGED <<scene, shellVars, browserVars, sensorVars, batteryVars>>
SensorsScene == scene = "sensors" /\ SensorNext
    /\ UNCHANGED <<scene, shellVars, browserVars, logPanelVars, batteryVars>>
BatteryScene == scene = "battery" /\ BatteryNext
    /\ UNCHANGED <<scene, shellVars, browserVars, logPanelVars, sensorVars>>

ScreensNext == ShellScene \/ BrowserScene \/ LogsScene \/ SensorsScene \/ BatteryScene
ScreensSpec == ScreensInit /\ [][ScreensNext]_<<scene, shellVars, browserVars, logPanelVars, sensorVars, batteryVars>>
=============================================================================
