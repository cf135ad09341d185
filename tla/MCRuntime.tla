------------------------------ MODULE MCRuntime ------------------------------
(***************************************************************************)
(* Small instances of the modules around the Worker's core, each a scene of*)
(* its own: the scene is chosen at first and only its module moves, so the *)
(* state spaces add up and share one run.                                  *)
(***************************************************************************)
EXTENDS PageRuntime, FrameCodec, FrameTrust, EscSettings, Am32Layout, TargetDiscovery

VARIABLE scene

MCItems == {FrameOf(1, <<>>), FrameOf(1, <<8>>), FrameOf(1, FrameOf(1, <<>>)),
            FrameOf(2, FrameOf(1, <<>>)), <<8>>, <<0>>, <<8, 4, 1>>, <<8, 8, 2>>,
            <<8, 1, 1, 0, 0>>}
MCMcus == [e \in 0..2 |-> 1]
MCLayouts == [e \in 0..2 |-> IF e = 2 THEN 2 ELSE 1]
MCSupported == [mcus |-> {1}, layouts |-> {1, 2}]
MCAutopilots == {[system |-> 1, component |-> 1], [system |-> 1, component |-> 2],
                 [system |-> 2, component |-> 1]}

\* The layout checks every value of every field before the first edit: once is enough.
LayoutIdle == /\ revision = 2 /\ memory = [o \in 2..47 |-> 255]
              /\ shown = {} /\ edits = MaxEdits

RuntimeInit ==
    /\ scene \in {"page", "codec", "trust", "settings", "layout", "target"}
    /\ PageInit /\ CodecInit /\ TrustInit /\ SettingsInit /\ TargetInit
    /\ IF scene = "layout" THEN LayoutInit ELSE LayoutIdle

PageScene == scene = "page" /\ PageNext
    /\ UNCHANGED <<scene, codecVars, trustVars, settingsVars, layoutVars, targetVars>>
CodecScene == scene = "codec" /\ CodecNext
    /\ UNCHANGED <<scene, runtimeVars, trustVars, settingsVars, layoutVars, targetVars>>
TrustScene == scene = "trust" /\ TrustNext
    /\ UNCHANGED <<scene, runtimeVars, codecVars, settingsVars, layoutVars, targetVars>>
SettingsScene == scene = "settings" /\ SettingsNext
    /\ UNCHANGED <<scene, runtimeVars, codecVars, trustVars, layoutVars, targetVars>>
LayoutScene == scene = "layout" /\ LayoutNext
    /\ UNCHANGED <<scene, runtimeVars, codecVars, trustVars, settingsVars, targetVars>>
TargetScene == scene = "target" /\ TargetNext
    /\ UNCHANGED <<scene, runtimeVars, codecVars, trustVars, settingsVars, layoutVars>>

RuntimeNext == PageScene \/ CodecScene \/ TrustScene \/ SettingsScene \/ LayoutScene \/ TargetScene
RuntimeSpec == RuntimeInit /\ [][RuntimeNext]_<<scene, runtimeVars, codecVars, trustVars, settingsVars, layoutVars, targetVars>> /\ PageFair
=============================================================================
