---------------------------- MODULE MCSerialLink ----------------------------
(***************************************************************************)
(* Small instances of SerialLink, each a scene of its own: many writes on  *)
(* the link of one connect, fewer on the links of two, and one write on    *)
(* the links of two, the only scene with fairness.  The scene is chosen at *)
(* first; the constants of the .cfg are the largest of the three.          *)
(***************************************************************************)
EXTENDS SerialLink

VARIABLE scene

Crowded == INSTANCE SerialLink WITH MaxConnects <- 1, MaxAttempts <- 1
Reopened == INSTANCE SerialLink WITH MaxWrites <- 2, MaxAttempts <- 1
Settling == INSTANCE SerialLink WITH MaxWrites <- 1

ScenesInit == scene \in {"crowded", "reopened", "settling"} /\ Init

CrowdedScene == scene = "crowded" /\ Crowded!Next /\ UNCHANGED scene
ReopenedScene == scene = "reopened" /\ Reopened!Next /\ UNCHANGED scene
SettlingScene == scene = "settling" /\ Settling!Next /\ UNCHANGED scene
ScenesNext == CrowdedScene \/ ReopenedScene \/ SettlingScene

(* FairSpec of SerialLink, in the scene that has fairness.                   *)
ScenesFair ==
    /\ WF_vars(scene = "settling" /\ OpenDone) /\ WF_vars(scene = "settling" /\ Settled)
    /\ WF_vars(scene = "settling" /\ (WriteDone \/ WriteFails))
    /\ \A h \in Hosts : WF_vars(scene = "settling" /\ (Reopens(h) \/ ReopenFails(h)))
    /\ WF_vars(scene = "settling" /\ MainReceives) /\ WF_vars(scene = "settling" /\ WorkerReceives)
    /\ SF_vars(scene = "settling" /\ Settling!WorkerWrite(FALSE))
ScenesSpec == ScenesInit /\ [][ScenesNext]_<<scene, vars>> /\ ScenesFair

(* A lost link is settled, where time passes: the Worker learns of it and no *)
(* reconnect loop goes on for ever (LossSettles).                            *)
LossSettlesInTime == scene = "settling" => LossSettles
=============================================================================
