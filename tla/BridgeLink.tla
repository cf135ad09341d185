----------------------------- MODULE BridgeLink -----------------------------
(***************************************************************************)
(* The commands and the parameter requests of MavlinkBridge on one         *)
(* vehicle: a heartbeat and the selection of a target reach both.          *)
(***************************************************************************)
EXTENDS CommandLink, ParamLink

vars == <<page, baseVars, commandVars, paramVars>>

Init == BaseInit /\ CommandInit /\ ParamInit

(* handleHeartbeat.                                                          *)
Heartbeat(isArmed, changed, refused) ==
    /\ Room
    /\ BaseHeartbeat(isArmed, refused)
    /\ CommandsHear(isArmed, changed)
    /\ ParamsHear(isArmed, changed)

(* activateTarget, cancelProtocolOperations.                                 *)
Reselect(v) ==
    /\ Room
    /\ v \in page.on
    /\ BaseReselect(v)
    /\ CommandsReset
    /\ ParamsReset

Next ==
    /\ UNCHANGED page
    /\ \/ CommandNext /\ UNCHANGED paramVars
       \/ ParamNext /\ UNCHANGED commandVars
       \/ \E isArmed, changed, refused \in BOOLEAN : Heartbeat(isArmed, changed, refused)
       \/ \E v \in Vehicles : Reselect(v)

Spec == Init /\ [][Next]_vars

(* The timers fire.  A progress report arms the timer of a command anew, but *)
(* never past its deadline; a value that is new arms the timer of the        *)
(* download anew; nothing delays the timer of a PARAM_SET.                   *)
FairSpec ==
    /\ Spec
    /\ \A c \in Commands :
          /\ WF_vars(DeadlinePasses(c) /\ UNCHANGED <<page, paramVars>>)
          /\ WF_vars(TimeOut(c) /\ pending[c].over /\ UNCHANGED <<page, paramVars>>)
    /\ \A p \in Params :
          WF_vars((\E taken \in SUBSET Params : SetTimeout(p, taken)) /\ UNCHANGED <<page, commandVars>>)
    /\ WF_vars((\E late, taken \in BOOLEAN : RetryMissing(late, taken)) /\ UNCHANGED <<page, commandVars>>)
-----------------------------------------------------------------------------
(* Types of the whole state.                                                 *)
BridgeTypeOK == CommandTypeOK /\ ParamTypeOK

(* Every transaction is within its bounds and is reported once.              *)
TransactionsConsistent == BridgeTypeOK /\ ReportedOnce

(* ... and a command on the answer that was meant for it.                    *)
CommandsAnswered == TransactionsConsistent /\ AckAnswersRequest

(* No command, airframe transaction or download is under way.                *)
AtRest == (\A c \in Commands : pending[c] = None) /\ frame.id = 0 /\ ~load.active

(* Every command transaction, airframe transaction and download ends, and    *)
(* the bridge comes to rest: a vehicle that reports progress for ever,       *)
(* answers nothing or answers with other values keeps none of them busy.     *)
RequestsEnd == []<>AtRest
=============================================================================
