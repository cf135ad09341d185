------------------------- MODULE RuntimeGate_proofs -------------------------
(***************************************************************************)
(* What RuntimeGate guarantees for every number of targets, identities,    *)
(* links, calibrations and parameter generations.                          *)
(***************************************************************************)
EXTENDS RuntimeGate, FiniteSetTheorems, TLAPS

(* The counters are numbers and the confirmation is a record of them.        *)
Counted ==
    /\ authority \in Nat /\ epoch \in Nat /\ gens \in Nat
    /\ conf \in [epoch : Nat, authority : Nat, intact : BOOLEAN, calm : BOOLEAN]

(* What readiness says about the rest of the vehicle, and that the last      *)
(* target event told it: only while no heartbeat is believed may the target  *)
(* events lag behind.                                                        *)
VehicleKnown ==
    /\ vready \in BOOLEAN /\ selReady \in BOOLEAN /\ rebooting \in BOOLEAN
    /\ target \in Targets \cup {NoTarget}
    /\ rebooting => ~vready
    /\ target = NoTarget => ~vready
    /\ vready => link = "up"
    /\ target # NoTarget /\ (selReady \/ vready) =>
         \E r \in BOOLEAN : lastPrint = <<target, r, identity>>
    /\ target # NoTarget /\ vready /\ ~selReady => lastPrint = <<target, FALSE, identity>>

(* A confirmation of the present boundary is intact, unless the vehicle is   *)
(* silent: then every command that needs it is refused, and the heartbeat    *)
(* that ends the silence moves the boundary.                                 *)
ConfirmationBound ==
    /\ conf # NoConf => conf.authority <= authority
    /\ conf # NoConf /\ conf.authority = authority => conf.epoch <= epoch
    /\ Confirmed => conf.intact \/ ~vready

GateInv == Counted /\ VehicleKnown /\ ConfirmationBound

(* The operations leave the vehicle and the boundary to the other steps.     *)
Still == UNCHANGED <<link, safetyVars, vehicleVars>>

(* The steps that do not.                                                    *)
BoundaryStep ==
    \/ Open \/ Close \/ HeartbeatTimeout \/ RebootGraceEnds \/ Reboot
    \/ \E t \in Targets, a \in {"yes", "no"}, id \in Identities : Heartbeat(t, a, id)
    \/ \E t \in Targets, c \in BOOLEAN : SelectTarget(t, c)
    \/ \E c \in BOOLEAN : TargetNews(c)
    \/ StartEsc("raw") \/ EscEnds

(* Whatever the page sees of a vehicle that answers changes only together    *)
(* with the boundary, which never goes back while a link is open.            *)
Forward ==
    /\ authority' \in Nat /\ epoch' \in Nat
    /\ \/ authority' > authority
       \/ /\ authority' = authority /\ epoch' >= epoch
          /\ epoch' = epoch /\ vready' => vready /\ Seen' = Seen
-----------------------------------------------------------------------------
(* Each step is a confirmation, an operation or a step of the boundary.      *)
LEMMA StepKinds ==
    ASSUME Next
    PROVE  Confirm \/ (Kept /\ gens' \in {gens, gens + 1} /\ (Still \/ BoundaryStep))
<1>1. CASE Confirm
  BY <1>1
<1>2. CASE LinkStep
  BY <1>2 DEF LinkStep, BoundaryStep, Still, Open, Close, PrepareDisconnect, syncVars
<1>3. CASE VehicleStep
  <2>1. Kept /\ BoundaryStep
    BY <1>3 DEF VehicleStep, BoundaryStep
  <2>2. gens' = gens
    BY <1>3, ZenonT(60) DEF VehicleStep, Heartbeat, SelectTarget, TargetNews, HeartbeatTimeout,
       RebootGraceEnds, Reboot, DownloadCancelled, syncVars
  <2>3. QED BY <2>1, <2>2
<1>4. CASE EscStep
  <2>1. CASE EscEnds /\ Kept
    BY <2>1 DEF EscEnds, BoundaryStep, syncVars
  <2>2. ASSUME NEW mode \in EscModes, StartEsc(mode), Kept
        PROVE  Kept /\ gens' \in {gens, gens + 1} /\ (Still \/ BoundaryStep)
    BY <2>2 DEF StartEsc, BoundaryStep, Still, DownloadCancelled, syncVars, safetyVars
  <2>3. QED BY <1>4, <2>1, <2>2 DEF EscStep
<1>5. CASE SyncStep
  BY <1>5 DEF SyncStep, Still, RequestParams, ParamRunEnds, ParamTimeout, TransferStarts,
     TransferEnds, BeginSync, DownloadCancelled, syncVars
<1>6. CASE CalibrationStep
  BY <1>6 DEF CalibrationStep, Still, StartCalibration, CalibrationEnds, BeginSync, syncVars
<1>7. CASE RadioStep
  <2>1. Kept
    BY <1>7 DEF RadioStep
  <2>2. UNCHANGED <<link, safetyVars, vehicleVars>> /\ UNCHANGED syncVars
    BY <1>7, ZenonT(30) DEF RadioStep, StartRadio, CancelRadio, AdvanceRadio, Echo
  <2>3. QED BY <2>1, <2>2 DEF Still, syncVars
<1>8. QED BY <1>1, <1>2, <1>3, <1>4, <1>5, <1>6, <1>7 DEF Next

(* A heartbeat: an accepted one is told to the page whenever it changes what *)
(* the page sees.                                                            *)
LEMMA HeartbeatForward ==
    ASSUME Counted, VehicleKnown,
           NEW t \in Targets, NEW a \in {"yes", "no"}, NEW id \in Identities, Heartbeat(t, a, id)
    PROVE  Forward
<1> DEFINE first  == target = NoTarget
           news   == (first \/ ~selReady \/ id # (IF first THEN NoIdentity ELSE identity))
                     /\ ~rebooting
           chosen == IF first THEN <<t, FALSE, NoIdentity>> ELSE lastPrint
           print  == IF news THEN <<t, TRUE, id>> ELSE chosen
           rise   == IF ~vready /\ ~rebooting THEN 2 ELSE 0
<1>1. authority' = authority /\ authority \in Nat /\ epoch \in Nat
  BY DEF Heartbeat, Counted
<1>2. epoch' = epoch + (One(chosen # lastPrint) + One(print # chosen)) + rise
  BY Zenon DEF Heartbeat
<1>3. One(chosen # lastPrint) \in {0, 1} /\ One(print # chosen) \in {0, 1} /\ rise \in {0, 2}
  BY DEF One
<1>4. epoch' \in Nat /\ epoch' >= epoch /\ (rise = 2 => epoch' > epoch)
  <2> HIDE DEF chosen, print, rise
  <2>1. QED BY <1>1, <1>2, <1>3
<1>5. CASE ~vready
  <2>1. vready' => rise = 2
    BY <1>5 DEF Heartbeat
  <2>2. vready' => epoch' > epoch
    BY <1>4, <2>1
  <2>3. QED BY <1>1, <1>4, <2>2 DEF Forward
<1>6. CASE vready /\ identity = id /\ selReady
  <2>1. target = t /\ ~rebooting
    BY <1>6 DEF Heartbeat, VehicleKnown
  <2>2. /\ link' = link /\ target' = target /\ identity' = identity
        /\ selReady' /\ vready'
    BY <1>6, <2>1 DEF Heartbeat
  <2>3. HasReady' = HasReady
    BY <1>6, <2>2 DEF HasReady
  <2>4. Seen' = Seen
    BY <1>1, <2>2, <2>3 DEF Seen
  <2>5. QED BY <1>1, <1>4, <1>6, <2>4 DEF Forward
<1>7. CASE vready /\ ~(identity = id /\ selReady)
  <2>1. target = t /\ target # NoTarget /\ ~rebooting
    BY <1>7 DEF Heartbeat, VehicleKnown
  <2>2. lastPrint # <<t, TRUE, id>>
    <3>1. CASE ~selReady
      <4>1. lastPrint = <<t, FALSE, identity>>
        BY <1>7, <2>1, <3>1 DEF VehicleKnown
      <4>2. <<t, FALSE, identity>>[2] # <<t, TRUE, id>>[2]
        OBVIOUS
      <4>3. QED BY <4>1, <4>2
    <3>2. CASE identity # id /\ selReady
      <4>1. PICK r \in BOOLEAN : lastPrint = <<t, r, identity>>
        BY <1>7, <2>1, <3>2 DEF VehicleKnown
      <4>2. <<t, r, identity>>[3] # <<t, TRUE, id>>[3]
        BY <3>2
      <4>3. QED BY <4>1, <4>2
    <3>3. QED BY <1>7, <3>1, <3>2
  <2>3. print # chosen
    <3>1. chosen = lastPrint
      BY <2>1
    <3>2. print = <<t, TRUE, id>>
      BY <1>7, <2>1, Zenon
    <3>3. QED
      <4> HIDE DEF chosen, print
      <4>1. QED BY <2>2, <3>1, <3>2
  <2>4. One(print # chosen) = 1
    BY <2>3 DEF One
  <2>5. epoch' > epoch
    <3> HIDE DEF chosen, print, rise
    <3>1. QED BY <1>1, <1>2, <1>3, <2>4
  <2>6. QED BY <1>1, <1>4, <2>5 DEF Forward
<1>8. QED BY <1>5, <1>6, <1>7

(* And the target event it makes keeps the readiness told.                   *)
LEMMA HeartbeatKnown ==
    ASSUME Counted, VehicleKnown,
           NEW t \in Targets, NEW a \in {"yes", "no"}, NEW id \in Identities, Heartbeat(t, a, id)
    PROVE  VehicleKnown'
<1>1. NoTarget \notin Targets /\ NoIdentity \notin Identities
  BY GateAssumption
<1>2. CASE target = NoTarget
  BY <1>1, <1>2 DEF Heartbeat, VehicleKnown, Counted, One
<1>3. CASE target # NoTarget /\ ~vready
  BY <1>1, <1>3 DEF Heartbeat, VehicleKnown, Counted, One
<1>4. CASE target # NoTarget /\ vready
  BY <1>1, <1>4 DEF Heartbeat, VehicleKnown, Counted, One
<1>5. QED BY <1>2, <1>3, <1>4 DEF VehicleKnown

(* Every step of the boundary moves it on or leaves the page undeceived.    *)
LEMMA BoundaryForward ==
    ASSUME Counted, VehicleKnown, BoundaryStep
    PROVE  Forward
<1> USE DEF Forward, Seen, HasReady, VehicleKnown, Counted, One
<1>1. NoTarget \notin Targets
  BY GateAssumption
<1>2. CASE Open
  BY <1>2 DEF Open
<1>3. CASE Close
  BY <1>3 DEF Close
<1>4. CASE HeartbeatTimeout
  BY <1>4 DEF HeartbeatTimeout
<1>5. CASE RebootGraceEnds
  BY <1>5 DEF RebootGraceEnds, safetyVars
<1>6. CASE Reboot
  BY <1>6 DEF Reboot
<1>7. ASSUME NEW t \in Targets, NEW c \in BOOLEAN, SelectTarget(t, c)
      PROVE  Forward
  BY <1>1, <1>7 DEF SelectTarget, Admitted, Ready
<1>8. ASSUME NEW c \in BOOLEAN, TargetNews(c)
      PROVE  Forward
  BY <1>8 DEF TargetNews, TargetEvent, HasReady
<1>9. CASE StartEsc("raw")
  <2>1. epoch' \in Nat /\ epoch' > epoch /\ authority' = authority
    BY <1>9 DEF StartEsc
  <2>2. QED BY <2>1
<1>10. CASE EscEnds
  BY <1>10 DEF EscEnds
<1>11. QED
  BY <1>2, <1>3, <1>4, <1>5, <1>6, <1>7, <1>8, <1>9, <1>10, HeartbeatForward DEF BoundaryStep

(* Every step of the boundary keeps what readiness says.                    *)
LEMMA BoundaryKnown ==
    ASSUME Counted, VehicleKnown, BoundaryStep
    PROVE  VehicleKnown'
<1> USE DEF VehicleKnown, Counted, One
<1>1. NoTarget \notin Targets
  BY GateAssumption
<1>2. CASE Open
  BY <1>2 DEF Open
<1>3. CASE Close
  BY <1>3 DEF Close
<1>4. CASE HeartbeatTimeout
  BY <1>4 DEF HeartbeatTimeout
<1>5. CASE RebootGraceEnds
  BY <1>5 DEF RebootGraceEnds, safetyVars
<1>6. CASE Reboot
  BY <1>6 DEF Reboot
<1>7. ASSUME NEW t \in Targets, NEW c \in BOOLEAN, SelectTarget(t, c)
      PROVE  VehicleKnown'
  BY <1>1, <1>7 DEF SelectTarget, Admitted, Ready
<1>8. ASSUME NEW c \in BOOLEAN, TargetNews(c)
      PROVE  VehicleKnown'
  BY <1>8 DEF TargetNews, TargetEvent, HasReady
<1>9. CASE StartEsc("raw")
  BY <1>9 DEF StartEsc, Ready, NoPrint
<1>10. CASE EscEnds
  BY <1>10 DEF EscEnds
<1>11. QED
  BY <1>2, <1>3, <1>4, <1>5, <1>6, <1>7, <1>8, <1>9, <1>10, HeartbeatKnown DEF BoundaryStep

-----------------------------------------------------------------------------
(* A step that is no confirmation moves the boundary forward and keeps what  *)
(* is known of the vehicle.                                                  *)
LEMMA StepForward ==
    ASSUME GateInv, Still \/ BoundaryStep
    PROVE  Forward /\ VehicleKnown'
<1>1. CASE Still
  <2>1. Forward
    BY <1>1 DEF Still, Forward, Seen, HasReady, GateInv, Counted, safetyVars, vehicleVars
  <2>2. VehicleKnown'
    BY <1>1 DEF Still, GateInv, VehicleKnown, safetyVars, vehicleVars
  <2>3. QED BY <2>1, <2>2
<1>2. CASE BoundaryStep
  BY <1>2, BoundaryForward, BoundaryKnown DEF GateInv
<1>3. QED BY <1>1, <1>2

(* The history of a kept confirmation.                                       *)
LEMMA KeptConf ==
    ASSUME Counted, Kept
    PROVE  /\ conf' \in [epoch : Nat, authority : Nat, intact : BOOLEAN, calm : BOOLEAN]
           /\ conf'.epoch = conf.epoch /\ conf'.authority = conf.authority
           /\ conf = NoConf => conf' = NoConf
           /\ conf # NoConf /\ conf.intact /\ Seen' = Seen => conf'.intact
<1>1. CASE conf = NoConf
  BY <1>1 DEF Counted, Kept, KeepConf
<1>2. CASE conf # NoConf
  BY <1>2 DEF Counted, Kept, KeepConf
<1>3. QED BY <1>1, <1>2

(* What a confirmation of the present boundary vouches for survives a step.  *)
LEMMA BoundKept ==
    ASSUME GateInv, Kept, Forward
    PROVE  ConfirmationBound'
<1>1. /\ conf'.epoch = conf.epoch /\ conf'.authority = conf.authority
      /\ conf = NoConf => conf' = NoConf
      /\ conf.epoch \in Nat /\ conf.authority \in Nat
  BY KeptConf DEF GateInv, Counted
<1>2. authority \in Nat /\ epoch \in Nat /\ authority' \in Nat /\ epoch' \in Nat
  BY DEF GateInv, Counted, Forward
<1>3. conf' # NoConf => conf.authority <= authority
  BY <1>1 DEF GateInv, ConfirmationBound
<1>4. CASE authority' > authority
  <2>1. conf' # NoConf => conf'.authority < authority'
    BY <1>1, <1>2, <1>3, <1>4
  <2>2. QED BY <1>1, <1>2, <2>1 DEF ConfirmationBound, Confirmed
<1>5. CASE authority' = authority /\ epoch' >= epoch /\ (epoch' = epoch /\ vready' => vready /\ Seen' = Seen)
  <2>1. conf' # NoConf /\ conf'.authority = authority' => conf'.epoch <= epoch
    BY <1>1, <1>5 DEF GateInv, ConfirmationBound
  <2>2. Confirmed' => Confirmed /\ conf # NoConf /\ epoch' = epoch
    BY <1>1, <1>2, <1>5, <2>1 DEF Confirmed
  <2>3. Confirmed' => conf'.intact \/ ~vready'
    BY <1>5, <2>2, KeptConf DEF GateInv, ConfirmationBound
  <2>4. QED BY <1>1, <1>2, <1>3, <1>5, <2>1, <2>3 DEF ConfirmationBound
<1>6. QED BY <1>4, <1>5 DEF Forward

LEMMA GateInit == Init => GateInv
<1> SUFFICES ASSUME Init PROVE GateInv
  OBVIOUS
<1>1. Counted
  BY DEF Init, Counted, NoConf
<1>2. VehicleKnown
  BY DEF Init, VehicleKnown
<1>3. ConfirmationBound
  BY DEF Init, ConfirmationBound, Confirmed
<1>4. QED BY <1>1, <1>2, <1>3 DEF GateInv

LEMMA GateStep == GateInv /\ [Next]_vars => GateInv'
<1> SUFFICES ASSUME GateInv, [Next]_vars PROVE GateInv'
  OBVIOUS
<1>1. CASE Confirm
  <2>1. Counted'
    BY <1>1 DEF Confirm, GateInv, Counted, safetyVars, syncVars
  <2>2. VehicleKnown'
    BY <1>1 DEF Confirm, GateInv, VehicleKnown, safetyVars, vehicleVars
  <2>3. ConfirmationBound'
    BY <1>1 DEF Confirm, GateInv, Counted, ConfirmationBound, Confirmed, safetyVars
  <2>4. QED BY <2>1, <2>2, <2>3 DEF GateInv
<1>2. CASE Kept /\ gens' \in {gens, gens + 1} /\ (Still \/ BoundaryStep)
  <2>1. Forward /\ VehicleKnown'
    BY <1>2, StepForward
  <2>2. Counted'
    BY <1>2, <2>1, KeptConf DEF GateInv, Counted, Forward
  <2>3. ConfirmationBound'
    BY <1>2, <2>1, BoundKept
  <2>4. QED BY <2>1, <2>2, <2>3 DEF GateInv
<1>3. CASE UNCHANGED vars
  BY <1>3 DEF GateInv, Counted, VehicleKnown, ConfirmationBound, Confirmed, vars, safetyVars,
     vehicleVars, syncVars
<1>4. QED BY <1>1, <1>2, <1>3, StepKinds

(* The inductive invariant holds.                                            *)
THEOREM GateInvariant == Spec => []GateInv
BY GateInit, GateStep, PTL DEF Spec

(* An ESC session, a radio calibration or a reboot is accepted only on a     *)
(* confirmation given for the link, the target, the identity and the         *)
(* readiness that still hold (handleCommand, advanceSafety).                 *)
THEOREM FreshConfirmation == Spec => ConfirmationFresh
<1>1. GateInv /\ [Next]_vars => [SafetyCommand => conf.intact]_vars
  <2> SUFFICES ASSUME GateInv, SafetyCommand PROVE conf.intact
    OBVIOUS
  <2>1. Confirmed /\ vready
    BY DEF SafetyCommand, StartEsc, StartRadio, Reboot, Admitted, Ready
  <2>2. QED BY <2>1 DEF GateInv, ConfirmationBound
<1>2. QED BY <1>1, GateInvariant, PTL DEF Spec, ConfirmationFresh
-----------------------------------------------------------------------------
(* Without a link nothing runs.                                              *)
ClosedIdle == link = "down" => ~cal /\ esc = "none"

LEMMA ClosedStep == ClosedIdle /\ [Next]_vars => ClosedIdle'
<1> SUFFICES ASSUME ClosedIdle, [Next]_vars PROVE ClosedIdle'
  OBVIOUS
<1> USE DEF ClosedIdle
<1>1. CASE LinkStep
  BY <1>1 DEF LinkStep, Open, Close, PrepareDisconnect
<1>2. CASE VehicleStep
  <2>1. link' = link /\ (cal' => cal) /\ esc' \in {esc, "none"}
    <3>1. ASSUME NEW t \in Targets, NEW a \in {"yes", "no"}, NEW id \in Identities, Heartbeat(t, a, id)
          PROVE  link' = link /\ (cal' => cal) /\ esc' \in {esc, "none"}
      BY <3>1 DEF Heartbeat
    <3>2. ASSUME NEW t \in Targets, NEW c \in BOOLEAN, SelectTarget(t, c)
          PROVE  link' = link /\ (cal' => cal) /\ esc' \in {esc, "none"}
      BY <3>2 DEF SelectTarget, escVars
    <3>3. ASSUME NEW c \in BOOLEAN, TargetNews(c)
          PROVE  link' = link /\ (cal' => cal) /\ esc' \in {esc, "none"}
      BY <3>3 DEF TargetNews, escVars
    <3>4. CASE HeartbeatTimeout \/ RebootGraceEnds \/ Reboot
      BY <3>4 DEF HeartbeatTimeout, RebootGraceEnds, Reboot, escVars
    <3>5. QED BY <1>2, <3>1, <3>2, <3>3, <3>4 DEF VehicleStep
  <2>2. QED BY <2>1
<1>3. CASE EscStep
  <2>1. ASSUME NEW mode \in EscModes, StartEsc(mode)
        PROVE  link' = "up"
    BY <2>1 DEF StartEsc, Ready
  <2>2. CASE EscEnds
    BY <2>2 DEF EscEnds
  <2>3. QED BY <1>3, <2>1, <2>2 DEF EscStep
<1>4. CASE SyncStep
  <2>1. UNCHANGED <<link, cal, escVars>>
    BY <1>4, Zenon DEF SyncStep, RequestParams, ParamRunEnds, ParamTimeout, TransferStarts, TransferEnds
  <2>2. QED BY <2>1 DEF escVars
<1>5. CASE CalibrationStep
  BY <1>5 DEF CalibrationStep, StartCalibration, CalibrationEnds, Admitted, Ready, escVars
<1>6. CASE RadioStep
  <2>1. UNCHANGED <<link, cal, escVars>>
    BY <1>6, Zenon DEF RadioStep, StartRadio, CancelRadio, AdvanceRadio, Echo
  <2>2. QED BY <2>1 DEF escVars
<1>7. CASE Confirm \/ UNCHANGED vars
  BY <1>7 DEF Confirm, vars, escVars
<1>8. QED BY <1>1, <1>2, <1>3, <1>4, <1>5, <1>6, <1>7 DEF Next

(* A step that leaves the vehicle alone and starts no session keeps the      *)
(* sessions on a safe vehicle.                                               *)
LEMMA SafeStill ==
    ASSUME SessionsOnSafeVehicle, UNCHANGED vehicleVars,
           cal' => cal, esc' = "px4" => esc = "px4", RadioBusy' => RadioBusy
    PROVE  SessionsOnSafeVehicle'
BY DEF SessionsOnSafeVehicle, HasReady, vehicleVars

LEMMA SafeHeartbeat ==
    ASSUME VehicleKnown, SessionsOnSafeVehicle,
           NEW t \in Targets, NEW a \in {"yes", "no"}, NEW id \in Identities, Heartbeat(t, a, id)
    PROVE  SessionsOnSafeVehicle'
<1>1. NoTarget \notin Targets
  BY GateAssumption
<1>2. cal' => target' # NoTarget /\ armed' # "yes"
  BY <1>1 DEF Heartbeat, SessionsOnSafeVehicle
<1>3. esc' = "px4" => target' # NoTarget /\ armed' = "no"
  BY <1>1 DEF Heartbeat, SessionsOnSafeVehicle
<1>4. RadioBusy' => HasReady' /\ armed' = "no"
  <2> SUFFICES ASSUME RadioBusy' PROVE HasReady' /\ armed' = "no"
    OBVIOUS
  <2>1. radio' = radio /\ ~(a = "yes" /\ ~rebooting)
    BY DEF Heartbeat, RadioBoundary, RadioBusy, NoRadio
  <2>2. HasReady
    BY <2>1 DEF RadioBusy, SessionsOnSafeVehicle
  <2>3. ~rebooting /\ a = "no"
    BY <2>1, <2>2 DEF HasReady, VehicleKnown
  <2>4. QED BY <1>1, <2>3 DEF Heartbeat, HasReady
<1>5. QED BY <1>2, <1>3, <1>4 DEF SessionsOnSafeVehicle

LEMMA SafeStep ==
    GateInv /\ ClosedIdle /\ SessionsOnSafeVehicle /\ [Next]_vars => SessionsOnSafeVehicle'
<1> SUFFICES ASSUME GateInv, ClosedIdle, SessionsOnSafeVehicle, [Next]_vars
             PROVE  SessionsOnSafeVehicle'
  OBVIOUS
<1>1. NoTarget \notin Targets /\ VehicleKnown
  BY GateAssumption DEF GateInv
<1>2. CASE LinkStep
  <2>1. CASE Open
    BY <1>1, <2>1 DEF Open, ClosedIdle, SessionsOnSafeVehicle, HasReady, RadioBusy,
       VehicleKnown, radioVars
  <2>2. CASE Close
    BY <2>2 DEF Close, SessionsOnSafeVehicle, RadioBusy, NoRadio
  <2>3. CASE PrepareDisconnect
    BY <2>3, SafeStill DEF PrepareDisconnect, RadioBusy, NoRadio
  <2>4. QED BY <1>2, <2>1, <2>2, <2>3 DEF LinkStep
<1>3. CASE VehicleStep
  <2>1. ASSUME NEW t \in Targets, NEW c \in BOOLEAN, SelectTarget(t, c)
        PROVE  SessionsOnSafeVehicle'
    BY <2>1 DEF SelectTarget, Admitted, EscBusy, CalBusy, RadioBusy, SessionsOnSafeVehicle, escVars
  <2>2. ASSUME NEW c \in BOOLEAN, TargetNews(c)
        PROVE  SessionsOnSafeVehicle'
    BY <2>2 DEF TargetNews, TargetEvent, RadioBoundary, RadioBusy, NoRadio,
       SessionsOnSafeVehicle, HasReady, escVars
  <2>3. CASE HeartbeatTimeout
    BY <2>3 DEF HeartbeatTimeout, RadioBusy, NoRadio, SessionsOnSafeVehicle, escVars
  <2>4. CASE RebootGraceEnds
    BY <2>4 DEF RebootGraceEnds, RadioBusy, SessionsOnSafeVehicle, HasReady, escVars, radioVars
  <2>5. CASE Reboot
    BY <2>5 DEF Reboot, RadioBusy, NoRadio, EscBusy, SessionsOnSafeVehicle, escVars
  <2>6. QED BY <1>1, <1>3, <2>1, <2>2, <2>3, <2>4, <2>5, SafeHeartbeat DEF VehicleStep
<1>4. CASE EscStep
  <2>1. ASSUME NEW mode \in EscModes, StartEsc(mode)
        PROVE  SessionsOnSafeVehicle'
    <3>1. ~cal' /\ ~RadioBusy'
      BY <2>1 DEF StartEsc, CalBusy, RadioBusy
    <3>2. esc' = "px4" => target' # NoTarget /\ armed' = "no"
      BY <2>1 DEF StartEsc, HasReady, vehicleVars
    <3>3. QED BY <3>1, <3>2 DEF SessionsOnSafeVehicle
  <2>2. CASE EscEnds
    BY <2>2 DEF EscEnds, SessionsOnSafeVehicle, HasReady, RadioBusy, radioVars
  <2>3. QED BY <1>4, <2>1, <2>2 DEF EscStep
<1>5. CASE SyncStep
  <2>1. UNCHANGED vehicleVars /\ UNCHANGED <<cal, escVars, radioVars>>
    BY <1>5, Zenon DEF SyncStep, RequestParams, ParamRunEnds, ParamTimeout, TransferStarts, TransferEnds
  <2>2. QED BY <2>1, SafeStill DEF escVars, radioVars, RadioBusy
<1>6. CASE CalibrationStep
  <2>1. CASE StartCalibration
    BY <2>1 DEF StartCalibration, SessionsOnSafeVehicle, Admitted, EscBusy, RadioBusy, HasReady,
       vehicleVars, escVars, radioVars
  <2>2. ASSUME NEW ok \in BOOLEAN, CalibrationEnds(ok)
        PROVE  SessionsOnSafeVehicle'
    BY <2>2, SafeStill DEF CalibrationEnds, escVars, radioVars, RadioBusy
  <2>3. QED BY <1>6, <2>1, <2>2 DEF CalibrationStep
<1>7. CASE RadioStep
  <2>1. CASE StartRadio
    BY <2>1 DEF StartRadio, SessionsOnSafeVehicle, Admitted, EscBusy, CalBusy, HasReady,
       vehicleVars, escVars
  <2>2. CASE CancelRadio
    BY <2>2, SafeStill DEF CancelRadio, escVars, RadioBusy, NoRadio
  <2>3. ASSUME NEW missing \in BOOLEAN, AdvanceRadio(missing)
        PROVE  SessionsOnSafeVehicle'
    <3>1. UNCHANGED vehicleVars /\ UNCHANGED <<cal, escVars>> /\ RadioBusy
      BY <2>3, Zenon DEF AdvanceRadio
    <3>2. QED BY <3>1, SafeStill DEF escVars
  <2>4. ASSUME NEW s \in Sessions, NEW ok \in BOOLEAN, Echo(s, ok)
        PROVE  SessionsOnSafeVehicle'
    <3>1. UNCHANGED vehicleVars /\ UNCHANGED <<cal, escVars>>
      BY <2>4, Zenon DEF Echo
    <3>2. radio' = radio \/ radio' = NoRadio
      BY <2>4 DEF Echo, ChainGoes
    <3>3. QED BY <3>1, <3>2, SafeStill DEF escVars, RadioBusy, NoRadio
  <2>5. QED BY <1>7, <2>1, <2>2, <2>3, <2>4 DEF RadioStep
<1>8. CASE Confirm
  BY <1>8, SafeStill DEF Confirm, escVars, radioVars, RadioBusy
<1>9. CASE UNCHANGED vars
  BY <1>9, SafeStill DEF vars, escVars, radioVars, RadioBusy
<1>10. QED BY <1>2, <1>3, <1>4, <1>5, <1>6, <1>7, <1>8, <1>9 DEF Next

(* No calibration and no ESC session over MAVLink goes on with an armed      *)
(* vehicle or without a target, no radio calibration with one that is not    *)
(* ready (handleHeartbeat, onBridgeEvent, onVehicleReady).                   *)
THEOREM SessionsAreSafe == Spec => []SessionsOnSafeVehicle
<1>1. Init => SessionsOnSafeVehicle
  BY DEF Init, SessionsOnSafeVehicle, RadioBusy, NoRadio
<1>2. Init => ClosedIdle
  BY DEF Init, ClosedIdle
<1>3. QED BY <1>1, <1>2, ClosedStep, SafeStep, GateInvariant, PTL DEF Spec
-----------------------------------------------------------------------------
(* At most one operation has the link.                                       *)
Alone ==
    /\ EscBusy => ~CalBusy /\ ~RadioBusy /\ sync = 0
    /\ CalBusy => ~RadioBusy /\ sync = 0
    /\ RadioBusy => sync = 0

NoneBusy == ~EscBusy /\ ~CalBusy /\ ~RadioBusy /\ sync = 0

(* Nothing begins.                                                           *)
Fewer ==
    /\ EscBusy' => EscBusy
    /\ CalBusy' => CalBusy
    /\ RadioBusy' => RadioBusy
    /\ sync' # 0 => sync # 0

(* What a step may do to the operations.                                     *)
Moves == Fewer \/ (NoneBusy /\ Alone') \/ (CalBusy /\ sync' # 0 /\ Alone')

(* With one operation at a time these are the steps of LinkShare.            *)
LEMMA MovesShare ==
    ASSUME Alone, Moves
    PROVE  Alone' /\ [Share!Next]_Holders
<1>1. Alone'
  BY DEF Moves, Fewer, Alone
<1>2. CASE NoneBusy
  BY <1>1, <1>2 DEF NoneBusy, Alone, Holders, Share!Next, Share!Acquire, Share!Free
<1>3. CASE Fewer
  BY <1>1, <1>3 DEF Fewer, Alone, Holders, Share!Next, Share!Release
<1>4. CASE CalBusy /\ sync' # 0
  BY <1>1, <1>4 DEF Alone, Holders, Share!Next, Share!Refresh
<1>5. QED BY <1>1, <1>2, <1>3, <1>4 DEF Moves

LEMMA StepMoves ==
    ASSUME EscModes = {"raw"}, Counted, Alone, [Next]_vars
    PROVE  Moves
<1>1. CASE LinkStep
  <2>1. CASE Open
    <3>1. esc' = esc /\ cal' = cal /\ radio' = radio /\ sync' = sync
      BY <2>1 DEF Open, radioVars
    <3>2. QED BY <3>1 DEF Moves, Fewer, EscBusy, CalBusy, RadioBusy
  <2>2. CASE Close
    <3>1. esc' = "none" /\ cal' = FALSE /\ radio' = NoRadio /\ sync' = 0
      BY <2>2 DEF Close, SyncOver
    <3>2. QED BY <3>1 DEF Moves, Fewer, EscBusy, CalBusy, RadioBusy, NoRadio
  <2>3. CASE PrepareDisconnect
    <3>1. esc' = esc /\ cal' = FALSE /\ radio' = NoRadio /\ sync' = sync
      BY <2>3 DEF PrepareDisconnect, syncVars
    <3>2. QED BY <3>1 DEF Moves, Fewer, EscBusy, CalBusy, RadioBusy, NoRadio
  <2>4. QED BY <1>1, <2>1, <2>2, <2>3 DEF LinkStep
<1>2. CASE VehicleStep
  <2>1. ASSUME NEW t \in Targets, NEW a \in {"yes", "no"}, NEW id \in Identities, Heartbeat(t, a, id)
        PROVE  Fewer
    <3>1. sync' # 0 => sync # 0
      BY <2>1 DEF Heartbeat, DownloadCancelled, RunReported, SyncOver, syncVars
    <3>2. QED
      BY <2>1, <3>1 DEF Heartbeat, Fewer, EscBusy, CalBusy, RadioBusy, RadioBoundary, NoRadio
  <2>2. ASSUME NEW t \in Targets, NEW c \in BOOLEAN, SelectTarget(t, c)
        PROVE  Fewer
    BY <2>2 DEF SelectTarget, Fewer, EscBusy, CalBusy, RadioBusy, DownloadCancelled, RunReported,
       SyncOver, escVars
  <2>3. ASSUME NEW c \in BOOLEAN, TargetNews(c)
        PROVE  Fewer
    BY <2>3 DEF TargetNews, TargetEvent, RadioBoundary, Fewer, EscBusy, CalBusy, RadioBusy,
       NoRadio, escVars, syncVars
  <2>4. CASE HeartbeatTimeout
    BY <2>4 DEF HeartbeatTimeout, Moves, Fewer, EscBusy, CalBusy, RadioBusy, NoRadio, SyncOver, escVars
  <2>5. CASE RebootGraceEnds
    BY <2>5 DEF RebootGraceEnds, Moves, Fewer, EscBusy, CalBusy, RadioBusy, escVars, radioVars, syncVars
  <2>6. CASE Reboot
    BY <2>6 DEF Reboot, Moves, Fewer, EscBusy, CalBusy, RadioBusy, NoRadio, SyncOver, escVars
  <2>7. QED BY <1>2, <2>1, <2>2, <2>3, <2>4, <2>5, <2>6 DEF VehicleStep, Moves
<1>3. CASE EscStep
  <2>1. CASE StartEsc("raw")
    <3>1. NoneBusy
      BY <2>1 DEF StartEsc, NoneBusy, EscBusy
    <3>2. sync' = 0 /\ UNCHANGED <<cal, radio>>
      BY <2>1 DEF StartEsc, DownloadCancelled, RunReported, SyncOver
    <3>3. QED BY <3>1, <3>2 DEF Moves, NoneBusy, Alone, CalBusy, RadioBusy
  <2>2. CASE EscEnds
    BY <2>2 DEF EscEnds, Moves, Fewer, EscBusy, CalBusy, RadioBusy, radioVars, syncVars
  <2>3. QED BY <1>3, <2>1, <2>2 DEF EscStep
<1>4. CASE SyncStep
  <2>1. CASE RequestParams
    <3>1. ~EscBusy' /\ ~CalBusy' /\ ~RadioBusy' /\ ~EscBusy /\ ~CalBusy /\ ~RadioBusy
      BY <2>1 DEF RequestParams, Admitted, EscBusy, CalBusy, RadioBusy, escVars, radioVars
    <3>2. QED BY <3>1 DEF Moves, Fewer, NoneBusy, Alone
  <2>2. CASE ParamRunEnds \/ ParamTimeout
    BY <2>2 DEF ParamRunEnds, ParamTimeout, DownloadCancelled, RunReported, SyncOver, Moves, Fewer,
       EscBusy, CalBusy, RadioBusy, escVars, radioVars
  <2>3. CASE TransferStarts \/ TransferEnds
    BY <2>3 DEF TransferStarts, TransferEnds, Moves, Fewer, EscBusy, CalBusy, RadioBusy, escVars,
       radioVars, syncVars
  <2>4. QED BY <1>4, <2>1, <2>2, <2>3 DEF SyncStep
<1>5. CASE CalibrationStep
  <2>1. CASE StartCalibration
    BY <2>1 DEF StartCalibration, Admitted, Moves, NoneBusy, Alone, EscBusy, CalBusy, RadioBusy,
       escVars, radioVars, syncVars
  <2>2. CASE CalibrationEnds(TRUE)
    BY <2>2 DEF CalibrationEnds, BeginSync, Counted, Moves, Alone, EscBusy, CalBusy, RadioBusy,
       escVars, radioVars
  <2>3. CASE CalibrationEnds(FALSE)
    BY <2>3 DEF CalibrationEnds, Moves, Fewer, EscBusy, CalBusy, RadioBusy, escVars, radioVars,
       syncVars
  <2>4. QED BY <1>5, <2>1, <2>2, <2>3 DEF CalibrationStep
<1>6. CASE RadioStep
  <2>1. UNCHANGED <<escVars, cal, syncVars>>
    BY <1>6, Zenon DEF RadioStep, StartRadio, CancelRadio, AdvanceRadio, Echo
  <2>2. (RadioBusy' => RadioBusy) \/ NoneBusy
    <3>1. CASE StartRadio
      BY <3>1 DEF StartRadio, Admitted, NoneBusy
    <3>2. CASE CancelRadio
      BY <3>2 DEF CancelRadio
    <3>3. ASSUME NEW missing \in BOOLEAN, AdvanceRadio(missing)
          PROVE  RadioBusy
      BY <3>3, Zenon DEF AdvanceRadio
    <3>4. ASSUME NEW s \in Sessions, NEW ok \in BOOLEAN, Echo(s, ok)
          PROVE  RadioBusy' => RadioBusy
      BY <3>4 DEF Echo, ChainGoes, RadioBusy, NoRadio
    <3>5. QED BY <1>6, <3>1, <3>2, <3>3, <3>4 DEF RadioStep
  <2>3. QED BY <2>1, <2>2 DEF Moves, Fewer, NoneBusy, Alone, EscBusy, CalBusy, escVars, syncVars
<1>7. CASE Confirm \/ UNCHANGED vars
  BY <1>7 DEF Confirm, vars, Moves, Fewer, EscBusy, CalBusy, RadioBusy, escVars, radioVars, syncVars
<1>8. QED BY <1>1, <1>2, <1>3, <1>4, <1>5, <1>6, <1>7 DEF Next

(* With the raw transport as the only one for ESC sessions the gates give    *)
(* the link to one long operation at a time (isLinkBusy, handleCommand).     *)
THEOREM LinkIsShared == ASSUME EscModes = {"raw"} PROVE Spec => ShareSpec
<1>1. Init => Alone /\ Share!Free
  BY DEF Init, Alone, EscBusy, CalBusy, RadioBusy, NoRadio, Share!Free, Holders
<1>2. GateInv /\ Alone /\ [Next]_vars => Alone' /\ [Share!Next]_Holders
  BY StepMoves, MovesShare DEF GateInv
<1>3. QED BY <1>1, <1>2, GateInvariant, PTL DEF Spec, ShareSpec, Share!Spec
-----------------------------------------------------------------------------
(* A parameter generation has its download, and a raw ESC session a silent   *)
(* link: the invariant that carries it knows in addition that the awaited    *)
(* run is the generation's own, and that no generation outlives the link.    *)
Downloads ==
    /\ sync # 0 /\ ownRun # NoRun => loading /\ run = ownRun /\ syncRun = ownRun
    /\ link = "down" => sync = 0
    /\ WireQuietUnderRaw

(* Whatever cancels a download ends the generation it belongs to.            *)
LEMMA CancelEnds ==
    ASSUME Downloads, DownloadCancelled
    PROVE  /\ ~loading' /\ (sync' # 0 => sync # 0 /\ sync' = sync)
           /\ sync' # 0 => ownRun' = NoRun
BY DEF Downloads, DownloadCancelled, RunReported, SyncOver, NoRun

LEMMA DownloadsHeartbeat ==
    ASSUME Downloads,
           NEW t \in Targets, NEW a \in {"yes", "no"}, NEW id \in Identities, Heartbeat(t, a, id)
    PROVE  Downloads'
<1>1. esc' # "raw" /\ link' = link
  BY DEF Heartbeat
<1>2. CASE target = NoTarget
  <2>1. DownloadCancelled
    BY <1>2 DEF Heartbeat
  <2>2. QED BY <1>1, <2>1, CancelEnds DEF Downloads, WireQuietUnderRaw
<1>3. CASE target # NoTarget
  BY <1>1, <1>3 DEF Heartbeat, Downloads, WireQuietUnderRaw, syncVars
<1>4. QED BY <1>2, <1>3

LEMMA DownloadsVehicle ==
    ASSUME Downloads, ClosedIdle, VehicleStep
    PROVE  Downloads'
<1>1. ASSUME NEW t \in Targets, NEW c \in BOOLEAN, SelectTarget(t, c)
      PROVE  Downloads'
  <2>1. DownloadCancelled /\ link' = link /\ esc' # "raw"
    BY <1>1 DEF SelectTarget, Admitted, EscBusy, escVars
  <2>2. QED BY <2>1, CancelEnds DEF Downloads, WireQuietUnderRaw
<1>2. ASSUME NEW c \in BOOLEAN, TargetNews(c)
      PROVE  Downloads'
  BY <1>2 DEF TargetNews, Downloads, WireQuietUnderRaw, escVars, syncVars
<1>3. CASE HeartbeatTimeout
  BY <1>3 DEF HeartbeatTimeout, SyncOver, Downloads, WireQuietUnderRaw, escVars
<1>4. CASE RebootGraceEnds
  BY <1>4 DEF RebootGraceEnds, Downloads, WireQuietUnderRaw, escVars, radioVars, syncVars
<1>5. CASE Reboot
  BY <1>5 DEF Reboot, SyncOver, Downloads, WireQuietUnderRaw, escVars
<1>6. QED BY <1>1, <1>2, <1>3, <1>4, <1>5, DownloadsHeartbeat DEF VehicleStep

LEMMA DownloadsRadio ==
    ASSUME Downloads, RadioStep
    PROVE  Downloads'
<1>1. UNCHANGED <<link, escVars, syncVars>>
  BY Zenon DEF RadioStep, StartRadio, CancelRadio, AdvanceRadio, Echo, vehicleVars
<1>2. esc = "raw" => chains' = chains
  <2>1. CASE StartRadio \/ CancelRadio
    BY <2>1 DEF StartRadio, CancelRadio
  <2>2. ASSUME NEW missing \in BOOLEAN, AdvanceRadio(missing)
        PROVE  esc # "raw"
    <3>1. ~EscBusy
      BY <2>2, Zenon DEF AdvanceRadio
    <3>2. QED BY <3>1 DEF EscBusy
  <2>3. ASSUME NEW s \in Sessions, NEW ok \in BOOLEAN, Echo(s, ok)
        PROVE  esc # "raw"
    <3>1. chains[s] # NoChain
      BY <2>3, Zenon DEF Echo
    <3>2. QED BY <3>1 DEF Downloads, WireQuietUnderRaw
  <2>4. QED BY <2>1, <2>2, <2>3 DEF RadioStep
<1>3. QED BY <1>1, <1>2 DEF Downloads, WireQuietUnderRaw, escVars, syncVars

LEMMA DownloadsStep == Counted /\ ClosedIdle /\ Downloads /\ [Next]_vars => Downloads'
<1> SUFFICES ASSUME Counted, ClosedIdle, Downloads, [Next]_vars PROVE Downloads'
  OBVIOUS
<1>1. CASE LinkStep
  <2>1. CASE Open
    BY <2>1 DEF Open, ClosedIdle, Downloads, WireQuietUnderRaw
  <2>2. CASE Close
    BY <2>2 DEF Close, SyncOver, Downloads, WireQuietUnderRaw
  <2>3. CASE PrepareDisconnect
    BY <2>3 DEF PrepareDisconnect, Downloads, WireQuietUnderRaw, syncVars
  <2>4. QED BY <1>1, <2>1, <2>2, <2>3 DEF LinkStep
<1>2. CASE EscStep
  <2>1. ASSUME StartEsc("raw") PROVE Downloads'
    <3>1. DownloadCancelled /\ ChainsDropped /\ link' = link
      BY <2>1 DEF StartEsc
    <3>2. \A s \in Sessions : chains'[s] = NoChain
      BY <3>1 DEF ChainsDropped
    <3>3. QED BY <3>1, <3>2, CancelEnds DEF Downloads, WireQuietUnderRaw
  <2>2. ASSUME NEW mode \in EscModes, mode # "raw", StartEsc(mode) PROVE Downloads'
    BY <2>2 DEF StartEsc, Downloads, WireQuietUnderRaw, syncVars
  <2>3. CASE EscEnds
    BY <2>3 DEF EscEnds, Downloads, WireQuietUnderRaw, syncVars
  <2>4. QED BY <1>2, <2>1, <2>2, <2>3 DEF EscStep
<1>3. CASE SyncStep
  <2>1. CASE RequestParams
    BY <2>1 DEF RequestParams, Admitted, EscBusy, Ready, BeginSync, Downloads, WireQuietUnderRaw,
       NoRun, escVars
  <2>2. CASE ParamRunEnds
    BY <2>2, CancelEnds DEF ParamRunEnds, Downloads, WireQuietUnderRaw, escVars, radioVars
  <2>3. CASE ParamTimeout
    BY <2>3 DEF ParamTimeout, SyncOver, Downloads, WireQuietUnderRaw, escVars, radioVars
  <2>4. CASE TransferStarts \/ TransferEnds
    BY <2>4 DEF TransferStarts, TransferEnds, Downloads, WireQuietUnderRaw, escVars, radioVars,
       syncVars
  <2>5. QED BY <1>3, <2>1, <2>2, <2>3, <2>4 DEF SyncStep
<1>4. CASE CalibrationStep
  <2>1. CASE StartCalibration
    BY <2>1 DEF StartCalibration, Downloads, WireQuietUnderRaw, escVars, radioVars, syncVars
  <2>2. ASSUME NEW ok \in BOOLEAN, CalibrationEnds(ok) PROVE Downloads'
    BY <2>2 DEF CalibrationEnds, BeginSync, ClosedIdle, Downloads, WireQuietUnderRaw, NoRun,
       escVars, radioVars, syncVars
  <2>3. QED BY <1>4, <2>1, <2>2 DEF CalibrationStep
<1>5. CASE Confirm \/ UNCHANGED vars
  BY <1>5 DEF Confirm, vars, Downloads, WireQuietUnderRaw, escVars, radioVars, syncVars
<1>6. QED BY <1>1, <1>2, <1>3, <1>4, <1>5, DownloadsVehicle, DownloadsRadio DEF Next

(* No generation is left without the download it waits for, and no download  *)
(* or PARAM_SET timer outlives the pause of MAVLink (cancelParamDownload,    *)
(* onBridgeEvent, pauseProtocol).                                            *)
THEOREM DownloadsAreAccounted == Spec => []DownloadsAccounted
<1>1. Init => Downloads /\ ClosedIdle
  BY DEF Init, Downloads, ClosedIdle, WireQuietUnderRaw
<1>2. GateInv => Counted
  BY DEF GateInv
<1>3. Downloads => DownloadsAccounted
  BY DEF Downloads, DownloadsAccounted, SyncIsAlive
<1>4. QED BY <1>1, <1>2, <1>3, ClosedStep, DownloadsStep, GateInvariant, PTL DEF Spec
-----------------------------------------------------------------------------
(* The types, in the parts that different steps disturb.                     *)
NumberTypes ==
    /\ epoch \in 1..MaxEpoch /\ vgen \in 0..MaxVgen
    /\ conf \in [epoch : 0..MaxEpoch, authority : 0..MaxOpens, intact : BOOLEAN, calm : BOOLEAN]

CraftTypes ==
    /\ link \in {"up", "down"} /\ authority \in 0..MaxOpens /\ lastPrint \in Prints
    /\ target \in Targets \cup {NoTarget} /\ identity \in Identities \cup {NoIdentity}
    /\ selReady \in BOOLEAN /\ vready \in BOOLEAN /\ armed \in {"unknown", "yes", "no"}
    /\ conflict \in BOOLEAN /\ rebooting \in BOOLEAN
    /\ esc \in EscModes \cup {"none"} /\ escDestroyed \in BOOLEAN /\ cal \in BOOLEAN

SyncTypes ==
    /\ sync \in 0..MaxGens /\ gens \in 0..MaxGens /\ syncRun \in Int /\ run \in Int
    /\ loading \in BOOLEAN /\ transfer \in BOOLEAN /\ ownRun \in Int

RadioTypes ==
    /\ radio \in [phase : {"none", "sampling", "review", "writing"}, id : 0..MaxRadio,
                  print : 0..MaxVgen]
    /\ chains \in [Sessions -> [phase : {"none", "write", "rollback"}, print : 0..MaxVgen,
                                at : 0..NWrites]]
    /\ radios \in 0..MaxRadio

LEMMA TypeParts == TypeOK <=> NumberTypes /\ CraftTypes /\ SyncTypes /\ RadioTypes
BY DEF TypeOK, NumberTypes, CraftTypes, SyncTypes, RadioTypes

LEMMA SyncTyped == SyncTypes /\ [Next]_vars => SyncTypes'
<1> SUFFICES ASSUME SyncTypes, [Next]_vars PROVE SyncTypes'
  OBVIOUS
<1> USE DEF SyncTypes
<1>1. MaxGens \in Nat /\ NoRun \in Int /\ 0 \in 0..MaxGens
  BY GateAssumption DEF NoRun
<1>2. CASE LinkStep
  <2>1. CASE Open
    BY <1>1, <2>1 DEF Open
  <2>2. CASE Close
    BY <1>1, <2>2 DEF Close, SyncOver
  <2>3. CASE PrepareDisconnect
    BY <2>3 DEF PrepareDisconnect, syncVars
  <2>4. QED BY <1>2, <2>1, <2>2, <2>3 DEF LinkStep
<1>3. CASE VehicleStep
  <2>1. ASSUME NEW t \in Targets, NEW a \in {"yes", "no"}, NEW id \in Identities, Heartbeat(t, a, id)
        PROVE  SyncTypes'
    <3>1. transfer' = transfer /\ (DownloadCancelled \/ UNCHANGED syncVars)
      BY <2>1 DEF Heartbeat
    <3>2. QED BY <1>1, <3>1 DEF DownloadCancelled, RunReported, SyncOver, syncVars
  <2>2. ASSUME NEW t \in Targets, NEW c \in BOOLEAN, SelectTarget(t, c)
        PROVE  SyncTypes'
    <3>1. transfer' = transfer /\ DownloadCancelled
      BY <2>2 DEF SelectTarget
    <3>2. QED BY <1>1, <3>1 DEF DownloadCancelled, RunReported, SyncOver
  <2>3. ASSUME NEW c \in BOOLEAN, TargetNews(c)
        PROVE  SyncTypes'
    BY <2>3 DEF TargetNews, syncVars
  <2>4. CASE HeartbeatTimeout \/ RebootGraceEnds \/ Reboot
    BY <1>1, <2>4 DEF HeartbeatTimeout, RebootGraceEnds, Reboot, SyncOver, syncVars
  <2>5. QED BY <1>3, <2>1, <2>2, <2>3, <2>4 DEF VehicleStep
<1>4. CASE EscStep
  BY <1>1, <1>4 DEF EscStep, StartEsc, EscEnds, DownloadCancelled, RunReported, SyncOver, syncVars
<1>5. CASE SyncStep
  <2>1. CASE RequestParams
    BY <1>1, <2>1 DEF RequestParams, BeginSync, One
  <2>2. CASE ParamRunEnds \/ ParamTimeout
    BY <1>1, <2>2 DEF ParamRunEnds, ParamTimeout, DownloadCancelled, RunReported, SyncOver
  <2>3. CASE TransferStarts \/ TransferEnds
    BY <2>3 DEF TransferStarts, TransferEnds, syncVars
  <2>4. QED BY <1>5, <2>1, <2>2, <2>3 DEF SyncStep
<1>6. CASE CalibrationStep
  BY <1>1, <1>6 DEF CalibrationStep, StartCalibration, CalibrationEnds, BeginSync, syncVars
<1>7. CASE RadioStep
  <2>1. UNCHANGED <<syncVars, transfer>>
    BY <1>7, Zenon DEF RadioStep, StartRadio, CancelRadio, AdvanceRadio, Echo
  <2>2. QED BY <2>1 DEF syncVars
<1>8. CASE Confirm \/ UNCHANGED vars
  BY <1>8 DEF Confirm, vars, syncVars
<1>9. QED BY <1>2, <1>3, <1>4, <1>5, <1>6, <1>7, <1>8 DEF Next

(* A step that is no confirmation: the bounds and the history do the rest.   *)
LEMMA KeptTyped ==
    ASSUME NumberTypes, Kept, epoch' \in Int, epoch' >= 1, vgen' \in Nat
    PROVE  NumberTypes'
<1>1. conf' = conf \/ conf' = [conf EXCEPT !.intact = @ /\ Seen' = Seen, !.calm = @ /\ conflict' = conflict]
  BY DEF Kept, KeepConf
<1>2. (Seen' = Seen) \in BOOLEAN /\ (conflict' = conflict) \in BOOLEAN
  OBVIOUS
<1>3. conf' \in [epoch : 0..MaxEpoch, authority : 0..MaxOpens, intact : BOOLEAN, calm : BOOLEAN]
  BY <1>1, <1>2 DEF NumberTypes
<1>4. epoch' <= MaxEpoch /\ vgen' <= MaxVgen
  BY DEF Kept
<1>5. QED BY <1>3, <1>4, GateAssumption DEF NumberTypes

LEMMA NumbersTyped == NumberTypes /\ CraftTypes /\ [Next]_vars => NumberTypes'
<1> SUFFICES ASSUME NumberTypes, CraftTypes, [Next]_vars PROVE NumberTypes'
  OBVIOUS
<1>1. MaxOpens \in Nat /\ MaxEpoch \in Nat \ {0} /\ MaxVgen \in Nat
  BY GateAssumption
<1>2. /\ epoch \in Nat /\ epoch >= 1 /\ vgen \in Nat /\ epoch <= MaxEpoch /\ authority \in 0..MaxOpens
      /\ \A b : One(b) \in {0, 1}
  BY <1>1 DEF NumberTypes, CraftTypes, One
<1>3. CASE Kept /\ UNCHANGED <<epoch, vgen>>
  BY <1>2, <1>3, KeptTyped
<1>4. CASE LinkStep
  <2>1. Kept /\ epoch' \in Int /\ epoch' >= 1 /\ vgen' \in Nat
    BY <1>2, <1>4 DEF LinkStep, Open, Close, PrepareDisconnect, safetyVars, vehicleVars
  <2>2. QED BY <2>1, KeptTyped
<1>5. CASE VehicleStep
  <2>1. ASSUME NEW t \in Targets, NEW a \in {"yes", "no"}, NEW id \in Identities, Heartbeat(t, a, id)
        PROVE  epoch' \in Int /\ epoch' >= 1 /\ vgen' \in Nat
    <3> DEFINE first  == target = NoTarget
               old    == IF first THEN NoIdentity ELSE identity
               news   == (first \/ ~selReady \/ id # old) /\ ~rebooting
               chosen == IF first THEN <<t, FALSE, NoIdentity>> ELSE lastPrint
               print  == IF news THEN <<t, TRUE, id>> ELSE chosen
               rise   == IF ~vready /\ ~rebooting THEN 2 ELSE 0
    <3>1. /\ epoch' = epoch + (One(chosen # lastPrint) + One(print # chosen)) + rise
          /\ vgen' = vgen + One(first) + One(id # old)
      BY <2>1, Zenon DEF Heartbeat
    <3>2. rise \in {0, 2}
      OBVIOUS
    <3> HIDE DEF first, old, chosen, print, rise
    <3>3. QED BY <1>2, <3>1, <3>2
  <2>2. ASSUME NEW t \in Targets, NEW c \in BOOLEAN, SelectTarget(t, c)
        PROVE  epoch' \in Int /\ epoch' >= 1 /\ vgen' \in Nat
    BY <1>2, <2>2 DEF SelectTarget
  <2>3. ASSUME NEW c \in BOOLEAN, TargetNews(c)
        PROVE  epoch' \in Int /\ epoch' >= 1 /\ vgen' \in Nat
    BY <1>2, <2>3 DEF TargetNews, TargetEvent
  <2>4. HeartbeatTimeout \/ RebootGraceEnds \/ Reboot => epoch' \in Int /\ epoch' >= 1 /\ vgen' \in Nat
    BY <1>2 DEF HeartbeatTimeout, RebootGraceEnds, Reboot, safetyVars
  <2>5. Kept /\ epoch' \in Int /\ epoch' >= 1 /\ vgen' \in Nat
    BY <1>5, <2>1, <2>2, <2>3, <2>4 DEF VehicleStep
  <2>6. QED BY <2>5, KeptTyped
<1>6. CASE EscStep
  <2>1. ASSUME NEW mode \in EscModes, StartEsc(mode)
        PROVE  epoch' \in Int /\ epoch' >= 1 /\ vgen' \in Nat
    BY <1>2, <2>1 DEF StartEsc, vehicleVars
  <2>2. EscEnds => epoch' \in Int /\ epoch' >= 1 /\ vgen' \in Nat
    BY <1>2 DEF EscEnds
  <2>3. Kept /\ epoch' \in Int /\ epoch' >= 1 /\ vgen' \in Nat
    BY <1>6, <2>1, <2>2 DEF EscStep
  <2>4. QED BY <2>3, KeptTyped
<1>7. CASE SyncStep \/ CalibrationStep \/ RadioStep
  <2>1. Kept /\ UNCHANGED <<safetyVars, vehicleVars>>
    BY <1>7, Zenon DEF SyncStep, RequestParams, ParamRunEnds, ParamTimeout, TransferStarts,
       TransferEnds, CalibrationStep, StartCalibration, CalibrationEnds, RadioStep, StartRadio,
       CancelRadio, AdvanceRadio, Echo
  <2>2. QED BY <1>3, <2>1 DEF safetyVars, vehicleVars
<1>8. CASE Confirm
  <2>1. conf' = [epoch |-> epoch, authority |-> authority, intact |-> TRUE, calm |-> TRUE]
    BY <1>8 DEF Confirm
  <2>2. UNCHANGED <<epoch, vgen>>
    BY <1>8 DEF Confirm, safetyVars, vehicleVars
  <2>3. QED BY <1>1, <1>2, <2>1, <2>2 DEF NumberTypes
<1>9. CASE UNCHANGED vars
  BY <1>9 DEF NumberTypes, vars, safetyVars, vehicleVars
<1>10. QED BY <1>4, <1>5, <1>6, <1>7, <1>8, <1>9 DEF Next

LEMMA CraftTyped == NumberTypes /\ CraftTypes /\ [Next]_vars => CraftTypes'
<1> SUFFICES ASSUME NumberTypes, CraftTypes, [Next]_vars PROVE CraftTypes'
  OBVIOUS
<1> USE DEF CraftTypes
<1>1. /\ \A t \in Targets \cup {NoTarget}, r \in BOOLEAN, i \in Identities \cup {NoIdentity} :
            <<t, r, i>> \in Prints
      /\ NoPrint \in Prints
  BY DEF Prints, NoPrint
<1>2. CASE UNCHANGED <<link, safetyVars, vehicleVars, escVars>> /\ cal' \in BOOLEAN
  BY <1>2 DEF safetyVars, vehicleVars, escVars
<1>3. CASE LinkStep
  <2>1. CASE Open
    <3>1. authority' \in 0..MaxOpens
      BY <2>1, GateAssumption DEF Open
    <3>2. QED BY <1>1, <2>1, <3>1 DEF Open
  <2>2. CASE Close
    BY <2>2 DEF Close
  <2>3. CASE PrepareDisconnect
    BY <2>3 DEF PrepareDisconnect, safetyVars, vehicleVars
  <2>4. QED BY <1>3, <2>1, <2>2, <2>3 DEF LinkStep
<1>4. CASE VehicleStep
  <2>1. ASSUME NEW t \in Targets, NEW a \in {"yes", "no"}, NEW id \in Identities, Heartbeat(t, a, id)
        PROVE  CraftTypes'
    <3> DEFINE first  == target = NoTarget
               old    == IF first THEN NoIdentity ELSE identity
               news   == (first \/ ~selReady \/ id # old) /\ ~rebooting
               chosen == IF first THEN <<t, FALSE, NoIdentity>> ELSE lastPrint
               print  == IF news THEN <<t, TRUE, id>> ELSE chosen
    <3>1. /\ target' = t /\ identity' = id /\ selReady' = ~rebooting
          /\ vready' = (vready \/ ~rebooting)
          /\ cal' = (cal /\ ~(id # old) /\ ~(a = "yes" /\ (first \/ armed # "yes")))
          /\ lastPrint' = print
          /\ UNCHANGED <<link, authority, conflict, rebooting, escDestroyed>>
      BY <2>1, Zenon DEF Heartbeat
    <3>2. armed' \in {a, "unknown", armed} /\ esc' \in {"none", esc}
      BY <2>1 DEF Heartbeat
    <3>3. print \in Prints
      BY <1>1
    <3>4. vready' \in BOOLEAN /\ cal' \in BOOLEAN /\ selReady' \in BOOLEAN
      <4> HIDE DEF first, old
      <4>1. QED BY <3>1, Zenon
    <3> HIDE DEF print
    <3>5. QED BY <3>1, <3>2, <3>3, <3>4
  <2>2. ASSUME NEW t \in Targets, NEW c \in BOOLEAN, SelectTarget(t, c)
        PROVE  CraftTypes'
    <3>1. /\ target' = t /\ identity' = NoIdentity /\ selReady' = FALSE /\ armed' = "unknown"
          /\ conflict' = c /\ lastPrint' = <<t, FALSE, NoIdentity>>
          /\ UNCHANGED <<link, authority, vready, rebooting, escVars, cal>>
      BY <2>2, Zenon DEF SelectTarget
    <3>2. QED BY <1>1, <3>1 DEF escVars
  <2>3. ASSUME NEW c \in BOOLEAN, TargetNews(c)
        PROVE  CraftTypes'
    <3>1. HasReady \in BOOLEAN
      BY DEF HasReady
    <3>2. /\ conflict' = c /\ lastPrint' = <<target, HasReady, identity>>
          /\ UNCHANGED <<link, authority, target, identity, selReady, vready, armed, rebooting,
                         escVars, cal>>
      BY <2>3, Zenon DEF TargetNews, TargetEvent
    <3>3. QED BY <1>1, <3>1, <3>2 DEF escVars
  <2>4. CASE HeartbeatTimeout
    BY <2>4, ZenonT(60) DEF HeartbeatTimeout, escVars
  <2>5. CASE RebootGraceEnds
    BY <2>5, ZenonT(60) DEF RebootGraceEnds, safetyVars, escVars
  <2>6. CASE Reboot
    BY <2>6 DEF Reboot, escVars
  <2>7. QED BY <1>4, <2>1, <2>2, <2>3, <2>4, <2>5, <2>6 DEF VehicleStep
<1>5. CASE EscStep
  <2>1. ASSUME "raw" \in EscModes, StartEsc("raw")
        PROVE  CraftTypes'
    BY <1>1, <2>1 DEF StartEsc
  <2>2. ASSUME NEW mode \in EscModes, mode # "raw", StartEsc(mode)
        PROVE  CraftTypes'
    BY <2>2 DEF StartEsc, vehicleVars
  <2>3. CASE EscEnds
    BY <2>3 DEF EscEnds
  <2>4. QED BY <1>5, <2>1, <2>2, <2>3 DEF EscStep
<1>6. CASE SyncStep \/ RadioStep
  <2>1. UNCHANGED <<link, safetyVars, vehicleVars, escVars, cal>>
    BY <1>6, Zenon DEF SyncStep, RequestParams, ParamRunEnds, ParamTimeout, TransferStarts,
       TransferEnds, RadioStep, StartRadio, CancelRadio, AdvanceRadio, Echo
  <2>2. QED BY <1>2, <2>1
<1>7. CASE CalibrationStep
  <2>1. UNCHANGED <<link, safetyVars, vehicleVars, escVars>> /\ cal' \in BOOLEAN
    BY <1>7 DEF CalibrationStep, StartCalibration, CalibrationEnds
  <2>2. QED BY <1>2, <2>1
<1>8. CASE Confirm
  <2>1. UNCHANGED <<link, safetyVars, vehicleVars, escVars, cal>>
    BY <1>8 DEF Confirm
  <2>2. QED BY <1>2, <2>1
<1>9. CASE UNCHANGED vars
  BY <1>2, <1>9 DEF vars
<1>10. QED BY <1>3, <1>4, <1>5, <1>6, <1>7, <1>8, <1>9 DEF Next
-----------------------------------------------------------------------------
(* The chains.  A non-empty set of numbers up to n has a greatest one: the   *)
(* intervals above its members are well-founded under inclusion.             *)
LEMMA Greatest ==
    ASSUME NEW n \in Nat, NEW S \in SUBSET (1..n), S # {}
    PROVE  \E m \in S : \A k \in S : k <= m
<1> DEFINE Above == {(m + 1)..n : m \in S}
<1>1. IsFiniteSet(1..n)
  BY FS_Interval
<1>2. Above \subseteq SUBSET (1..n) /\ Above # {}
  <2>1. \A m \in S : m \in 1..n /\ (m + 1)..n \subseteq 1..n
    OBVIOUS
  <2>2. PICK m \in S : TRUE
    OBVIOUS
  <2>3. (m + 1)..n \in Above
    OBVIOUS
  <2>4. \A A \in Above : A \subseteq 1..n
    BY <2>1, Zenon
  <2>5. QED BY <2>3, <2>4, Zenon
<1>3. PICK x \in Above : \A y \in Above : ~(<<y, x>> \in StrictSubsetOrdering(1..n))
  <2>1. IsWellFoundedOn(StrictSubsetOrdering(1..n), SUBSET (1..n))
    BY <1>1, FS_FiniteSubsetsOfFinite, FS_StrictSubsetOrderingWellFounded
  <2> HIDE DEF Above
  <2>2. QED BY <1>2, <2>1, WFMin
<1>4. PICK m \in S : x = (m + 1)..n
  BY <1>3
<1>5. ASSUME NEW k \in S, k > m PROVE FALSE
  <2>1. ((k + 1)..n) \in Above /\ (k + 1)..n \subseteq 1..n /\ x \subseteq 1..n
    BY <1>4
  <2>2. (k + 1)..n \subseteq x /\ k \in x /\ k \notin (k + 1)..n
    BY <1>4, <1>5
  <2>3. QED BY <1>3, <2>1, <2>2 DEF StrictSubsetOrdering
<1>6. QED BY <1>5

(* A chain of s, for the vehicle of print: over, or with a parameter pending *)
(* that no other chain has pending.                                          *)
ChainOf(s, print, c) ==
    \/ c = NoChain
    \/ c \in [phase : {"write", "rollback"}, print : {print}, at : 1..NWrites] /\ ~Busy(s, c.at)

LEMMA RollbackChain ==
    ASSUME NEW s \in Sessions, NEW print, NEW i \in Int, i <= NWrites
    PROVE  ChainOf(s, print, Rollback(s, print, i))
<1> DEFINE open == {j \in 1..i : ~Busy(s, j)}
           last == CHOOSE j \in open : \A k \in open : k <= j
<1>1. CASE open = {}
  BY <1>1 DEF Rollback, ChainOf
<1>2. CASE open # {}
  <2>1. i \in Nat /\ NWrites \in Nat /\ open \in SUBSET (1..i)
    BY <1>2, GateAssumption
  <2>2. last \in open
    <3> HIDE DEF open
    <3>1. \E j \in open : \A k \in open : k <= j
      BY <1>2, <2>1, Greatest
    <3>2. QED BY <3>1, Zenon
  <2>3. last \in 1..NWrites /\ ~Busy(s, last)
    <3> HIDE DEF last
    <3>1. last \in 1..i /\ ~Busy(s, last)
      BY <2>2
    <3>2. QED BY <2>1, <3>1
  <2>4. Rollback(s, print, i) = [phase |-> "rollback", print |-> print, at |-> last]
    BY <1>2, Zenon DEF Rollback
  <2> HIDE DEF last, open
  <2>5. QED BY <2>3, <2>4 DEF ChainOf
<1>3. QED BY <1>1, <1>2

LEMMA WriteChain ==
    ASSUME NEW s \in Sessions, NEW print, NEW i \in 1..(NWrites + 1)
    PROVE  ChainOf(s, print, Write(s, print, i))
<1>1. i - 1 \in Int /\ i - 1 <= NWrites /\ (i > NWrites \/ i \in 1..NWrites)
  BY GateAssumption
<1>2. CASE i > NWrites
  BY <1>2 DEF Write, ChainOf
<1>3. CASE ~(i > NWrites) /\ Busy(s, i)
  BY <1>1, <1>3, RollbackChain DEF Write
<1>4. CASE ~(i > NWrites) /\ ~Busy(s, i)
  <2>1. Write(s, print, i) = [phase |-> "write", print |-> print, at |-> i]
    BY <1>4 DEF Write
  <2>2. QED BY <1>1, <1>4, <2>1 DEF ChainOf
<1>5. QED BY <1>2, <1>3, <1>4

(* A chain goes to another parameter, or is over, for a vehicle that is safe *)
(* if it goes on; a radio calibration that waits for it is told.             *)
ChainMoves ==
    \E s \in Sessions, print \in 0..MaxVgen :
       \E next, waiting :
          /\ ChainOf(s, print, next) /\ (next # NoChain => ContextSafe(print))
          /\ ChainGoes(s, next, waiting)
          /\ \/ waiting = radio
             \/ waiting = [radio EXCEPT !.phase = "writing"] /\ radio.id = s

(* The active calibration is one of the sessions.                            *)
RadioNumbered == RadioBusy => radio.id \in Sessions

LEMMA EchoMoves ==
    ASSUME RadioTypes, NEW s \in Sessions, NEW ok \in BOOLEAN, Echo(s, ok)
    PROVE  ChainMoves
<1> DEFINE c    == chains[s]
           next == IF ~ContextSafe(c.print) THEN NoChain
                   ELSE IF c.phase = "write" /\ ok THEN Write(s, c.print, c.at + 1)
                   ELSE Rollback(s, c.print, c.at - 1)
<1>1. c # NoChain /\ ChainGoes(s, next, radio)
  BY Zenon DEF Echo
<1>2. c.print \in 0..MaxVgen
  BY DEF RadioTypes
<1>3. CASE next = NoChain
  <2>1. ChainOf(s, c.print, next)
    BY <1>3 DEF ChainOf
  <2> HIDE DEF next, c
  <2>2. QED BY <1>1, <1>2, <1>3, <2>1, Zenon DEF ChainMoves
<1>4. CASE next # NoChain
  <2>1. ContextSafe(c.print)
    BY <1>4
  <2>2. c.at \in 0..NWrites /\ NWrites \in Nat
    BY GateAssumption DEF RadioTypes
  <2>3. c.at + 1 \in 1..(NWrites + 1) /\ c.at - 1 \in Int /\ c.at - 1 <= NWrites
    <3> HIDE DEF c
    <3>1. QED BY <2>2
  <2>4. ChainOf(s, c.print, Write(s, c.print, c.at + 1)) /\ ChainOf(s, c.print, Rollback(s, c.print, c.at - 1))
    BY <2>3, WriteChain, RollbackChain
  <2>5. ChainOf(s, c.print, next)
    BY <2>1, <2>4
  <2> HIDE DEF next, c
  <2>6. QED BY <1>1, <1>2, <2>1, <2>5, Zenon DEF ChainMoves
<1>5. QED BY <1>3, <1>4

LEMMA AdvanceMoves ==
    ASSUME RadioTypes, RadioNumbered, NEW missing \in BOOLEAN, AdvanceRadio(missing)
    PROVE  \/ ChainMoves
           \/ chains' = chains /\ radio' = NoRadio
           \/ chains' = chains /\ RadioBusy /\ radio' = [radio EXCEPT !.phase = "review"]
<1> DEFINE next == IF missing THEN NoChain ELSE Write(radio.id, radio.print, 1)
<1>1. CASE ContextSafe(radio.print) /\ radio.phase = "review"
  <2>1. ChainGoes(radio.id, next, [radio EXCEPT !.phase = "writing"])
    BY <1>1, Zenon DEF AdvanceRadio
  <2>2. radio.id \in Sessions /\ radio.print \in 0..MaxVgen
    BY <1>1 DEF RadioNumbered, RadioBusy, RadioTypes
  <2>3. ChainOf(radio.id, radio.print, next)
    <3>1. 1 \in 1..(NWrites + 1)
      BY GateAssumption
    <3>2. ChainOf(radio.id, radio.print, Write(radio.id, radio.print, 1))
      BY <2>2, <3>1, WriteChain
    <3>3. QED BY <3>2 DEF ChainOf
  <2> HIDE DEF next
  <2>4. QED BY <1>1, <2>1, <2>2, <2>3, Zenon DEF ChainMoves
<1>2. CASE ~(ContextSafe(radio.print) /\ radio.phase = "review")
  BY <1>2, Zenon DEF AdvanceRadio
<1>3. QED BY <1>1, <1>2

(* What a step does to the radio calibration and the chains.                 *)
RadioMoves ==
    \/ ChainMoves /\ radios' = radios
    \/ chains' = chains /\ radios' = radios /\ radio' \in {NoRadio, radio}
    \/ /\ chains' = chains /\ radios' = radios
       /\ RadioBusy /\ radio' = [radio EXCEPT !.phase = "review"]
    \/ chains' = chains /\ StartRadio
    \/ ChainsDropped /\ radios' = radios /\ radio' \in {NoRadio, radio} /\ ~RadioBusy'

LEMMA VehicleRadio ==
    ASSUME SessionsOnSafeVehicle, VehicleStep
    PROVE  RadioMoves
<1>1. ASSUME NEW t \in Targets, NEW a \in {"yes", "no"}, NEW id \in Identities, Heartbeat(t, a, id)
      PROVE  RadioMoves
  <2>1. radios' = radios /\ radio' \in {NoRadio, radio}
    BY <1>1 DEF Heartbeat, RadioBoundary
  <2>2. CASE target = NoTarget
    <3>1. ChainsDropped /\ ~RadioBusy
      BY <1>1, <2>2 DEF Heartbeat, SessionsOnSafeVehicle, HasReady
    <3>2. QED BY <2>1, <3>1 DEF RadioMoves, RadioBusy, NoRadio
  <2>3. CASE target # NoTarget
    <3>1. chains' = chains
      BY <1>1, <2>3 DEF Heartbeat
    <3>2. QED BY <2>1, <3>1 DEF RadioMoves
  <2>4. QED BY <2>2, <2>3
<1>2. ASSUME NEW t \in Targets, NEW c \in BOOLEAN, SelectTarget(t, c)
      PROVE  RadioMoves
  BY <1>2 DEF SelectTarget, Admitted, RadioMoves, RadioBusy
<1>3. ASSUME NEW c \in BOOLEAN, TargetNews(c)
      PROVE  RadioMoves
  BY <1>3 DEF TargetNews, TargetEvent, RadioBoundary, RadioMoves
<1>4. CASE HeartbeatTimeout \/ RebootGraceEnds \/ Reboot
  BY <1>4 DEF HeartbeatTimeout, RebootGraceEnds, Reboot, RadioMoves, radioVars
<1>5. QED BY <1>1, <1>2, <1>3, <1>4 DEF VehicleStep

LEMMA StepRadio ==
    ASSUME SessionsOnSafeVehicle, RadioTypes, RadioNumbered, [Next]_vars
    PROVE  RadioMoves
<1>1. CASE LinkStep
  BY <1>1 DEF LinkStep, Open, Close, PrepareDisconnect, RadioMoves, RadioBusy, NoRadio, radioVars
<1>2. CASE EscStep
  <2>1. ASSUME NEW mode \in EscModes, StartEsc(mode)
        PROVE  RadioMoves
    <3>1. radios' = radios /\ radio' = radio /\ ~RadioBusy /\ (ChainsDropped \/ chains' = chains)
      BY <2>1 DEF StartEsc
    <3>2. QED BY <3>1 DEF RadioMoves, RadioBusy
  <2>2. CASE EscEnds
    BY <2>2 DEF EscEnds, RadioMoves, radioVars
  <2>3. QED BY <1>2, <2>1, <2>2 DEF EscStep
<1>3. CASE SyncStep \/ CalibrationStep \/ Confirm \/ UNCHANGED vars
  <2>1. UNCHANGED radioVars
    BY <1>3, Zenon DEF SyncStep, RequestParams, ParamRunEnds, ParamTimeout, TransferStarts,
       TransferEnds, CalibrationStep, StartCalibration, CalibrationEnds, Confirm, vars
  <2>2. QED BY <2>1 DEF radioVars, RadioMoves
<1>4. CASE RadioStep
  <2>1. CASE StartRadio
    BY <2>1 DEF StartRadio, RadioMoves
  <2>2. CASE CancelRadio
    BY <2>2 DEF CancelRadio, RadioMoves
  <2>3. ASSUME NEW missing \in BOOLEAN, AdvanceRadio(missing)
        PROVE  RadioMoves
    <3>1. radios' = radios
      BY <2>3, Zenon DEF AdvanceRadio
    <3>2. QED BY <2>3, <3>1, AdvanceMoves DEF RadioMoves
  <2>4. ASSUME NEW s \in Sessions, NEW ok \in BOOLEAN, Echo(s, ok)
        PROVE  RadioMoves
    <3>1. radios' = radios
      BY <2>4, Zenon DEF Echo
    <3>2. QED BY <2>4, <3>1, EchoMoves DEF RadioMoves
  <2>5. QED BY <1>4, <2>1, <2>2, <2>3, <2>4 DEF RadioStep
<1>5. QED BY <1>1, <1>2, <1>3, <1>4, VehicleRadio DEF Next

(* The chains and the calibration that waits for one of them fit together.   *)
ChainInv == RadioTypes /\ RadioNumbered /\ OnePending /\ WriterHasChain

LEMMA ChainStep ==
    ASSUME ChainInv, ChainMoves, radios' = radios
    PROVE  ChainInv'
<1>0. PICK s \in Sessions, print \in 0..MaxVgen :
         \E next, waiting :
            /\ ChainOf(s, print, next) /\ ChainGoes(s, next, waiting)
            /\ \/ waiting = radio
               \/ waiting = [radio EXCEPT !.phase = "writing"] /\ radio.id = s
  BY Zenon DEF ChainMoves
<1>1. PICK next, waiting :
         /\ ChainOf(s, print, next) /\ ChainGoes(s, next, waiting)
         /\ \/ waiting = radio
            \/ waiting = [radio EXCEPT !.phase = "writing"] /\ radio.id = s
  BY <1>0, Zenon
<1>2. chains' = [chains EXCEPT ![s] = next] /\ radio' = IF next = NoChain /\ waiting.id = s THEN NoRadio ELSE waiting
  BY <1>1 DEF ChainGoes
<1>3. /\ next \in [phase : {"none", "write", "rollback"}, print : 0..MaxVgen, at : 0..NWrites]
      /\ next # NoChain => next.at \in 1..NWrites /\ ~Busy(s, next.at)
  BY <1>1, GateAssumption DEF ChainOf, NoChain
<1>4. NoRadio \in [phase : {"none", "sampling", "review", "writing"}, id : 0..MaxRadio, print : 0..MaxVgen]
  BY GateAssumption DEF NoRadio
<1>5. waiting \in [phase : {"none", "sampling", "review", "writing"}, id : 0..MaxRadio, print : 0..MaxVgen]
  BY <1>1 DEF ChainInv, RadioTypes
<1>6. RadioTypes'
  BY <1>2, <1>3, <1>4, <1>5 DEF ChainInv, RadioTypes
<1>7. RadioNumbered'
  <2>1. waiting.id \in Sessions \/ waiting.phase = "none"
    BY <1>1 DEF ChainInv, RadioNumbered, RadioBusy, RadioTypes
  <2>2. QED BY <1>2, <2>1 DEF RadioNumbered, RadioBusy, NoRadio
<1>8. OnePending'
  <2> SUFFICES ASSUME NEW a \in Sessions, NEW b \in Sessions, a # b, chains'[a].at = chains'[b].at
               PROVE  chains'[a].at = 0
    BY DEF OnePending
  <2>1. \A r \in Sessions : chains'[r] = IF r = s THEN next ELSE chains[r]
    BY <1>2 DEF ChainInv, RadioTypes
  <2>2. next = NoChain => next.at = 0
    BY DEF NoChain
  <2>3. CASE a # s /\ b # s
    BY <2>1, <2>3 DEF ChainInv, OnePending
  <2>4. CASE a = s
    BY <1>3, <2>1, <2>2, <2>4 DEF Busy
  <2>5. CASE b = s
    BY <1>3, <2>1, <2>2, <2>5 DEF Busy
  <2>6. QED BY <2>3, <2>4, <2>5
<1>9. WriterHasChain'
  <2> SUFFICES ASSUME radio'.phase = "writing" PROVE chains'[radio'.id] # NoChain
    BY DEF WriterHasChain
  <2>1. radio' = waiting /\ ~(next = NoChain /\ waiting.id = s)
    BY <1>2 DEF NoRadio
  <2>2. CASE waiting.id = s
    BY <1>2, <2>1, <2>2 DEF ChainInv, RadioTypes
  <2>3. CASE waiting.id # s
    <3>1. waiting = radio
      BY <1>1, <1>5, <2>3 DEF ChainInv, RadioTypes
    <3>2. chains[radio.id] # NoChain /\ radio.id \in Sessions
      BY <2>1, <3>1 DEF ChainInv, WriterHasChain, RadioNumbered, RadioBusy
    <3>3. QED BY <1>2, <2>1, <2>3, <3>1, <3>2 DEF ChainInv, RadioTypes
  <2>4. QED BY <2>2, <2>3
<1>10. QED BY <1>6, <1>7, <1>8, <1>9 DEF ChainInv

LEMMA RadioKept ==
    ASSUME NumberTypes, ChainInv, RadioMoves
    PROVE  ChainInv'
<1>1. NoRadio \in [phase : {"none", "sampling", "review", "writing"}, id : 0..MaxRadio, print : 0..MaxVgen]
  BY GateAssumption DEF NoRadio
<1>2. CASE chains' = chains /\ radios' = radios /\ radio' = radio
  BY <1>2 DEF ChainInv, RadioTypes, RadioNumbered, RadioBusy, OnePending, WriterHasChain
<1>3. CASE chains' = chains /\ radios' = radios /\ radio' = NoRadio
  <2>1. RadioTypes'
    BY <1>1, <1>3 DEF ChainInv, RadioTypes
  <2>2. QED BY <1>3, <2>1 DEF NoRadio, ChainInv, RadioNumbered, RadioBusy, OnePending, WriterHasChain
<1>4. CASE /\ chains' = chains /\ radios' = radios
           /\ RadioBusy /\ radio' = [radio EXCEPT !.phase = "review"]
  <2>1. RadioTypes' /\ radio'.phase = "review" /\ radio'.id = radio.id
    BY <1>4 DEF ChainInv, RadioTypes
  <2>2. QED BY <1>4, <2>1 DEF ChainInv, RadioNumbered, RadioBusy, OnePending, WriterHasChain
<1>5. CASE chains' = chains /\ StartRadio
  <2>1. /\ radios \in Nat /\ radios < MaxRadio /\ radios' = radios + 1 /\ MaxRadio \in Nat
        /\ radio' = [phase |-> "sampling", id |-> radios + 1, print |-> vgen]
    BY <1>5, GateAssumption DEF StartRadio, ChainInv, RadioTypes
  <2>2. radios + 1 \in 1..MaxRadio
    BY <2>1
  <2>3. RadioTypes'
    BY <1>5, <2>1, <2>2 DEF ChainInv, RadioTypes, NumberTypes
  <2>4. radio'.phase = "sampling" /\ radio'.id \in Sessions
    BY <2>1, <2>2 DEF Sessions
  <2>5. QED BY <1>5, <2>3, <2>4 DEF ChainInv, RadioNumbered, OnePending, WriterHasChain
<1>6. CASE ChainsDropped /\ radios' = radios /\ radio' \in {NoRadio, radio} /\ ~RadioBusy'
  <2>1. chains' = [s \in Sessions |-> NoChain] /\ NoChain \in [phase : {"none", "write", "rollback"}, print : 0..MaxVgen, at : 0..NWrites]
    BY <1>6, GateAssumption DEF ChainsDropped, NoChain
  <2>2. RadioTypes'
    BY <1>1, <1>6, <2>1 DEF ChainInv, RadioTypes
  <2>3. \A s \in Sessions : chains'[s].at = 0
    BY <2>1 DEF NoChain
  <2>4. radio'.phase = "none"
    BY <1>6, <2>2 DEF RadioBusy, RadioTypes
  <2>5. QED BY <1>6, <2>2, <2>3, <2>4 DEF ChainInv, RadioNumbered, OnePending, WriterHasChain
<1>7. CASE ChainMoves /\ radios' = radios
  BY <1>7, ChainStep
<1>8. QED BY <1>2, <1>3, <1>4, <1>5, <1>6, <1>7 DEF RadioMoves

(* All of it together is inductive.                                          *)
SessionInv == NumberTypes /\ CraftTypes /\ SyncTypes /\ ChainInv /\ SessionsOnSafeVehicle

LEMMA SessionInit == Init => SessionInv
<1> SUFFICES ASSUME Init PROVE SessionInv
  OBVIOUS
<1>1. NumberTypes
  BY GateAssumption DEF Init, NumberTypes, NoConf
<1>2. CraftTypes
  <2>1. NoPrint \in Prints
    BY DEF Prints, NoPrint
  <2>2. 0 \in 0..MaxOpens
    BY GateAssumption
  <2>3. QED BY <2>1, <2>2 DEF Init, CraftTypes
<1>3. SyncTypes
  <2>1. 0 \in 0..MaxGens /\ NoRun \in Int
    BY GateAssumption DEF NoRun
  <2>2. loading \in BOOLEAN /\ transfer \in BOOLEAN
    BY Zenon DEF Init
  <2>3. run \in Int
    <3>1. run = 0
      BY DEF Init
    <3>2. QED BY <3>1
  <2>4. sync = 0 /\ gens = 0 /\ syncRun = NoRun /\ ownRun = NoRun
    BY DEF Init
  <2>5. QED BY <2>1, <2>2, <2>3, <2>4 DEF SyncTypes
<1>4. ChainInv
  <2>1. RadioTypes
    BY GateAssumption DEF Init, RadioTypes, NoRadio, NoChain
  <2>2. QED BY <2>1 DEF Init, ChainInv, RadioNumbered, RadioBusy, NoRadio, NoChain, OnePending,
     WriterHasChain
<1>5. SessionsOnSafeVehicle
  BY DEF Init, SessionsOnSafeVehicle, RadioBusy, NoRadio
<1>6. QED BY <1>1, <1>2, <1>3, <1>4, <1>5 DEF SessionInv

LEMMA SessionStep == GateInv /\ ClosedIdle /\ SessionInv /\ [Next]_vars => SessionInv'
BY NumbersTyped, CraftTyped, SyncTyped, StepRadio, RadioKept, SafeStep DEF SessionInv, ChainInv

LEMMA SessionInvariance == Spec => []SessionInv
<1>1. Init => ClosedIdle
  BY DEF Init, ClosedIdle
<1>2. QED BY <1>1, SessionInit, SessionStep, ClosedStep, GateInvariant, PTL DEF Spec

(* Two radio calibrations never have the same parameter pending, and one     *)
(* that waits for its writes has the chain that will end it (sendParamSet,   *)
(* applyRadioCalibration).                                                   *)
THEOREM ChainsFit == Spec => []ChainsConsistent
<1>1. SessionInv => ChainsConsistent
  BY TypeParts DEF SessionInv, ChainInv, ChainsConsistent
<1>2. QED BY <1>1, SessionInvariance, PTL

(* Calibrations and ESC sessions have their vehicle, those of the radio      *)
(* their chains.                                                             *)
THEOREM SessionsAreConsistent == Spec => []SessionsConsistent
<1>1. SessionsConsistent <=> SessionsOnSafeVehicle /\ ChainsConsistent
  BY DEF SessionsConsistent
<1>2. QED BY <1>1, SessionsAreSafe, ChainsFit, PTL

(* No chain goes on to another PARAM_SET unless the vehicle is the one the   *)
(* calibration began with, ready and disarmed (contextIsSafe).               *)
THEOREM ChainsAreSafe == Spec => ChainsOnSafeVehicle
<1>1. SessionInv /\ [Next]_vars
        => [\A s \in Sessions :
              chains'[s] # NoChain /\ chains'[s] # chains[s] => ContextSafe(chains'[s].print)]_vars
  <2> SUFFICES ASSUME SessionInv, RadioMoves, NEW r \in Sessions,
                      chains'[r] # NoChain, chains'[r] # chains[r]
               PROVE  ContextSafe(chains'[r].print)
    BY StepRadio DEF SessionInv, ChainInv
  <2>1. CASE ChainsDropped
    BY <2>1 DEF ChainsDropped
  <2>2. CASE ChainMoves
    <3>0. PICK s \in Sessions, print \in 0..MaxVgen :
             \E next, waiting :
                /\ ChainOf(s, print, next) /\ (next # NoChain => ContextSafe(print))
                /\ ChainGoes(s, next, waiting)
      BY <2>2, Zenon DEF ChainMoves
    <3>1. PICK next, waiting :
             /\ ChainOf(s, print, next) /\ (next # NoChain => ContextSafe(print))
             /\ ChainGoes(s, next, waiting)
      BY <3>0, Zenon
    <3>2. r = s /\ chains'[r] = next
      BY <3>1 DEF ChainGoes, SessionInv, ChainInv, RadioTypes
    <3>3. next.print = print
      BY <3>1, <3>2 DEF ChainOf
    <3>4. QED BY <3>1, <3>2, <3>3
  <2>3. QED BY <2>1, <2>2 DEF RadioMoves
<1>2. QED BY <1>1, SessionInvariance, PTL DEF Spec, ChainsOnSafeVehicle
=============================================================================
