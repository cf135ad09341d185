------------------------- MODULE CalibrationSession -------------------------
(***************************************************************************)
(* A sensor calibration: CalibrationSession (the state machine of one      *)
(* attempt) with CalibrationSessionManager (who owns it), and what         *)
(* MavlinkBridge does with it: it creates the session, hands it what the   *)
(* vehicle sends, and drops it when the vehicle changes.  The vehicle may  *)
(* send anything at any time: lines of text, acknowledgements, position    *)
(* requests and compass messages may be lost, late or repeated.            *)
(*                                                                         *)
(* The session is a record.  What the code does to it in one step is a     *)
(* composition of functions on that record, in the order of the code.      *)
(***************************************************************************)
EXTENDS Naturals, FiniteSets

CONSTANTS
    Flows,        \* the flows of calibration that are offered
    Clients,      \* pages that may own a session
    Positions,    \* orientations of the vehicle
    Compasses,    \* compasses of the vehicle
    NoClient,
    NoPosition,
    MaxSessions   \* bound: sessions

ASSUME CalibrationAssumption ==
    /\ Flows \subseteq {"px4", "accel", "mag", "oneShot"}
    /\ NoClient \notin Clients /\ NoPosition \notin Positions
    /\ Positions \cap {"none", "start", "cancel", "accept"} = {}
    /\ MaxSessions \in Nat

VARIABLES
    s,            \* the session
    sessions,     \* history: sessions so far
    active,       \* the manager holds the session
    fed,          \* the bridge hands messages to the session
    recover,      \* recoverUntil is set: the owner may come back
    orphanTimer,  \* the timer of the orphan grace
    retained,     \* the last terminal snapshot is kept, its timer runs
    refreshes,    \* history: parameter refreshes requested
    sent          \* history: the command this step sent

vars == <<s, sessions, active, fed, recover, orphanTimer, retained, refreshes, sent>>

Terminal == {"accepted", "done", "failed", "cancelled"}
Phases == {"none", "starting", "running", "waiting_position", "awaiting_accept"} \cup Terminal
Timers == {"start", "idle", "overall", "cancel", "flush", "accept", "settle"}
SideStates == {"hidden", "pending", "active", "done"}
Verdicts == {"not_applicable", "ack_only", "verified"}
Compass == [status : {"none", "running", "success", "bad"}, report : {"none", "success", "saved", "bad"}]
Commands == {"preflight", "magStart", "magCancel", "magAccept"}
Results == {"accepted", "progress", "refused"}

Ended(x) == x.phase \in Terminal
Live == s.phase # "none" /\ ~Ended(s)
Orphaned == s.owner = NoClient

(* What a snapshot shows of the session.                                     *)
View(x) == <<x.phase, x.ver, x.progress, x.sides, x.asked, x.mask, x.mags, x.owner>>

Views == Phases \X Verdicts \X Nat \X [Positions -> SideStates] \X (Positions \cup {NoPosition})
         \X (SUBSET Compasses) \X [Compasses -> Compass] \X (Clients \cup {NoClient})

(* The fields of CalibrationSession; told, acked and open are history (the   *)
(* vehicle said more than acknowledgements; the command that ends the        *)
(* session was approved; a position request waits), shown is what the page   *)
(* was sent last.                                                            *)
Session ==
    [flow : {"px4", "accel", "mag", "oneShot"}, owner : Clients \cup {NoClient},
     phase : Phases, ver : Verdicts, timers : SUBSET Timers, cancelling : BOOLEAN,
     progress : Nat, sides : [Positions -> SideStates],
     asked : Positions \cup {NoPosition}, last : Positions \cup {NoPosition},
     mask : SUBSET Compasses, mags : [Compasses -> Compass],
     accepting : BOOLEAN, told : BOOLEAN, acked : BOOLEAN, open : BOOLEAN,
     shown : Views \cup {<<>>}]

-----------------------------------------------------------------------------
(* The session publishes a snapshot; what was waiting to be published is in  *)
(* it.                                                                       *)
Emit(x) == [x EXCEPT !.timers = @ \ {"flush"}, !.shown = View(x)]

(* Progress alone is published 200 ms later, with what comes until then.     *)
Dirty(x) == [x EXCEPT !.timers = @ \cup {"flush"}]

Cleared(x, ts) == [x EXCEPT !.timers = @ \ ts]
Armed(x, t) == [x EXCEPT !.timers = @ \cup {t}]

(* The end of a session: no timer survives, and the end is published.        *)
Finish(x, phase, ver) == Emit([x EXCEPT !.phase = phase, !.ver = ver, !.timers = {}])
Fail(x, ver) == Finish(x, "failed", ver)

(* Wrong on purpose: the idle watchdog takes the place of every other timer. *)
EvidenceAlone(x) ==
    IF x.cancelling THEN x ELSE [x EXCEPT !.timers = {"idle"}]

(* markEvidence(): the vehicle has said something, so the start watchdog     *)
(* makes room for the idle watchdog, unless a cancellation is on its way.    *)
Evidence(x) ==
    IF x.cancelling THEN x ELSE Armed(Cleared(x, {"start"}), "idle")

Told(x) == [Evidence(x) EXCEPT !.told = TRUE]

(* The first sign of life.                                                   *)
Running(x) == IF x.phase = "starting" THEN Emit([x EXCEPT !.phase = "running"]) ELSE x

AllSides(v) == [p \in Positions |-> v]
NoCompass == [c \in Compasses |-> [status |-> "none", report |-> "none"]]

-----------------------------------------------------------------------------
(* The command that starts a calibration, and the one that cancels it: PX4   *)
(* has one command for both.  Only a compass calibration of ArduPilot and    *)
(* those of PX4 can be cancelled.                                            *)
StartCommand(flow) == IF flow = "mag" THEN "magStart" ELSE "preflight"
CancelCommand(flow) == IF flow = "px4" THEN "preflight" ELSE "magCancel"
CancelSupported(flow) == flow \in {"px4", "mag"}

Fresh(flow, client) ==
    [flow |-> flow, owner |-> client, phase |-> "starting", ver |-> "not_applicable",
     timers |-> {}, cancelling |-> FALSE, progress |-> 0, sides |-> AllSides("hidden"),
     asked |-> NoPosition, last |-> NoPosition, mask |-> {}, mags |-> NoCompass,
     accepting |-> FALSE, told |-> FALSE, acked |-> FALSE, open |-> FALSE,
     shown |-> <<>>]

(* start(): one command; the calibration fails if it cannot be sent.         *)
Begun(flow, client, written) ==
    LET x == Emit(Fresh(flow, client))
        y == Emit(IF flow = "accel" THEN [x EXCEPT !.sides = AllSides("pending")] ELSE x)
    IN  IF ~written THEN Fail(x, "not_applicable")
        ELSE IF flow = "oneShot" THEN Armed(y, "start")
        ELSE Armed(Armed(y, "start"), "overall")

(* Wrong on purpose: a cancellation is sent without a window for its answer. *)
CancelledUnguarded(x, written) ==
    IF ~written THEN Fail(x, "not_applicable")
    ELSE [Cleared(x, {"start", "idle", "overall"}) EXCEPT !.cancelling = TRUE]

(* cancel(): from here on the vehicle has a window to confirm.               *)
Cancelled(x, written) ==
    IF ~written THEN Fail(x, "not_applicable")
    ELSE Armed([Cleared(x, {"start", "idle", "overall"}) EXCEPT !.cancelling = TRUE], "cancel")

(* Wrong on purpose: the position that was asked for stays open.             *)
ConfirmedOpen(x, written) ==
    IF ~written THEN Fail(x, "not_applicable") ELSE Emit([Evidence(x) EXCEPT !.open = FALSE])

(* confirmPosition(): the vehicle is where it was asked to be.               *)
Confirmed(x, written) ==
    IF ~written THEN Fail(x, "not_applicable")
    ELSE Emit([Evidence([x EXCEPT !.asked = NoPosition, !.phase = "running"])
               EXCEPT !.open = FALSE])

(* acceptMag(): the result may be stored.                                    *)
Accepting(x, written) ==
    IF ~written THEN Fail(x, "not_applicable")
    ELSE Emit(Armed([x EXCEPT !.accepting = TRUE], "accept"))

-----------------------------------------------------------------------------
(* Wrong on purpose: an acknowledged acceptance is announced although it was *)
(* not an approval.                                                          *)
AcceptAckedAnyway(x, result) ==
    IF result = "refused" THEN Fail(x, "not_applicable")
    ELSE Armed(Cleared(x, {"accept"}), "settle")

(* Wrong on purpose: the old deadline survives the approval.                 *)
AcceptAckedTwoDeadlines(x, result) ==
    CASE result = "accepted" -> Armed([x EXCEPT !.acked = TRUE], "settle")
      [] result = "progress" -> Armed(Cleared(x, {"settle"}), "accept")
      [] result = "refused" -> Fail(x, "not_applicable")

(* The answer to an acceptance: approved, it settles the session unless the  *)
(* compasses report before; still in progress, the deadline moves.           *)
AcceptAcked(x, result) ==
    CASE result = "accepted" ->
           IF x.acked THEN x ELSE Armed([Cleared(x, {"accept"}) EXCEPT !.acked = TRUE], "settle")
      [] result = "progress" -> Armed(Cleared(x, {"settle"}), "accept")
      [] result = "refused" -> Fail(x, "not_applicable")

StartAcked(x, result) ==
    CASE result = "accepted" /\ x.flow = "oneShot" ->
           Finish([x EXCEPT !.acked = TRUE], "accepted", "ack_only")
      [] result = "progress" /\ x.flow = "oneShot" -> Running(Armed(x, "start"))
      [] result # "refused" /\ x.flow # "oneShot" -> Running(Evidence(x))
      [] result = "refused" -> Fail(x, "not_applicable")

(* On PX4 the answer to a cancellation may be the late answer to the start.  *)
CancelAcked(x, result) ==
    IF x.flow = "px4" \/ result = "progress" THEN x
    ELSE IF result = "accepted" THEN Finish(x, "cancelled", "ack_only")
    ELSE Fail(x, "ack_only")

(* handleCommandAck()                                                        *)
Acked(x, command, result) ==
    IF x.cancelling /\ command = CancelCommand(x.flow) THEN CancelAcked(x, result)
    ELSE IF command = "magAccept" /\ x.accepting THEN AcceptAcked(x, result)
    ELSE IF command = StartCommand(x.flow) THEN StartAcked(x, result)
    ELSE x

(* handleStatustext(): the lines of the PX4 protocol.  A calibration that    *)
(* has started shows the sides its kind needs, none if the version of the    *)
(* protocol is unknown.                                                      *)
LineStarted(x, visible) ==
    Emit([Told(x) EXCEPT !.phase = IF @ = "starting" THEN "running" ELSE @,
                         !.sides = [p \in Positions |-> IF p \in visible THEN "pending" ELSE "hidden"]])

LineSide(x, p, state) ==
    IF x.sides[p] \in {"hidden", state} THEN Told(x)
    ELSE Emit([Told(x) EXCEPT !.sides[p] = state])

(* Wrong on purpose: new progress is not published.                          *)
LineProgressUnseen(x, pct) == [Told(x) EXCEPT !.progress = pct]

LineProgress(x, pct) == Dirty([Told(x) EXCEPT !.progress = pct])

LineDone(x) ==
    Finish([Told(x) EXCEPT !.progress = 100,
                           !.sides = [p \in Positions |-> IF @[p] = "hidden" THEN "hidden" ELSE "done"]],
           "done", "verified")

(* handlePositionRequest(): ArduPilot asks for a position, or is done.       *)
PositionAsked(x, p) ==
    LET before == IF x.last \in Positions \ {p} THEN [x.sides EXCEPT ![x.last] = "done"] ELSE x.sides
    IN  Emit([Told(x) EXCEPT !.sides = [before EXCEPT ![p] = "active"],
                             !.last = p, !.asked = p, !.phase = "waiting_position", !.open = TRUE])

PositionsDone(x) ==
    Finish([Told(x) EXCEPT !.progress = 100, !.sides = AllSides("done"), !.asked = NoPosition],
           "done", "verified")

-----------------------------------------------------------------------------
(* Wrong on purpose: every message says anew which compasses take part.      *)
LatchedAnew(x, c, mask) == [x EXCEPT !.mask = IF mask = {} THEN {c} ELSE mask]

(* ensureMagExpectedMask(): the first message says which compasses take      *)
(* part; one that names none means its own.                                  *)
Latched(x, c, mask) ==
    IF x.mask # {} THEN x ELSE [x EXCEPT !.mask = IF mask = {} THEN {c} ELSE mask]

AllExpected(x, reports) == x.mask # {} /\ \A c \in x.mask : x.mags[c].report \in reports

(* handleMagProgress()                                                       *)
MagProgressed(x, c, mask, status, pct) ==
    LET seen == [Latched(Told(x), c, mask) EXCEPT !.mags[c].status = status]
        moved == [seen EXCEPT !.phase = IF @ = "starting" THEN "running" ELSE @, !.progress = pct]
    IN  IF status = "bad" THEN Fail(seen, "verified")
        ELSE IF x.mags[c].status # status THEN Emit(moved)
        ELSE Dirty(moved)

(* handleMagReport(): while an acceptance is pending, reports of stored      *)
(* values finish the calibration; before it, successes let the operator      *)
(* review them.                                                              *)
MagReported(x, c, mask, report, pct) ==
    LET status == IF report = "bad" THEN "bad" ELSE "success"
        seen == [Latched(Told(x), c, mask)
                 EXCEPT !.mags[c] = [status |-> status, report |-> report]]
        moved == [seen EXCEPT !.progress = pct]
    IN  IF report = "bad" THEN Fail(seen, "verified")
        ELSE IF x.accepting
          THEN IF AllExpected(moved, {"saved"})
                 THEN Finish([moved EXCEPT !.progress = 100], "done", "verified")
                 ELSE Emit(moved)
        ELSE Emit([moved EXCEPT !.phase = IF AllExpected(moved, {"success", "saved"})
                                          THEN "awaiting_accept" ELSE @])

-----------------------------------------------------------------------------
(* Wrong on purpose: a success is not followed by a refresh if the session   *)
(* has lost its owner.                                                       *)
SettledForOwner(x) ==
    /\ s' = x
    /\ IF Ended(x)
         THEN /\ active' = FALSE /\ fed' = FALSE /\ orphanTimer' = FALSE /\ retained' = TRUE
              /\ refreshes' = IF x.phase \in {"done", "accepted"} /\ x.owner # NoClient
                              THEN refreshes + 1 ELSE refreshes
         ELSE UNCHANGED <<active, fed, orphanTimer, retained, refreshes>>

(* onSnapshot() of the manager and emitSnapshot of the bridge: a terminal    *)
(* snapshot ends the session for both; it is retained, and a success is      *)
(* followed by a refresh of the parameters.                                  *)
Settled(x) ==
    /\ s' = x
    /\ IF Ended(x)
         THEN /\ active' = FALSE /\ fed' = FALSE /\ orphanTimer' = FALSE /\ retained' = TRUE
              /\ refreshes' = IF x.phase \in {"done", "accepted"} THEN refreshes + 1 ELSE refreshes
         ELSE UNCHANGED <<active, fed, orphanTimer, retained, refreshes>>

Silent == sent' = "none"
Kept == UNCHANGED <<sessions, recover>>

(* requestStart() of the manager and createCalibrationSession() of the       *)
(* bridge: one session at a time.  The other conditions (the link is free,   *)
(* the vehicle is ready, disarmed and has this flow) can only refuse.        *)
Start(c, flow, written) ==
    /\ ~active /\ sessions < MaxSessions
    /\ sessions' = sessions + 1 /\ recover' = FALSE
    /\ s' = Begun(flow, c, written)
    /\ active' = written /\ fed' = written
    /\ orphanTimer' = FALSE
    /\ retained' = ~written
    /\ sent' = IF written THEN "start" ELSE "none"
    /\ UNCHANGED refreshes

(* handleAction(): only the owner acts, and only on a live session.          *)
Owns(c) == active /\ Live /\ s.owner = c

Cancel(c, written) ==
    /\ Owns(c) /\ CancelSupported(s.flow) /\ ~s.cancelling
    /\ Settled(Cancelled(s, written))
    /\ sent' = IF written THEN "cancel" ELSE "none"
    /\ Kept

ConfirmPosition(c, p, written) ==
    /\ Owns(c) /\ s.flow = "accel"
    /\ s.phase = "waiting_position" /\ s.asked = p
    /\ Settled(Confirmed(s, written))
    /\ sent' = IF written THEN p ELSE "none"
    /\ Kept

AcceptMag(c, written) ==
    /\ Owns(c) /\ s.flow = "mag" /\ s.phase = "awaiting_accept" /\ ~s.accepting
    /\ Settled(Accepting(s, written))
    /\ sent' = IF written THEN "accept" ELSE "none"
    /\ Kept

-----------------------------------------------------------------------------
(* What the vehicle sends reaches a session that the bridge feeds.           *)
Hears == fed /\ Live
Heard(x) == Settled(x) /\ Silent /\ Kept

CommandAck(command, result) == Hears /\ Heard(Acked(s, command, result))

Px4 == Hears /\ s.flow = "px4"
TextStarted(visible) == Px4 /\ Heard(LineStarted(s, visible))
TextSide(p, state) == Px4 /\ Heard(LineSide(s, p, state))
TextSideAlready == Px4 /\ Heard(Told(s))
TextProgress(pct) == Px4 /\ Heard(LineProgress(s, pct))
TextDone == Px4 /\ Heard(LineDone(s))
TextFailed == Px4 /\ Heard(Fail(Told(s), "verified"))
TextCancelled == Px4 /\ Heard(Finish(Told(s), "cancelled", "verified"))

Interactive == Hears /\ s.flow = "accel"
PositionRequest(p) == Interactive /\ Heard(PositionAsked(s, p))
PositionSuccess == Interactive /\ Heard(PositionsDone(s))
PositionFailed == Interactive /\ Heard(Fail(Told(s), "verified"))

Magnetic == Hears /\ s.flow = "mag"
MagProgress(c, mask, status, pct) == Magnetic /\ Heard(MagProgressed(s, c, mask, status, pct))
MagReport(c, mask, report, pct) == Magnetic /\ Heard(MagReported(s, c, mask, report, pct))

-----------------------------------------------------------------------------
(* A watchdog of the session fires.  The window of a cancellation and the    *)
(* wait after an approved acceptance end without a failure.                  *)
Fired(x, t) ==
    CASE t = "flush" -> Emit(x)
      [] t = "cancel" -> Finish(x, "cancelled", "ack_only")
      [] t = "settle" -> Finish(x, "accepted", "ack_only")
      [] OTHER -> Fail(x, "not_applicable")

TimerFires(t) == t \in s.timers /\ Settled(Fired(s, t)) /\ Silent /\ Kept

(* handleClientDisconnected(): the owner is gone, and may come back.         *)
OwnerDisconnects(c) ==
    /\ Owns(c)
    /\ s' = Emit([s EXCEPT !.owner = NoClient])
    /\ recover' = TRUE /\ orphanTimer' = TRUE
    /\ Silent /\ UNCHANGED <<sessions, active, fed, retained, refreshes>>

(* reclaim() with the recovery token.                                        *)
Reclaim(c) ==
    /\ active /\ Live /\ Orphaned /\ recover
    /\ s' = Emit([s EXCEPT !.owner = c])
    /\ recover' = FALSE /\ orphanTimer' = FALSE
    /\ Silent /\ UNCHANGED <<sessions, active, fed, retained, refreshes>>

(* Wrong on purpose: the recovery window stays open.                         *)
OrphanExpiresOpen(written) ==
    /\ orphanTimer /\ active /\ Live /\ "cancel" \notin s.timers
    /\ s' = IF CancelSupported(s.flow) THEN Cancelled(s, written) ELSE Fail(s, "not_applicable")
    /\ orphanTimer' = FALSE
    /\ active' = ~Ended(s') /\ fed' = ~Ended(s')
    /\ retained' = (retained \/ Ended(s'))
    /\ sent' = IF CancelSupported(s.flow) /\ written THEN "cancel" ELSE "none"
    /\ UNCHANGED <<sessions, recover, refreshes>>

(* Wrong on purpose: a session that cannot be cancelled is left alone.       *)
OrphanExpiresIdle(written) ==
    /\ orphanTimer /\ active /\ Live /\ "cancel" \notin s.timers
    /\ s' = IF CancelSupported(s.flow) THEN Cancelled(s, written) ELSE s
    /\ recover' = FALSE /\ orphanTimer' = FALSE
    /\ active' = ~Ended(s') /\ fed' = ~Ended(s')
    /\ retained' = (retained \/ Ended(s'))
    /\ sent' = IF CancelSupported(s.flow) /\ written THEN "cancel" ELSE "none"
    /\ UNCHANGED <<sessions, refreshes>>

(* onOrphanExpired(): nobody came back.  A session that can be cancelled is  *)
(* cancelled, any other one fails.  A cancellation the owner has sent before *)
(* is over by now: its window is as long as the grace and began earlier.     *)
OrphanExpires(written) ==
    /\ orphanTimer /\ active /\ Live /\ "cancel" \notin s.timers
    /\ s' = IF CancelSupported(s.flow) THEN Cancelled(s, written) ELSE Fail(s, "not_applicable")
    /\ recover' = FALSE /\ orphanTimer' = FALSE
    /\ active' = ~Ended(s') /\ fed' = ~Ended(s')
    /\ retained' = (retained \/ Ended(s'))
    /\ sent' = IF CancelSupported(s.flow) /\ written THEN "cancel" ELSE "none"
    /\ UNCHANGED <<sessions, refreshes>>

(* terminate() from the manager: the link is lost, the vehicle was disarmed  *)
(* in an emergency or rebooted; and from the bridge when it has armed.       *)
Interrupted == active /\ Live /\ Settled(Fail(s, "not_applicable")) /\ Silent /\ Kept

(* Wrong on purpose: a new vehicle leaves the session to its watchdogs.      *)
VehicleChangesUntold ==
    /\ fed /\ fed' = FALSE
    /\ UNCHANGED <<s, active, orphanTimer, retained, refreshes>> /\ Silent /\ Kept

(* resetTargetState() and a new identity: the bridge drops the session, then *)
(* ends it.                                                                  *)
VehicleChanges ==
    /\ fed
    /\ IF Live THEN Settled(Fail(s, "not_applicable"))
       ELSE fed' = FALSE /\ UNCHANGED <<s, active, orphanTimer, retained, refreshes>>
    /\ Silent /\ Kept

RetentionExpires ==
    /\ retained /\ retained' = FALSE
    /\ Silent /\ Kept /\ UNCHANGED <<s, active, fed, orphanTimer, refreshes>>

(* destroy() of the manager, then of the bridge.                             *)
Shutdown ==
    /\ active \/ retained
    /\ s' = IF active /\ Live THEN Fail(s, "not_applicable") ELSE s
    /\ active' = FALSE /\ fed' = FALSE /\ orphanTimer' = FALSE /\ retained' = FALSE
    /\ Silent /\ Kept /\ UNCHANGED refreshes

-----------------------------------------------------------------------------
Init ==
    /\ s = [Fresh("oneShot", NoClient) EXCEPT !.phase = "none"]
    /\ sessions = 0 /\ refreshes = 0 /\ sent = "none"
    /\ active = FALSE /\ fed = FALSE /\ recover = FALSE /\ orphanTimer = FALSE /\ retained = FALSE

Pcts == {1, 2}

OwnerStep ==
    \E c \in Clients, written \in BOOLEAN :
        \/ \E flow \in Flows : Start(c, flow, written)
        \/ Cancel(c, written)
        \/ \E p \in Positions : ConfirmPosition(c, p, written)
        \/ AcceptMag(c, written)

TextStep ==
    \/ \E visible \in SUBSET Positions : TextStarted(visible)
    \/ \E p \in Positions, state \in {"active", "done"} : TextSide(p, state)
    \/ TextSideAlready
    \/ \E pct \in Pcts : TextProgress(pct)
    \/ TextDone \/ TextFailed \/ TextCancelled

PositionStep ==
    \/ \E p \in Positions : PositionRequest(p)
    \/ PositionSuccess \/ PositionFailed

MagStep ==
    \E c \in Compasses, mask \in SUBSET Compasses, pct \in Pcts :
        \/ \E status \in {"running", "success", "bad"} : MagProgress(c, mask, status, pct)
        \/ \E report \in {"success", "saved", "bad"} : MagReport(c, mask, report, pct)

AckStep == \E command \in Commands, result \in Results : CommandAck(command, result)

ManagerStep ==
    \/ \E c \in Clients : OwnerDisconnects(c) \/ Reclaim(c)
    \/ \E written \in BOOLEAN : OrphanExpires(written)
    \/ Interrupted \/ VehicleChanges \/ RetentionExpires \/ Shutdown

Next ==
    \/ OwnerStep \/ AckStep \/ TextStep \/ PositionStep \/ MagStep \/ ManagerStep
    \/ \E t \in Timers : TimerFires(t)

Spec == Init /\ [][Next]_vars

(* The two watchdogs that nothing moves fire in the end.                     *)
FairSpec == Spec /\ WF_vars(TimerFires("overall")) /\ WF_vars(TimerFires("cancel"))

-----------------------------------------------------------------------------
(* Types; and the timers of the acceptance share a slot, so that at most one *)
(* of them is armed.                                                         *)
TypeOK ==
    /\ s \in Session /\ ~({"accept", "settle"} \subseteq s.timers)
    /\ sessions \in Nat /\ refreshes \in Nat
    /\ {active, fed, recover, orphanTimer, retained} \subseteq BOOLEAN
    /\ sent \in Positions \cup {"none", "start", "cancel", "accept"}

(* A session without an owner waits for one, or the vehicle has been asked   *)
(* to cancel (onOrphanExpired).                                              *)
OrphanHandled == Live /\ Orphaned => orphanTimer \/ s.cancelling

(* However the vehicle answers, a session that runs has a timer that will    *)
(* end it: the window of its cancellation, or the limit of the whole         *)
(* calibration next to a watchdog for silence; a one-shot has its deadline   *)
(* for the acknowledgement, an acceptance its own (arm, clearSlot), a        *)
(* session without an owner its grace.                                       *)
WatchdogArmed ==
    /\ Live =>
         /\ IF s.flow = "oneShot" THEN "start" \in s.timers
            ELSE IF s.cancelling THEN "cancel" \in s.timers
            ELSE "overall" \in s.timers /\ {"start", "idle"} \cap s.timers # {}
         /\ s.accepting => {"accept", "settle"} \cap s.timers # {}
    /\ OrphanHandled

(* The manager, the bridge and the session agree whether there is a session: *)
(* nobody is blocked by a session that is over, no session that runs is deaf *)
(* (active, activeCalibration, terminal).                                    *)
OneSession ==
    /\ active = Live /\ fed = Live
    /\ orphanTimer => Live /\ Orphaned

(* Session, manager, bridge and timers fit together, and each has its type   *)
(* (arm, clearSlot, onSnapshot).                                             *)
CalibrationConsistent == TypeOK /\ WatchdogArmed /\ OneSession

(* A verdict is verified only if the vehicle said more than acknowledgements; *)
(* without that, accepted means that the command it stands for was approved. *)
(* A compass calibration is done only after the operator has accepted it and *)
(* every compass that takes part has stored its values.                      *)
VerdictHasEvidence ==
    /\ s.ver = "verified" => s.told
    /\ s.phase = "done" => s.ver = "verified"
    /\ s.phase = "accepted" => s.ver = "ack_only" /\ s.acked
    /\ s.phase = "done" /\ s.flow = "mag" => s.accepting /\ AllExpected(s, {"saved"})

(* What the page was sent last is what the session is, unless a timer is     *)
(* armed that will send it (emit, touch, markProgressDirty).                 *)
PublishedIsCurrent ==
    s.phase # "none" => s.shown = View(s) \/ "flush" \in s.timers

(* What the pages are told of an outcome is current and has its evidence.    *)
OutcomesShown == VerdictHasEvidence /\ PublishedIsCurrent

(* The vehicle is told to store compass values only after every compass that *)
(* takes part has reported success, and once (acceptMag, handleMagReport).   *)
AcceptReviewed ==
    [][sent' = "accept" => AllExpected(s, {"success", "saved"}) /\ ~s.accepting]_vars

(* A confirmed position is the one the vehicle asked for last, and each      *)
(* request is answered at most once (confirmPosition).                       *)
EchoAnswersRequest ==
    [][sent' \in Positions => s.open /\ sent' = s.last]_vars

(* What the operator confirms reaches the vehicle only as the answer the     *)
(* vehicle waits for (confirmPosition, acceptMag).                           *)
AnswersAsked == AcceptReviewed /\ EchoAnswersRequest

(* Once the grace is over nobody owns the session again, even while its      *)
(* cancellation settles (onOrphanExpired, reclaim).                          *)
NoReturnAfterExpiry ==
    [][Live /\ Orphaned /\ ~orphanTimer /\ sessions' = sessions => s'.owner = NoClient]_vars

(* What an operator may do: answer what was asked, and only while the session *)
(* is his to answer for (confirmPosition, acceptMag, reclaim).               *)
OperatorBounds == AnswersAsked /\ NoReturnAfterExpiry

(* A session that is more than one acknowledgement ends, whatever the        *)
(* vehicle sends.                                                            *)
SessionEnds == Live /\ s.flow # "oneShot" ~> ~Live

Stage ==
    CASE s.phase = "none" -> "idle"
      [] s.phase \in {"done", "accepted"} -> "success"
      [] s.phase \in {"failed", "cancelled"} -> "failure"
      [] OTHER -> "open"

Ledger == INSTANCE TaskLedger WITH started <- sessions, stage <- Stage, refreshed <- refreshes

(* A session ends once, and a success is followed by one refresh.            *)
LedgerSpec == Ledger!Spec

(* CalibrationSession.ts:228: once a cancellation has been sent, the only    *)
(* interesting evidence is the cancellation itself, or a terminal line.  So  *)
(* a calibration that was cancelled does not end as accepted.  It can: the   *)
(* timers of an acceptance survive the cancellation, and an acceptance may   *)
(* even follow it.                                                           *)
CancelDecides == s.cancelling => s.phase # "accepted"
=============================================================================
