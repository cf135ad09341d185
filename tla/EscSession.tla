----------------------------- MODULE EscSession -----------------------------
(***************************************************************************)
(* The ESC session stack of the local runtime: EscSessionManager (owned    *)
(* session state machine), EscService (jobs on the session),               *)
(* ArduPilotRawTransport / Px4SerialControlTransport (the two ways the     *)
(* link is borrowed), the raw-session half of BrowserConnectionManager,    *)
(* MavlinkBridge.pauseProtocol/resumeProtocol and the safety snapshot that *)
(* LocalRuntimeCoordinator keeps for it.                                   *)
(*                                                                         *)
(* Everything runs in one Worker: a step of this module is one macrotask   *)
(* (a message, a timer, received bytes) with all the promise continuations *)
(* it releases.  What stays suspended between two macrotasks is            *)
(*   - transport.open during its quiet interval        (state "entering"), *)
(*   - one transaction waiting for its answer          (wire),             *)
(*   - a scan waiting to retry a probe                 (step "delay").     *)
(* Time is not measured: a timer that is armed may fire.                   *)
(***************************************************************************)
EXTENDS Naturals

CONSTANTS
    Clients,      \* client ids that may own a session
    NTargets,     \* ESC targets of a scan or a settings job
    MaxTries,     \* ESC_INIT_MAX_ATTEMPTS, probes of one target
    MaxSessions,  \* bound: sessions started
    MaxJobs,      \* bound: jobs a client asks for
    MaxTargetGen, \* bound: changes of the selected vehicle target
    ReadyGate     \* TRUE: commands pass the coordinator's ready() gate;
                  \* FALSE: EscService is driven directly

NoOne == "nobody"

ASSUME EscAssumption ==
    /\ Clients # {} /\ NoOne \notin Clients
    /\ NTargets \in Nat \ {0}
    /\ MaxTries \in Nat \ {0}
    /\ MaxSessions \in Nat
    /\ MaxJobs \in Nat
    /\ MaxTargetGen \in Nat
    /\ ReadyGate \in BOOLEAN

VARIABLES
    link,          \* the serial transport as the Worker sees it
    ready,         \* BrowserConnectionManager.vehicleReady
    raw,           \* BrowserConnectionManager.rawSessionActive
    paused,        \* MavlinkBridge.protocolPaused
    gcsTimer,      \* MavlinkBridge.heartbeatInterval is running
    claimed,       \* the FC holds an ESC UART for us, SERIAL_CONTROL_EXCLUSIVE
    snap,          \* LocalRuntimeCoordinator.escSafetySnapshot
    targetGen,     \* live target fingerprint of the bridge
    destroyed,     \* EscSessionManager.destroyed
    state,         \* InternalSession.state, "none" when this.session is null
    mode,          \* InternalSession.target.mode
    owner,         \* InternalSession.ownerClientId
    confirmed,     \* InternalSession.safetyConfirmed
    base,          \* fingerprint captured at start (safetyBaseline once active)
    job,           \* InternalSession.activeJob with its progress
    wire,          \* who waits for an answer on the raw transport (inFlight)
    fourWay,       \* EscService.fourWayActive has the transport
    idleTimer,     \* InternalSession.idleTimer is armed
    orphanTimer,   \* InternalSession.orphanTimer is armed
    orphanExpired, \* InternalSession.orphanExpired
    started,       \* EscSessionManager.generationCounter
    asked,         \* jobs asked for so far
    ownerLost      \* history: the owner left during this session

linkVars    == <<link, ready, targetGen, destroyed>>
sessionVars == <<state, mode, owner, confirmed, base, orphanExpired, ownerLost>>
jobVars     == <<job, wire>>
timerVars   == <<idleTimer, orphanTimer>>
borrowVars  == <<raw, paused, gcsTimer, claimed, fourWay>>
countVars   == <<started, asked>>
vars == <<linkVars, snap, sessionVars, jobVars, timerVars, borrowVars, countVars>>

-----------------------------------------------------------------------------
Modes == {"passthrough", "px4"}
States == {"none", "entering", "active", "orphaned", "exiting"}
Kinds == {"scan", "read", "write"}
Preamble == {"api", "pass", "version"}
Probing == {"probe", "delay"}
TargetSteps == {"init", "fetch", "store", "verify"}
NoJob == [kind |-> "none", by |-> NoOne, pos |-> 0, step |-> "none", tries |-> 0,
          late |-> FALSE]

(* A job: who asked for it, the target it is at, the request it waits for,   *)
(* the attempt that is, and whether perTarget holds a timeout.               *)
JobRecords ==
    [kind : Kinds, by : Clients, pos : 1..NTargets,
     step : Preamble \cup Probing \cup TargetSteps, tries : 1..MaxTries, late : BOOLEAN]
Snapshots ==
    [armed : {"unknown", "yes", "no"}, ready : BOOLEAN, fresh : BOOLEAN, gen : 0..MaxTargetGen]

NewJob(kind, c, q) ==
    [kind |-> kind, by |-> c, pos |-> q, step |-> IF kind = "scan" THEN "api" ELSE "init",
     tries |-> 1, late |-> FALSE]

(* What the coordinator knows of a target it has not heard from.             *)
NoEvidence == [armed |-> "unknown", ready |-> FALSE, fresh |-> FALSE, gen |-> targetGen]

(* What is left of the evidence once the bridge has reset its target.        *)
Forgotten == [snap EXCEPT !.armed = "unknown", !.ready = FALSE, !.gen = targetGen]

(* The entry rules of escSafetyViolation, negated: the snapshot is recent,   *)
(* disarmed and ready.                                                       *)
EntrySafe == snap.fresh /\ snap.armed = "no" /\ snap.ready

(* With the baseline that is bound when the session becomes active: the      *)
(* snapshot still shows the target the session was authorized for.           *)
Safe == EntrySafe /\ snap.gen = base

(* LocalRuntimeCoordinator.ready() as the gate of every ESC command but a    *)
(* direct start.                                                             *)
Admitted == ReadyGate => link = "up" /\ ready
-----------------------------------------------------------------------------
Init ==
    /\ link = "down" /\ ready = FALSE /\ targetGen = 0 /\ destroyed = FALSE
    /\ snap = NoEvidence
    /\ state = "none" /\ mode = "passthrough" /\ owner = NoOne
    /\ confirmed = FALSE /\ base = 0 /\ orphanExpired = FALSE /\ ownerLost = FALSE
    /\ job = NoJob /\ wire = "none"
    /\ idleTimer = FALSE /\ orphanTimer = FALSE
    /\ raw = FALSE /\ paused = FALSE /\ gcsTimer = FALSE /\ claimed = FALSE
    /\ fourWay = FALSE
    /\ started = 0 /\ asked = 0
-----------------------------------------------------------------------------
(* The session object goes, its job is aborted, its timers are cleared.      *)
DropSession ==
    /\ state' = "none" /\ owner' = NoOne /\ confirmed' = FALSE
    /\ orphanExpired' = FALSE /\ ownerLost' = FALSE
    /\ job' = NoJob /\ wire' = "none"
    /\ idleTimer' = FALSE /\ orphanTimer' = FALSE
    /\ UNCHANGED <<mode, base>>

(* Wrong on purpose: the raw handle is released, the protocol not resumed.   *)
ReturnLinkStaysPaused ==
    /\ raw' = FALSE /\ claimed' = FALSE /\ fourWay' = FALSE
    /\ UNCHANGED <<paused, gcsTimer>>

(* transport.close: release the raw handle and resume MAVLink, or give every *)
(* claimed UART back.                                                        *)
ReturnLink ==
    /\ raw' = FALSE /\ paused' = FALSE /\ claimed' = FALSE
    /\ gcsTimer' = (link = "up")
    /\ fourWay' = FALSE

(* Wrong on purpose: the frozen evidence survives the session.               *)
TeardownKeepsEvidence == DropSession /\ ReturnLink /\ UNCHANGED snap

(* finalizeSession after the protocol exit.  resumeProtocol resets the       *)
(* target, so the coordinator's evidence is gone as well.                    *)
Teardown ==
    /\ DropSession
    /\ ReturnLink
    /\ snap' = IF paused THEN Forgotten ELSE snap

(* Wrong on purpose: the exit does not look at the in-flight slot.           *)
CanSendExitAlways(busy) == fourWay /\ Safe

(* The InterfaceExit that beforeTransportClose sends is one more transaction *)
(* of the transport: it is refused while another one is in flight and by the *)
(* transport's own safety check.                                             *)
CanSendExit(busy) == fourWay /\ ~busy /\ Safe

(* finalizeSession, up to the first point where it can be suspended.  A job  *)
(* that waits to retry a probe goes on waiting during the protocol exit.     *)
Finalize(busy, remaining) ==
    IF CanSendExit(busy)
    THEN /\ state' = "exiting" /\ confirmed' = FALSE
         /\ idleTimer' = FALSE /\ orphanTimer' = FALSE
         /\ fourWay' = FALSE
         /\ wire' = "exit" /\ job' = remaining
         /\ UNCHANGED <<mode, owner, base, orphanExpired, ownerLost,
                        raw, paused, gcsTimer, claimed, snap>>
    ELSE Teardown

(* Wrong on purpose: no safety check per transaction.                        *)
TransactUnchecked(next) ==
    /\ job' = next /\ wire' = "job"
    /\ UNCHANGED <<sessionVars, timerVars, borrowVars, snap>>

(* Put the next request of a job on the wire.  ArduPilotRawTransport.transact *)
(* re-checks the snapshot first and aborts the session on a violation.        *)
Transact(next) ==
    IF Safe
    THEN /\ job' = next /\ wire' = "job"
         /\ UNCHANGED <<sessionVars, timerVars, borrowVars, snap>>
    ELSE Teardown

(* Wrong on purpose: the watchdog is not armed again after a job, or the     *)
(* grace that expired during the job is forgotten.                           *)
EndJobForgetsIdle ==
    IF state = "orphaned" /\ orphanExpired
    THEN Finalize(FALSE, NoJob)
    ELSE /\ job' = NoJob /\ wire' = "none"
         /\ UNCHANGED <<sessionVars, timerVars, borrowVars, snap>>
EndJobForgetsOrphan ==
    /\ job' = NoJob /\ wire' = "none"
    /\ idleTimer' = (idleTimer \/ state = "active")
    /\ UNCHANGED <<sessionVars, orphanTimer, borrowVars, snap>>

(* The finally block of runExclusiveJob.                                     *)
EndJob ==
    IF state = "orphaned" /\ orphanExpired
    THEN Finalize(FALSE, NoJob)
    ELSE /\ job' = NoJob /\ wire' = "none"
         /\ idleTimer' = (idleTimer \/ state = "active")
         /\ UNCHANGED <<sessionVars, orphanTimer, borrowVars, snap>>
-----------------------------------------------------------------------------
(* The link and the vehicle.                                                 *)

(* LocalRuntimeCoordinator.open: fresh services on a fresh bridge.           *)
LinkUp ==
    /\ link = "down"
    /\ link' = "up" /\ destroyed' = FALSE /\ snap' = NoEvidence /\ gcsTimer' = TRUE
    /\ UNCHANGED <<ready, targetGen, sessionVars, jobVars, timerVars, countVars,
                   raw, paused, claimed, fourWay>>

(* LocalRuntimeCoordinator.close: the services are destroyed with the        *)
(* transport already refusing writes, so nothing more reaches the FC, and    *)
(* every object of the session is dropped together with its bridge.          *)
LinkDown ==
    /\ link = "up"
    /\ link' = "down" /\ ready' = FALSE
    /\ DropSession
    /\ raw' = FALSE /\ paused' = FALSE /\ gcsTimer' = FALSE /\ claimed' = FALSE
    /\ fourWay' = FALSE
    /\ snap' = NoEvidence
    /\ UNCHANGED <<targetGen, destroyed, countVars>>

(* A heartbeat of the selected autopilot.  The bridge is not fed while the   *)
(* protocol is paused.  An armed heartbeat is a safety boundary for the      *)
(* session before it becomes part of the snapshot.                           *)
Heartbeat(armed) ==
    /\ link = "up" /\ ~paused
    /\ ready' = TRUE
    /\ IF armed = "yes" /\ state # "none"
       THEN DropSession /\ ReturnLink
       ELSE UNCHANGED <<sessionVars, jobVars, timerVars, borrowVars>>
    /\ snap' = [armed |-> armed, ready |-> TRUE, fresh |-> TRUE, gen |-> targetGen]
    /\ UNCHANGED <<link, targetGen, destroyed, countVars>>

(* The 15 s heartbeat watchdog lowers vehicleReady.                          *)
HeartbeatTimeout ==
    /\ link = "up" /\ ready
    /\ ready' = FALSE
    /\ snap' = IF paused THEN snap ELSE [snap EXCEPT !.ready = FALSE]
    /\ UNCHANGED <<link, targetGen, destroyed, sessionVars, jobVars, timerVars,
                   borrowVars, countVars>>

(* Another target is selected, or the selected one is reset: a new           *)
(* fingerprint, and no armed state until its first heartbeat.                *)
TargetChange ==
    /\ link = "up" /\ ~paused /\ targetGen < MaxTargetGen
    /\ targetGen' = targetGen + 1
    /\ snap' = [snap EXCEPT !.armed = "unknown", !.ready = FALSE, !.gen = targetGen + 1]
    /\ UNCHANGED <<link, ready, destroyed, sessionVars, jobVars, timerVars,
                   borrowVars, countVars>>

(* ESC_SAFETY_SNAPSHOT_MAX_AGE_MS has passed since the last heartbeat.       *)
SnapshotAges ==
    /\ snap.fresh
    /\ snap' = [snap EXCEPT !.fresh = FALSE]
    /\ UNCHANGED <<linkVars, sessionVars, jobVars, timerVars, borrowVars, countVars>>
-----------------------------------------------------------------------------
(* Session life cycle.                                                       *)

(* EscSessionManager.start up to the suspension inside transport.open.  A    *)
(* refused start leaves no trace.                                            *)
Start(c, m) ==
    /\ link = "up" /\ ready /\ state = "none" /\ ~destroyed
    /\ started < MaxSessions
    /\ EntrySafe
    /\ state' = "entering" /\ mode' = m /\ owner' = c /\ confirmed' = TRUE
    /\ base' = snap.gen /\ orphanExpired' = FALSE /\ ownerLost' = FALSE
    /\ started' = started + 1
    /\ \/ /\ m = "passthrough"
          /\ paused' = TRUE /\ raw' = TRUE /\ gcsTimer' = FALSE /\ ready' = FALSE
          /\ UNCHANGED claimed
       \/ /\ m = "px4"
          /\ claimed' = TRUE
          /\ UNCHANGED <<paused, raw, gcsTimer, ready>>
    /\ UNCHANGED <<link, snap, targetGen, destroyed, jobVars, timerVars,
                   fourWay, asked>>

(* The quiet interval of open elapses: the session is active and EscService  *)
(* scans at once.  Only the raw transport can scan; the PX4 one refuses      *)
(* inside the job.                                                           *)
OpenSettled ==
    /\ state = "entering"
    /\ IF Safe
       THEN /\ state' = "active"
            /\ IF mode = "passthrough"
               THEN job' = NewJob("scan", owner, 1) /\ wire' = "job" /\ UNCHANGED idleTimer
               ELSE idleTimer' = TRUE /\ UNCHANGED <<job, wire>>
            /\ UNCHANGED <<mode, owner, confirmed, base, orphanExpired, ownerLost,
                           orphanTimer, borrowVars, snap>>
       ELSE Teardown
    /\ UNCHANGED <<linkVars, countVars>>

(* EscSessionManager.exit: refused while a job runs.                         *)
OwnerExit(c) ==
    /\ Admitted
    /\ state \in {"entering", "active", "orphaned"} /\ owner = c /\ job = NoJob
    /\ Finalize(FALSE, NoJob)
    /\ UNCHANGED <<linkVars, countVars>>

(* Wrong on purpose: the acknowledgement outlives its owner.                 *)
OwnerDisconnectsStaysConfirmed(c) ==
    /\ state \in {"entering", "active", "orphaned"} /\ owner = c
    /\ IF job = NoJob
       THEN Finalize(FALSE, NoJob)
       ELSE /\ state' = "orphaned" /\ ownerLost' = TRUE
            /\ idleTimer' = FALSE /\ orphanTimer' = TRUE
            /\ UNCHANGED <<mode, owner, confirmed, base, orphanExpired, jobVars, borrowVars,
                           snap>>
    /\ UNCHANGED <<linkVars, countVars>>

(* handleClientDisconnected: without a job the session ends; with one, the   *)
(* job may finish its atomic unit while the session waits to be reclaimed.   *)
OwnerDisconnects(c) ==
    /\ state \in {"entering", "active", "orphaned"} /\ owner = c
    /\ IF job = NoJob
       THEN Finalize(FALSE, NoJob)
       ELSE /\ confirmed' = FALSE /\ state' = "orphaned" /\ ownerLost' = TRUE
            /\ idleTimer' = FALSE /\ orphanTimer' = TRUE
            /\ UNCHANGED <<mode, owner, base, orphanExpired, jobVars, borrowVars, snap>>
    /\ UNCHANGED <<linkVars, countVars>>

(* reclaim with the recovery token.                                          *)
Reclaim(c) ==
    /\ state = "orphaned"
    /\ state' = "active" /\ owner' = c /\ orphanExpired' = FALSE
    /\ orphanTimer' = FALSE
    /\ idleTimer' = (idleTimer \/ job = NoJob)
    /\ UNCHANGED <<linkVars, snap, mode, confirmed, base, ownerLost, jobVars, borrowVars,
                   countVars>>

(* prepareDisconnect: the service is destroyed while the link is still up.   *)
PrepareDisconnect ==
    /\ link = "up" /\ ~destroyed
    /\ destroyed' = TRUE
    /\ IF state \in {"none", "exiting"}
       THEN UNCHANGED <<sessionVars, jobVars, timerVars, borrowVars, snap>>
       ELSE Finalize(wire = "job", job)
    /\ UNCHANGED <<link, ready, targetGen, countVars>>

(* The idle watchdog.  noteActivity can arm it during a job; the callback    *)
(* then finds the job and does nothing.                                      *)
IdleFires ==
    /\ idleTimer
    /\ IF state = "active" /\ job = NoJob
       THEN Finalize(FALSE, NoJob)
       ELSE /\ idleTimer' = FALSE
            /\ UNCHANGED <<sessionVars, jobVars, orphanTimer, borrowVars, snap>>
    /\ UNCHANGED <<linkVars, countVars>>

(* Wrong on purpose: the grace timer does not wait for the job.              *)
OrphanFiresAtOnce ==
    /\ orphanTimer /\ state = "orphaned"
    /\ Finalize(wire = "job", job)
    /\ UNCHANGED <<linkVars, countVars>>

(* The orphan grace elapses.  With a job running the teardown waits for it.  *)
OrphanFires ==
    /\ orphanTimer /\ state = "orphaned"
    /\ IF job = NoJob
       THEN Finalize(FALSE, NoJob)
       ELSE /\ orphanExpired' = TRUE /\ orphanTimer' = FALSE
            /\ UNCHANGED <<state, mode, owner, confirmed, base, ownerLost, jobVars,
                           idleTimer, borrowVars, snap>>
    /\ UNCHANGED <<linkVars, countVars>>

(* The InterfaceExit is answered or times out after one second.              *)
ExitDone ==
    /\ wire = "exit"
    /\ Teardown
    /\ UNCHANGED <<linkVars, countVars>>
-----------------------------------------------------------------------------
(* Jobs.                                                                     *)

(* The next target of the job, at its boundary: the owner is checked, for a  *)
(* write the acknowledgement too, and then the snapshot.  A refused target   *)
(* costs no request, so any later one may be next, or none.                  *)
NextTarget(j, done) ==
    \/ \E q \in done + 1 .. NTargets :
          IF j.by = owner /\ (j.kind = "write" => confirmed)
          THEN Transact([j EXCEPT !.pos = q, !.step = "init", !.tries = 1])
          ELSE EndJob
    \/ EndJob

(* Wrong on purpose: one channel too many.                                   *)
NextProbeTooFar(j) ==
    IF j.pos <= NTargets
    THEN Transact([j EXCEPT !.pos = @ + 1, !.step = "probe", !.tries = 1])
    ELSE NextTarget(j, 0)

(* The next channel of detectEscs, or the settings of what it found.         *)
NextProbe(j) ==
    IF j.pos < NTargets
    THEN Transact([j EXCEPT !.pos = @ + 1, !.step = "probe", !.tries = 1])
    ELSE NextTarget(j, 0)

(* handleRuntimeCommand for esc_devices_scan, esc_settings_read and _write:  *)
(* ownership, the write acknowledgement and noteActivity come first.  Then   *)
(* the command may be refused (no settings transport, no target, not active, *)
(* busy) and was activity only, or it runs runExclusiveJob.                  *)
Refused(kind) ==
    \/ state # "active" \/ job # NoJob
    \/ mode = "px4" /\ kind # "scan"

Command(c, kind) ==
    /\ Admitted /\ asked < MaxJobs
    /\ state # "none" /\ owner = c /\ (kind = "write" => confirmed)
    /\ asked' = asked + 1
    /\ \/ /\ Refused(kind)
          /\ idleTimer' = TRUE
          /\ UNCHANGED <<sessionVars, jobVars, orphanTimer, borrowVars, snap>>
       \/ /\ ~Refused(kind) /\ ~Safe
          /\ Teardown
       \/ /\ ~Refused(kind) /\ Safe /\ mode = "px4"
          /\ idleTimer' = TRUE
          /\ UNCHANGED <<sessionVars, jobVars, orphanTimer, borrowVars, snap>>
       \/ /\ ~Refused(kind) /\ Safe /\ mode = "passthrough"
          /\ \E q \in 1..NTargets :
                /\ kind = "scan" => q = 1
                /\ job' = NewJob(kind, c, q)
          /\ wire' = "job" /\ idleTimer' = FALSE
          /\ UNCHANGED <<sessionVars, orphanTimer, borrowVars, snap>>
    /\ UNCHANGED <<linkVars, started>>

Running(s) == wire = "job" /\ job.step = s

(* The preamble of a scan: MSP_API_VERSION, SET_PASSTHROUGH, then the 4-way  *)
(* version.  After the second one the FC is known to be in its 4-way loop.   *)
PreambleReply ==
    \/ Running("api") /\ Transact([job EXCEPT !.step = "pass"])
    \/ /\ Running("pass") /\ Safe
       /\ job' = [job EXCEPT !.step = "version"] /\ fourWay' = TRUE
       /\ UNCHANGED <<wire, sessionVars, timerVars, raw, paused, gcsTimer, claimed, snap>>
    \/ Running("pass") /\ ~Safe /\ Teardown
    \/ Running("version") /\ Transact([job EXCEPT !.step = "probe"])

(* initFlash of a probe is answered, or fails for good.                      *)
ProbeReply == Running("probe") /\ NextProbe(job)

(* A request of a target is answered.  An identity or layout that does not   *)
(* fit fails the target.                                                     *)
TargetReply ==
    \/ Running("init") /\ Transact([job EXCEPT !.step = "fetch"])
    \/ Running("fetch") /\ job.kind = "write" /\ Transact([job EXCEPT !.step = "store"])
    \/ Running("fetch") /\ job.kind # "write" /\ NextTarget(job, job.pos)
    \/ Running("store") /\ Transact([job EXCEPT !.step = "verify"])
    \/ Running("verify") /\ NextTarget(job, job.pos)

Reply == (PreambleReply \/ ProbeReply \/ TargetReply) /\ UNCHANGED <<linkVars, countVars>>

(* A request is refused by the peer or times out (late).  It ends the scan   *)
(* in its preamble, is retried in a probe and fails the target elsewhere.    *)
Fails(late) ==
    /\ wire = "job"
    /\ \/ job.step \in Preamble /\ EndJob
       \/ /\ job.step = "probe" /\ job.tries < MaxTries
          /\ job' = [job EXCEPT !.step = "delay"] /\ wire' = "none"
          /\ UNCHANGED <<sessionVars, timerVars, borrowVars, snap>>
       \/ job.step = "probe" /\ job.tries = MaxTries /\ NextProbe(job)
       \/ /\ job.step \in TargetSteps
          /\ NextTarget([job EXCEPT !.late = @ \/ late], job.pos)
    /\ UNCHANGED <<linkVars, countVars>>

(* The retry delay of a probe elapses.  During the protocol exit the         *)
(* transport is busy, which counts as one more failed attempt.               *)
DelayFires ==
    /\ job.step = "delay"
    /\ \/ /\ wire = "none"
          /\ Transact([job EXCEPT !.step = "probe", !.tries = @ + 1])
       \/ /\ wire = "exit"
          /\ job' = IF job.tries + 1 < MaxTries THEN [job EXCEPT !.tries = @ + 1]
                    ELSE IF job.pos < NTargets /\ MaxTries > 1
                    THEN [job EXCEPT !.pos = @ + 1, !.tries = 1]
                    ELSE NoJob
          /\ UNCHANGED <<wire, sessionVars, timerVars, borrowVars, snap>>
    /\ UNCHANGED <<linkVars, countVars>>
-----------------------------------------------------------------------------
Environment ==
    \/ LinkUp \/ LinkDown \/ HeartbeatTimeout \/ TargetChange \/ SnapshotAges
    \/ \E armed \in {"yes", "no"} : Heartbeat(armed)

Client ==
    \/ \E c \in Clients : \/ \E m \in Modes : Start(c, m)
                          \/ OwnerExit(c) \/ OwnerDisconnects(c) \/ Reclaim(c)
                          \/ \E kind \in Kinds : Command(c, kind)
    \/ PrepareDisconnect

Transfer == Reply \/ (\E late \in BOOLEAN : Fails(late)) \/ DelayFires

Next ==
    \/ Environment \/ Client \/ Transfer
    \/ OpenSettled \/ IdleFires \/ OrphanFires \/ ExitDone

Spec == Init /\ [][Next]_vars

(* Every armed timer fires and every transaction is answered or times out;   *)
(* nothing is assumed of the client, the vehicle or the link.                *)
FairSpec ==
    /\ Spec
    /\ WF_vars(OpenSettled) /\ WF_vars(Transfer) /\ WF_vars(ExitDone)
    /\ WF_vars(IdleFires) /\ WF_vars(OrphanFires)
-----------------------------------------------------------------------------
TypeOK ==
    /\ link \in {"down", "up"} /\ ready \in BOOLEAN
    /\ targetGen \in 0..MaxTargetGen /\ destroyed \in BOOLEAN
    /\ snap \in Snapshots
    /\ state \in States /\ mode \in Modes /\ owner \in Clients \cup {NoOne}
    /\ confirmed \in BOOLEAN /\ base \in 0..MaxTargetGen
    /\ orphanExpired \in BOOLEAN /\ ownerLost \in BOOLEAN
    /\ job \in JobRecords \cup {NoJob} /\ wire \in {"none", "job", "exit"}
    /\ idleTimer \in BOOLEAN /\ orphanTimer \in BOOLEAN
    /\ raw \in BOOLEAN /\ paused \in BOOLEAN /\ gcsTimer \in BOOLEAN
    /\ claimed \in BOOLEAN /\ fourWay \in BOOLEAN
    /\ started \in 0..MaxSessions /\ asked \in 0..MaxJobs

(* The raw bytes of the serial link have one user: MAVLink speaks on it      *)
(* (heartbeat timer, parser) exactly while no passthrough session has        *)
(* borrowed it, readiness is never reported while it is lent out, and the    *)
(* borrow never outlives the session object, whatever path ended it          *)
(* (finalizeSession, pauseProtocol, resumeProtocol, beginRawSession).        *)
LinkOwnership ==
    /\ raw = paused
    /\ paused = (state # "none" /\ mode = "passthrough")
    /\ claimed = (state # "none" /\ mode = "px4")
    /\ gcsTimer = (link = "up" /\ ~paused)
    /\ raw => ~ready
    /\ state # "none" => link = "up" /\ owner \in Clients
    /\ fourWay => raw

(* The one in-flight slot of the transport: whoever waits for an answer is   *)
(* the running job of a live session or the InterfaceExit of a closing one,  *)
(* so no answer is ever delivered to a job of a session that is gone and the *)
(* exit never shares the wire with a job's request (transact's inFlight).  A *)
(* probe waits for a retry only while it has attempts left.                  *)
TransactionOwner ==
    /\ wire = "job" <=> job # NoJob /\ job.step # "delay"
    /\ wire = "exit" <=> state = "exiting"
    /\ job # NoJob => state \in {"active", "orphaned", "exiting"} /\ mode = "passthrough"
    /\ job # NoJob /\ job.step = "delay" => job.tries < MaxTries

(* A session that waits for somebody has a timer that ends the wait, so a    *)
(* borrowed link cannot be forgotten: an active session without a job has    *)
(* its idle watchdog, an orphaned one its grace timer, and an expired grace  *)
(* always leaves a job whose end finalizes the session.                      *)
WatchdogArmed ==
    /\ state = "active" /\ job = NoJob => idleTimer
    /\ state = "orphaned" => orphanTimer \/ orphanExpired
    /\ orphanExpired => state = "exiting" \/ (state = "orphaned" /\ job # NoJob)

(* Session, lease of the link, in-flight slot and watchdogs fit together,    *)
(* and each has its type (finalizeSession, transact, armIdleTimer).          *)
SessionConsistent == TypeOK /\ LinkOwnership /\ TransactionOwner /\ WatchdogArmed

(* "a reclaimed session cannot start another settings write until the        *)
(* operator exits and confirms again" (handleClientDisconnected): once the   *)
(* owner has left during a session, no settings write of that session goes   *)
(* on to a target it had not begun, whoever owns the session then.           *)
NoNewTargetAfterOwnerLoss ==
    [][ownerLost /\ ownerLost' /\ job'.kind = "write" => job'.pos = job.pos]_vars

(* Per-transaction safety boundary: no request of a job is put on the wire   *)
(* unless the vehicle evidence bound at the session's start still holds at   *)
(* that moment (transact's checkSafety, assertSessionSafety).                *)
RequestsOnlyWhileSafe ==
    [][wire' = "job" /\ job' # job => EntrySafe /\ snap.gen = base' /\ state' # "exiting"]_vars

(* "never interrupt the current safe atomic unit": a session whose job has a *)
(* request in flight ends only because the link went, the service was shut   *)
(* down, or the safety evidence failed; no watchdog and no owner loss cuts   *)
(* into a store that waits for its verification.                             *)
AtomicUnitUndisturbed ==
    [][wire = "job" /\ job.step = "store" /\ state' \in {"none", "exiting"}
         => link' = "down" \/ (destroyed' /\ ~destroyed) \/ ~Safe \/ orphanExpired]_vars

(* Both boundaries of a transaction: none begins without its evidence, and   *)
(* none that stores is cut off (transact, onOrphanExpired).                  *)
SafetyBoundaries == RequestsOnlyWhileSafe /\ AtomicUnitUndisturbed

(* The borrowed link always comes back to MAVLink, and no session waits for  *)
(* ever: timers and transaction timeouts alone guarantee it.                 *)
LinkReturned == paused ~> ~paused
OrphanResolved == (state = "orphaned") ~> (state # "orphaned")
SessionsResolve == LinkReturned /\ OrphanResolved

(* scan: "Orderly teardown must send InterfaceExit before the raw link is    *)
(* returned to MAVLink", with the vehicle evidence still good and the link   *)
(* still up.                                                                 *)
InterfaceExitFirst ==
    [][fourWay /\ ~fourWay' /\ Safe /\ link' = "up" => wire' = "exit"]_vars

(* The gate of startRequiresReadyTarget is about esc_session_start; the      *)
(* owner of an idle active session can exit it and use its jobs.             *)
OwnerCommandsAdmitted ==
    state = "active" /\ job = NoJob /\ Safe => Admitted

(* A batch does not go on to its next target after a timeout                 *)
(* (docs/ESC-COMPATIBILITY.md).                                              *)
BatchStopsAtTimeout == job.kind = "write" /\ job.step = "init" => ~job.late
-----------------------------------------------------------------------------
(* The abstract lease this module implements.                                *)
Holder == IF link = "down" THEN "nobody" ELSE IF paused THEN "esc" ELSE "mavlink"
Evidence == IF snap.armed = "no" /\ snap.ready THEN "disarmed" ELSE "other"
Lease == INSTANCE LinkLease WITH holder <- Holder, evidence <- Evidence
LeaseSpec == Lease!Spec
=============================================================================
