-------------------------- MODULE EscSession_proofs --------------------------
(* Proofs about EscSession, EscSettings and Am32Layout, for every value of   *)
(* their constants.                                                          *)
EXTENDS EscSession, EscSettings, Am32Layout, SequenceTheorems, TLAPS

(* The inductive invariant: the invariants of the module lean on each other. *)
(* That a passthrough session holds the link needs the job discipline, and   *)
(* the job discipline needs the types.                                       *)
IInv == TypeOK /\ LinkOwnership /\ TransactionOwner /\ WatchdogArmed

(* The variables no session operation touches.                               *)
Frame == link' = link /\ targetGen' = targetGen /\ destroyed' \in BOOLEAN
         /\ started' \in 0..MaxSessions /\ asked' \in 0..MaxJobs /\ ready' = ready

LEMMA ConstantsOK ==
    /\ NTargets \in Nat \ {0} /\ MaxTries \in Nat \ {0} /\ MaxSessions \in Nat
    /\ MaxJobs \in Nat /\ MaxTargetGen \in Nat /\ NoOne \notin Clients
BY EscAssumption

(* NoJob is not a job: its owner is nobody.                                  *)
LEMMA NoJobIsNone == NoJob \notin JobRecords
BY ConstantsOK DEF NoJob, JobRecords

(* A teardown leaves no session and gives the link back.                     *)
LEMMA TeardownKeeps ==
    ASSUME IInv, Teardown, Frame
    PROVE  IInv'
BY ConstantsOK DEF IInv, TypeOK, LinkOwnership, TransactionOwner, WatchdogArmed, Teardown,
   DropSession, ReturnLink, Forgotten, Frame, Snapshots, States, Modes

(* finalizeSession, from any live session.                                   *)
LEMMA FinalizeKeeps ==
    ASSUME IInv, Frame, NEW busy \in BOOLEAN, NEW remaining \in JobRecords \cup {NoJob},
           state \in {"entering", "active", "orphaned"},
           remaining # NoJob => remaining = job /\ (job.step = "delay" \/ busy),
           Finalize(busy, remaining)
    PROVE  IInv'
<1>1. CASE CanSendExit(busy)
  BY <1>1, NoJobIsNone DEF IInv, TypeOK, LinkOwnership, TransactionOwner, WatchdogArmed,
     Finalize, CanSendExit, Frame, States
<1>2. CASE ~CanSendExit(busy)
  BY <1>2, TeardownKeeps DEF Finalize
<1>3. QED BY <1>1, <1>2

(* The end of a job in a session that is not closing.                        *)
LEMMA EndJobKeeps ==
    ASSUME IInv, Frame, state \in {"active", "orphaned"}, EndJob
    PROVE  IInv'
<1>1. CASE state = "orphaned" /\ orphanExpired
  BY <1>1, FinalizeKeeps DEF EndJob
<1>2. CASE ~(state = "orphaned" /\ orphanExpired)
  BY <1>2 DEF EndJob, IInv, TypeOK, LinkOwnership, TransactionOwner, WatchdogArmed,
     Frame, sessionVars, borrowVars, States
<1>3. QED BY <1>1, <1>2

(* The next request of a job.                                                *)
LEMMA TransactKeeps ==
    ASSUME IInv, Frame, NEW next \in JobRecords, next.step # "delay",
           state \in {"active", "orphaned"}, mode = "passthrough", job # NoJob,
           Transact(next)
    PROVE  IInv'
<1>1. CASE Safe
  BY <1>1, NoJobIsNone DEF Transact, IInv, TypeOK, LinkOwnership, TransactionOwner,
     WatchdogArmed, Frame, sessionVars, timerVars, borrowVars, States
<1>2. CASE ~Safe
  BY <1>2, TeardownKeeps DEF Transact
<1>3. QED BY <1>1, <1>2

(* Moving a job on leaves it a job.                                          *)
LEMMA JobMoves ==
    ASSUME NEW j \in JobRecords, NEW q \in 1..NTargets, NEW t \in 1..MaxTries,
           NEW s \in Preamble \cup Probing \cup TargetSteps
    PROVE  /\ [j EXCEPT !.pos = q, !.step = s, !.tries = t] \in JobRecords
           /\ [j EXCEPT !.step = s] \in JobRecords
           /\ [j EXCEPT !.step = s, !.tries = t] \in JobRecords
BY DEF JobRecords

LEMMA NextTargetKeeps ==
    ASSUME IInv, Frame, NEW j \in JobRecords, NEW done \in 0..NTargets,
           state \in {"active", "orphaned"}, mode = "passthrough", job # NoJob,
           NextTarget(j, done)
    PROVE  IInv'
<1>1. CASE EndJob
  BY <1>1, EndJobKeeps
<1>2. ASSUME NEW q \in done + 1 .. NTargets,
             Transact([j EXCEPT !.pos = q, !.step = "init", !.tries = 1])
      PROVE  IInv'
  <2> DEFINE next == [j EXCEPT !.pos = q, !.step = "init", !.tries = 1]
  <2>1. q \in 1..NTargets /\ 1 \in 1..MaxTries /\ "init" \in TargetSteps
    BY ConstantsOK DEF TargetSteps
  <2>2. next \in JobRecords /\ next.step # "delay"
    BY <2>1, JobMoves DEF JobRecords
  <2>3. QED BY <1>2, <2>2, TransactKeeps
<1>3. QED BY <1>1, <1>2 DEF NextTarget

LEMMA NextProbeKeeps ==
    ASSUME IInv, Frame, job \in JobRecords,
           state \in {"active", "orphaned"}, mode = "passthrough", NextProbe(job)
    PROVE  IInv'
<1>1. CASE job.pos < NTargets
  <2> DEFINE next == [job EXCEPT !.pos = @ + 1, !.step = "probe", !.tries = 1]
  <2>1. job.pos + 1 \in 1..NTargets /\ 1 \in 1..MaxTries /\ "probe" \in Probing
    BY <1>1, ConstantsOK DEF JobRecords, Probing
  <2>2. next \in JobRecords /\ next.step # "delay"
    BY <2>1, JobMoves DEF JobRecords
  <2>3. QED BY <1>1, <2>2, TransactKeeps, NoJobIsNone DEF NextProbe
<1>2. CASE ~(job.pos < NTargets)
  BY <1>2, NextTargetKeeps, ConstantsOK, NoJobIsNone DEF NextProbe
<1>3. QED BY <1>1, <1>2

-----------------------------------------------------------------------------
(* The link and the vehicle.                                                 *)
LEMMA EnvironmentKeeps == IInv /\ Environment => IInv'
<1> SUFFICES ASSUME IInv, Environment PROVE IInv'
  OBVIOUS
<1> USE DEF IInv, TypeOK, LinkOwnership, TransactionOwner, WatchdogArmed
<1>1. CASE LinkUp
  BY <1>1, ConstantsOK DEF LinkUp, NoEvidence, Snapshots, sessionVars, jobVars, timerVars,
     countVars
<1>2. CASE LinkDown
  BY <1>2, ConstantsOK DEF LinkDown, DropSession, NoEvidence, Snapshots, countVars, States
<1>3. CASE HeartbeatTimeout
  <2>1. snap' \in Snapshots
    BY <1>3 DEF HeartbeatTimeout, Snapshots
  <2>2. QED BY <1>3, <2>1, ZenonT(60) DEF HeartbeatTimeout, sessionVars, jobVars, timerVars, borrowVars,
     countVars
<1>4. CASE TargetChange
  <2>1. targetGen + 1 \in 0..MaxTargetGen
    BY <1>4, ConstantsOK DEF TargetChange
  <2>2. snap' \in Snapshots
    BY <1>4, <2>1 DEF TargetChange, Snapshots
  <2>3. QED BY <1>4, <2>1, <2>2 DEF TargetChange, sessionVars, jobVars, timerVars, borrowVars,
     countVars
<1>5. CASE SnapshotAges
  <2>1. snap' \in Snapshots
    BY <1>5 DEF SnapshotAges, Snapshots
  <2>2. QED BY <1>5, <2>1 DEF SnapshotAges, linkVars, sessionVars, jobVars, timerVars,
     borrowVars, countVars
<1>6. ASSUME NEW armed \in {"yes", "no"}, Heartbeat(armed)
      PROVE  IInv'
  <2>1. snap' \in Snapshots
    BY <1>6 DEF Heartbeat, Snapshots
  <2>2. CASE armed = "yes" /\ state # "none"
    BY <1>6, <2>1, <2>2 DEF Heartbeat, DropSession, ReturnLink, countVars, States
  <2>3. CASE ~(armed = "yes" /\ state # "none")
    BY <1>6, <2>1, <2>3, ZenonT(60) DEF Heartbeat, sessionVars, jobVars, timerVars, borrowVars, countVars
  <2>4. QED BY <2>2, <2>3
<1>7. QED BY <1>1, <1>2, <1>3, <1>4, <1>5, <1>6 DEF Environment

(* The session's life cycle.                                                 *)
LEMMA LifecycleKeeps ==
    ASSUME IInv, NEW c \in Clients,
           \/ \E m \in Modes : Start(c, m)
           \/ OwnerExit(c) \/ OwnerDisconnects(c) \/ Reclaim(c) \/ PrepareDisconnect
           \/ OpenSettled \/ IdleFires \/ OrphanFires \/ ExitDone
    PROVE  IInv'
<1>1. ASSUME NEW m \in Modes, Start(c, m)
      PROVE  IInv'
  <2>1. snap.gen \in 0..MaxTargetGen /\ started + 1 \in 0..MaxSessions
    BY <1>1, ConstantsOK DEF IInv, TypeOK, Start, Snapshots
  <2>2. QED BY <1>1, <2>1 DEF Start, IInv, TypeOK, LinkOwnership, TransactionOwner,
     WatchdogArmed, jobVars, timerVars, States, Modes
<1>2. CASE OwnerExit(c)
  <2>1. Frame
    BY <1>2 DEF OwnerExit, Frame, linkVars, countVars, IInv, TypeOK
  <2>2. QED BY <1>2, <2>1, FinalizeKeeps DEF OwnerExit
<1>3. CASE OwnerDisconnects(c)
  <2>1. Frame
    BY <1>3 DEF OwnerDisconnects, Frame, linkVars, countVars, IInv, TypeOK
  <2>2. CASE job = NoJob
    BY <1>3, <2>1, <2>2, FinalizeKeeps DEF OwnerDisconnects
  <2>3. CASE job # NoJob
    BY <1>3, <2>1, <2>3 DEF OwnerDisconnects, Frame, IInv, TypeOK, LinkOwnership,
       TransactionOwner, WatchdogArmed, jobVars, borrowVars, States
  <2>4. QED BY <2>2, <2>3
<1>4. CASE Reclaim(c)
  BY <1>4 DEF Reclaim, IInv, TypeOK, LinkOwnership, TransactionOwner, WatchdogArmed,
     linkVars, jobVars, borrowVars, countVars, States
<1>5. CASE PrepareDisconnect
  <2>1. Frame
    BY <1>5 DEF PrepareDisconnect, Frame, countVars, IInv, TypeOK
  <2>2. CASE state \in {"none", "exiting"}
    BY <1>5, <2>1, <2>2 DEF PrepareDisconnect, Frame, IInv, TypeOK, LinkOwnership,
       TransactionOwner, WatchdogArmed, sessionVars, jobVars, timerVars, borrowVars
  <2>3. CASE state \notin {"none", "exiting"}
    <3>1. Finalize(wire = "job", job) /\ (wire = "job") \in BOOLEAN
      BY <1>5, <2>3 DEF PrepareDisconnect
    <3>2. job # NoJob => job.step = "delay" \/ wire = "job"
      BY DEF IInv, TransactionOwner
    <3>3. QED BY <2>1, <2>3, <3>1, <3>2, FinalizeKeeps DEF IInv, TypeOK, States
  <2>4. QED BY <2>2, <2>3
<1>6. CASE OpenSettled
  <2>1. Frame
    BY <1>6 DEF OpenSettled, Frame, linkVars, countVars, IInv, TypeOK
  <2>2. CASE ~Safe
    BY <1>6, <2>1, <2>2, TeardownKeeps DEF OpenSettled
  <2>3. CASE Safe /\ mode = "passthrough"
    <3>1. NewJob("scan", owner, 1) \in JobRecords /\ NewJob("scan", owner, 1).step = "api"
      BY <1>6, ConstantsOK DEF OpenSettled, NewJob, JobRecords, Kinds, Preamble, IInv,
         LinkOwnership
    <3>2. QED BY <1>6, <2>1, <2>3, <3>1, NoJobIsNone DEF OpenSettled, Frame, IInv, TypeOK,
       LinkOwnership, TransactionOwner, WatchdogArmed, borrowVars, States
  <2>4. CASE Safe /\ mode # "passthrough"
    BY <1>6, <2>1, <2>4 DEF OpenSettled, Frame, IInv, TypeOK, LinkOwnership,
       TransactionOwner, WatchdogArmed, borrowVars, States
  <2>5. QED BY <2>2, <2>3, <2>4
<1>7. CASE IdleFires
  <2>1. Frame
    BY <1>7 DEF IdleFires, Frame, linkVars, countVars, IInv, TypeOK
  <2>2. CASE state = "active" /\ job = NoJob
    BY <1>7, <2>1, <2>2, FinalizeKeeps DEF IdleFires
  <2>3. CASE ~(state = "active" /\ job = NoJob)
    <3>1. /\ idleTimer' = FALSE
          /\ UNCHANGED <<sessionVars, jobVars, orphanTimer, borrowVars, snap>>
      BY <1>7, <2>3 DEF IdleFires
    <3>2. TypeOK'
      <4>1. idleTimer' \in BOOLEAN
        BY <3>1
      <4>2. UNCHANGED <<sessionVars, jobVars, orphanTimer, borrowVars, snap>>
        BY <3>1
      <4>3. QED BY <2>1, <4>1, <4>2 DEF Frame, IInv, TypeOK, sessionVars, jobVars, borrowVars
    <3>3. LinkOwnership'
      BY <2>1, <3>1 DEF Frame, IInv, LinkOwnership, sessionVars, borrowVars
    <3>4. TransactionOwner'
      BY <3>1 DEF IInv, TransactionOwner, sessionVars, jobVars
    <3>5. WatchdogArmed'
      BY <2>3, <3>1 DEF IInv, WatchdogArmed, sessionVars, jobVars
    <3>6. QED BY <3>2, <3>3, <3>4, <3>5 DEF IInv
  <2>4. QED BY <2>2, <2>3
<1>8. CASE OrphanFires
  <2>1. Frame
    BY <1>8 DEF OrphanFires, Frame, linkVars, countVars, IInv, TypeOK
  <2>2. CASE job = NoJob
    BY <1>8, <2>1, <2>2, FinalizeKeeps DEF OrphanFires
  <2>3. CASE job # NoJob
    BY <1>8, <2>1, <2>3 DEF OrphanFires, Frame, IInv, TypeOK, LinkOwnership,
       TransactionOwner, WatchdogArmed, jobVars, borrowVars
  <2>4. QED BY <2>2, <2>3
<1>9. CASE ExitDone
  <2>1. Frame
    BY <1>9 DEF ExitDone, Frame, linkVars, countVars, IInv, TypeOK
  <2>2. QED BY <1>9, <2>1, TeardownKeeps DEF ExitDone
<1>10. QED BY <1>1, <1>2, <1>3, <1>4, <1>5, <1>6, <1>7, <1>8, <1>9
-----------------------------------------------------------------------------
(* Commands and jobs.                                                        *)
LEMMA CommandKeeps ==
    ASSUME IInv, NEW c \in Clients, NEW kind \in Kinds, Command(c, kind)
    PROVE  IInv'
<1>1. Frame
  BY ConstantsOK DEF Command, Frame, linkVars, IInv, TypeOK
<1>2. CASE idleTimer' = TRUE /\ UNCHANGED <<sessionVars, jobVars, orphanTimer, borrowVars, snap>>
  BY <1>1, <1>2 DEF Frame, IInv, TypeOK, LinkOwnership, TransactionOwner, WatchdogArmed,
     sessionVars, jobVars, borrowVars
<1>3. CASE Teardown
  BY <1>1, <1>3, TeardownKeeps
<1>4. ASSUME ~Refused(kind), mode = "passthrough", NEW q \in 1..NTargets,
             job' = NewJob(kind, c, q), wire' = "job", idleTimer' = FALSE,
             UNCHANGED <<sessionVars, orphanTimer, borrowVars, snap>>
      PROVE  IInv'
  <2>1. job' \in JobRecords /\ job'.step # "delay"
    BY <1>4, ConstantsOK DEF NewJob, JobRecords, Preamble, TargetSteps
  <2>2. QED BY <1>1, <1>4, <2>1, NoJobIsNone DEF Refused, Frame, IInv, TypeOK, LinkOwnership,
     TransactionOwner, WatchdogArmed, sessionVars, borrowVars
<1>5. QED BY <1>2, <1>3, <1>4 DEF Command

LEMMA TransferKeeps ==
    ASSUME IInv, Transfer
    PROVE  IInv'
<1>1. Frame
  BY DEF Transfer, Reply, Fails, DelayFires, Frame, linkVars, countVars, IInv, TypeOK
<1>2. wire = "job" \/ job.step = "delay" => job \in JobRecords /\ job # NoJob
  BY NoJobIsNone DEF IInv, TypeOK, TransactionOwner, NoJob
<1>3. wire = "job" => state \in {"active", "orphaned"} /\ mode = "passthrough"
  BY DEF IInv, TransactionOwner
<1>4. ASSUME wire = "job", NEW s \in Preamble \cup Probing \cup TargetSteps, s # "delay",
             Transact([job EXCEPT !.step = s])
      PROVE  IInv'
  <2>1. [job EXCEPT !.step = s] \in JobRecords /\ [job EXCEPT !.step = s].step = s
    BY <1>2, <1>4 DEF JobRecords
  <2>2. QED BY <1>1, <1>2, <1>3, <1>4, <2>1, TransactKeeps
<1>5. CASE Reply
  <2>1. CASE PreambleReply
    <3>1. ASSUME Running("pass"), Safe, job' = [job EXCEPT !.step = "version"],
                 fourWay' = TRUE,
                 UNCHANGED <<wire, sessionVars, timerVars, raw, paused, gcsTimer, claimed, snap>>
          PROVE  IInv'
      <4>1. job' \in JobRecords /\ job'.step = "version" /\ job' # NoJob
        BY <1>2, <3>1, NoJobIsNone DEF Running, JobRecords, Preamble
      <4>2. QED BY <1>1, <1>2, <1>3, <3>1, <4>1 DEF Running, Frame, IInv, TypeOK,
         LinkOwnership, TransactionOwner, WatchdogArmed, sessionVars, timerVars
    <3>2. QED BY <1>1, <1>4, <2>1, <3>1, TeardownKeeps DEF PreambleReply, Running, Preamble,
       Probing
  <2>2. CASE ProbeReply
    BY <1>1, <1>2, <1>3, <2>2, NextProbeKeeps DEF ProbeReply, Running
  <2>3. CASE TargetReply
    <3>1. wire = "job" => job.pos \in 0..NTargets
      BY <1>2, ConstantsOK DEF JobRecords
    <3>2. CASE Running("fetch") /\ job.kind # "write" /\ NextTarget(job, job.pos)
      BY <1>1, <1>2, <1>3, <3>1, <3>2, NextTargetKeeps DEF Running
    <3>3. CASE Running("verify") /\ NextTarget(job, job.pos)
      BY <1>1, <1>2, <1>3, <3>1, <3>3, NextTargetKeeps DEF Running
    <3>4. QED BY <1>4, <2>3, <3>2, <3>3 DEF TargetReply, Running, TargetSteps
  <2>4. QED BY <1>5, <2>1, <2>2, <2>3 DEF Reply
<1>6. ASSUME NEW late \in BOOLEAN, Fails(late)
      PROVE  IInv'
  <2>1. wire = "job" /\ job \in JobRecords
    BY <1>2, <1>6 DEF Fails
  <2>2. CASE EndJob
    BY <1>1, <1>3, <2>1, <2>2, EndJobKeeps
  <2>3. ASSUME job.tries < MaxTries, job' = [job EXCEPT !.step = "delay"], wire' = "none",
               UNCHANGED <<sessionVars, timerVars, borrowVars, snap>>
        PROVE  IInv'
    <3>1. job' \in JobRecords /\ job'.step = "delay" /\ job'.tries < MaxTries /\ job' # NoJob
      BY <2>1, <2>3, NoJobIsNone DEF JobRecords, Probing
    <3>2. QED BY <1>1, <1>2, <1>3, <2>1, <2>3, <3>1 DEF Frame, IInv, TypeOK, LinkOwnership,
       TransactionOwner, WatchdogArmed, sessionVars, timerVars, borrowVars
  <2>4. CASE NextProbe(job)
    BY <1>1, <1>3, <2>1, <2>4, NextProbeKeeps
  <2>5. CASE NextTarget([job EXCEPT !.late = @ \/ late], job.pos)
    <3>1. [job EXCEPT !.late = @ \/ late] \in JobRecords
      BY <2>1 DEF JobRecords
    <3>2. job.pos \in 0..NTargets
      BY <2>1, ConstantsOK DEF JobRecords
    <3>3. QED BY <1>1, <1>2, <1>3, <2>1, <2>5, <3>1, <3>2, NextTargetKeeps
  <2>6. QED BY <1>6, <2>2, <2>3, <2>4, <2>5 DEF Fails
<1>7. CASE DelayFires
  <2>1. job \in JobRecords /\ job # NoJob /\ mode = "passthrough"
        /\ state \in {"active", "orphaned", "exiting"}
    BY <1>2, <1>7 DEF DelayFires, IInv, TransactionOwner
  <2>2. CASE wire = "none" /\ Transact([job EXCEPT !.step = "probe", !.tries = @ + 1])
    <3> DEFINE next == [job EXCEPT !.step = "probe", !.tries = @ + 1]
    <3>1. next \in JobRecords /\ next.step # "delay"
      <4>1. job.tries + 1 \in 1..MaxTries /\ "probe" \in Probing
        BY <1>7, <2>1, ConstantsOK DEF DelayFires, JobRecords, Probing, IInv, TransactionOwner
      <4>2. QED BY <2>1, <4>1, JobMoves DEF JobRecords
    <3>2. state # "exiting"
      BY <2>2 DEF IInv, TransactionOwner
    <3>3. QED BY <1>1, <2>1, <2>2, <3>1, <3>2, TransactKeeps
  <2>3. ASSUME wire = "exit", UNCHANGED <<wire, sessionVars, timerVars, borrowVars, snap>>,
               job' = IF job.tries + 1 < MaxTries THEN [job EXCEPT !.tries = @ + 1]
                      ELSE IF job.pos < NTargets /\ MaxTries > 1
                      THEN [job EXCEPT !.pos = @ + 1, !.tries = 1]
                      ELSE NoJob
        PROVE  IInv'
    <3>1. job' = NoJob \/ (job' \in JobRecords /\ job'.step = "delay" /\ job'.tries < MaxTries)
      <4>1. CASE job.tries + 1 < MaxTries
        <5>1. job.tries + 1 \in 1..MaxTries /\ job.step = "delay"
          BY <1>7, <2>1, <4>1, ConstantsOK DEF JobRecords, DelayFires
        <5>2. job' = [job EXCEPT !.tries = job.tries + 1]
          BY <2>3, <4>1
        <5>3. QED BY <2>1, <4>1, <5>1, <5>2 DEF JobRecords
      <4>2. CASE ~(job.tries + 1 < MaxTries) /\ job.pos < NTargets /\ MaxTries > 1
        <5>1. job.pos + 1 \in 1..NTargets /\ job.step = "delay" /\ 1 \in 1..MaxTries
          BY <1>7, <2>1, <4>2, ConstantsOK DEF JobRecords, DelayFires
        <5>2. job' = [job EXCEPT !.pos = job.pos + 1, !.tries = 1]
          BY <2>3, <4>2
        <5>3. QED BY <2>1, <4>2, <5>1, <5>2 DEF JobRecords
      <4>3. QED BY <2>3, <4>1, <4>2
    <3>2. QED BY <1>1, <2>1, <2>3, <3>1, NoJobIsNone DEF Frame, IInv, TypeOK, LinkOwnership,
       TransactionOwner, WatchdogArmed, sessionVars, timerVars, borrowVars
  <2>4. QED BY <1>7, <2>2, <2>3 DEF DelayFires
<1>8. QED BY <1>5, <1>6, <1>7 DEF Transfer
-----------------------------------------------------------------------------
LEMMA StepKeeps == IInv /\ [Next]_vars => IInv'
<1> SUFFICES ASSUME IInv, [Next]_vars PROVE IInv'
  OBVIOUS
<1>1. PICK c : c \in Clients
  BY EscAssumption
<1>2. CASE Next
  BY <1>1, <1>2, EnvironmentKeeps, LifecycleKeeps, CommandKeeps, TransferKeeps
     DEF Next, Client
<1>3. CASE UNCHANGED vars
  BY <1>3 DEF vars, linkVars, sessionVars, jobVars, timerVars, borrowVars, countVars, IInv,
     TypeOK, LinkOwnership, TransactionOwner, WatchdogArmed
<1>4. QED BY <1>2, <1>3

LEMMA InitHolds == Init => IInv
<1> SUFFICES ASSUME Init PROVE IInv
  OBVIOUS
<1>1. TypeOK
  <2>1. snap \in Snapshots
    BY ConstantsOK DEF Init, NoEvidence, Snapshots
  <2>2. /\ targetGen \in 0..MaxTargetGen /\ base \in 0..MaxTargetGen
        /\ started \in 0..MaxSessions /\ asked \in 0..MaxJobs
    BY ConstantsOK DEF Init
  <2>3. QED BY <2>1, <2>2 DEF Init, TypeOK, States, Modes
<1>2. LinkOwnership /\ WatchdogArmed
  BY DEF Init, LinkOwnership, WatchdogArmed
<1>3. TransactionOwner
  BY DEF Init, TransactionOwner
<1>4. QED BY <1>1, <1>2, <1>3 DEF IInv

(* The whole invariant.                                                      *)
THEOREM Invariance == Spec => []IInv
BY InitHolds, StepKeeps, PTL DEF Spec

(* Every variable stays in its type.                                         *)
THEOREM TypeCorrect == Spec => []TypeOK
<1>1. IInv => TypeOK
  BY DEF IInv
<1>2. QED BY <1>1, Invariance, PTL

(* MAVLink and a borrowed session never speak on the link together, and no   *)
(* path that ends a session leaves the link borrowed.                        *)
THEOREM LinkOwnershipHolds == Spec => []LinkOwnership
<1>1. IInv => LinkOwnership
  BY DEF IInv
<1>2. QED BY <1>1, Invariance, PTL

(* An answer on the wire always belongs to the running job of a live session *)
(* or to the InterfaceExit of a closing one.                                 *)
THEOREM TransactionOwnerHolds == Spec => []TransactionOwner
<1>1. IInv => TransactionOwner
  BY DEF IInv
<1>2. QED BY <1>1, Invariance, PTL

(* No session waits without the timer that ends its wait.                    *)
THEOREM WatchdogArmedHolds == Spec => []WatchdogArmed
<1>1. IInv => WatchdogArmed
  BY DEF IInv
<1>2. QED BY <1>1, Invariance, PTL

(* Session, lease of the link, in-flight slot and watchdogs fit together.    *)
THEOREM Consistent == Spec => []SessionConsistent
<1>1. IInv => SessionConsistent
  BY DEF IInv, SessionConsistent
<1>2. QED BY <1>1, Invariance, PTL
-----------------------------------------------------------------------------
(* What the action properties rest on besides IInv: a session whose owner    *)
(* left has lost its acknowledgement, and only scans have a preamble.        *)
ScanStep == Preamble \cup Probing
JobShape ==
    /\ ownerLost => ~confirmed
    /\ job # NoJob /\ job.step \in ScanStep => job.kind = "scan"

NoNewTarget == ownerLost /\ ownerLost' /\ job'.kind = "write" => job'.pos = job.pos
SafeRequest ==
    wire' = "job" /\ job' # job => EntrySafe /\ snap.gen = base' /\ state' # "exiting"
Discipline == JobShape' /\ NoNewTarget /\ SafeRequest

LEMMA DropDiscipline ==
    ASSUME DropSession
    PROVE  Discipline
BY DEF DropSession, Discipline, JobShape, NoNewTarget, SafeRequest, NoJob

(* A step that leaves the job and the session's epoch alone.                 *)
LEMMA IdleDiscipline ==
    ASSUME JobShape, job' = job \/ job' = NoJob, ownerLost' => ownerLost \/ ~confirmed',
           confirmed' => confirmed, wire' = "job" => job' = job
    PROVE  Discipline
BY DEF Discipline, JobShape, NoNewTarget, SafeRequest, NoJob

LEMMA FinalizeDiscipline ==
    ASSUME JobShape, NEW busy \in BOOLEAN, NEW remaining, remaining \in {job, NoJob},
           Finalize(busy, remaining)
    PROVE  Discipline
<1>1. CASE CanSendExit(busy)
  BY <1>1, IdleDiscipline DEF Finalize
<1>2. CASE ~CanSendExit(busy)
  BY <1>2, DropDiscipline DEF Finalize, Teardown
<1>3. QED BY <1>1, <1>2

LEMMA EndJobDiscipline ==
    ASSUME JobShape, EndJob
    PROVE  Discipline
<1>1. CASE state = "orphaned" /\ orphanExpired
  BY <1>1, FinalizeDiscipline DEF EndJob
<1>2. CASE ~(state = "orphaned" /\ orphanExpired)
  BY <1>2, IdleDiscipline DEF EndJob, sessionVars
<1>3. QED BY <1>1, <1>2

LEMMA TransactDiscipline ==
    ASSUME JobShape, state # "exiting", NEW next \in JobRecords,
           next.step \in ScanStep => next.kind = "scan",
           ownerLost /\ next.kind = "write" => next.pos = job.pos,
           Transact(next)
    PROVE  Discipline
<1>1. CASE Safe
  BY <1>1 DEF Transact, Discipline, JobShape, NoNewTarget, SafeRequest, Safe, sessionVars
<1>2. CASE ~Safe
  BY <1>2, DropDiscipline DEF Transact, Teardown
<1>3. QED BY <1>1, <1>2

LEMMA NextTargetDiscipline ==
    ASSUME JobShape, state # "exiting", NEW j \in JobRecords, NEW done \in 0..NTargets,
           NextTarget(j, done)
    PROVE  Discipline
<1>1. CASE EndJob
  BY <1>1, EndJobDiscipline
<1>2. ASSUME NEW q \in done + 1 .. NTargets, j.kind = "write" => confirmed,
             Transact([j EXCEPT !.pos = q, !.step = "init", !.tries = 1])
      PROVE  Discipline
  <2> DEFINE next == [j EXCEPT !.pos = q, !.step = "init", !.tries = 1]
  <2>1. q \in 1..NTargets /\ 1 \in 1..MaxTries /\ "init" \in TargetSteps
    BY ConstantsOK DEF TargetSteps
  <2>2. next \in JobRecords /\ next.step = "init" /\ next.kind = j.kind
    BY <2>1, JobMoves DEF JobRecords
  <2>3. QED BY <1>2, <2>2, TransactDiscipline DEF JobShape, ScanStep, Preamble, Probing
<1>3. QED BY <1>1, <1>2 DEF NextTarget

LEMMA NextProbeDiscipline ==
    ASSUME JobShape, state # "exiting", job \in JobRecords, job.kind = "scan", NextProbe(job)
    PROVE  Discipline
<1>1. CASE job.pos < NTargets
  <2> DEFINE next == [job EXCEPT !.pos = @ + 1, !.step = "probe", !.tries = 1]
  <2>1. job.pos + 1 \in 1..NTargets /\ 1 \in 1..MaxTries /\ "probe" \in Probing
    BY <1>1, ConstantsOK DEF JobRecords, Probing
  <2>2. next \in JobRecords /\ next.kind = "scan"
    BY <2>1, JobMoves DEF JobRecords
  <2>3. QED BY <1>1, <2>2, TransactDiscipline DEF NextProbe
<1>2. CASE ~(job.pos < NTargets)
  BY <1>2, NextTargetDiscipline, ConstantsOK DEF NextProbe
<1>3. QED BY <1>1, <1>2

LEMMA TransferDiscipline ==
    ASSUME IInv, JobShape, Transfer
    PROVE  Discipline
<1>1. wire = "job" \/ job.step = "delay" => job \in JobRecords /\ job # NoJob
  BY NoJobIsNone DEF IInv, TypeOK, TransactionOwner, NoJob
<1>2. wire # "exit" => state # "exiting"
  BY DEF IInv, TransactionOwner
<1>3. job \in JobRecords => job.pos \in 0..NTargets
  BY ConstantsOK DEF JobRecords
<1>4. ASSUME wire = "job", NEW s \in ScanStep \cup TargetSteps,
             s \in ScanStep => job.step \in ScanStep, Transact([job EXCEPT !.step = s])
      PROVE  Discipline
  <2> DEFINE next == [job EXCEPT !.step = s]
  <2>1. next \in JobRecords /\ next.step = s /\ next.kind = job.kind /\ next.pos = job.pos
    BY <1>1, <1>4 DEF JobRecords, ScanStep
  <2>2. QED BY <1>1, <1>2, <1>4, <2>1, TransactDiscipline DEF JobShape
<1>5. CASE Reply
  <2>1. CASE PreambleReply
    <3>1. ASSUME Running("pass"), Safe, job' = [job EXCEPT !.step = "version"],
                 UNCHANGED <<wire, sessionVars>>
          PROVE  Discipline
      <4>1. job.kind = "scan"
        BY <1>1, <3>1 DEF Running, JobShape, ScanStep, Preamble
      <4>2. job'.kind = "scan"
        BY <1>1, <3>1, <4>1 DEF Running, JobRecords
      <4>3. QED BY <1>2, <3>1, <4>2 DEF Running, Discipline, JobShape, NoNewTarget,
         SafeRequest, Safe, sessionVars
    <3>2. CASE Teardown
      BY <3>2, DropDiscipline DEF Teardown
    <3>3. QED BY <1>4, <2>1, <3>1, <3>2 DEF PreambleReply, Running, ScanStep, Preamble, Probing
  <2>2. CASE ProbeReply
    BY <1>1, <1>2, <2>2, NextProbeDiscipline DEF ProbeReply, Running, JobShape, ScanStep,
       Probing
  <2>3. CASE TargetReply
    <3>1. CASE Running("fetch") /\ job.kind # "write" /\ NextTarget(job, job.pos)
      BY <1>1, <1>2, <1>3, <3>1, NextTargetDiscipline DEF Running
    <3>2. CASE Running("verify") /\ NextTarget(job, job.pos)
      BY <1>1, <1>2, <1>3, <3>2, NextTargetDiscipline DEF Running
    <3>3. QED BY <1>4, <2>3, <3>1, <3>2 DEF TargetReply, Running, TargetSteps, ScanStep,
       Preamble, Probing
  <2>4. QED BY <1>5, <2>1, <2>2, <2>3 DEF Reply
<1>6. ASSUME NEW late \in BOOLEAN, Fails(late)
      PROVE  Discipline
  <2>1. wire = "job" /\ job \in JobRecords /\ job # NoJob
    BY <1>1, <1>6 DEF Fails
  <2>2. CASE EndJob
    BY <2>2, EndJobDiscipline
  <2>3. ASSUME job.step = "probe", job' = [job EXCEPT !.step = "delay"], wire' = "none",
               UNCHANGED sessionVars
        PROVE  Discipline
    <3>1. job.kind = "scan"
      BY <2>1, <2>3 DEF JobShape, ScanStep, Probing
    <3>2. job'.kind = "scan"
      BY <2>1, <2>3, <3>1 DEF JobRecords
    <3>3. QED BY <2>3, <3>2 DEF Discipline, JobShape, NoNewTarget, SafeRequest, sessionVars
  <2>4. CASE job.step = "probe" /\ NextProbe(job)
    BY <1>2, <2>1, <2>4, NextProbeDiscipline DEF JobShape, ScanStep, Probing
  <2>5. CASE NextTarget([job EXCEPT !.late = @ \/ late], job.pos)
    <3>1. [job EXCEPT !.late = @ \/ late] \in JobRecords
      BY <2>1 DEF JobRecords
    <3>2. QED BY <1>2, <1>3, <2>1, <2>5, <3>1, NextTargetDiscipline
  <2>6. QED BY <1>6, <2>2, <2>3, <2>4, <2>5 DEF Fails
<1>7. CASE DelayFires
  <2>1. job \in JobRecords /\ job # NoJob /\ job.step = "delay" /\ job.kind = "scan"
    BY <1>1, <1>7 DEF DelayFires, JobShape, ScanStep, Probing
  <2>2. CASE wire = "none" /\ Transact([job EXCEPT !.step = "probe", !.tries = @ + 1])
    <3> DEFINE next == [job EXCEPT !.step = "probe", !.tries = @ + 1]
    <3>1. next \in JobRecords /\ next.kind = "scan"
      <4>1. job.tries + 1 \in 1..MaxTries /\ "probe" \in Probing
        BY <2>1, ConstantsOK DEF JobRecords, Probing, IInv, TransactionOwner
      <4>2. QED BY <2>1, <4>1, JobMoves DEF JobRecords
    <3>2. QED BY <1>2, <2>2, <3>1, TransactDiscipline
  <2>3. ASSUME wire = "exit", UNCHANGED <<wire, sessionVars>>,
               job' = IF job.tries + 1 < MaxTries THEN [job EXCEPT !.tries = @ + 1]
                      ELSE IF job.pos < NTargets /\ MaxTries > 1
                      THEN [job EXCEPT !.pos = @ + 1, !.tries = 1]
                      ELSE NoJob
        PROVE  Discipline
    <3>1. job'.kind = "scan" \/ job' = NoJob
      BY <2>1, <2>3 DEF JobRecords
    <3>2. QED BY <2>3, <3>1 DEF Discipline, JobShape, NoNewTarget, SafeRequest, sessionVars,
       NoJob
  <2>4. QED BY <1>7, <2>2, <2>3 DEF DelayFires
<1>8. QED BY <1>5, <1>6, <1>7 DEF Transfer

LEMMA OtherDiscipline ==
    ASSUME IInv, JobShape, NEW c \in Clients,
           \/ Environment \/ (\E m \in Modes : Start(c, m))
           \/ OwnerExit(c) \/ OwnerDisconnects(c) \/ Reclaim(c) \/ PrepareDisconnect
           \/ OpenSettled \/ IdleFires \/ OrphanFires \/ ExitDone
           \/ \E kind \in Kinds : Command(c, kind)
    PROVE  Discipline
<1>1. CASE Environment
  <2>1. DropSession \/ UNCHANGED <<sessionVars, jobVars>>
    BY <1>1 DEF Environment, LinkUp, LinkDown, HeartbeatTimeout, TargetChange, SnapshotAges,
       Heartbeat
  <2>2. QED BY <2>1, DropDiscipline, IdleDiscipline DEF JobShape, sessionVars, jobVars
<1>2. ASSUME NEW m \in Modes, Start(c, m)
      PROVE  Discipline
  <2>1. ~ownerLost' /\ UNCHANGED jobVars
    BY <1>2 DEF Start
  <2>2. QED BY <2>1 DEF Discipline, JobShape, NoNewTarget, SafeRequest, jobVars
<1>3. CASE OwnerExit(c)
  BY <1>3, FinalizeDiscipline DEF OwnerExit
<1>4. CASE OwnerDisconnects(c)
  <2>1. CASE job = NoJob
    BY <1>4, <2>1, FinalizeDiscipline DEF OwnerDisconnects
  <2>2. CASE job # NoJob
    BY <1>4, <2>2, IdleDiscipline DEF OwnerDisconnects, jobVars
  <2>3. QED BY <2>1, <2>2
<1>5. CASE Reclaim(c)
  BY <1>5, IdleDiscipline DEF Reclaim, jobVars
<1>6. CASE PrepareDisconnect
  <2>1. CASE state \in {"none", "exiting"}
    BY <1>6, <2>1, IdleDiscipline DEF PrepareDisconnect, sessionVars, jobVars
  <2>2. CASE state \notin {"none", "exiting"}
    BY <1>6, <2>2, FinalizeDiscipline DEF PrepareDisconnect
  <2>3. QED BY <2>1, <2>2
<1>7. CASE OpenSettled
  <2>1. CASE ~Safe
    BY <1>7, <2>1, DropDiscipline DEF OpenSettled, Teardown
  <2>2. CASE Safe /\ mode = "passthrough"
    <3>1. job'.kind = "scan"
      BY <1>7, <2>2 DEF OpenSettled, NewJob
    <3>2. QED BY <1>7, <2>2, <3>1 DEF OpenSettled, Safe, Discipline, JobShape, NoNewTarget,
       SafeRequest
  <2>3. CASE Safe /\ mode # "passthrough"
    BY <1>7, <2>3, IdleDiscipline DEF OpenSettled
  <2>4. QED BY <2>1, <2>2, <2>3
<1>8. CASE IdleFires
  <2>1. CASE state = "active" /\ job = NoJob
    BY <1>8, <2>1, FinalizeDiscipline DEF IdleFires
  <2>2. CASE ~(state = "active" /\ job = NoJob)
    BY <1>8, <2>2, IdleDiscipline DEF IdleFires, sessionVars, jobVars
  <2>3. QED BY <2>1, <2>2
<1>9. CASE OrphanFires
  <2>1. CASE job = NoJob
    BY <1>9, <2>1, FinalizeDiscipline DEF OrphanFires
  <2>2. CASE job # NoJob
    BY <1>9, <2>2, IdleDiscipline DEF OrphanFires, jobVars
  <2>3. QED BY <2>1, <2>2
<1>10. CASE ExitDone
  BY <1>10, DropDiscipline DEF ExitDone, Teardown
<1>11. ASSUME NEW kind \in Kinds, Command(c, kind)
       PROVE  Discipline
  <2>1. CASE UNCHANGED <<sessionVars, jobVars, orphanTimer, borrowVars, snap>>
    BY <2>1, IdleDiscipline DEF sessionVars, jobVars
  <2>2. CASE Teardown
    BY <2>2, DropDiscipline DEF Teardown
  <2>3. ASSUME ~Refused(kind), Safe, NEW q \in 1..NTargets, job' = NewJob(kind, c, q),
               UNCHANGED <<sessionVars, orphanTimer, borrowVars, snap>>
        PROVE  Discipline
    <3>1. job'.kind = kind /\ job'.step = (IF kind = "scan" THEN "api" ELSE "init")
      BY <2>3 DEF NewJob
    <3>2. kind = "write" => confirmed
      BY <1>11 DEF Command
    <3>3. QED BY <2>3, <3>1, <3>2 DEF Refused, Safe, Discipline, JobShape, NoNewTarget,
       SafeRequest, sessionVars, ScanStep, Preamble, Probing
  <2>4. QED BY <1>11, <2>1, <2>2, <2>3 DEF Command
<1>12. QED BY <1>1, <1>2, <1>3, <1>4, <1>5, <1>6, <1>7, <1>8, <1>9, <1>10, <1>11

LEMMA StepDiscipline == IInv /\ JobShape /\ [Next]_vars => JobShape' /\ [NoNewTarget /\ SafeRequest]_vars
<1> SUFFICES ASSUME IInv, JobShape, [Next]_vars
             PROVE  JobShape' /\ [NoNewTarget /\ SafeRequest]_vars
  OBVIOUS
<1>1. PICK c : c \in Clients
  BY EscAssumption
<1>2. CASE Next
  BY <1>1, <1>2, OtherDiscipline, TransferDiscipline DEF Next, Client, Discipline
<1>3. CASE UNCHANGED vars
  BY <1>3 DEF vars, sessionVars, jobVars, JobShape
<1>4. QED BY <1>2, <1>3

LEMMA ShapeInvariance == Spec => [](IInv /\ JobShape)
<1>1. Init => JobShape
  BY DEF Init, JobShape
<1>2. QED BY <1>1, InitHolds, StepKeeps, StepDiscipline, PTL DEF Spec

(* No settings write goes on to a new target once the owner who acknowledged *)
(* the physical safety has left, even if the session is reclaimed.           *)
THEOREM NoNewTargetAfterOwnerLossHolds == Spec => NoNewTargetAfterOwnerLoss
<1>1. IInv /\ JobShape /\ [Next]_vars
      => [ownerLost /\ ownerLost' /\ job'.kind = "write" => job'.pos = job.pos]_vars
  BY StepDiscipline DEF NoNewTarget
<1>2. QED BY <1>1, ShapeInvariance, PTL DEF Spec, NoNewTargetAfterOwnerLoss

(* No request reaches an ESC unless the evidence the session was authorized  *)
(* under still holds when it is sent.                                        *)
THEOREM RequestsOnlyWhileSafeHolds == Spec => RequestsOnlyWhileSafe
<1>1. IInv /\ JobShape /\ [Next]_vars
      => [wire' = "job" /\ job' # job
            => EntrySafe /\ snap.gen = base' /\ state' # "exiting"]_vars
  BY StepDiscipline DEF SafeRequest
<1>2. QED BY <1>1, ShapeInvariance, PTL DEF Spec, RequestsOnlyWhileSafe
-----------------------------------------------------------------------------
(* Every step but those of the environment and a start either tears the      *)
(* session down or leaves the loan and the evidence as they are.             *)
Quiet == link' = link /\ (Teardown \/ (paused' = paused /\ snap' = snap))

LEMMA TransferQuiet == ASSUME Transfer PROVE Quiet
<1>1. ASSUME NEW busy, NEW remaining, Finalize(busy, remaining)
      PROVE  Teardown \/ (paused' = paused /\ snap' = snap)
  BY <1>1 DEF Finalize
<1>2. ASSUME EndJob PROVE Teardown \/ (paused' = paused /\ snap' = snap)
  BY <1>1, <1>2 DEF EndJob, borrowVars
<1>3. ASSUME NEW next, Transact(next) PROVE Teardown \/ (paused' = paused /\ snap' = snap)
  BY <1>3 DEF Transact, borrowVars
<1>4. ASSUME NEW j, NEW done, NextTarget(j, done)
      PROVE  Teardown \/ (paused' = paused /\ snap' = snap)
  BY <1>2, <1>3, <1>4 DEF NextTarget
<1>5. ASSUME NEW j, NextProbe(j) PROVE Teardown \/ (paused' = paused /\ snap' = snap)
  BY <1>3, <1>4, <1>5 DEF NextProbe
<1>6. Reply => Quiet
  <2>1. PreambleReply => Teardown \/ (paused' = paused /\ snap' = snap)
    BY <1>3 DEF PreambleReply
  <2>2. ProbeReply \/ TargetReply => Teardown \/ (paused' = paused /\ snap' = snap)
    BY <1>3, <1>4, <1>5 DEF ProbeReply, TargetReply
  <2>3. QED BY <2>1, <2>2 DEF Reply, Quiet, linkVars
<1>7. ASSUME NEW late \in BOOLEAN, Fails(late) PROVE Quiet
  BY <1>2, <1>4, <1>5, <1>7 DEF Fails, Quiet, linkVars, borrowVars
<1>8. DelayFires => Quiet
  BY <1>3 DEF DelayFires, Quiet, linkVars, borrowVars
<1>9. QED BY <1>6, <1>7, <1>8 DEF Transfer

LEMMA LifecycleQuiet ==
    ASSUME NEW c \in Clients,
           \/ OwnerExit(c) \/ OwnerDisconnects(c) \/ Reclaim(c) \/ PrepareDisconnect
           \/ OpenSettled \/ IdleFires \/ OrphanFires \/ ExitDone
           \/ \E kind \in Kinds : Command(c, kind)
    PROVE  Quiet
<1>1. ASSUME NEW busy, NEW remaining, Finalize(busy, remaining)
      PROVE  Teardown \/ (paused' = paused /\ snap' = snap)
  BY <1>1 DEF Finalize
<1>2. OwnerExit(c) \/ OwnerDisconnects(c) \/ IdleFires \/ OrphanFires => Quiet
  BY <1>1 DEF OwnerExit, OwnerDisconnects, IdleFires, OrphanFires, Quiet, linkVars, borrowVars
<1>3. Reclaim(c) \/ OpenSettled \/ ExitDone => Quiet
  BY DEF Reclaim, OpenSettled, ExitDone, Quiet, linkVars, borrowVars
<1>4. PrepareDisconnect => Quiet
  BY <1>1 DEF PrepareDisconnect, Quiet, borrowVars
<1>5. ASSUME NEW kind \in Kinds, Command(c, kind) PROVE Quiet
  BY <1>5 DEF Command, Quiet, linkVars, borrowVars
<1>6. QED BY <1>2, <1>3, <1>4, <1>5

(* A store that waits for its answer is cut short only for a reason the      *)
(* operator or the vehicle gave.                                             *)
LEMMA StoreStep ==
    ASSUME IInv, Next, wire = "job", job.step = "store", state' \in {"none", "exiting"}
    PROVE  link' = "down" \/ (destroyed' /\ ~destroyed) \/ ~Safe \/ orphanExpired
<1>1. state \in {"active", "orphaned"} /\ job # NoJob /\ paused /\ link = "up"
  BY DEF IInv, TransactionOwner, LinkOwnership
<1>2. CASE Environment
  BY <1>1, <1>2 DEF Environment, LinkUp, LinkDown, HeartbeatTimeout, TargetChange,
     SnapshotAges, Heartbeat, sessionVars
<1>3. CASE Client
  <2>1. PICK c \in Clients :
          \/ \E m \in Modes : Start(c, m)
          \/ OwnerExit(c) \/ OwnerDisconnects(c) \/ Reclaim(c) \/ PrepareDisconnect
          \/ \E kind \in Kinds : Command(c, kind)
    BY <1>3, EscAssumption DEF Client
  <2>2. QED BY <1>1, <2>1 DEF Start, OwnerExit, OwnerDisconnects, Reclaim,
     PrepareDisconnect, Command, Refused, sessionVars
<1>4. CASE OpenSettled \/ IdleFires \/ OrphanFires \/ ExitDone
  BY <1>1, <1>4 DEF OpenSettled, IdleFires, OrphanFires, ExitDone, sessionVars
<1>5. CASE Transfer
  <2>1. ASSUME NEW next, Transact(next) PROVE ~Safe
    BY <1>1, <2>1 DEF Transact, sessionVars
  <2>2. EndJob => orphanExpired
    BY <1>1 DEF EndJob, sessionVars
  <2>3. ASSUME NEW j, NEW done, NextTarget(j, done) PROVE ~Safe \/ orphanExpired
    BY <2>1, <2>2, <2>3 DEF NextTarget
  <2>4. QED BY <1>5, <2>1, <2>3 DEF Transfer, Reply, PreambleReply, ProbeReply, TargetReply,
     Running, Fails, DelayFires, Preamble
<1>6. QED BY <1>2, <1>3, <1>4, <1>5 DEF Next

(* The atomic unit of a settings write is not cut short by a watchdog or by  *)
(* the loss of the owner.                                                    *)
THEOREM AtomicUnitUndisturbedHolds == Spec => AtomicUnitUndisturbed
<1>1. IInv /\ [Next]_vars
      => [wire = "job" /\ job.step = "store" /\ state' \in {"none", "exiting"}
            => link' = "down" \/ (destroyed' /\ ~destroyed) \/ ~Safe \/ orphanExpired]_vars
  BY StoreStep
<1>2. QED BY <1>1, Invariance, PTL DEF Spec, AtomicUnitUndisturbed

(* Both boundaries of a transaction: none begins without its evidence, and   *)
(* none that stores is cut off.                                              *)
THEOREM SafetyBoundariesHold == Spec => SafetyBoundaries
<1>1. SafetyBoundaries <=> RequestsOnlyWhileSafe /\ AtomicUnitUndisturbed
  BY DEF SafetyBoundaries
<1>2. QED BY <1>1, RequestsOnlyWhileSafeHolds, AtomicUnitUndisturbedHolds
-----------------------------------------------------------------------------
(* The lease.                                                                *)
LEMMA QuietRefines == IInv /\ Quiet => [Lease!Next]_(Lease!vars)
<1> SUFFICES ASSUME IInv, Quiet PROVE [Lease!Next]_(Lease!vars)
  OBVIOUS
<1>1. CASE Teardown /\ paused
  <2>1. Holder = "esc" /\ Holder' = "mavlink" /\ Evidence' = "other"
    BY <1>1 DEF Quiet, IInv, TypeOK, LinkOwnership, Teardown, ReturnLink, Forgotten, Holder,
       Evidence, Snapshots
  <2>2. QED BY <2>1 DEF Lease!Next, Lease!Return
<1>2. CASE paused' = paused /\ snap' = snap
  BY <1>2 DEF Quiet, Lease!vars, Holder, Evidence
<1>3. CASE Teardown /\ ~paused
  BY <1>2, <1>3 DEF Teardown, ReturnLink, IInv, TypeOK
<1>4. QED BY <1>1, <1>2, <1>3 DEF Quiet

LEMMA EnvironmentRefines == IInv /\ Environment => [Lease!Next]_(Lease!vars)
<1> SUFFICES ASSUME IInv, Environment PROVE [Lease!Next]_(Lease!vars)
  OBVIOUS
<1>1. CASE LinkUp
  <2>1. Holder = "nobody" /\ Holder' = "mavlink" /\ Evidence' = "other"
    BY <1>1 DEF LinkUp, IInv, LinkOwnership, TypeOK, Holder, Evidence, NoEvidence
  <2>2. QED BY <2>1 DEF Lease!Next, Lease!Open
<1>2. CASE LinkDown
  <2>1. Holder # "nobody" /\ Holder' = "nobody" /\ Evidence' = "other"
    BY <1>2 DEF LinkDown, Holder, Evidence, NoEvidence
  <2>2. QED BY <2>1 DEF Lease!Next, Lease!Close
<1>3. CASE SnapshotAges
  <2>1. Evidence' = Evidence /\ Holder' = Holder
    BY <1>3 DEF SnapshotAges, IInv, TypeOK, Snapshots, Evidence, Holder, linkVars, borrowVars
  <2>2. QED BY <2>1 DEF Lease!vars
<1>4. CASE HeartbeatTimeout \/ TargetChange \/ \E armed \in {"yes", "no"} : Heartbeat(armed)
  <2>1. link = "up" /\ ~paused /\ link' = "up" /\ ~paused'
    BY <1>4 DEF HeartbeatTimeout, TargetChange, Heartbeat, IInv, LinkOwnership, ReturnLink,
       borrowVars
  <2>2. QED BY <2>1 DEF Lease!Next, Lease!Observe, Holder, Evidence
<1>5. QED BY <1>1, <1>2, <1>3, <1>4 DEF Environment

LEMMA StartRefines ==
    ASSUME IInv, NEW c \in Clients, NEW m \in Modes, Start(c, m)
    PROVE  [Lease!Next]_(Lease!vars)
<1>1. Evidence = "disarmed" /\ Evidence' = Evidence /\ Holder = "mavlink"
  BY DEF Start, EntrySafe, Evidence, Holder, IInv, LinkOwnership
<1>2. Holder' \in {"esc", Holder}
  <2>1. link = "up" /\ link' = "up" /\ (paused' = TRUE \/ paused' = paused)
    BY DEF Start
  <2>2. CASE paused' = TRUE
    BY <2>1, <2>2 DEF Holder
  <2>3. CASE paused' = paused
    BY <2>1, <2>3 DEF Holder
  <2>4. QED BY <2>1, <2>2, <2>3
<1>3. QED BY <1>1, <1>2 DEF Lease!Next, Lease!Lend, Lease!vars

(* The whole stack implements the lease: the link is lent only on fresh      *)
(* evidence of a disarmed vehicle, which nothing refreshes meanwhile and     *)
(* which is void when the link comes back.                                   *)
THEOREM ImplementsLease == Spec => LeaseSpec
<1>1. Init => Lease!Init
  BY DEF Init, Lease!Init, Holder, Evidence, NoEvidence
<1>2. IInv /\ [Next]_vars => [Lease!Next]_(Lease!vars)
  <2> SUFFICES ASSUME IInv, [Next]_vars PROVE [Lease!Next]_(Lease!vars)
    OBVIOUS
  <2>1. PICK c : c \in Clients
    BY EscAssumption
  <2>2. CASE Next
    BY <2>1, <2>2, EnvironmentRefines, StartRefines, QuietRefines, LifecycleQuiet,
       TransferQuiet DEF Next, Client
  <2>3. CASE UNCHANGED vars
    BY <2>3 DEF vars, linkVars, borrowVars, Lease!vars, Holder, Evidence
  <2>4. QED BY <2>2, <2>3
<1>3. QED BY <1>1, <1>2, Invariance, PTL DEF Spec, LeaseSpec, Lease!Spec
-----------------------------------------------------------------------------
(* The settings of several ESCs.  What is on its way between the transport   *)
(* and the interface.                                                        *)
Signatures == {Mcus[e] : e \in Escs}
Eeproms == [layout : {Layouts[e] : e \in Escs}, patched : BOOLEAN, rest : Escs]
Inits == [cmd : {"init"}, addr : {"none"}, to : Escs]
Requests == Inits \cup [cmd : {"read"}, addr : {"name", "eeprom"}, to : Escs]
            \cup [cmd : {"write"}, addr : {"eeprom"}, to : Escs, data : Eeproms]
Outcomes == [cmd : {"init"}, addr : {"none"}, ok : BOOLEAN, body : Signatures \cup {0}]
            \cup [cmd : {"read"}, addr : {"name", "eeprom"}, ok : {TRUE}, body : [of : Escs, eeprom : Eeproms]]
            \cup [cmd : {"write"}, addr : {"eeprom"}, ok : {TRUE}, body : {0}]
EscJobs == [op : {"scan", "load", "read", "write"}, esc : Escs, todo : SUBSET Escs,
            step : {"init", "delay", "name", "eeprom", "fresh", "store", "verify"}, tries : Nat,
            mcu : Signatures \cup {0}, encoded : Eeproms \cup {Eeprom(0, FALSE, -1)}]

(* What a job waits for in each of its steps.                                *)
Asked(j) ==
    IF j.step = "delay" THEN NoRequest
    ELSE IF j.step = "init" THEN Init4(j.esc)
    ELSE IF j.step = "name" THEN Read("name", j.esc)
    ELSE IF j.step = "store" THEN Write(j.encoded, j.esc)
    ELSE Read("eeprom", j.esc)

SettingsTypes ==
    /\ chip \in [Escs -> [mcu : Signatures, eeprom : Eeproms]] /\ selected \in Escs \cup {-1}
    /\ asks \in Seq(Requests) /\ replies \in Seq(Outcomes)
    /\ raws \in [Escs -> [from : Escs \cup {-1}]] /\ crossed \in BOOLEAN /\ swaps \in Nat
    /\ \/ escJob = NoEscJob /\ waiting = NoRequest
       \/ escJob \in EscJobs /\ waiting = Asked(escJob)

(* The answer to request w, when no channel was initialised since.           *)
AnswerTo(r, w, c) ==
    /\ r.cmd = w.cmd /\ r.addr = w.addr
    /\ w.cmd = "read" => r.body = [of |-> w.to, eeprom |-> c[w.to].eeprom]

(* One request at a time is on its way, and one more after a late answer:    *)
(* that is of an init, unless an init is what is waited for.  A request that *)
(* is no init finds its channel selected.                                    *)
OnTheWay ==
    /\ Len(replies) + Len(asks) <= IF waiting = NoRequest THEN 1 ELSE 2
    /\ waiting # NoRequest => IF asks # <<>> THEN asks[Len(asks)] = waiting
                              ELSE replies # <<>> /\ AnswerTo(replies[Len(replies)], waiting, chip)
    /\ waiting # NoRequest /\ waiting.cmd # "init" /\ Len(replies) + Len(asks) = 2 =>
         IF replies # <<>> THEN replies[1].cmd = "init" ELSE asks[1] = Init4(waiting.to)
Selection ==
    /\ asks = <<>> /\ waiting # NoRequest => selected = waiting.to
    /\ asks # <<>> => asks[1].cmd = "init" \/ selected = asks[1].to
    /\ \A k \in 1..Len(asks) : asks[k].cmd = "write" =>
         asks[k].data = Encoded(chip[asks[k].to].eeprom)

Straight == SettingsTypes /\ OnTheWay /\ Selection

(* A job turns to a request for an init, or to none.                         *)
Turns ==
    \/ /\ escJob' \in EscJobs /\ escJob'.step = "init" /\ waiting' = Init4(escJob'.esc)
       /\ asks' = Append(asks, Init4(escJob'.esc))
    \/ /\ escJob' = NoEscJob \/ (escJob' \in EscJobs /\ escJob'.step = "delay")
       /\ waiting' = NoRequest /\ asks' = asks

LEMMA InitsAre ==
    ASSUME NEW e \in Escs
    PROVE  /\ Init4(e) \in Requests /\ Init4(e).cmd = "init" /\ Init4(e).addr = "none" /\ Init4(e).to = e
           /\ Init4(e) # NoRequest
<1>1. Init4(e) = [cmd |-> "init", addr |-> "none", to |-> e]
  BY DEF Init4
<1>2. Init4(e).cmd = "init" /\ Init4(e).addr = "none" /\ Init4(e).to = e
  BY <1>1
<1>3. Init4(e) \in Inits
  BY <1>1 DEF Inits
<1>4. NoRequest.cmd = "none"
  BY DEF NoRequest
<1>5. Init4(e) # NoRequest
  <2>1. SUFFICES ASSUME Init4(e) = NoRequest PROVE FALSE
    OBVIOUS
  <2>2. "init" = "none"
    BY ONLY <2>1, <1>2, <1>4
  <2>3. QED BY <2>2
<1>6. QED BY <1>2, <1>3, <1>5 DEF Requests

LEMMA ReadsAre ==
    ASSUME NEW e \in Escs, NEW a \in {"name", "eeprom"}
    PROVE  /\ Read(a, e) \in Requests /\ Read(a, e).cmd = "read" /\ Read(a, e).addr = a /\ Read(a, e).to = e
           /\ Read(a, e) # NoRequest
<1>1. Read(a, e) = [cmd |-> "read", addr |-> a, to |-> e]
  BY DEF Read
<1>2. Read(a, e).cmd = "read" /\ Read(a, e).addr = a /\ Read(a, e).to = e
  BY <1>1
<1>3. Read(a, e) \in [cmd : {"read"}, addr : {"name", "eeprom"}, to : Escs]
  BY <1>1
<1>4. NoRequest.cmd = "none"
  BY DEF NoRequest
<1>5. Read(a, e) # NoRequest
  <2>1. SUFFICES ASSUME Read(a, e) = NoRequest PROVE FALSE
    OBVIOUS
  <2>2. "read" = "none"
    BY ONLY <2>1, <1>2, <1>4
  <2>3. QED BY <2>2
<1>6. QED BY <1>2, <1>3, <1>5 DEF Requests

LEMMA WritesAre ==
    ASSUME NEW e \in Escs, NEW d
    PROVE  /\ Write(d, e).cmd = "write" /\ Write(d, e).addr = "eeprom" /\ Write(d, e).to = e
           /\ Write(d, e).data = d /\ Write(d, e) # NoRequest
           /\ d \in Eeproms => Write(d, e) \in Requests
<1>1. Write(d, e) = [cmd |-> "write", addr |-> "eeprom", to |-> e, data |-> d]
  BY DEF Write
<1>2. Write(d, e).cmd = "write" /\ Write(d, e).addr = "eeprom" /\ Write(d, e).to = e /\ Write(d, e).data = d
  BY <1>1
<1>3. d \in Eeproms => Write(d, e) \in [cmd : {"write"}, addr : {"eeprom"}, to : Escs, data : Eeproms]
  BY <1>1
<1>4. NoRequest.cmd = "none"
  BY DEF NoRequest
<1>5. Write(d, e) # NoRequest
  <2>1. SUFFICES ASSUME Write(d, e) = NoRequest PROVE FALSE
    OBVIOUS
  <2>2. "write" = "none"
    BY ONLY <2>1, <1>2, <1>4
  <2>3. QED BY <2>2
<1>6. QED BY <1>2, <1>3, <1>5 DEF Requests

LEMMA JobsAreJobs ==
    ASSUME NEW j \in EscJobs
    PROVE  j # NoEscJob
<1>1. j.op \in {"scan", "load", "read", "write"}
  BY DEF EscJobs
<1>2. NoEscJob.op = "none"
  BY DEF NoEscJob
<1>3. QED BY ONLY <1>1, <1>2

LEMMA JobNamed ==
    ASSUME NEW j \in EscJobs, NEW m \in Signatures \cup {0}, NEW k, k = [j EXCEPT !.step = "name", !.mcu = m]
    PROVE  k \in EscJobs /\ k.esc = j.esc /\ k.step = "name"
<1>1. /\ j.op \in {"scan", "load", "read", "write"} /\ j.esc \in Escs /\ j.todo \in SUBSET Escs
      /\ j.tries \in Nat /\ j.mcu \in Signatures \cup {0} /\ j.encoded \in Eeproms \cup {Eeprom(0, FALSE, -1)}
  BY DEF EscJobs
<1>2. j = [op |-> j.op, esc |-> j.esc, todo |-> j.todo, step |-> j.step, tries |-> j.tries, mcu |-> j.mcu,
           encoded |-> j.encoded]
  BY DEF EscJobs
<1>3. k = [op |-> j.op, esc |-> j.esc, todo |-> j.todo, step |-> "name", tries |-> j.tries, mcu |-> m,
           encoded |-> j.encoded]
  BY ONLY <1>2, k = [j EXCEPT !.step = "name", !.mcu = m]
<1>4. QED BY ONLY <1>1, <1>3, m \in Signatures \cup {0} DEF EscJobs

LEMMA Turning ==
    ASSUME Straight, Turns, replies' \in Seq(Outcomes), Len(replies') + Len(asks) <= 1,
           chip' = chip, selected' = selected, raws' \in [Escs -> [from : Escs \cup {-1}]],
           crossed' \in BOOLEAN, swaps' = swaps
    PROVE  Straight'
<1>1. asks \in Seq(Requests) /\ Len(asks) \in Nat /\ Len(replies') \in Nat
  BY LenProperties DEF Straight, SettingsTypes
<1>2. chip' \in [Escs -> [mcu : Signatures, eeprom : Eeproms]] /\ selected' \in Escs \cup {-1} /\ swaps' \in Nat
  BY DEF Straight, SettingsTypes
<1>3. /\ asks # <<>> => asks[1].cmd = "init" \/ selected = asks[1].to
      /\ \A k \in 1..Len(asks) : asks[k].cmd = "write" =>
           asks[k].data = Encoded(chip[asks[k].to].eeprom)
  BY DEF Straight, Selection
<1>4. CASE escJob' \in EscJobs /\ escJob'.step = "init" /\ waiting' = Init4(escJob'.esc)
           /\ asks' = Append(asks, Init4(escJob'.esc))
  <2> DEFINE e == escJob'.esc
             q == Append(asks, Init4(e))
  <2>1. e \in Escs
    BY <1>4 DEF EscJobs
  <2>2. Init4(e) \in Requests /\ Init4(e).cmd = "init" /\ Init4(e) # NoRequest
    BY <2>1, InitsAre
  <2>3. /\ q \in Seq(Requests) /\ q # <<>> /\ Len(q) = Len(asks) + 1 /\ q[Len(q)] = Init4(e)
        /\ \A k \in 1..Len(asks) : q[k] = asks[k]
    BY <1>1, <2>2, AppendProperties
  <2>4. asks' = q /\ waiting' = Init4(e) /\ waiting' = Asked(escJob')
    BY <1>4 DEF Asked
  <2> HIDE DEF q, e
  <2>5. SettingsTypes'
    BY <1>2, <1>4, <2>3, <2>4 DEF SettingsTypes
  <2>6. OnTheWay'
    BY <1>1, <2>2, <2>3, <2>4 DEF OnTheWay
  <2>7. Selection'
    <3>1. asks' # <<>> /\ waiting' # NoRequest
      BY <2>2, <2>3, <2>4
    <3>2. asks'[1].cmd = "init" \/ selected' = asks'[1].to
      <4>1. CASE asks = <<>>
        BY <4>1, <1>1, <2>2, <2>3, <2>4, EmptySeq
      <4>2. CASE asks # <<>>
        BY <4>2, <1>1, <1>3, <2>3, <2>4, EmptySeq
      <4>3. QED BY <4>1, <4>2
    <3>3. \A k \in 1..Len(asks') : asks'[k].cmd = "write" =>
             asks'[k].data = Encoded(chip[asks'[k].to].eeprom)
      BY <1>1, <1>3, <2>2, <2>3, <2>4
    <3>4. QED BY <3>1, <3>2, <3>3 DEF Selection
  <2>8. QED BY <2>5, <2>6, <2>7 DEF Straight
<1>5. CASE (escJob' = NoEscJob \/ (escJob' \in EscJobs /\ escJob'.step = "delay"))
           /\ waiting' = NoRequest /\ asks' = asks
  <2>1. SettingsTypes'
    BY <1>1, <1>2, <1>5 DEF SettingsTypes, Asked
  <2>2. OnTheWay'
    BY <1>1, <1>5 DEF OnTheWay
  <2>3. Selection'
    BY <1>3, <1>5 DEF Selection
  <2>4. QED BY <2>1, <2>2, <2>3 DEF Straight
<1>6. QED BY <1>4, <1>5 DEF Turns

LEMMA NextTurns ==
    ASSUME escJob \in EscJobs, NEW found, NextEsc(found)
    PROVE  Turns
<1> DEFINE more == IF escJob.op = "scan" THEN Am32Found(found) ELSE {}
<1>0. /\ escJob.op \in {"scan", "load", "read", "write"} /\ escJob.esc \in Escs /\ escJob.todo \in SUBSET Escs
      /\ escJob = [op |-> escJob.op, esc |-> escJob.esc, todo |-> escJob.todo, step |-> escJob.step,
                   tries |-> escJob.tries, mcu |-> escJob.mcu, encoded |-> escJob.encoded]
      /\ escJob.tries \in Nat /\ escJob.mcu \in Signatures \cup {0}
      /\ escJob.encoded \in Eeproms \cup {Eeprom(0, FALSE, -1)}
  BY DEF EscJobs
<1>1. more \subseteq Escs
  BY DEF Am32Found
<1>2. ASSUME NEW e \in FirstOf(escJob.op, escJob.todo),
             escJob' = [escJob EXCEPT !.esc = e, !.todo = escJob.todo \ {e}, !.step = "init", !.tries = 1],
             Send(Init4(e))
      PROVE  Turns
  <2>1. e \in Escs
    BY <1>0, <1>2 DEF FirstOf
  <2>2. escJob' = [op |-> escJob.op, esc |-> e, todo |-> escJob.todo \ {e}, step |-> "init",
                   tries |-> 1, mcu |-> escJob.mcu, encoded |-> escJob.encoded]
    BY <1>0, <1>2
  <2>3. escJob' \in EscJobs /\ escJob'.step = "init" /\ escJob'.esc = e
    BY ONLY <1>0, <2>1, <2>2 DEF EscJobs
  <2>4. QED BY <1>2, <2>3 DEF Turns, Send
<1>3. ASSUME NEW e \in FirstOf("load", more),
             escJob' = [escJob EXCEPT !.op = "load", !.esc = e, !.todo = more \ {e}, !.step = "init"],
             Send(Init4(e))
      PROVE  Turns
  <2>1. e \in Escs
    BY <1>1, <1>3 DEF FirstOf
  <2>2. escJob' = [op |-> "load", esc |-> e, todo |-> more \ {e}, step |-> "init",
                   tries |-> escJob.tries, mcu |-> escJob.mcu, encoded |-> escJob.encoded]
    BY <1>0, <1>3
  <2>3. escJob' \in EscJobs /\ escJob'.step = "init" /\ escJob'.esc = e
    BY ONLY <1>0, <1>1, <2>1, <2>2 DEF EscJobs
  <2>4. QED BY <1>3, <2>3 DEF Turns, Send
<1>4. ASSUME escJob' = NoEscJob, AsksNothing PROVE Turns
  BY <1>4 DEF Turns, AsksNothing
<1>5. QED BY <1>2, <1>3, <1>4 DEF NextEsc

LEMMA FailureTurns ==
    ASSUME escJob \in EscJobs, NEW retryable, Failed(retryable)
    PROVE  Turns /\ raws' = raws
<1>0. /\ escJob = [op |-> escJob.op, esc |-> escJob.esc, todo |-> escJob.todo, step |-> escJob.step,
                   tries |-> escJob.tries, mcu |-> escJob.mcu, encoded |-> escJob.encoded]
      /\ escJob.op \in {"scan", "load", "read", "write"} /\ escJob.esc \in Escs /\ escJob.todo \in SUBSET Escs
      /\ escJob.tries \in Nat /\ escJob.mcu \in Signatures \cup {0}
      /\ escJob.encoded \in Eeproms \cup {Eeprom(0, FALSE, -1)}
  BY DEF EscJobs
<1>1. CASE escJob' = [escJob EXCEPT !.step = "delay", !.tries = escJob.tries + 1] /\ AsksNothing
           /\ UNCHANGED <<devices, raws>>
  <2>1. escJob' = [op |-> escJob.op, esc |-> escJob.esc, todo |-> escJob.todo, step |-> "delay",
                   tries |-> escJob.tries + 1, mcu |-> escJob.mcu, encoded |-> escJob.encoded]
    BY <1>0, <1>1
  <2>2. escJob.tries + 1 \in Nat
    BY ONLY <1>0
  <2>3. escJob' \in EscJobs /\ escJob'.step = "delay"
    BY ONLY <1>0, <2>1, <2>2 DEF EscJobs
  <2>4. QED BY <1>1, <2>3 DEF Turns, AsksNothing
<1>2. CASE \E found : NextEsc(found) /\ raws' = raws
  BY <1>2, NextTurns
<1>3. QED BY <1>1, <1>2 DEF Failed

LEMMA Selecting ==
    ASSUME chip' = chip, selected' = selected, asks' # <<>>, NEW r, NEW e,
           \/ Len(asks') = 1 /\ asks'[1] = r /\ selected = e
           \/ Len(asks') = 2 /\ asks'[1] = Init4(e) /\ asks'[1].cmd = "init" /\ asks'[2] = r,
           r.to = e, r.cmd = "write" => r.data = Encoded(chip[r.to].eeprom)
    PROVE  Selection'
<1>1. \A k \in 1..Len(asks') : asks'[k] = r \/ asks'[k].cmd = "init"
  <2>1. CASE Len(asks') = 1 /\ asks'[1] = r
    BY <2>1
  <2>2. CASE Len(asks') = 2 /\ asks'[1].cmd = "init" /\ asks'[2] = r
    <3>1. \A k \in 1..2 : k = 1 \/ k = 2
      OBVIOUS
    <3>2. QED BY ONLY <2>2, <3>1
  <2>3. QED BY <2>1, <2>2
<1>2. \A k \in 1..Len(asks') : asks'[k].cmd = "write" =>
        asks'[k].data = Encoded(chip'[asks'[k].to].eeprom)
  BY <1>1
<1>3. asks'[1].cmd = "init" \/ selected' = asks'[1].to
  OBVIOUS
<1>4. QED BY <1>2, <1>3 DEF Selection

(* The answer has come that the job waits for, and it asks its channel for   *)
(* something else.                                                           *)
LEMMA Going ==
    ASSUME Straight, escJob \in EscJobs, escJob' \in EscJobs, escJob'.esc = escJob.esc, NEW r \in Requests,
           r.cmd # "init", r.to = escJob.esc, Asked(escJob') = r, waiting # NoRequest, Send(r),
           replies # <<>>, replies' = Tail(replies), Answers(replies[1]),
           r.cmd = "write" => r.data = Encoded(chip[r.to].eeprom),
           chip' = chip, selected' = selected, raws' = raws, crossed' = crossed, swaps' = swaps
    PROVE  Straight'
<1>1. /\ asks \in Seq(Requests) /\ Len(asks) \in Nat /\ replies \in Seq(Outcomes) /\ Len(replies) \in Nat
      /\ Len(replies) >= 1 /\ replies' \in Seq(Outcomes) /\ Len(replies') = Len(replies) - 1
      /\ \A i \in 1..Len(replies') : replies'[i] = replies[i + 1]
  BY LenProperties, HeadTailProperties, EmptySeq DEF Straight, SettingsTypes
<1>2. waiting = Asked(escJob) /\ escJob.esc \in Escs /\ waiting.to = escJob.esc /\ NoRequest.cmd = "none"
      /\ (waiting.cmd = "init" => waiting = Init4(escJob.esc)) /\ r # NoRequest
  <2>1. escJob.esc \in Escs /\ escJob # NoEscJob
    <3>1. escJob.esc \in Escs
      BY DEF EscJobs
    <3>2. QED BY <3>1, JobsAreJobs
  <2>2. waiting = Asked(escJob)
    BY <2>1 DEF Straight, SettingsTypes
  <2>3. waiting \in {Init4(escJob.esc), Read("name", escJob.esc), Read("eeprom", escJob.esc),
                     Write(escJob.encoded, escJob.esc)}
    BY <2>2 DEF Asked
  <2>4. waiting.to = escJob.esc /\ (waiting.cmd = "init" => waiting = Init4(escJob.esc))
    BY <2>1, <2>3, InitsAre, ReadsAre, WritesAre
  <2>5. r # NoRequest /\ NoRequest.cmd = "none"
    BY DEF Requests, Inits, NoRequest
  <2>6. QED BY <2>1, <2>2, <2>4, <2>5
<1>3. /\ asks' = Append(asks, r) /\ waiting' = r /\ asks' \in Seq(Requests) /\ asks' # <<>>
      /\ Len(asks') = Len(asks) + 1 /\ asks'[Len(asks')] = r /\ \A k \in 1..Len(asks) : asks'[k] = asks[k]
  BY <1>1, AppendProperties DEF Send
<1>10. /\ chip' = chip /\ selected' = selected /\ r.to = escJob.esc
       /\ r.cmd = "write" => r.data = Encoded(chip[r.to].eeprom)
  OBVIOUS
(* Behind an answer that came late there is that to the init.                *)
<1>4. /\ Len(replies) + Len(asks) <= 2
      /\ IF asks # <<>> THEN asks[Len(asks)] = waiting
         ELSE AnswerTo(replies[Len(replies)], waiting, chip)
      /\ waiting.cmd # "init" /\ Len(replies) + Len(asks) = 2 => replies[1].cmd = "init"
  BY <1>1 DEF Straight, OnTheWay
<1>5. Len(replies) + Len(asks) = 2 => waiting.cmd = "init" /\ waiting = Init4(escJob.esc)
  BY <1>2, <1>4 DEF Answers
<1>6. CASE Len(replies) + Len(asks) = 1
  <2>1. asks = <<>> /\ Len(asks) = 0 /\ selected = escJob.esc
    BY <1>1, <1>2, <1>6, EmptySeq DEF Straight, Selection
  <2>2. Len(replies') + Len(asks') = 1 /\ asks'[1] = r /\ Len(asks') = 1
    BY <1>1, <1>3, <2>1, <1>6
  <2>3. OnTheWay'
    BY <1>1, <1>2, <1>3, <2>2 DEF OnTheWay
  <2>4. Selection'
    BY <1>3, <1>10, <2>1, <2>2, Selecting
  <2>5. QED BY <2>3, <2>4, <1>1, <1>3 DEF Straight, SettingsTypes
<1>7. CASE Len(replies) + Len(asks) = 2
  <2>1. Len(replies') + Len(asks') = 2
    BY <1>1, <1>3, <1>7
  <2>2. CASE asks = <<>>
    <3>1. Len(asks) = 0 /\ Len(replies) = 2 /\ selected = escJob.esc /\ replies[2].cmd = "init"
      <4>1. Len(asks) = 0
        BY <2>2, EmptySeq
      <4>2. Len(replies) = 2
        <5>1. \A a, b \in Int : b = 0 /\ a + b = 2 => a = 2
          OBVIOUS
        <5>2. Len(asks) \in Int /\ Len(replies) \in Int
          BY <1>1
        <5>3. QED BY <4>1, <5>1, <5>2, <1>7
      <4>3. selected = escJob.esc
        BY <2>2, <1>2 DEF Straight, Selection
      <4>4. replies[2].cmd = waiting.cmd
        BY <2>2, <4>2, <1>4 DEF AnswerTo
      <4>5. QED BY <4>1, <4>2, <4>3, <4>4, <1>5, <1>7
    <3>2. Len(asks') = 1 /\ asks'[1] = r /\ Len(replies') = 1 /\ replies'[1].cmd = "init" /\ replies' # <<>>
      <4>1. Len(replies') = 1 /\ 1 \in 1..Len(replies')
        <5>1. Len(replies) = 2 /\ Len(replies') = Len(replies) - 1
          BY <3>1, <1>1
        <5>2. QED BY ONLY <5>1
      <4>2. replies'[1] = replies[2] /\ replies' # <<>>
        BY <4>1, <1>1, EmptySeq
      <4>3. QED BY <4>1, <4>2, <3>1, <1>3
    <3>3. OnTheWay'
      BY <1>1, <1>2, <1>3, <2>1, <3>2 DEF OnTheWay
    <3>4. Selection'
      BY <1>3, <1>10, <3>1, <3>2, Selecting
    <3>5. QED BY <3>3, <3>4, <1>1, <1>3 DEF Straight, SettingsTypes
  <2>3. CASE asks # <<>>
    <3>1. Len(asks) = 1 /\ Len(replies) = 1 /\ asks[1] = Init4(escJob.esc)
      <4>1. Len(asks) # 0
        BY <2>3, <1>1, EmptySeq
      <4>2. Len(asks) = 1 /\ Len(replies) = 1
        <5>1. Len(asks) \in Int /\ Len(replies) \in Int /\ Len(replies) >= 1 /\ Len(asks) >= 1
          BY <4>1, <1>1
        <5>2. \A a, b \in Int : a >= 1 /\ b >= 1 /\ a + b = 2 => a = 1 /\ b = 1
          OBVIOUS
        <5>3. QED BY <5>1, <5>2, <1>7
      <4>3. QED BY <4>2, <2>3, <1>4, <1>5, <1>7
    <3>2. Len(asks') = 2 /\ asks'[1] = Init4(escJob.esc) /\ asks'[2] = r /\ Len(replies') = 0
          /\ replies' = <<>> /\ asks'[1].cmd = "init"
      BY <3>1, <1>1, <1>2, <1>3, InitsAre, EmptySeq
    <3>3. OnTheWay'
      BY <1>1, <1>2, <1>3, <2>1, <3>2 DEF OnTheWay
    <3>4. Selection'
      BY <1>3, <1>10, <3>2, Selecting
    <3>5. QED BY <3>3, <3>4, <1>1, <1>3 DEF Straight, SettingsTypes
  <2>4. QED BY <2>2, <2>3
<1>8. Len(replies) + Len(asks) \in {1, 2}
  BY <1>1, <1>4
<1>9. QED BY <1>6, <1>7, <1>8

(* The interface serves the request at the head of the queue.                *)
LEMMA Served ==
    ASSUME Straight, Serve \/ ServeNot
    PROVE  Straight'
<1> DEFINE r == asks[1]
<1>1. /\ asks \in Seq(Requests) /\ asks # <<>> /\ Len(asks) \in Nat /\ Len(asks) >= 1 /\ r \in Requests
      /\ asks' = Tail(asks) /\ asks' \in Seq(Requests) /\ Len(asks') = Len(asks) - 1
      /\ \A k \in 1..Len(asks') : asks'[k] = asks[k + 1]
      /\ replies \in Seq(Outcomes) /\ Len(replies) \in Nat
      /\ UNCHANGED <<waiting, escJob, raws, crossed, swaps>> /\ Head(asks) = r
  <2>1. /\ asks # <<>> /\ asks' = Tail(asks) /\ UNCHANGED <<waiting, escJob, raws, crossed, swaps>>
        /\ asks \in Seq(Requests) /\ replies \in Seq(Outcomes)
    BY DEF Straight, SettingsTypes, Serve, ServeNot
  <2>2. Len(asks) \in Nat \ {0} /\ Len(replies) \in Nat
    BY <2>1, EmptySeq, LenProperties
  <2>3. r \in Requests
    BY <2>1, <2>2, ElementOfSeq
  <2>4. asks' \in Seq(Requests) /\ Len(asks') = Len(asks) - 1 /\ \A k \in 1..Len(asks') : asks'[k] = asks[k + 1]
    BY <2>1, HeadTailProperties
  <2>5. Head(asks) = r
    BY <2>1
  <2>6. QED BY <2>1, <2>2, <2>3, <2>4, <2>5
<1>2. \/ r.cmd = "init" /\ r.addr = "none" /\ r.to \in Escs
      \/ r.cmd = "read" /\ r.addr \in {"name", "eeprom"} /\ r.to \in Escs
      \/ r.cmd = "write" /\ r.addr = "eeprom" /\ r.to \in Escs /\ r.data \in Eeproms
  BY <1>1 DEF Requests, Inits
<1>3. /\ chip \in [Escs -> [mcu : Signatures, eeprom : Eeproms]] /\ selected \in Escs \cup {-1}
      /\ r.cmd # "init" => selected = r.to
      /\ r.cmd = "write" => r.data = Encoded(chip[r.to].eeprom)
  BY <1>1 DEF Straight, SettingsTypes, Selection
<1>4. \E t \in Outcomes :
         /\ replies' = Append(replies, t) /\ t.cmd = r.cmd /\ t.addr = r.addr
         /\ r.cmd = "read" => t.body = [of |-> r.to, eeprom |-> chip[r.to].eeprom]
  <2>1. CASE r.cmd = "init"
    <3>1. chip[r.to].mcu \in Signatures
      BY <1>2, <1>3, <2>1
    <3>2. Replied(r, TRUE, chip[r.to].mcu) \in Outcomes /\ Replied(r, FALSE, 0) \in Outcomes
      BY <1>2, <2>1, <3>1 DEF Replied, Outcomes
    <3>3. replies' = Append(replies, Replied(r, TRUE, chip[r.to].mcu)) \/ replies' = Append(replies, Replied(r, FALSE, 0))
      BY <1>1, <2>1 DEF Serve, ServeNot
    <3>4. /\ Replied(r, TRUE, chip[r.to].mcu).cmd = r.cmd /\ Replied(r, TRUE, chip[r.to].mcu).addr = r.addr
          /\ Replied(r, FALSE, 0).cmd = r.cmd /\ Replied(r, FALSE, 0).addr = r.addr
      BY DEF Replied
    <3>5. QED BY <2>1, <3>2, <3>3, <3>4
  <2>2. CASE r.cmd = "read"
    <3> DEFINE t == Replied(r, TRUE, [of |-> selected, eeprom |-> chip[selected].eeprom])
    <3>1. replies' = Append(replies, t)
      BY <1>1, <2>2 DEF Serve, ServeNot
    <3>2. selected = r.to /\ r.to \in Escs /\ chip[r.to].eeprom \in Eeproms /\ r.addr \in {"name", "eeprom"}
      BY <1>2, <1>3, <2>2
    <3>3. t = [cmd |-> "read", addr |-> r.addr, ok |-> TRUE, body |-> [of |-> r.to, eeprom |-> chip[r.to].eeprom]]
      BY <2>2, <3>2 DEF Replied
    <3>4. [of |-> r.to, eeprom |-> chip[r.to].eeprom] \in [of : Escs, eeprom : Eeproms]
      BY <3>2
    <3> HIDE DEF t
    <3>5. t \in Outcomes
      BY ONLY <3>2, <3>3, <3>4 DEF Outcomes
    <3>6. t.cmd = r.cmd /\ t.addr = r.addr /\ t.body = [of |-> r.to, eeprom |-> chip[r.to].eeprom]
      BY ONLY <2>2, <3>3
    <3>7. QED BY <3>1, <3>5, <3>6
  <2>3. CASE r.cmd = "write"
    <3>1. replies' = Append(replies, Replied(r, TRUE, 0))
      BY <1>1, <2>3 DEF Serve, ServeNot
    <3> DEFINE t == Replied(r, TRUE, 0)
    <3>2. t = [cmd |-> "write", addr |-> "eeprom", ok |-> TRUE, body |-> 0]
      BY <1>2, <2>3 DEF Replied
    <3>3. t.cmd = r.cmd /\ t.addr = r.addr
      BY DEF Replied
    <3> HIDE DEF t
    <3>4. t \in Outcomes
      <4>1. t \in [cmd : {"write"}, addr : {"eeprom"}, ok : {TRUE}, body : {0}]
        BY ONLY <3>2
      <4>2. QED BY <4>1 DEF Outcomes
    <3>5. QED BY <2>3, <3>1, <3>3, <3>4 DEF t
  <2>4. QED BY <1>2, <2>1, <2>2, <2>3
<1>5. PICK t \in Outcomes :
         /\ replies' = Append(replies, t) /\ t.cmd = r.cmd /\ t.addr = r.addr
         /\ r.cmd = "read" => t.body = [of |-> r.to, eeprom |-> chip[r.to].eeprom]
  BY <1>4
<1>6. /\ replies' \in Seq(Outcomes) /\ replies' # <<>> /\ Len(replies') = Len(replies) + 1
      /\ replies'[Len(replies')] = t /\ \A k \in 1..Len(replies) : replies'[k] = replies[k]
  BY <1>1, <1>5, AppendProperties
<1>7. selected' \in Escs /\ selected' = r.to /\ (r.cmd # "write" => chip' = chip)
      /\ (r.cmd = "write" => chip' = [chip EXCEPT ![r.to].eeprom = r.data])
  BY <1>1, <1>2, <1>3 DEF Serve, ServeNot
<1>8. chip' \in [Escs -> [mcu : Signatures, eeprom : Eeproms]]
  <2>1. CASE r.cmd # "write"
    BY <1>3, <1>7, <2>1
  <2>2. CASE r.cmd = "write"
    <3>1. r.data \in Eeproms /\ r.to \in Escs
      BY <1>2, <2>2
    <3>2. chip' = [chip EXCEPT ![r.to].eeprom = r.data]
      BY <1>7, <2>2
    <3> HIDE DEF r
    <3>3. chip[r.to] \in [mcu : Signatures, eeprom : Eeproms]
      BY <1>3, <3>1
    <3>4. [chip[r.to] EXCEPT !.eeprom = r.data] \in [mcu : Signatures, eeprom : Eeproms]
      BY ONLY <3>1, <3>3
    <3>5. chip' = [chip EXCEPT ![r.to] = [chip[r.to] EXCEPT !.eeprom = r.data]]
      BY <3>2
    <3>6. QED BY ONLY <1>3, <3>1, <3>4, <3>5
  <2>3. QED BY <2>1, <2>2
<1>9. SettingsTypes'
  BY <1>1, <1>6, <1>7, <1>8 DEF Straight, SettingsTypes
<1> HIDE DEF r
<1>10. /\ Len(replies) + Len(asks) <= IF waiting = NoRequest THEN 1 ELSE 2
       /\ waiting # NoRequest => asks[Len(asks)] = waiting
       /\ waiting # NoRequest /\ waiting.cmd # "init" /\ Len(replies) + Len(asks) = 2 =>
            IF replies # <<>> THEN replies[1].cmd = "init" ELSE r = Init4(waiting.to)
  BY <1>1 DEF Straight, OnTheWay, r
<1>11. Len(replies) + Len(asks) <= 2
  BY <1>1, <1>3, <1>10
<1>12. Len(replies') + Len(asks') = Len(replies) + Len(asks)
  BY <1>1, <1>6
<1>13. CASE Len(asks) = 1
  <2>1. asks' = <<>> /\ Len(asks') = 0
    BY <1>1, <1>13, EmptySeq
  <2>2. waiting # NoRequest => waiting = r
    BY <1>10, <1>13 DEF r
  <2>3. waiting # NoRequest => AnswerTo(t, waiting, chip')
    <3>1. waiting # NoRequest => AnswerTo(t, waiting, chip)
      BY <1>5, <2>2 DEF AnswerTo
    <3>2. waiting # NoRequest /\ waiting.cmd = "read" => chip' = chip
      BY <1>7, <2>2
    <3>3. QED BY <1>1, <3>1, <3>2 DEF AnswerTo
  <2>4. OnTheWay'
    <3>1. Len(replies') + Len(asks') <= IF waiting' = NoRequest THEN 1 ELSE 2
      BY <1>1, <1>10, <1>12
    <3>2. waiting' # NoRequest => replies' # <<>> /\ AnswerTo(replies'[Len(replies')], waiting', chip')
      BY <1>1, <1>6, <2>3
    <3>3. waiting' # NoRequest /\ waiting'.cmd # "init" /\ Len(replies') + Len(asks') = 2 => replies'[1].cmd = "init"
      <4>1. SUFFICES ASSUME waiting # NoRequest, waiting.cmd # "init", Len(replies) + Len(asks) = 2
                     PROVE  replies'[1].cmd = "init"
        BY <1>1, <1>12
      <4>2. Len(replies) = 1 /\ replies # <<>>
        BY <1>1, <1>13, <4>1, EmptySeq
      <4>3. replies[1].cmd = "init" /\ replies'[1] = replies[1]
        BY <1>6, <1>10, <4>1, <4>2
      <4>4. QED BY <4>3
    <3>4. QED BY ONLY <2>1, <3>1, <3>2, <3>3, <1>6 DEF OnTheWay
  <2>5. Selection'
    BY <1>1, <1>7, <2>1, <2>2 DEF Selection
  <2>6. QED BY <1>9, <2>4, <2>5 DEF Straight
<1>14. CASE Len(asks) = 2
  <2>1. Len(asks') = 1 /\ Len(replies) = 0 /\ replies = <<>> /\ asks'[1] = asks[2] /\ asks' # <<>>
    <3>1. Len(asks') = 1
      BY ONLY <1>1, <1>14
    <3>2. Len(replies) = 0
      BY ONLY <1>1, <1>11, <1>14
    <3>3. asks'[1] = asks[2]
      <4>1. 1 \in 1..Len(asks') /\ 1 + 1 = 2
        BY <3>1
      <4>2. asks'[1] = asks[1 + 1]
        BY <1>1, <4>1
      <4>3. QED BY <4>1, <4>2
    <3>4. replies = <<>> /\ asks' # <<>>
      BY <3>1, <3>2, <1>1, EmptySeq
    <3>5. QED BY <3>1, <3>2, <3>3, <3>4
  <2>2. waiting # NoRequest /\ asks[2] = waiting
    BY <1>1, <1>3, <1>10, <1>14
  <2>3. asks[2].cmd # "init" => r.cmd = "init" /\ r.to = asks[2].to
    <3>1. SUFFICES ASSUME asks[2].cmd # "init" PROVE r.cmd = "init" /\ r.to = asks[2].to
      OBVIOUS
    <3>2. r = Init4(waiting.to)
      BY <1>1, <1>10, <1>14, <2>1, <2>2, <3>1
    <3>3. QED BY <2>2, <3>2 DEF Init4
  <2>4. Len(replies') = 1 /\ replies'[1] = t /\ replies' # <<>>
    BY <1>6, <2>1
  <2>5. OnTheWay'
    <3>1. Len(replies') + Len(asks') <= IF waiting' = NoRequest THEN 1 ELSE 2
      BY <1>1, <1>10, <1>12
    <3>2. asks'[Len(asks')] = waiting'
      BY <1>1, <2>1, <2>2
    <3>3. waiting'.cmd # "init" => replies'[1].cmd = "init"
      BY <1>1, <1>5, <2>2, <2>3, <2>4
    <3>4. QED BY <2>1, <2>4, <3>1, <3>2, <3>3 DEF OnTheWay
  <2>6. Selection'
    <3>1. asks'[1].cmd = "init" \/ selected' = asks'[1].to
      BY <1>7, <2>1, <2>3
    <3>2. asks'[1].cmd = "write" => asks'[1].data = Encoded(chip'[asks'[1].to].eeprom)
      <4>1. SUFFICES ASSUME asks[2].cmd = "write" PROVE asks[2].data = Encoded(chip'[asks[2].to].eeprom)
        BY <2>1
      <4>2. chip' = chip
        BY <1>7, <2>3, <4>1
      <4>3. QED BY <1>1, <1>14, <4>1, <4>2 DEF Straight, Selection
    <3>3. \A k \in 1..Len(asks') : k = 1
      BY <2>1
    <3>4. QED BY <2>1, <3>1, <3>2, <3>3 DEF Selection
  <2>7. QED BY <1>9, <2>5, <2>6 DEF Straight
<1>15. Len(asks) = 1 \/ Len(asks) = 2
  BY <1>1, <1>11
<1>16. QED BY <1>13, <1>14, <1>15

(* A reply arrives.                                                          *)
LEMMA Arrived ==
    ASSUME Straight, Arrives
    PROVE  /\ Straight'
           /\ \A e \in Escs : raws[e]' # raws[e] => raws'[e].from = e
<1> DEFINE r == replies[1]
<1>1. /\ replies \in Seq(Outcomes) /\ replies # <<>> /\ Len(replies) \in Nat /\ Len(replies) >= 1 /\ r \in Outcomes
      /\ replies' = Tail(replies) /\ replies' \in Seq(Outcomes) /\ Len(replies') = Len(replies) - 1
      /\ asks \in Seq(Requests) /\ Len(asks) \in Nat
      /\ UNCHANGED <<chip, selected, crossed, swaps>>
  <2>1. /\ replies # <<>> /\ replies' = Tail(replies) /\ UNCHANGED <<chip, selected, crossed, swaps>>
        /\ replies \in Seq(Outcomes) /\ asks \in Seq(Requests)
    BY DEF Straight, SettingsTypes, Arrives
  <2>2. Len(replies) \in Nat \ {0} /\ Len(asks) \in Nat
    BY <2>1, EmptySeq, LenProperties
  <2>3. r \in Outcomes
    BY <2>1, <2>2, ElementOfSeq
  <2>4. replies' \in Seq(Outcomes) /\ Len(replies') = Len(replies) - 1
    BY <2>1, HeadTailProperties
  <2>5. QED BY <2>1, <2>2, <2>3, <2>4
<1>2. /\ IF waiting = NoRequest THEN UNCHANGED <<waiting, asks, escJob, devices, raws>>
         ELSE IF ~Answers(r) THEN Failed(FALSE)
         ELSE IF ~r.ok THEN Failed(TRUE)
         ELSE Continues(r.body)
  <2>1. Head(replies) = r
    BY <1>1
  <2>2. QED BY <2>1 DEF Arrives
<1>3. /\ raws \in [Escs -> [from : Escs \cup {-1}]] /\ crossed' \in BOOLEAN
      /\ Len(replies) + Len(asks) <= IF waiting = NoRequest THEN 1 ELSE 2
  BY <1>1 DEF Straight, SettingsTypes, OnTheWay
<1>4. CASE waiting = NoRequest
  <2>1. UNCHANGED <<waiting, asks, escJob, raws>>
    BY <1>2, <1>4
  <2>2. Len(replies') + Len(asks') <= 1
    BY <1>1, <1>3, <1>4, <2>1
  <2>3. SettingsTypes'
    BY <1>1, <2>1 DEF Straight, SettingsTypes
  <2>4. OnTheWay'
    BY <1>4, <2>1, <2>2 DEF OnTheWay
  <2>5. Selection'
    BY <1>1, <2>1 DEF Straight, Selection
  <2>6. QED BY <2>1, <2>3, <2>4, <2>5 DEF Straight
<1>5. ASSUME waiting # NoRequest, Turns, raws' \in [Escs -> [from : Escs \cup {-1}]] PROVE Straight'
  <2>1. Len(replies') + Len(asks) <= 1
    BY <1>1, <1>3, <1>5
  <2>2. QED BY <1>1, <1>3, <1>5, <2>1, Turning
<1>6. ASSUME waiting # NoRequest, NEW b, Failed(b) PROVE Straight' /\ raws' = raws
  <2>1. escJob \in EscJobs
    BY <1>6 DEF Straight, SettingsTypes
  <2>2. Turns /\ raws' = raws
    BY <1>6, <2>1, FailureTurns
  <2>3. QED BY <1>3, <1>5, <1>6, <2>2
<1>7. CASE waiting # NoRequest /\ Answers(r) /\ Continues(r.body)
  <2> DEFINE d == escJob.esc
  <2>1. escJob \in EscJobs /\ waiting = Asked(escJob) /\ d \in Escs /\ TargetEsc = d
    <3>1. escJob \in EscJobs /\ waiting = Asked(escJob)
      BY <1>7 DEF Straight, SettingsTypes
    <3>2. QED BY <3>1 DEF EscJobs, TargetEsc
  <2>2. /\ escJob = [op |-> escJob.op, esc |-> d, todo |-> escJob.todo, step |-> escJob.step,
                     tries |-> escJob.tries, mcu |-> escJob.mcu, encoded |-> escJob.encoded]
        /\ escJob.op \in {"scan", "load", "read", "write"} /\ escJob.todo \in SUBSET Escs
        /\ escJob.tries \in Nat /\ escJob.mcu \in Signatures \cup {0}
        /\ escJob.encoded \in Eeproms \cup {Eeprom(0, FALSE, -1)}
    BY <2>1 DEF EscJobs
  <2>3. \A a \in {"name", "eeprom"} : /\ Read(a, d) \in Requests /\ Read(a, d).cmd = "read" /\ Read(a, d).addr = a
                                      /\ Read(a, d).to = d /\ Read(a, d) # NoRequest
    BY <2>1, ReadsAre
  (* A job that goes on with another request to its channel.                 *)
  <2>4. ASSUME NEW nextJob \in EscJobs, nextJob.esc = d, escJob' = nextJob, NEW q \in Requests, q.cmd # "init", q.to = d,
               Asked(nextJob) = q, Send(q), q.cmd = "write" => q.data = Encoded(chip[q.to].eeprom), raws' = raws
        PROVE  Straight' /\ raws' = raws
    <3>1. replies # <<>> /\ replies' = Tail(replies) /\ Answers(replies[1]) /\ UNCHANGED <<chip, selected, crossed, swaps>>
      BY <1>1, <1>7
    <3>2. QED BY <1>7, <2>1, <2>4, <3>1, Going
  <2>5. ASSUME NEW s \in {"name", "eeprom", "fresh", "verify"}, NEW a \in {"name", "eeprom"},
               s = "name" <=> a = "name", escJob' = [escJob EXCEPT !.step = s], Send(Read(a, d)), raws' = raws
        PROVE  Straight' /\ raws' = raws
    <3> DEFINE nextJob == [escJob EXCEPT !.step = s]
    <3>1. nextJob = [op |-> escJob.op, esc |-> d, todo |-> escJob.todo, step |-> s,
                 tries |-> escJob.tries, mcu |-> escJob.mcu, encoded |-> escJob.encoded]
      BY <2>2
    <3>2. nextJob \in EscJobs
      BY ONLY <2>1, <2>2, <2>5, <3>1 DEF EscJobs
    <3>3. nextJob.esc = d /\ nextJob.step = s
      BY <3>1
    <3>4. Asked(nextJob) = Read(a, d)
      <4> HIDE DEF nextJob
      <4>1. QED BY <2>5, <3>3 DEF Asked
    <3> HIDE DEF nextJob
    <3>5. escJob' = nextJob
      BY <2>5 DEF nextJob
    <3>6. Read(a, d).cmd # "init" /\ Read(a, d).cmd # "write"
      BY <2>3
    <3>7. QED BY <2>3, <2>4, <2>5, <3>2, <3>3, <3>4, <3>5, <3>6
  (* Of what is no init, the answer that came is the only one on its way.    *)
  <2>6. ASSUME escJob.step # "init"
        PROVE  waiting.cmd = "read" => r.body = [of |-> d, eeprom |-> chip[d].eeprom] /\ chip[d].eeprom \in Eeproms
    <3>1. waiting \in {Read("name", d), Read("eeprom", d), Write(escJob.encoded, d)}
      BY <1>7, <2>1, <2>6 DEF Asked
    <3>2. waiting.cmd # "init" /\ waiting.to = d
      BY <2>1, <2>3, <3>1, WritesAre
    <3>3. r.cmd # "init"
      BY <1>7, <3>2 DEF Answers
    <3>4. Len(replies) + Len(asks) = 1
      <4>1. Len(replies) + Len(asks) # 2
        BY <1>1, <1>7, <3>2, <3>3 DEF Straight, OnTheWay
      <4>2. Len(replies) + Len(asks) <= 2
        BY <1>3, <1>1, <1>7
      <4>3. \A a, b \in Int : a >= 1 /\ b >= 0 /\ a + b <= 2 /\ a + b # 2 => a + b = 1
        OBVIOUS
      <4>4. Len(replies) \in Int /\ Len(asks) \in Int /\ Len(replies) >= 1 /\ Len(asks) >= 0
        BY <1>1
      <4>5. QED BY ONLY <4>1, <4>2, <4>3, <4>4
    <3>5. Len(asks) = 0 /\ Len(replies) = 1
      <4>1. \A a, b \in Int : a >= 1 /\ b >= 0 /\ a + b = 1 => a = 1 /\ b = 0
        OBVIOUS
      <4>2. Len(replies) \in Int /\ Len(asks) \in Int /\ Len(replies) >= 1 /\ Len(asks) >= 0
        BY <1>1
      <4>3. QED BY ONLY <3>4, <4>1, <4>2
    <3>6. asks = <<>>
      BY <1>1, <3>5, EmptySeq
    <3>7. AnswerTo(r, waiting, chip)
      BY <1>7, <3>5, <3>6 DEF Straight, OnTheWay
    <3>8. chip[d].eeprom \in Eeproms
      BY <2>1 DEF Straight, SettingsTypes
    <3>9. QED BY <3>2, <3>7, <3>8 DEF AnswerTo
  <2> HIDE DEF r
  <2>7. ASSUME NEW got, NEW mcu, Keeps(mcu, got), got.of = d
        PROVE  Straight' /\ \A e \in Escs : raws[e]' # raws[e] => raws'[e].from = e
    <3>1. raws' = [raws EXCEPT ![d] = [from |-> d]] /\ \E found : NextEsc(found)
      BY <2>1, <2>7 DEF Keeps
    <3>2. Turns
      BY <2>1, <3>1, NextTurns
    <3>3. raws' \in [Escs -> [from : Escs \cup {-1}]]
      BY <1>3, <2>1, <3>1
    <3>4. \A e \in Escs : raws[e]' # raws[e] => raws'[e].from = e
      BY <1>3, <2>1, <3>1
    <3>5. QED BY <1>5, <1>7, <3>2, <3>3, <3>4
  <2>8. CASE escJob.step = "init" /\ OnInit(r.body)
    <3>1. CASE escJob.op = "scan"
      <4>1. raws' = raws /\ \E found : NextEsc(found)
        BY <2>8, <3>1 DEF OnInit, Probed
      <4>2. Turns
        BY <2>1, <4>1, NextTurns
      <4>3. QED BY <1>3, <1>5, <1>7, <4>1, <4>2
    <3>2. CASE escJob.op \in {"read", "load"} /\ Failed(FALSE)
      BY <1>6, <1>7, <3>2
    <3>3. CASE escJob' = [escJob EXCEPT !.step = "name", !.mcu = r.body] /\ Send(Read("name", d)) /\ raws' = raws
      <4> DEFINE nextJob == [escJob EXCEPT !.step = "name", !.mcu = r.body]
      <4>1. waiting.cmd = "init"
        BY <2>1, <2>8, InitsAre DEF Asked
      <4>2. r.body \in Signatures \cup {0}
        BY <1>1, <1>7, <4>1 DEF Answers, Outcomes
      <4>3. nextJob \in EscJobs /\ nextJob.esc = d /\ nextJob.step = "name"
        BY <2>1, <4>2, JobNamed
      <4>4. escJob' = nextJob
        BY <3>3
      <4> HIDE DEF nextJob
      <4>6. Asked(nextJob) = Read("name", d)
        BY <4>3 DEF Asked
      <4>7. Read("name", d).cmd # "init" /\ Read("name", d).cmd # "write" /\ Read("name", d).to = d
            /\ Read("name", d) \in Requests
        BY <2>3
      <4>8. QED BY <2>4, <3>3, <4>3, <4>4, <4>6, <4>7
    <3>4. CASE escJob.op = "write" /\ (Failed(FALSE) \/ Goes("fresh", Read("eeprom", TargetEsc)))
      <4>1. CASE Failed(FALSE)
        BY <1>6, <1>7, <4>1
      <4>2. CASE Goes("fresh", Read("eeprom", TargetEsc))
        BY <2>1, <2>5, <4>2 DEF Goes
      <4>3. QED BY <3>4, <4>1, <4>2
    <3>5. QED BY <2>1, <2>2, <2>8, <3>1, <3>2, <3>3, <3>4 DEF OnInit
  <2>9. CASE escJob.step = "name" /\ Goes("eeprom", Read("eeprom", TargetEsc))
    BY <2>1, <2>5, <2>9 DEF Goes
  <2>10. CASE escJob.step = "eeprom" /\ Keeps(escJob.mcu, r.body)
    <3>1. waiting.cmd = "read"
      BY <2>1, <2>3, <2>10 DEF Asked
    <3>2. r.body.of = d
      BY <2>6, <2>10, <3>1
    <3>3. QED BY <2>7, <2>10, <3>2
  <2>11. CASE escJob.step = "fresh" /\ OnFresh(r.body.eeprom)
    <3>1. waiting.cmd = "read"
      BY <2>1, <2>3, <2>11 DEF Asked
    <3>2. r.body.eeprom = chip[d].eeprom /\ chip[d].eeprom \in Eeproms
      BY <2>6, <2>11, <3>1
    <3>3. CASE Failed(FALSE)
      BY <1>6, <1>7, <3>3
    <3>4. CASE escJob' = [escJob EXCEPT !.step = "store", !.encoded = Encoded(r.body.eeprom)]
               /\ Send(Write(Encoded(r.body.eeprom), d)) /\ raws' = raws
      <4> DEFINE data == Encoded(chip[d].eeprom)
      <4>1. data \in Eeproms
        BY <3>2 DEF Eeproms, Encoded
      <4> HIDE DEF data
      <4>2. PICK nextJob : nextJob = [escJob EXCEPT !.step = "store", !.encoded = data]
        OBVIOUS
      <4>3. nextJob \in EscJobs /\ nextJob.esc = escJob.esc /\ nextJob.step = "store" /\ nextJob.encoded = data
        <5>1. nextJob = [op |-> escJob.op, esc |-> d, todo |-> escJob.todo, step |-> "store",
                     tries |-> escJob.tries, mcu |-> escJob.mcu, encoded |-> data]
          BY <2>2, <4>2
        <5>2. nextJob.esc = escJob.esc /\ nextJob.step = "store" /\ nextJob.encoded = data
          BY ONLY <5>1
        <5>3. QED BY ONLY <2>1, <2>2, <4>1, <5>1, <5>2 DEF EscJobs
      <4>4. nextJob.esc = d
        BY <4>3
      <4>5. escJob' = nextJob /\ Send(Write(data, d))
        BY <3>2, <3>4, <4>2 DEF data
      <4>6. Asked(nextJob) = Write(data, d)
        BY <4>3, <4>4 DEF Asked
      <4>7. /\ Write(data, d) \in Requests /\ Write(data, d).cmd # "init" /\ Write(data, d).to = d
            /\ Write(data, d).data = data
        BY <2>1, <4>1, WritesAre
      <4>8. Write(data, d).cmd = "write" => Write(data, d).data = Encoded(chip[Write(data, d).to].eeprom)
        BY <4>7 DEF data
      <4>9. QED BY <2>4, <3>4, <4>3, <4>4, <4>5, <4>6, <4>7, <4>8
    <3>5. QED BY <2>1, <2>11, <3>3, <3>4 DEF OnFresh
  <2>12. CASE escJob.step = "store" /\ Goes("verify", Read("eeprom", TargetEsc))
    BY <2>1, <2>5, <2>12 DEF Goes
  <2>13. CASE escJob.step = "verify" /\ (Keeps(devices[TargetEsc].mcu, r.body) \/ Failed(FALSE))
    <3>1. waiting.cmd = "read"
      BY <2>1, <2>3, <2>13 DEF Asked
    <3>2. r.body.of = d
      BY <2>6, <2>13, <3>1
    <3>3. CASE Failed(FALSE)
      BY <1>6, <1>7, <3>3
    <3>4. QED BY <2>7, <2>13, <3>2, <3>3
  <2>14. QED BY <1>7, <2>8, <2>9, <2>10, <2>11, <2>12, <2>13 DEF Continues
<1>8. QED BY <1>2, <1>4, <1>6, <1>7

LEMMA SettingsStart ==
    ASSUME SettingsInit
    PROVE  Straight
<1>1. Escs \subseteq Nat /\ DOMAIN Mcus = Escs /\ DOMAIN Layouts = Escs
  BY SettingsAssumption DEF Escs
<1>2. \A e \in Escs : [mcu |-> Mcus[e], eeprom |-> Eeprom(Layouts[e], FALSE, e)] \in [mcu : Signatures, eeprom : Eeproms]
  BY DEF Signatures, Eeproms, Eeprom
<1>3. chip \in [Escs -> [mcu : Signatures, eeprom : Eeproms]]
  BY <1>2 DEF SettingsInit
<1>4. raws \in [Escs -> [from : Escs \cup {-1}]]
  BY DEF SettingsInit, NoRaw
<1>5. asks = <<>> /\ replies = <<>> /\ asks \in Seq(Requests) /\ replies \in Seq(Outcomes) /\ Len(asks) = 0 /\ Len(replies) = 0
  BY EmptySeq DEF SettingsInit
<1>6. selected = -1 /\ waiting = NoRequest /\ escJob = NoEscJob /\ crossed = FALSE /\ swaps = 0
  BY DEF SettingsInit
<1>7. SettingsTypes
  BY <1>3, <1>4, <1>5, <1>6 DEF SettingsTypes
<1>8. OnTheWay
  BY <1>5, <1>6 DEF OnTheWay
<1>9. Selection
  BY <1>5, <1>6 DEF Selection
<1>10. QED BY <1>7, <1>8, <1>9 DEF Straight

(* A job starts, or a probe is tried again.                                  *)
LEMMA StartTurns ==
    ASSUME NEW op \in {"scan", "read", "write"}, NEW targets \in SUBSET Escs, Starts(op, targets)
    PROVE  Turns
<1>1. PICK e \in FirstOf(op, targets) :
        /\ escJob' = [op |-> op, esc |-> e, todo |-> targets \ {e}, step |-> "init", tries |-> 1, mcu |-> 0,
                      encoded |-> Eeprom(0, FALSE, -1)]
        /\ Send(Init4(e))
  BY DEF Starts
<1>2. e \in Escs
  BY DEF FirstOf
<1>3. escJob' \in EscJobs /\ escJob'.step = "init" /\ escJob'.esc = e
  BY ONLY <1>1, <1>2, op \in {"scan", "read", "write"}, targets \in SUBSET Escs DEF EscJobs
<1>4. QED BY <1>1, <1>3 DEF Turns, Send

LEMMA RetryTurns ==
    ASSUME escJob \in EscJobs, escJob' = [escJob EXCEPT !.step = "init"], Send(Init4(escJob.esc))
    PROVE  Turns
<1>1. /\ escJob = [op |-> escJob.op, esc |-> escJob.esc, todo |-> escJob.todo, step |-> escJob.step,
                   tries |-> escJob.tries, mcu |-> escJob.mcu, encoded |-> escJob.encoded]
      /\ escJob.op \in {"scan", "load", "read", "write"} /\ escJob.esc \in Escs /\ escJob.todo \in SUBSET Escs
      /\ escJob.tries \in Nat /\ escJob.mcu \in Signatures \cup {0}
      /\ escJob.encoded \in Eeproms \cup {Eeprom(0, FALSE, -1)}
  BY DEF EscJobs
<1>2. escJob' = [op |-> escJob.op, esc |-> escJob.esc, todo |-> escJob.todo, step |-> "init",
                 tries |-> escJob.tries, mcu |-> escJob.mcu, encoded |-> escJob.encoded]
  BY <1>1
<1>3. escJob' \in EscJobs /\ escJob'.step = "init" /\ escJob'.esc = escJob.esc
  BY ONLY <1>1, <1>2 DEF EscJobs
<1>4. QED BY <1>3 DEF Turns, Send

(* Two ESCs change places.                                                   *)
LEMMA Swapped ==
    ASSUME Straight, Swap
    PROVE  Straight' /\ raws' = raws /\ swaps' # swaps
<1>1. PICK d, e \in Escs : chip' = [chip EXCEPT ![d] = chip[e], ![e] = chip[d]]
  BY DEF Swap
<1>2. /\ chip \in [Escs -> [mcu : Signatures, eeprom : Eeproms]] /\ swaps \in Nat /\ asks = <<>>
      /\ UNCHANGED <<selected, asks, replies, waiting, escJob, raws, crossed>> /\ swaps' = swaps + 1
      /\ escJob = NoEscJob
  BY DEF Straight, SettingsTypes, Swap
<1>3. waiting = NoRequest
  BY <1>2, JobsAreJobs DEF Straight, SettingsTypes
<1>4. chip' \in [Escs -> [mcu : Signatures, eeprom : Eeproms]]
  BY ONLY <1>1, <1>2
<1>5. SettingsTypes'
  BY <1>2, <1>4 DEF Straight, SettingsTypes
<1>6. OnTheWay'
  BY <1>2, <1>3 DEF Straight, OnTheWay
<1>7. Selection'
  BY <1>2, <1>3, EmptySeq DEF Selection
<1>8. QED BY <1>2, <1>5, <1>6, <1>7 DEF Straight

(* A store reaches the ESC that was meant, and changes what was patched.     *)
LEMMA Stores ==
    ASSUME Straight, Serve \/ ServeNot
    PROVE  \A e \in Escs : chip'[e].eeprom # chip[e].eeprom =>
             Head(asks).to = e /\ chip'[e].eeprom = [chip[e].eeprom EXCEPT !.patched = TRUE]
<1> DEFINE r == Head(asks)
<1>1. asks \in Seq(Requests) /\ asks # <<>> /\ chip \in [Escs -> [mcu : Signatures, eeprom : Eeproms]]
  BY DEF Straight, SettingsTypes, Serve, ServeNot
<1>2. Len(asks) \in Nat \ {0} /\ asks[1] = r /\ r \in Requests
  BY <1>1, EmptySeq, LenProperties, ElementOfSeq
<1>3. CASE r.cmd # "write"
  <2>1. chip' = chip
    BY <1>3 DEF Serve, ServeNot
  <2>2. QED BY <2>1
<1>4. CASE r.cmd = "write"
  <2>1. selected = r.to /\ r.data = Encoded(chip[r.to].eeprom)
    BY <1>2, <1>4, <1>1 DEF Straight, Selection
  <2>2. chip' = [chip EXCEPT ![selected].eeprom = r.data]
    BY <1>4 DEF Serve, ServeNot
  <2>3. r.to \in Escs
    BY <1>2 DEF Requests, Inits
  <2> HIDE DEF r
  <2>4. \A e \in Escs : e # r.to => chip'[e] = chip[e]
    BY <1>1, <2>1, <2>2
  <2>5. chip'[r.to].eeprom = r.data
    BY <1>1, <2>1, <2>2, <2>3
  <2>6. r.data = [chip[r.to].eeprom EXCEPT !.patched = TRUE]
    BY <2>1 DEF Encoded
  <2>7. QED BY <2>4, <2>5, <2>6 DEF r
<1>5. QED BY <1>3, <1>4

(* Whatever is late, everything keeps its type: who is not selected was not  *)
(* asked anything but an init.                                               *)
Untouched == selected = -1 => replies = <<>> /\ \A k \in 1..Len(asks) : asks[k].cmd = "init"
Typed == SettingsTypes /\ Untouched

LEMMA TurningTyped ==
    ASSUME Typed, Turns, replies' \in Seq(Outcomes), replies = <<>> => replies' = <<>>,
           chip' = chip, selected' = selected, raws' \in [Escs -> [from : Escs \cup {-1}]],
           crossed' \in BOOLEAN, swaps' = swaps
    PROVE  Typed'
<1>1. /\ asks \in Seq(Requests) /\ Len(asks) \in Nat
      /\ chip' \in [Escs -> [mcu : Signatures, eeprom : Eeproms]] /\ selected' \in Escs \cup {-1} /\ swaps' \in Nat
      /\ selected' = -1 => replies' = <<>> /\ \A k \in 1..Len(asks) : asks[k].cmd = "init"
  BY LenProperties DEF Typed, SettingsTypes, Untouched
<1>2. CASE escJob' \in EscJobs /\ escJob'.step = "init" /\ waiting' = Init4(escJob'.esc)
           /\ asks' = Append(asks, Init4(escJob'.esc))
  <2> DEFINE e == escJob'.esc
             q == Append(asks, Init4(e))
  <2>1. e \in Escs
    BY <1>2 DEF EscJobs
  <2>2. Init4(e) \in Requests /\ Init4(e).cmd = "init"
    BY <2>1, InitsAre
  <2>3. /\ q \in Seq(Requests) /\ Len(q) = Len(asks) + 1 /\ q[Len(asks) + 1] = Init4(e)
        /\ \A k \in 1..Len(asks) : q[k] = asks[k]
    BY <1>1, <2>2, AppendProperties
  <2>4. asks' = q /\ waiting' = Asked(escJob')
    BY <1>2 DEF Asked
  <2> HIDE DEF q, e
  <2>5. \A k \in 1..Len(q) : k \in 1..Len(asks) \/ k = Len(asks) + 1
    BY <1>1, <2>3
  <2>6. selected' = -1 => \A k \in 1..Len(q) : q[k].cmd = "init"
    BY <1>1, <2>2, <2>3, <2>5
  <2>7. QED BY <1>1, <1>2, <2>3, <2>4, <2>6 DEF Typed, SettingsTypes, Untouched
<1>3. CASE (escJob' = NoEscJob \/ (escJob' \in EscJobs /\ escJob'.step = "delay"))
           /\ waiting' = NoRequest /\ asks' = asks
  BY <1>1, <1>3 DEF Typed, SettingsTypes, Untouched, Asked
<1>4. QED BY <1>2, <1>3 DEF Turns

(* A job goes on with another request to its channel.                        *)
GoesOn ==
    /\ escJob' \in EscJobs /\ waiting' = Asked(escJob') /\ waiting' \in Requests /\ waiting'.cmd # "init"
    /\ asks' = Append(asks, waiting')

LEMMA Continuing ==
    ASSUME escJob \in EscJobs, waiting = Asked(escJob), waiting # NoRequest, NEW r \in Outcomes, Answers(r),
           Continues(r.body), raws \in [Escs -> [from : Escs \cup {-1}]]
    PROVE  (Turns \/ GoesOn) /\ raws' \in [Escs -> [from : Escs \cup {-1}]]
<1> DEFINE d == escJob.esc
           m == r.body
<1>1. d \in Escs /\ TargetEsc = d
  BY DEF EscJobs, TargetEsc
<1>2. /\ escJob = [op |-> escJob.op, esc |-> d, todo |-> escJob.todo, step |-> escJob.step,
                   tries |-> escJob.tries, mcu |-> escJob.mcu, encoded |-> escJob.encoded]
      /\ escJob.op \in {"scan", "load", "read", "write"} /\ escJob.todo \in SUBSET Escs
      /\ escJob.tries \in Nat /\ escJob.mcu \in Signatures \cup {0}
      /\ escJob.encoded \in Eeproms \cup {Eeprom(0, FALSE, -1)}
  BY DEF EscJobs
<1>3. \A a \in {"name", "eeprom"} : Read(a, d) \in Requests /\ Read(a, d).cmd = "read"
  BY <1>1, ReadsAre
<1>4. escJob.step = "init" => r.body \in Signatures \cup {0}
  <2>1. escJob.step = "init" => r.cmd = "init"
    BY <1>1, InitsAre DEF Asked, Answers
  <2>2. QED BY <2>1 DEF Outcomes
<1>5. escJob.step \in {"eeprom", "fresh", "verify"} => r.body \in [of : Escs, eeprom : Eeproms]
  <2>1. escJob.step \in {"eeprom", "fresh", "verify"} => r.cmd = "read"
    BY <1>3 DEF Asked, Answers
  <2>2. QED BY <2>1 DEF Outcomes
<1> HIDE DEF m
<1>6. ASSUME NEW b, Failed(b) PROVE Turns /\ raws' = raws
  BY <1>6, FailureTurns
<1>7. ASSUME NEW s \in {"name", "eeprom", "fresh", "verify"}, NEW a \in {"name", "eeprom"},
             s = "name" <=> a = "name", escJob' = [escJob EXCEPT !.step = s], Send(Read(a, d))
      PROVE  GoesOn
  <2>1. PICK next : next = [escJob EXCEPT !.step = s]
    OBVIOUS
  <2>2. next = [op |-> escJob.op, esc |-> d, todo |-> escJob.todo, step |-> s,
                tries |-> escJob.tries, mcu |-> escJob.mcu, encoded |-> escJob.encoded]
    BY <1>2, <2>1
  <2>3. next \in EscJobs
    BY ONLY <1>1, <1>2, <1>7, <2>2 DEF EscJobs
  <2>4. next.esc = d /\ next.step = s
    BY ONLY <2>2
  <2>5. Asked(next) = Read(a, d)
    BY <1>7, <2>4 DEF Asked
  <2>6. QED BY <1>3, <1>7, <2>1, <2>3, <2>5 DEF GoesOn, Send
<1>8. ASSUME NEW got \in [of : Escs, eeprom : Eeproms], NEW mcu, Keeps(mcu, got)
      PROVE  Turns /\ raws' \in [Escs -> [from : Escs \cup {-1}]]
  <2>1. raws' = [raws EXCEPT ![d] = [from |-> got.of]] /\ \E found : NextEsc(found)
    BY <1>1, <1>8 DEF Keeps
  <2>2. got.of \in Escs
    BY <1>8
  <2>3. QED BY <1>1, <2>1, <2>2, NextTurns
<1>9. CASE escJob.step = "init" /\ OnInit(m)
  <2>1. CASE escJob.op = "scan"
    <3>1. raws' = raws /\ \E found : NextEsc(found)
      BY <1>9, <2>1 DEF OnInit, Probed
    <3>2. QED BY <3>1, NextTurns
  <2>2. CASE escJob.op \in {"read", "load"} /\ Failed(FALSE)
    BY <1>6, <2>2
  <2>3. CASE escJob' = [escJob EXCEPT !.step = "name", !.mcu = m] /\ Send(Read("name", d)) /\ raws' = raws
    <3>1. PICK next : next = [escJob EXCEPT !.step = "name", !.mcu = m]
      OBVIOUS
    <3>2. m \in Signatures \cup {0}
      BY <1>4, <1>9 DEF m
    <3>3. next \in EscJobs /\ next.esc = d /\ next.step = "name"
      BY <3>1, <3>2, JobNamed
    <3>4. Asked(next) = Read("name", d)
      BY <3>3 DEF Asked
    <3>5. QED BY <1>3, <2>3, <3>1, <3>3, <3>4 DEF GoesOn, Send
  <2>4. CASE escJob.op = "write" /\ (Failed(FALSE) \/ Goes("fresh", Read("eeprom", TargetEsc)))
    <3>1. CASE Failed(FALSE)
      BY <1>6, <3>1
    <3>2. CASE Goes("fresh", Read("eeprom", TargetEsc))
      BY <1>1, <1>7, <3>2 DEF Goes
    <3>3. QED BY <2>4, <3>1, <3>2
  <2>5. QED BY <1>1, <1>2, <1>9, <2>1, <2>2, <2>3, <2>4 DEF OnInit
<1>10. CASE escJob.step = "name" /\ Goes("eeprom", Read("eeprom", TargetEsc))
  BY <1>1, <1>7, <1>10 DEF Goes
<1>11. CASE escJob.step = "eeprom" /\ Keeps(escJob.mcu, m)
  BY <1>5, <1>8, <1>11 DEF m
<1>12. CASE escJob.step = "fresh" /\ OnFresh(m.eeprom)
  <2> DEFINE data == Encoded(m.eeprom)
  <2>1. m.eeprom \in Eeproms
    BY <1>5, <1>12 DEF m
  <2>2. data \in Eeproms
    BY <2>1 DEF Eeproms, Encoded
  <2> HIDE DEF data
  <2>3. CASE Failed(FALSE)
    BY <1>6, <2>3
  <2>4. CASE escJob' = [escJob EXCEPT !.step = "store", !.encoded = data] /\ Send(Write(data, d)) /\ raws' = raws
    <3>1. PICK next : next = [escJob EXCEPT !.step = "store", !.encoded = data]
      OBVIOUS
    <3>2. next = [op |-> escJob.op, esc |-> d, todo |-> escJob.todo, step |-> "store",
                  tries |-> escJob.tries, mcu |-> escJob.mcu, encoded |-> data]
      BY <1>2, <3>1
    <3>3. next \in EscJobs
      BY ONLY <1>1, <1>2, <2>2, <3>2 DEF EscJobs
    <3>4. next.esc = d /\ next.step = "store" /\ next.encoded = data
      BY ONLY <3>2
    <3>5. Asked(next) = Write(data, d)
      BY <3>4 DEF Asked
    <3>6. Write(data, d) \in Requests /\ Write(data, d).cmd = "write"
      BY <1>1, <2>2, WritesAre
    <3>7. QED BY <2>4, <3>1, <3>3, <3>5, <3>6 DEF GoesOn, Send
  <2>5. QED BY <1>1, <1>12, <2>3, <2>4 DEF OnFresh, data
<1>13. CASE escJob.step = "store" /\ Goes("verify", Read("eeprom", TargetEsc))
  BY <1>1, <1>7, <1>13 DEF Goes
<1>14. CASE escJob.step = "verify" /\ (Keeps(devices[TargetEsc].mcu, m) \/ Failed(FALSE))
  <2>1. CASE Keeps(devices[TargetEsc].mcu, m)
    BY <1>5, <1>8, <1>14, <2>1 DEF m
  <2>2. CASE Failed(FALSE)
    BY <1>6, <2>2
  <2>3. QED BY <1>14, <2>1, <2>2
<1>15. QED BY <1>9, <1>10, <1>11, <1>12, <1>13, <1>14 DEF Continues, m

LEMMA ArrivedTyped == ASSUME Typed, Arrives PROVE Typed'
<1>1. /\ replies # <<>> /\ replies' = Tail(replies) /\ UNCHANGED <<chip, selected, crossed, swaps>>
      /\ replies \in Seq(Outcomes) /\ asks \in Seq(Requests) /\ raws \in [Escs -> [from : Escs \cup {-1}]]
      /\ chip' \in [Escs -> [mcu : Signatures, eeprom : Eeproms]] /\ selected' \in Escs \cup {-1}
      /\ crossed' \in BOOLEAN /\ swaps' \in Nat /\ selected' # -1
  BY DEF Arrives, Typed, SettingsTypes, Untouched
<1>2. Head(replies) \in Outcomes /\ replies' \in Seq(Outcomes)
  BY <1>1, HeadTailProperties
<1>3. CASE waiting = NoRequest
  <2>1. UNCHANGED <<waiting, asks, escJob, raws>>
    BY <1>3 DEF Arrives
  <2>2. QED BY <1>1, <1>2, <2>1 DEF Typed, SettingsTypes, Untouched
<1>4. CASE waiting # NoRequest
  <2>1. escJob \in EscJobs /\ waiting = Asked(escJob)
    BY <1>4 DEF Typed, SettingsTypes
  <2>2. ASSUME Turns, raws' \in [Escs -> [from : Escs \cup {-1}]] PROVE Typed'
    BY <1>1, <1>2, <2>2, TurningTyped
  <2>3. ASSUME NEW b, Failed(b) PROVE Typed'
    BY <1>1, <2>1, <2>2, <2>3, FailureTurns
  <2>4. CASE Answers(Head(replies)) /\ Continues(Head(replies).body)
    <3>1. (Turns \/ GoesOn) /\ raws' \in [Escs -> [from : Escs \cup {-1}]]
      BY <1>1, <1>2, <1>4, <2>1, <2>4, Continuing
    <3>2. CASE GoesOn
      <4>1. asks' \in Seq(Requests)
        BY <1>1, <3>2, AppendProperties DEF GoesOn
      <4>2. QED BY <1>1, <1>2, <3>1, <3>2, <4>1 DEF Typed, SettingsTypes, Untouched, GoesOn
    <3>3. QED BY <2>2, <3>1, <3>2
  <2>5. QED BY <1>4, <2>3, <2>4 DEF Arrives
<1>5. QED BY <1>3, <1>4

LEMMA ServedTyped == ASSUME Typed, Serve \/ ServeNot PROVE Typed'
<1> DEFINE r == Head(asks)
<1>1. /\ asks # <<>> /\ asks' = Tail(asks) /\ UNCHANGED <<waiting, escJob, raws, crossed, swaps>>
      /\ asks \in Seq(Requests) /\ replies \in Seq(Outcomes) /\ selected \in Escs \cup {-1}
      /\ chip \in [Escs -> [mcu : Signatures, eeprom : Eeproms]]
  BY DEF Typed, SettingsTypes, Serve, ServeNot
<1>2. r \in Requests /\ r = asks[1] /\ 1 \in 1..Len(asks) /\ asks' \in Seq(Requests)
  BY <1>1, HeadTailProperties, EmptySeq, LenProperties
<1>3. \/ r.cmd = "init" /\ r.addr = "none" /\ r.to \in Escs
      \/ r.cmd = "read" /\ r.addr \in {"name", "eeprom"} /\ selected \in Escs
      \/ r.cmd = "write" /\ r.addr = "eeprom" /\ r.data \in Eeproms /\ selected \in Escs
  <2>1. r.cmd # "init" => selected # -1
    BY <1>2 DEF Typed, Untouched
  <2>2. QED BY <1>1, <1>2, <2>1 DEF Requests, Inits
<1> HIDE DEF r
<1>4. /\ selected' \in Escs /\ chip' \in [Escs -> [mcu : Signatures, eeprom : Eeproms]]
      /\ \E t \in Outcomes : replies' = Append(replies, t)
  <2>1. CASE r.cmd = "init"
    <3>1. /\ selected' = r.to /\ chip' = chip
          /\ replies' = Append(replies, Replied(r, TRUE, chip[r.to].mcu)) \/ replies' = Append(replies, Replied(r, FALSE, 0))
      BY <2>1 DEF Serve, ServeNot, r
    <3>2. chip[r.to].mcu \in Signatures
      BY <1>1, <1>3, <2>1
    <3>3. Replied(r, TRUE, chip[r.to].mcu) \in Outcomes /\ Replied(r, FALSE, 0) \in Outcomes
      BY <1>3, <2>1, <3>2 DEF Replied, Outcomes
    <3>4. QED BY <1>1, <1>3, <2>1, <3>1, <3>3
  <2>2. CASE r.cmd = "read"
    <3> DEFINE t == Replied(r, TRUE, [of |-> selected, eeprom |-> chip[selected].eeprom])
    <3>1. selected' = selected /\ chip' = chip /\ replies' = Append(replies, t)
      BY <2>2 DEF Serve, ServeNot, r
    <3>2. selected \in Escs /\ chip[selected].eeprom \in Eeproms /\ r.addr \in {"name", "eeprom"}
      BY <1>1, <1>3, <2>2
    <3>3. t = [cmd |-> "read", addr |-> r.addr, ok |-> TRUE, body |-> [of |-> selected, eeprom |-> chip[selected].eeprom]]
      BY <2>2 DEF Replied
    <3>4. [of |-> selected, eeprom |-> chip[selected].eeprom] \in [of : Escs, eeprom : Eeproms]
      BY <3>2
    <3> HIDE DEF t
    <3>5. t \in Outcomes
      BY ONLY <3>2, <3>3, <3>4 DEF Outcomes
    <3>6. QED BY <1>1, <3>1, <3>2, <3>5
  <2>3. CASE r.cmd = "write"
    <3> DEFINE t == Replied(r, TRUE, 0)
    <3>1. selected' = selected /\ chip' = [chip EXCEPT ![selected].eeprom = r.data] /\ replies' = Append(replies, t)
      BY <2>3 DEF Serve, ServeNot, r
    <3>2. t = [cmd |-> "write", addr |-> "eeprom", ok |-> TRUE, body |-> 0]
      BY <1>3, <2>3 DEF Replied
    <3> HIDE DEF t
    <3>3. t \in Outcomes
      <4>1. t \in [cmd : {"write"}, addr : {"eeprom"}, ok : {TRUE}, body : {0}]
        BY ONLY <3>2
      <4>2. QED BY <4>1 DEF Outcomes
    <3>4. selected \in Escs /\ r.data \in Eeproms
      BY <1>3, <2>3
    <3>5. chip[selected] \in [mcu : Signatures, eeprom : Eeproms]
      BY <1>1, <3>4
    <3>6. [chip[selected] EXCEPT !.eeprom = r.data] \in [mcu : Signatures, eeprom : Eeproms]
      BY ONLY <3>4, <3>5
    <3>7. chip' = [chip EXCEPT ![selected] = [chip[selected] EXCEPT !.eeprom = r.data]]
      BY <3>1
    <3>8. chip' \in [Escs -> [mcu : Signatures, eeprom : Eeproms]]
      BY ONLY <1>1, <3>4, <3>6, <3>7
    <3>9. QED BY <3>1, <3>3, <3>4, <3>8
  <2>4. QED BY <1>3, <2>1, <2>2, <2>3
<1>5. replies' \in Seq(Outcomes) /\ selected' # -1
  BY <1>1, <1>4, AppendProperties DEF Escs
<1>6. QED BY <1>1, <1>2, <1>4, <1>5 DEF Typed, SettingsTypes, Untouched

LEMMA TypedSteps == ASSUME Typed, [SettingsNext]_settingsVars PROVE Typed'
<1>1. CASE UNCHANGED settingsVars
  BY <1>1 DEF settingsVars, Typed, SettingsTypes, Untouched
<1>2. ASSUME Turns, crossed' \in BOOLEAN, UNCHANGED <<chip, selected, replies, raws, swaps>> PROVE Typed'
  <2>1. replies' \in Seq(Outcomes) /\ raws' \in [Escs -> [from : Escs \cup {-1}]]
    BY <1>2 DEF Typed, SettingsTypes
  <2>2. QED BY <1>2, <2>1, TurningTyped
<1>3. crossed \in BOOLEAN
  BY DEF Typed, SettingsTypes
<1>4. CASE StartScan \/ StartJob
  <2>1. /\ UNCHANGED <<chip, selected, replies, raws, swaps>> /\ crossed' \in BOOLEAN
        /\ \E op \in {"scan", "read", "write"}, targets \in SUBSET Escs : Starts(op, targets)
    BY <1>3, <1>4 DEF StartScan, StartJob
  <2>2. QED BY <1>2, <2>1, StartTurns
<1>5. CASE Swap
  <2>1. PICK d, e \in Escs : chip' = [chip EXCEPT ![d] = chip[e], ![e] = chip[d]]
    BY <1>5 DEF Swap
  <2>2. /\ UNCHANGED <<selected, asks, replies, waiting, escJob, raws, crossed>> /\ swaps' = swaps + 1
        /\ chip \in [Escs -> [mcu : Signatures, eeprom : Eeproms]] /\ swaps \in Nat
    BY <1>5 DEF Swap, Typed, SettingsTypes
  <2>3. chip' \in [Escs -> [mcu : Signatures, eeprom : Eeproms]]
    BY ONLY <2>1, <2>2
  <2>4. QED BY <2>2, <2>3 DEF Typed, SettingsTypes, Untouched
<1>6. CASE RetryInit
  <2>1. escJob.op = "scan" /\ NoEscJob.op = "none"
    BY <1>6 DEF RetryInit, NoEscJob
  <2>2. escJob \in EscJobs
    BY <2>1 DEF Typed, SettingsTypes
  <2>3. Turns
    BY <1>6, <2>2, RetryTurns DEF RetryInit, TargetEsc
  <2>4. UNCHANGED <<chip, selected, replies, raws, crossed, swaps>>
    BY <1>6 DEF RetryInit
  <2>5. QED BY <1>2, <1>3, <2>3, <2>4
<1>7. CASE TimesOut
  <2>1. waiting # NoRequest /\ Failed(TRUE) /\ UNCHANGED <<chip, selected, replies, swaps>> /\ crossed' \in BOOLEAN
    BY <1>3, <1>7 DEF TimesOut
  <2>2. escJob \in EscJobs
    BY <2>1 DEF Typed, SettingsTypes
  <2>3. Turns /\ raws' = raws
    BY <2>1, <2>2, FailureTurns
  <2>4. QED BY <1>2, <2>1, <2>3
<1>8. QED BY <1>1, <1>4, <1>5, <1>6, <1>7, ServedTyped, ArrivedTyped DEF SettingsNext

(* One late answer at a time, or the job that met two has to end first.      *)
SettingsInv == Typed /\ (~crossed => OnTheWay /\ Selection)

(* A job that starts with nothing on its way is straight again.              *)
LEMMA StartsStraight ==
    ASSUME SettingsInv, escJob = NoEscJob, ~crossed \/ ~(Len(asks) + Len(replies) > 0)
    PROVE  Straight
<1>1. /\ SettingsTypes /\ waiting = NoRequest /\ Len(asks) \in Nat /\ Len(replies) \in Nat
      /\ asks \in Seq(Requests) /\ replies \in Seq(Outcomes)
  BY JobsAreJobs, LenProperties DEF SettingsInv, Typed, SettingsTypes
<1>2. CASE ~crossed
  BY <1>1, <1>2 DEF SettingsInv, Straight
<1>3. CASE ~(Len(asks) + Len(replies) > 0)
  <2>1. Len(asks) = 0 /\ Len(replies) = 0 /\ asks = <<>>
    BY <1>1, <1>3, EmptySeq
  <2>2. OnTheWay /\ Selection
    BY <1>1, <2>1 DEF OnTheWay, Selection
  <2>3. QED BY <1>1, <2>2 DEF Straight
<1>4. QED BY <1>2, <1>3

LEMMA StraightSteps ==
    ASSUME SettingsInv, [SettingsNext]_settingsVars, ~crossed'
    PROVE  Straight'
<1>1. ~crossed => Straight
  BY DEF SettingsInv, Straight, Typed
<1>2. ASSUME Straight PROVE /\ replies \in Seq(Outcomes) /\ Len(replies) \in Nat /\ Len(asks) \in Nat
                            /\ raws \in [Escs -> [from : Escs \cup {-1}]] /\ crossed \in BOOLEAN
                            /\ Len(replies) + Len(asks) <= IF waiting = NoRequest THEN 1 ELSE 2
  BY <1>2, LenProperties DEF Straight, SettingsTypes, OnTheWay
<1>3. ASSUME Straight, Turns, waiting = NoRequest, crossed' \in BOOLEAN, UNCHANGED <<chip, selected, replies, raws, swaps>>
      PROVE  Straight'
  <2>1. Len(replies') + Len(asks) <= 1 /\ replies' \in Seq(Outcomes) /\ raws' \in [Escs -> [from : Escs \cup {-1}]]
    BY <1>2, <1>3
  <2>2. QED BY <1>3, <2>1, Turning
<1>4. CASE UNCHANGED settingsVars
  <2>1. Straight
    BY <1>1, <1>4 DEF settingsVars
  <2>2. SettingsTypes'
    BY <1>4, <2>1 DEF Straight, SettingsTypes, settingsVars
  <2>3. OnTheWay'
    BY <1>4, <2>1 DEF Straight, OnTheWay, AnswerTo, settingsVars
  <2>4. Selection'
    BY <1>4, <2>1 DEF Straight, Selection, settingsVars
  <2>5. QED BY <2>2, <2>3, <2>4 DEF Straight
<1>5. CASE StartScan \/ StartJob
  <2>1. /\ escJob = NoEscJob /\ UNCHANGED <<chip, selected, replies, raws, swaps>>
        /\ crossed' = crossed \/ crossed' = (crossed /\ Len(asks) + Len(replies) > 0)
        /\ \E op \in {"scan", "read", "write"}, targets \in SUBSET Escs : Starts(op, targets)
    BY <1>5 DEF StartScan, StartJob
  <2>2. Straight
    <3>1. ~crossed \/ ~(Len(asks) + Len(replies) > 0)
      BY <2>1, Zenon
    <3>2. QED BY <2>1, <3>1, StartsStraight
  <2>3. waiting = NoRequest /\ crossed' \in BOOLEAN
    BY <2>1, <2>2, <1>2, JobsAreJobs DEF Straight, SettingsTypes
  <2>4. QED BY <1>3, <2>1, <2>2, <2>3, StartTurns
<1>6. CASE Swap
  BY <1>1, <1>6, Swapped DEF Swap
<1>7. CASE Serve \/ ServeNot
  BY <1>1, <1>7, Served DEF Serve, ServeNot
<1>8. CASE RetryInit
  <2>1. escJob.op = "scan" /\ escJob.step = "delay" /\ NoEscJob.op = "none" /\ crossed' = crossed
    BY <1>8 DEF RetryInit, NoEscJob
  <2>2. escJob \in EscJobs /\ waiting = NoRequest /\ Straight
    BY <1>1, <2>1 DEF Straight, SettingsTypes, Asked
  <2>3. Turns
    BY <1>8, <2>2, RetryTurns DEF RetryInit, TargetEsc
  <2>4. UNCHANGED <<chip, selected, replies, raws, crossed, swaps>>
    BY <1>8 DEF RetryInit
  <2>5. QED BY <1>2, <1>3, <2>2, <2>3, <2>4
<1>9. CASE TimesOut
  <2>1. /\ waiting # NoRequest /\ Failed(TRUE) /\ UNCHANGED <<chip, selected, replies, swaps>>
        /\ crossed' = (crossed \/ Len(asks) + Len(replies) > 1)
    BY <1>9 DEF TimesOut
  <2>2. ~crossed /\ ~(Len(asks) + Len(replies) > 1) /\ Straight
    BY <1>1, <2>1
  <2>3. escJob \in EscJobs
    BY <2>1, <2>2 DEF Straight, SettingsTypes
  <2>4. Turns /\ raws' = raws
    BY <2>1, <2>3, FailureTurns
  <2>5. /\ Len(replies') + Len(asks) <= 1 /\ replies' \in Seq(Outcomes) /\ crossed' \in BOOLEAN
        /\ raws' \in [Escs -> [from : Escs \cup {-1}]]
    BY <1>2, <2>1, <2>2, <2>4
  <2>6. QED BY <2>1, <2>2, <2>4, <2>5, Turning
<1>10. CASE Arrives
  BY <1>1, <1>10, Arrived DEF Arrives
<1>11. QED BY <1>4, <1>5, <1>6, <1>7, <1>8, <1>9, <1>10 DEF SettingsNext

LEMMA OwnSteps == ASSUME SettingsInv, [SettingsNext]_settingsVars PROVE ~crossed => OwnStep
<1> SUFFICES ASSUME ~crossed
             PROVE  /\ \A e \in Escs : raws[e]' # raws[e] => raws'[e].from = e
                    /\ \A e \in Escs : chip'[e].eeprom # chip[e].eeprom /\ swaps' = swaps =>
                         Head(asks).to = e /\ chip'[e].eeprom = [chip[e].eeprom EXCEPT !.patched = TRUE]
  BY DEF OwnStep
<1>1. Straight
  BY DEF SettingsInv, Typed, Straight
<1>2. CASE UNCHANGED settingsVars
  BY <1>2 DEF settingsVars
<1>3. CASE StartScan \/ StartJob \/ RetryInit
  BY <1>3 DEF StartScan, StartJob, RetryInit
<1>4. CASE Swap
  BY <1>1, <1>4, Swapped
<1>5. CASE Serve \/ ServeNot
  <2>1. raws' = raws
    BY <1>5 DEF Serve, ServeNot
  <2>2. QED BY <1>1, <1>5, <2>1, Stores
<1>6. CASE TimesOut
  <2>1. waiting # NoRequest /\ Failed(TRUE) /\ chip' = chip
    BY <1>6 DEF TimesOut
  <2>2. escJob \in EscJobs
    BY <1>1, <2>1 DEF Straight, SettingsTypes
  <2>3. QED BY <2>1, <2>2, FailureTurns
<1>7. CASE Arrives
  <2>1. chip' = chip
    BY <1>7 DEF Arrives
  <2>2. QED BY <1>1, <1>7, <2>1, Arrived
<1>8. QED BY <1>2, <1>3, <1>4, <1>5, <1>6, <1>7 DEF SettingsNext

(* EscService, Am32SettingsService: as long as no request times out while an *)
(* earlier one is still to be answered, the settings shown for a channel     *)
(* were read on that channel, and a store reaches the ESC that was meant and *)
(* changes nothing but what was patched; for any number of ESCs, of requests *)
(* that time out, of targets, jobs and exchanges of ESCs between jobs.  Two  *)
(* late answers at a time break it, until a job starts with none on its way. *)
THEOREM SettingsAreOwn == SettingsSpec => SettingsOwn
<1>1. SettingsInit => SettingsInv
  <2>1. SettingsInit => Straight
    BY SettingsStart
  <2>2. SettingsInit => Untouched
    BY DEF SettingsInit, Untouched
  <2>3. QED BY <2>1, <2>2 DEF Straight, SettingsInv, Typed
<1>2. SettingsInv /\ [SettingsNext]_settingsVars => SettingsInv'
  <2> SUFFICES ASSUME SettingsInv, [SettingsNext]_settingsVars PROVE SettingsInv'
    OBVIOUS
  <2>1. Typed'
    BY TypedSteps DEF SettingsInv
  <2>2. ~crossed' => OnTheWay' /\ Selection'
    BY StraightSteps DEF Straight
  <2>3. QED BY <2>1, <2>2 DEF SettingsInv
<1>3. SettingsInv /\ [SettingsNext]_settingsVars => [~crossed => OwnStep]_settingsVars
  BY OwnSteps
<1>4. QED BY <1>1, <1>2, <1>3, PTL DEF SettingsSpec, SettingsOwn
-----------------------------------------------------------------------------
(* The AM32 layout.  A value a byte stands for, and that byte.               *)
Scales == {100, 1000, 5000, 9375, 10000, 20000, 75000, 400000}
Notch(f, value) == (value - f.add) \div f.scale
OnNotch(f, value) == Notch(f, value) \in 0..255 /\ value = Notch(f, value) * f.scale + f.add

(* What is true of every entry of the table: its range and its "off" are     *)
(* values of a byte, and it is edited in the steps it is stored in.          *)
FieldOK(f) ==
    /\ f.scale \in Scales /\ f.step = f.scale /\ f.add \in Int /\ f.offset \in 2..47 /\ f.from \in Int /\ f.to \in Int
    /\ f.min \in Int /\ f.max \in Int /\ f.min <= f.max /\ OnNotch(f, f.min) /\ OnNotch(f, f.max)
    /\ f.disabled = Never \/ OnNotch(f, f.disabled)

(* Two entries for one byte are not of one revision.                         *)
Apart(f) == \A g \in Fields : g.offset = f.offset => g = f \/ g.to < f.from \/ f.to < g.from

LEMMA FieldsAre == \A f \in Fields : FieldOK(f)
<1>1. FieldOK(F("disableStickCalibration", 7, 0, 10000, 10000, 10000, 0, Never, 3, 3))
  BY DEF F, FieldOK, OnNotch, Notch, Scales, Never
<1>2. FieldOK(F("protocol", 46, 0, 40000, 10000, 10000, 0, Never, 1, 3))
  BY DEF F, FieldOK, OnNotch, Notch, Scales, Never
<1>3. FieldOK(F("motorDirection", 17, 0, 10000, 10000, 10000, 0, Never, 1, 3))
  BY DEF F, FieldOK, OnNotch, Notch, Scales, Never
<1>4. FieldOK(F("bidirectional", 18, 0, 10000, 10000, 10000, 0, Never, 1, 3))
  BY DEF F, FieldOK, OnNotch, Notch, Scales, Never
<1>5. FieldOK(F("stuckRotorProtection", 22, 0, 10000, 10000, 10000, 0, Never, 1, 3))
  BY DEF F, FieldOK, OnNotch, Notch, Scales, Never
<1>6. FieldOK(F("stallProtection", 29, 0, 10000, 10000, 10000, 0, Never, 1, 3))
  BY DEF F, FieldOK, OnNotch, Notch, Scales, Never
<1>7. FieldOK(F("hallSensors", 39, 0, 10000, 10000, 10000, 0, Never, 1, 3))
  BY DEF F, FieldOK, OnNotch, Notch, Scales, Never
<1>8. FieldOK(F("intervalTelemetry", 31, 0, 10000, 10000, 10000, 0, Never, 1, 3))
  BY DEF F, FieldOK, OnNotch, Notch, Scales, Never
<1>9. FieldOK(F("complementaryPwm", 20, 0, 10000, 10000, 10000, 0, Never, 1, 3))
  BY DEF F, FieldOK, OnNotch, Notch, Scales, Never
<1>10. FieldOK(F("autoTimingAdvance", 47, 0, 10000, 10000, 10000, 0, Never, 1, 3))
  BY DEF F, FieldOK, OnNotch, Notch, Scales, Never
<1>11. FieldOK(F("pwmType", 21, 0, 20000, 10000, 10000, 0, Never, 1, 3))
  BY DEF F, FieldOK, OnNotch, Notch, Scales, Never
<1>12. FieldOK(F("timingAdvance", 23, 0, 225000, 75000, 75000, 0, Never, 1, 2))
  BY DEF F, FieldOK, OnNotch, Notch, Scales, Never
<1>13. FieldOK(F("timingAdvance", 23, 0, 225000, 9375, 9375, -93750, Never, 3, 3))
  BY DEF F, FieldOK, OnNotch, Notch, Scales, Never
<1>14. FieldOK(F("startupPower", 25, 500000, 1500000, 10000, 10000, 0, Never, 1, 3))
  BY DEF F, FieldOK, OnNotch, Notch, Scales, Never
<1>15. FieldOK(F("motorKv", 26, 200000, 102200000, 400000, 400000, 200000, Never, 1, 3))
  BY DEF F, FieldOK, OnNotch, Notch, Scales, Never
<1>16. FieldOK(F("motorPoles", 27, 20000, 360000, 10000, 10000, 0, Never, 1, 3))
  BY DEF F, FieldOK, OnNotch, Notch, Scales, Never
<1>17. FieldOK(F("beeperVolume", 30, 0, 110000, 10000, 10000, 0, Never, 1, 3))
  BY DEF F, FieldOK, OnNotch, Notch, Scales, Never
<1>18. FieldOK(F("pwmFrequency", 24, 80000, 1440000, 10000, 10000, 0, Never, 1, 3))
  BY DEF F, FieldOK, OnNotch, Notch, Scales, Never
<1>19. FieldOK(F("rampRate", 5, 1000, 255000, 1000, 1000, 0, Never, 3, 3))
  BY DEF F, FieldOK, OnNotch, Notch, Scales, Never
<1>20. FieldOK(F("minimumDutyCycle", 6, 5000, 1000000, 5000, 5000, 0, Never, 3, 3))
  BY DEF F, FieldOK, OnNotch, Notch, Scales, Never
<1>21. FieldOK(F("lowVoltageCutoff", 36, 0, 20000, 10000, 10000, 0, Never, 1, 3))
  BY DEF F, FieldOK, OnNotch, Notch, Scales, Never
<1>22. FieldOK(F("temperatureLimit", 43, 700000, 1400000, 10000, 10000, 0, 2550000, 1, 3))
  BY DEF F, FieldOK, OnNotch, Notch, Scales, Never
<1>23. FieldOK(F("currentLimit", 44, 0, 2000000, 20000, 20000, 0, 4040000, 1, 3))
  BY DEF F, FieldOK, OnNotch, Notch, Scales, Never
<1>24. FieldOK(F("lowVoltageThreshold", 37, 25000, 35000, 100, 100, 25000, Never, 1, 3))
  BY DEF F, FieldOK, OnNotch, Notch, Scales, Never
<1>25. FieldOK(F("absoluteVoltageThreshold", 8, 5000, 500000, 5000, 5000, 0, Never, 3, 3))
  BY DEF F, FieldOK, OnNotch, Notch, Scales, Never
<1>26. FieldOK(F("currentP", 9, 0, 2550000, 10000, 10000, 0, Never, 3, 3))
  BY DEF F, FieldOK, OnNotch, Notch, Scales, Never
<1>27. FieldOK(F("currentI", 10, 0, 2550000, 10000, 10000, 0, Never, 3, 3))
  BY DEF F, FieldOK, OnNotch, Notch, Scales, Never
<1>28. FieldOK(F("currentD", 11, 0, 2550000, 10000, 10000, 0, Never, 3, 3))
  BY DEF F, FieldOK, OnNotch, Notch, Scales, Never
<1>29. FieldOK(F("sinusoidalStartup", 19, 0, 10000, 10000, 10000, 0, Never, 1, 3))
  BY DEF F, FieldOK, OnNotch, Notch, Scales, Never
<1>30. FieldOK(F("sineModeRange", 40, 50000, 250000, 10000, 10000, 0, Never, 1, 3))
  BY DEF F, FieldOK, OnNotch, Notch, Scales, Never
<1>31. FieldOK(F("sineModePower", 45, 10000, 100000, 10000, 10000, 0, Never, 1, 3))
  BY DEF F, FieldOK, OnNotch, Notch, Scales, Never
<1>32. FieldOK(F("carReverseBraking", 38, 0, 10000, 10000, 10000, 0, Never, 1, 3))
  BY DEF F, FieldOK, OnNotch, Notch, Scales, Never
<1>33. FieldOK(F("brakeOnStop", 28, 0, 20000, 10000, 10000, 0, Never, 1, 3))
  BY DEF F, FieldOK, OnNotch, Notch, Scales, Never
<1>34. FieldOK(F("brakeStrength", 41, 0, 100000, 10000, 10000, 0, Never, 1, 3))
  BY DEF F, FieldOK, OnNotch, Notch, Scales, Never
<1>35. FieldOK(F("runningBrakeLevel", 42, 0, 100000, 10000, 10000, 0, Never, 1, 3))
  BY DEF F, FieldOK, OnNotch, Notch, Scales, Never
<1>36. FieldOK(F("activeBrakePower", 12, 0, 100000, 10000, 10000, 0, 0, 3, 3))
  BY DEF F, FieldOK, OnNotch, Notch, Scales, Never
<1>37. FieldOK(F("servoLowThreshold", 32, 7500000, 12580000, 20000, 20000, 7500000, Never, 1, 3))
  BY DEF F, FieldOK, OnNotch, Notch, Scales, Never
<1>38. FieldOK(F("servoHighThreshold", 33, 17500000, 22580000, 20000, 20000, 17500000, Never, 1, 3))
  BY DEF F, FieldOK, OnNotch, Notch, Scales, Never
<1>39. FieldOK(F("servoNeutral", 34, 13740000, 16290000, 10000, 10000, 13740000, Never, 1, 3))
  BY DEF F, FieldOK, OnNotch, Notch, Scales, Never
<1>40. FieldOK(F("servoDeadBand", 35, 0, 2550000, 10000, 10000, 0, Never, 1, 3))
  BY DEF F, FieldOK, OnNotch, Notch, Scales, Never
<1>41. QED BY <1>1, <1>2, <1>3, <1>4, <1>5, <1>6, <1>7, <1>8, <1>9, <1>10, <1>11, <1>12, <1>13, <1>14, <1>15, <1>16, <1>17, <1>18, <1>19, <1>20, <1>21, <1>22, <1>23, <1>24, <1>25, <1>26, <1>27, <1>28, <1>29, <1>30, <1>31, <1>32, <1>33, <1>34, <1>35, <1>36, <1>37, <1>38, <1>39, <1>40 DEF Fields

LEMMA FieldsApart == \A f \in Fields : Apart(f)
<1>1. Apart(F("disableStickCalibration", 7, 0, 10000, 10000, 10000, 0, Never, 3, 3))
  BY DEF F, Fields, Apart
<1>2. Apart(F("protocol", 46, 0, 40000, 10000, 10000, 0, Never, 1, 3))
  BY DEF F, Fields, Apart
<1>3. Apart(F("motorDirection", 17, 0, 10000, 10000, 10000, 0, Never, 1, 3))
  BY DEF F, Fields, Apart
<1>4. Apart(F("bidirectional", 18, 0, 10000, 10000, 10000, 0, Never, 1, 3))
  BY DEF F, Fields, Apart
<1>5. Apart(F("stuckRotorProtection", 22, 0, 10000, 10000, 10000, 0, Never, 1, 3))
  BY DEF F, Fields, Apart
<1>6. Apart(F("stallProtection", 29, 0, 10000, 10000, 10000, 0, Never, 1, 3))
  BY DEF F, Fields, Apart
<1>7. Apart(F("hallSensors", 39, 0, 10000, 10000, 10000, 0, Never, 1, 3))
  BY DEF F, Fields, Apart
<1>8. Apart(F("intervalTelemetry", 31, 0, 10000, 10000, 10000, 0, Never, 1, 3))
  BY DEF F, Fields, Apart
<1>9. Apart(F("complementaryPwm", 20, 0, 10000, 10000, 10000, 0, Never, 1, 3))
  BY DEF F, Fields, Apart
<1>10. Apart(F("autoTimingAdvance", 47, 0, 10000, 10000, 10000, 0, Never, 1, 3))
  BY DEF F, Fields, Apart
<1>11. Apart(F("pwmType", 21, 0, 20000, 10000, 10000, 0, Never, 1, 3))
  BY DEF F, Fields, Apart
<1>12. Apart(F("timingAdvance", 23, 0, 225000, 75000, 75000, 0, Never, 1, 2))
  BY DEF F, Fields, Apart
<1>13. Apart(F("timingAdvance", 23, 0, 225000, 9375, 9375, -93750, Never, 3, 3))
  BY DEF F, Fields, Apart
<1>14. Apart(F("startupPower", 25, 500000, 1500000, 10000, 10000, 0, Never, 1, 3))
  BY DEF F, Fields, Apart
<1>15. Apart(F("motorKv", 26, 200000, 102200000, 400000, 400000, 200000, Never, 1, 3))
  BY DEF F, Fields, Apart
<1>16. Apart(F("motorPoles", 27, 20000, 360000, 10000, 10000, 0, Never, 1, 3))
  BY DEF F, Fields, Apart
<1>17. Apart(F("beeperVolume", 30, 0, 110000, 10000, 10000, 0, Never, 1, 3))
  BY DEF F, Fields, Apart
<1>18. Apart(F("pwmFrequency", 24, 80000, 1440000, 10000, 10000, 0, Never, 1, 3))
  BY DEF F, Fields, Apart
<1>19. Apart(F("rampRate", 5, 1000, 255000, 1000, 1000, 0, Never, 3, 3))
  BY DEF F, Fields, Apart
<1>20. Apart(F("minimumDutyCycle", 6, 5000, 1000000, 5000, 5000, 0, Never, 3, 3))
  BY DEF F, Fields, Apart
<1>21. Apart(F("lowVoltageCutoff", 36, 0, 20000, 10000, 10000, 0, Never, 1, 3))
  BY DEF F, Fields, Apart
<1>22. Apart(F("temperatureLimit", 43, 700000, 1400000, 10000, 10000, 0, 2550000, 1, 3))
  BY DEF F, Fields, Apart
<1>23. Apart(F("currentLimit", 44, 0, 2000000, 20000, 20000, 0, 4040000, 1, 3))
  BY DEF F, Fields, Apart
<1>24. Apart(F("lowVoltageThreshold", 37, 25000, 35000, 100, 100, 25000, Never, 1, 3))
  BY DEF F, Fields, Apart
<1>25. Apart(F("absoluteVoltageThreshold", 8, 5000, 500000, 5000, 5000, 0, Never, 3, 3))
  BY DEF F, Fields, Apart
<1>26. Apart(F("currentP", 9, 0, 2550000, 10000, 10000, 0, Never, 3, 3))
  BY DEF F, Fields, Apart
<1>27. Apart(F("currentI", 10, 0, 2550000, 10000, 10000, 0, Never, 3, 3))
  BY DEF F, Fields, Apart
<1>28. Apart(F("currentD", 11, 0, 2550000, 10000, 10000, 0, Never, 3, 3))
  BY DEF F, Fields, Apart
<1>29. Apart(F("sinusoidalStartup", 19, 0, 10000, 10000, 10000, 0, Never, 1, 3))
  BY DEF F, Fields, Apart
<1>30. Apart(F("sineModeRange", 40, 50000, 250000, 10000, 10000, 0, Never, 1, 3))
  BY DEF F, Fields, Apart
<1>31. Apart(F("sineModePower", 45, 10000, 100000, 10000, 10000, 0, Never, 1, 3))
  BY DEF F, Fields, Apart
<1>32. Apart(F("carReverseBraking", 38, 0, 10000, 10000, 10000, 0, Never, 1, 3))
  BY DEF F, Fields, Apart
<1>33. Apart(F("brakeOnStop", 28, 0, 20000, 10000, 10000, 0, Never, 1, 3))
  BY DEF F, Fields, Apart
<1>34. Apart(F("brakeStrength", 41, 0, 100000, 10000, 10000, 0, Never, 1, 3))
  BY DEF F, Fields, Apart
<1>35. Apart(F("runningBrakeLevel", 42, 0, 100000, 10000, 10000, 0, Never, 1, 3))
  BY DEF F, Fields, Apart
<1>36. Apart(F("activeBrakePower", 12, 0, 100000, 10000, 10000, 0, 0, 3, 3))
  BY DEF F, Fields, Apart
<1>37. Apart(F("servoLowThreshold", 32, 7500000, 12580000, 20000, 20000, 7500000, Never, 1, 3))
  BY DEF F, Fields, Apart
<1>38. Apart(F("servoHighThreshold", 33, 17500000, 22580000, 20000, 20000, 17500000, Never, 1, 3))
  BY DEF F, Fields, Apart
<1>39. Apart(F("servoNeutral", 34, 13740000, 16290000, 10000, 10000, 13740000, Never, 1, 3))
  BY DEF F, Fields, Apart
<1>40. Apart(F("servoDeadBand", 35, 0, 2550000, 10000, 10000, 0, Never, 1, 3))
  BY DEF F, Fields, Apart
<1>41. QED BY <1>1, <1>2, <1>3, <1>4, <1>5, <1>6, <1>7, <1>8, <1>9, <1>10, <1>11, <1>12, <1>13, <1>14, <1>15, <1>16, <1>17, <1>18, <1>19, <1>20, <1>21, <1>22, <1>23, <1>24, <1>25, <1>26, <1>27, <1>28, <1>29, <1>30, <1>31, <1>32, <1>33, <1>34, <1>35, <1>36, <1>37, <1>38, <1>39, <1>40 DEF Fields

(* Storing and showing are inverse on the values of a byte, for each unit.   *)
LEMMA Rounding ==
    \A b \in Int : /\ (2 * (b * 100) + 100) \div (2 * 100) = b /\ (b * 100) \div 100 = b
                   /\ (2 * (b * 1000) + 1000) \div (2 * 1000) = b /\ (b * 1000) \div 1000 = b
                   /\ (2 * (b * 5000) + 5000) \div (2 * 5000) = b /\ (b * 5000) \div 5000 = b
                   /\ (2 * (b * 9375) + 9375) \div (2 * 9375) = b /\ (b * 9375) \div 9375 = b
                   /\ (2 * (b * 10000) + 10000) \div (2 * 10000) = b /\ (b * 10000) \div 10000 = b
                   /\ (2 * (b * 20000) + 20000) \div (2 * 20000) = b /\ (b * 20000) \div 20000 = b
                   /\ (2 * (b * 75000) + 75000) \div (2 * 75000) = b /\ (b * 75000) \div 75000 = b
                   /\ (2 * (b * 400000) + 400000) \div (2 * 400000) = b /\ (b * 400000) \div 400000 = b
OBVIOUS

LEMMA RoundsBack ==
    ASSUME NEW scale \in Scales, NEW b \in Int
    PROVE  (2 * (b * scale) + scale) \div (2 * scale) = b /\ (b * scale) \div scale = b /\ b * scale \in Int
<1>1. CASE scale = 100
  BY ONLY <1>1, b \in Int, Rounding
<1>2. CASE scale = 1000
  BY ONLY <1>2, b \in Int, Rounding
<1>3. CASE scale = 5000
  BY ONLY <1>3, b \in Int, Rounding
<1>4. CASE scale = 9375
  BY ONLY <1>4, b \in Int, Rounding
<1>5. CASE scale = 10000
  BY ONLY <1>5, b \in Int, Rounding
<1>6. CASE scale = 20000
  BY ONLY <1>6, b \in Int, Rounding
<1>7. CASE scale = 75000
  BY ONLY <1>7, b \in Int, Rounding
<1>8. CASE scale = 400000
  BY ONLY <1>8, b \in Int, Rounding
<1>9. QED BY <1>1, <1>2, <1>3, <1>4, <1>5, <1>6, <1>7, <1>8 DEF Scales

(* What is a value of a byte can be stored, and reads back as itself.        *)
LEMMA NotchStored ==
    ASSUME NEW f \in Fields, NEW value \in Int, OnNotch(f, value)
    PROVE  /\ RawOf(f, value) = Notch(f, value) /\ RawOf(f, value) \in 0..255
           /\ Fits(f, value) /\ Decoded(f, RawOf(f, value)) = value
<1> DEFINE n == Notch(f, value)
<1>1. f.scale \in Scales /\ f.add \in Int /\ n \in 0..255 /\ value = n * f.scale + f.add
  BY FieldsAre DEF FieldOK, OnNotch
<1> HIDE DEF n
<1>2. n * f.scale \in Int /\ (2 * (n * f.scale) + f.scale) \div (2 * f.scale) = n
  BY <1>1, RoundsBack
<1>3. value - f.add = n * f.scale
  BY ONLY <1>1, <1>2
<1>4. RawOf(f, value) = n
  BY <1>2, <1>3 DEF RawOf
<1>5. QED BY <1>1, <1>4 DEF Fits, Decoded, n

(* Every step of a range is a value of a byte.                               *)
LEMMA StepsAre ==
    ASSUME NEW f \in Fields, NEW value \in Steps(f)
    PROVE  value \in Int /\ OnNotch(f, value) /\ f.min <= value /\ value <= f.max
<1> DEFINE s == f.scale
           lo == Notch(f, f.min)
           hi == Notch(f, f.max)
<1>1. /\ s \in Scales /\ f.step = s /\ f.add \in Int /\ lo \in 0..255 /\ hi \in 0..255 /\ f.min <= f.max
      /\ f.min = lo * s + f.add /\ f.max = hi * s + f.add
  BY FieldsAre DEF FieldOK, OnNotch
<1>2. PICK k \in 0..(f.max - f.min) \div f.step : value = f.min + k * f.step
  BY DEF Steps
<1>3. value = f.min + k * s /\ k \in 0..(f.max - f.min) \div s
  BY <1>1, <1>2
<1> HIDE DEF s, lo, hi
<1>4. ASSUME NEW c \in Nat \ {0}, s = c, \A b \in Int : (b * c) \div c = b,
             \A a, b \in Int : a * c - b * c = (a - b) * c,
             \A a, b \in Int : a * c + b * c = (a + b) * c,
             \A a, b \in Int : a <= b => a * c <= b * c,
             \A a, b \in Int : a * c <= b * c => a <= b, \A a \in Int : a * c \in Int
      PROVE  value \in Int /\ OnNotch(f, value) /\ f.min <= value /\ value <= f.max
  <2>1. f.max - f.min = (hi - lo) * c
    <3>1. hi * c \in Int /\ lo * c \in Int /\ hi * c - lo * c = (hi - lo) * c
      BY <1>1, <1>4
    <3>2. f.max = hi * c + f.add /\ f.min = lo * c + f.add /\ f.add \in Int
      BY <1>1, <1>4
    <3>3. QED BY ONLY <3>1, <3>2
  <2>2. (f.max - f.min) \div c = hi - lo
    BY <1>1, <1>4, <2>1
  <2>3. k \in Int /\ 0 <= k /\ k <= hi - lo
    BY <1>1, <1>3, <1>4, <2>2
  <2>4. lo + k \in 0..255 /\ lo <= lo + k /\ lo + k <= hi
    BY ONLY <1>1, <2>3
  <2>5. value = (lo + k) * c + f.add /\ (lo + k) * c \in Int
    <3>1. lo * c \in Int /\ k * c \in Int /\ lo * c + k * c = (lo + k) * c
      BY <1>1, <1>4, <2>3
    <3>2. value = lo * c + f.add + k * c /\ f.add \in Int
      BY <1>1, <1>3, <1>4
    <3>3. QED BY ONLY <3>1, <3>2
  <2>6. f.min <= value /\ value <= f.max /\ value \in Int
    <3>1. lo * c <= (lo + k) * c /\ (lo + k) * c <= hi * c /\ lo * c \in Int /\ hi * c \in Int
      BY <1>1, <1>4, <2>4
    <3>2. f.max = hi * c + f.add /\ f.min = lo * c + f.add /\ f.add \in Int
      BY <1>1, <1>4
    <3>3. QED BY ONLY <2>5, <3>1, <3>2
  <2>7. value - f.add = (lo + k) * c
    BY ONLY <2>5, <1>1
  <2>8. Notch(f, value) = lo + k
    BY <1>4, <2>4, <2>7 DEF Notch, s
  <2>9. QED BY <1>4, <2>4, <2>5, <2>6, <2>8 DEF OnNotch, s
<1>5. CASE s = 100
  BY <1>4, <1>5, RoundsBack DEF Scales
<1>6. CASE s = 1000
  BY <1>4, <1>6, RoundsBack DEF Scales
<1>7. CASE s = 5000
  BY <1>4, <1>7, RoundsBack DEF Scales
<1>8. CASE s = 9375
  BY <1>4, <1>8, RoundsBack DEF Scales
<1>9. CASE s = 10000
  BY <1>4, <1>9, RoundsBack DEF Scales
<1>10. CASE s = 20000
  BY <1>4, <1>10, RoundsBack DEF Scales
<1>11. CASE s = 75000
  BY <1>4, <1>11, RoundsBack DEF Scales
<1>12. CASE s = 400000
  BY <1>4, <1>12, RoundsBack DEF Scales
<1>13. QED BY <1>1, <1>5, <1>6, <1>7, <1>8, <1>9, <1>10, <1>11, <1>12 DEF Scales

(* What the page offers can be stored and reads back as itself.              *)
LEMMA OffersAre ==
    ASSUME NEW f \in Fields, NEW value \in Offered(f)
    PROVE  value \in Int /\ OnNotch(f, value) /\ Allowed(f, value)
<1>1. CASE value \in Steps(f)
  BY <1>1, StepsAre DEF Allowed
<1>2. CASE value = f.disabled /\ f.disabled # Never
  <2>1. OnNotch(f, value) /\ f.scale \in Scales /\ f.add \in Int
    BY <1>2, FieldsAre DEF FieldOK
  <2>2. value \in Int
    BY <2>1, RoundsBack DEF OnNotch
  <2>3. QED BY <1>2, <2>1, <2>2 DEF Allowed
<1>3. QED BY <1>1, <1>2 DEF Offered

(* The bytes hold what was set last, and nothing else has changed.           *)
LayoutInv ==
    /\ revision \in 1..3 /\ memory \in [2..47 -> 0..255] /\ edits \in Nat
    /\ \A s \in shown : s[1] \in FieldsOf(revision) /\ Decoded(s[1], memory[s[1].offset]) = s[2]
    /\ \A o \in 2..47 : memory[o] = 255 \/ \E s \in shown : s[1].offset = o

LEMMA PatchKeeps ==
    ASSUME LayoutInv, Patched
    PROVE  LayoutInv'
<1>0. PICK f \in FieldsOf(revision) : \E value \in Tried(f) :
        /\ memory' = [memory EXCEPT ![f.offset] = RawOf(f, value)]
        /\ shown' = {s \in shown : s[1] # f} \cup {<<f, value>>}
        /\ revision' = revision /\ edits' = edits + 1
  BY DEF Patched
<1>1. PICK value \in Tried(f) :
        /\ memory' = [memory EXCEPT ![f.offset] = RawOf(f, value)]
        /\ shown' = {s \in shown : s[1] # f} \cup {<<f, value>>}
        /\ revision' = revision /\ edits' = edits + 1
  BY <1>0
<1>2. f \in Fields /\ value \in Offered(f)
  BY DEF FieldsOf, Tried
<1>3. value \in Int /\ OnNotch(f, value)
  BY <1>2, OffersAre
<1>4. RawOf(f, value) \in 0..255 /\ Decoded(f, RawOf(f, value)) = value
  BY <1>2, <1>3, NotchStored
<1>5. f.offset \in 2..47
  BY <1>2, FieldsAre DEF FieldOK
<1>6. memory' \in [2..47 -> 0..255] /\ memory'[f.offset] = RawOf(f, value)
      /\ \A o \in 2..47 : o # f.offset => memory'[o] = memory[o]
  BY <1>1, <1>4, <1>5 DEF LayoutInv
<1>7. \A g \in FieldsOf(revision) : g.offset = f.offset => g = f
  <2>1. SUFFICES ASSUME NEW g \in FieldsOf(revision), g.offset = f.offset PROVE g = f
    OBVIOUS
  <2>2. g \in Fields /\ g.from <= revision /\ revision <= g.to /\ f.from <= revision /\ revision <= f.to
    BY DEF FieldsOf
  <2>3. g = f \/ g.to < f.from \/ f.to < g.from
    BY <1>2, <2>1, <2>2, FieldsApart DEF Apart
  <2>4. g.from \in Int /\ g.to \in Int /\ f.from \in Int /\ f.to \in Int
    BY <1>2, <2>2, FieldsAre DEF FieldOK
  <2>5. revision \in 1..3
    BY DEF LayoutInv
  <2>6. QED BY ONLY <2>2, <2>3, <2>4, <2>5
<1>8. ASSUME NEW s \in shown'
      PROVE  s[1] \in FieldsOf(revision) /\ Decoded(s[1], memory'[s[1].offset]) = s[2]
  <2>1. CASE s = <<f, value>>
    BY <2>1, <1>4, <1>6
  <2>2. CASE s \in shown /\ s[1] # f
    <3>1. s[1] \in FieldsOf(revision) /\ Decoded(s[1], memory[s[1].offset]) = s[2]
      BY <2>2 DEF LayoutInv
    <3>2. s[1].offset # f.offset /\ s[1].offset \in 2..47
      BY <1>7, <2>2, <3>1, FieldsAre DEF FieldsOf, FieldOK
    <3>3. QED BY <1>6, <3>1, <3>2
  <2>3. QED BY <1>1, <1>8, <2>1, <2>2
<1>9. ASSUME NEW o \in 2..47 PROVE memory'[o] = 255 \/ \E s \in shown' : s[1].offset = o
  <2>1. CASE o = f.offset
    <3>1. <<f, value>> \in shown' /\ <<f, value>>[1] = f
      BY <1>1
    <3>2. QED BY <2>1, <3>1
  <2>2. CASE o # f.offset /\ memory[o] = 255
    BY <1>6, <2>2
  <2>3. CASE o # f.offset /\ \E s \in shown : s[1].offset = o
    <3>1. PICK s \in shown : s[1].offset = o
      BY <2>3
    <3>2. s \in shown'
      BY <1>1, <2>3, <3>1
    <3>3. QED BY <3>1, <3>2
  <2>4. QED BY <2>1, <2>2, <2>3 DEF LayoutInv
<1>10. revision' \in 1..3 /\ edits' \in Nat
  <2>1. revision \in 1..3 /\ edits \in Nat
    BY DEF LayoutInv
  <2>2. QED BY ONLY <1>1, <2>1
<1>11. QED BY <1>1, <1>6, <1>8, <1>9, <1>10 DEF LayoutInv

(* decodeAm32Eeprom, encodeAm32Eeprom, AM32_SETTINGS_FIELDS: whatever was    *)
(* set is shown again to the last digit after any number of later patches of *)
(* other fields, every value the page offers can be stored and reads back as *)
(* itself, and no byte changes that no patch named.                          *)
THEOREM LayoutIsSound == LayoutSpec => []LayoutSound
<1>1. LayoutInit => LayoutInv
  <2>1. SUFFICES ASSUME LayoutInit PROVE LayoutInv
    OBVIOUS
  <2>2. revision \in 1..3 /\ memory \in [2..47 -> 0..255] /\ edits \in Nat
    BY <2>1, LayoutAssumption DEF LayoutInit
  <2>3. shown = {} /\ \A o \in 2..47 : memory[o] = 255
    BY <2>1 DEF LayoutInit
  <2>4. QED BY <2>2, <2>3 DEF LayoutInv
<1>2. LayoutInv /\ [LayoutNext]_layoutVars => LayoutInv'
  <2>1. LayoutInv /\ UNCHANGED layoutVars => LayoutInv'
    <3>1. SUFFICES ASSUME LayoutInv, UNCHANGED layoutVars PROVE LayoutInv'
      OBVIOUS
    <3>2. revision' = revision /\ memory' = memory /\ shown' = shown /\ edits' = edits
      BY <3>1 DEF layoutVars
    <3>3. QED BY <3>1, <3>2 DEF LayoutInv
  <2>2. QED BY <2>1, PatchKeeps DEF LayoutNext
<1>3. LayoutInv => LayoutSound
  <2>1. SUFFICES ASSUME LayoutInv PROVE LayoutSound
    OBVIOUS
  <2>2. \A f \in FieldsOf(revision) : \A value \in Offered(f) :
          Allowed(f, value) /\ Fits(f, value) /\ Decoded(f, RawOf(f, value)) = value
    BY OffersAre, NotchStored DEF FieldsOf
  <2>3. DOMAIN memory = 2..47
    BY <2>1 DEF LayoutInv
  <2>4. QED BY <2>1, <2>2, <2>3 DEF LayoutSound, LayoutInv
<1>4. QED BY <1>1, <1>2, <1>3, PTL DEF LayoutSpec
=============================================================================
