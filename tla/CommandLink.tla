----------------------------- MODULE CommandLink -----------------------------
(***************************************************************************)
(* The commands of MavlinkBridge: the COMMAND_LONG transactions, whose     *)
(* answer names the command but not the request, and the motor tests,      *)
(* which nothing answers.  Both leave through two queues nobody orders     *)
(* together: the messages of the Worker to the page thread (transport_write*)
(* and transport_cancel, in order) and the queue of WebSerialTransport,    *)
(* where a critical frame overtakes and a cancellation takes frames out.   *)
(*                                                                         *)
(* Requests the bridge turns away before it touches anything (no ready     *)
(* vehicle, target conflict, terminal open, profile, missing confirmation) *)
(* change nothing and are no steps.  Time is not measured: a timer that is *)
(* armed may fire, and a window ends when nothing it waits for is left.    *)
(***************************************************************************)
EXTENDS BridgeBase

CONSTANTS
    Commands,     \* command ids sent as transactions
    Arming,       \* MAV_CMD_COMPONENT_ARM_DISARM
    Tries,        \* maxAttempts of each command: 1 when it is a high-risk one
    Motors,       \* instances a motor test may address
    MaxWaiting    \* bound: messages and frames between Worker and vehicle

ASSUME CommandAssumption ==
    /\ Arming \in Commands /\ Commands \cap Motors = {} /\ IsFiniteSet(Motors)
    /\ Tries \in [Commands -> Nat \ {0}]
    /\ MaxWaiting \in Nat

VARIABLES
    pending,    \* pendingCommands
    fence,      \* per command: "open", "settling" (quarantine) or "uncertain"
    line,       \* messages of the Worker the page thread has not handled
    queue,      \* frames waiting in WebSerialTransport, in the order they came
    working,    \* orders a vehicle has received and not answered
    air,        \* COMMAND_ACKs on their way
    told,       \* history: final reports on each command request
    stolen,     \* history: answers credited to another request, with that one
    unfenced,   \* history: requests that ended with the fence left open
    left        \* history: the last request that left for each motor, and the
                \* last disarm

history  == <<told, stolen, unfenced>>
wireVars == <<queue, working, air, left>>
commandVars == <<pending, fence, line, wireVars, history>>

None == [req |-> 0, what |-> "none", attempt |-> 0, over |-> FALSE]

(* What a request may ask of a command.                                      *)
Asks(c) == IF c = Arming THEN {"arm", "disarm"} ELSE {"other"}

Order(c, what, r, n) == [kind |-> what, of |-> c, req |-> r, n |-> n, to |-> target]
Withdrawal(m) == [kind |-> "withdraw", of |-> m, req |-> 0, n |-> 0, to |-> target]

(* Disarms and motor stops are written with priority critical, the rest high. *)
Critical(f) == f.kind \in {"disarm", "stop"}

Told(r) == [told EXCEPT ![r] = @ + 1]

(* cancelQueuedMotorTestStarts: one message for each instance.  Those for    *)
(* motors the page never starts find nothing and are left out.               *)
Withdrawals(ms) ==
    LET s == SetToSeq(ms \cap page.uses) IN [i \in DOMAIN s |-> Withdrawal(s[i])]
-----------------------------------------------------------------------------
(* The end of a transaction whose deadline has passed.                       *)
Expire(c) ==
    /\ pending' = [pending EXCEPT ![c] = None]
    /\ fence' = [fence EXCEPT ![c] = "uncertain"]
    /\ told' = Told(pending[c].req)

(* Wrong on purpose: a progress report also moves the deadline.              *)
RearmExtends(c) ==
    pending' = [pending EXCEPT ![c].over = FALSE] /\ UNCHANGED <<fence, told>>

(* scheduleCommandTimeout: nothing is armed past the deadline.               *)
Rearm(c) ==
    IF pending[c].over THEN Expire(c) ELSE UNCHANGED <<pending, fence, told>>

(* Wrong on purpose: one attempt too many.                                   *)
MayRetryOnceMore(c) == pending[c].attempt <= Tries[c]

MayRetry(c) == pending[c].attempt < Tries[c]

(* Wrong on purpose: a write that is refused leaves the transaction pending. *)
TransmitKeeps(c, p, accepted) ==
    LET q == [p EXCEPT !.attempt = @ + 1] IN
    /\ line' = IF accepted THEN Append(line, Order(c, q.what, q.req, q.attempt)) ELSE line
    /\ pending' = [pending EXCEPT ![c] = q]
    /\ IF accepted THEN UNCHANGED <<told, unfenced>>
       ELSE told' = Told(p.req) /\ unfenced' = unfenced \cup {p.req}
    /\ UNCHANGED fence

(* transmitPendingCommand: the Worker may refuse the write.  The refusal ends *)
(* the transaction and raises no fence, even if an earlier attempt has left. *)
Transmit(c, p, accepted) ==
    LET q == [p EXCEPT !.attempt = @ + 1] IN
    IF accepted
    THEN /\ line' = Append(line, Order(c, q.what, q.req, q.attempt))
         /\ pending' = [pending EXCEPT ![c] = IF p.over THEN None ELSE q]
         /\ fence' = [fence EXCEPT ![c] = IF p.over THEN "uncertain" ELSE @]
         /\ told' = IF p.over THEN Told(p.req) ELSE told
         /\ UNCHANGED unfenced
    ELSE /\ pending' = [pending EXCEPT ![c] = None]
         /\ told' = Told(p.req)
         /\ unfenced' = unfenced \cup {p.req}
         /\ UNCHANGED <<line, fence>>

(* enqueuePendingCommand.                                                    *)
Admits(c) == pending[c] = None /\ fence[c] = "open"

(* sendCommand: a new transaction.                                           *)
Send(c, what, accepted) ==
    \E r \in Requests :
        /\ NextRequest(r)
        /\ Admits(c)
        /\ Transmit(c, [None EXCEPT !.req = r, !.what = what], accepted)
        /\ UNCHANGED <<target, ready, armed, switches, wireVars, stolen>>

(* sendCommand: the command is busy, uncertain or settling.                  *)
SendRefused(c, what) ==
    \E r \in Requests :
        /\ NextRequest(r)
        /\ what # "disarm" /\ ~Admits(c)
        /\ told' = Told(r)
        /\ UNCHANGED <<target, ready, armed, switches, pending, fence, line, wireVars,
                       stolen, unfenced>>

(* sendCommand: a disarm that cannot be told from an earlier order is sent   *)
(* without a transaction.                                                    *)
EmergencyDisarm(accepted) ==
    \E r \in Requests :
        /\ NextRequest(r)
        /\ ~Admits(Arming)
        /\ pending' = [pending EXCEPT ![Arming] = None]
        /\ fence' = [fence EXCEPT ![Arming] = "uncertain"]
        /\ line' = IF accepted THEN Append(line, Order(Arming, "disarm", r, 1)) ELSE line
        /\ told' = [q \in Requests |->
                       told[q] + (IF q = pending[Arming].req THEN 1 ELSE 0)
                               + (IF q = r /\ ~accepted THEN 1 ELSE 0)]
        /\ UNCHANGED <<target, ready, armed, switches, wireVars, stolen, unfenced>>

(* Wrong on purpose: a stop, which overtakes the starts, withdraws none.     *)
MotorMessagesOvertake(ms, kind, r, ok) ==
    LET s == SetToSeq(ok) IN
    Withdrawals(IF kind = "start" THEN ms ELSE {})
        \o [i \in DOMAIN s |-> Order(s[i], kind, r, 1)]

(* What a motor test posts: every older start of the instances is withdrawn  *)
(* before the gates, then one frame is written for each instance.            *)
MotorMessages(ms, kind, r, ok) ==
    LET s == SetToSeq(ok) IN
    Withdrawals(ms) \o [i \in DOMAIN s |-> Order(s[i], kind, r, 1)]

(* sendMotorTest, sendMotorTestBatch: ok are the instances whose frame the   *)
(* Worker takes; none when the propellers are not confirmed or the vehicle   *)
(* is armed and a motor would start.                                         *)
MotorTest(ms, kind, ok) ==
    \E r \in Requests :
        /\ NextRequest(r)
        /\ kind = "start" /\ armed => ok = {}
        /\ line' = line \o MotorMessages(ms, kind, r, ok)
        /\ UNCHANGED <<target, ready, armed, switches, pending, fence, wireVars, history>>
-----------------------------------------------------------------------------
(* handleCommandTimeout.                                                     *)
Retry(c, accepted) ==
    /\ pending[c] # None
    /\ ~pending[c].over /\ MayRetry(c)
    /\ Transmit(c, pending[c], accepted)
    /\ UNCHANGED <<baseVars, wireVars, stolen>>

TimeOut(c) ==
    /\ pending[c] # None
    /\ pending[c].over \/ ~MayRetry(c)
    /\ Expire(c)
    /\ UNCHANGED <<baseVars, line, wireVars, stolen, unfenced>>

(* The deadline of the whole transaction passes.                             *)
DeadlinePasses(c) ==
    /\ pending[c] # None /\ ~pending[c].over
    /\ pending' = [pending EXCEPT ![c].over = TRUE]
    /\ UNCHANGED <<baseVars, fence, line, wireVars, history>>

(* Nothing of the command is between the bridge and its answer any more.     *)
Drained(c) ==
    /\ \A i \in DOMAIN line : line[i].of # c
    /\ \A i \in DOMAIN queue : queue[i].of # c
    /\ \A w \in working : w.of # c
    /\ \A a \in air : a.of # c

(* isCommandQuarantined, isCommandUncertain: the window is over.  The model  *)
(* takes it to be longer than any answer is late.                            *)
WindowEnds(c) ==
    /\ fence[c] # "open" /\ Drained(c)
    /\ fence' = [fence EXCEPT ![c] = "open"]
    /\ UNCHANGED <<baseVars, pending, line, wireVars, history>>

(* Wrong on purpose: the first answer ends the wait for late ones.           *)
AnsweredOpens(c) == [fence EXCEPT ![c] = "open"]

(* finishPendingCommand, and the end of an orphaned transaction.             *)
Answered(c) == [fence EXCEPT ![c] = "settling"]

(* handleCommandAck.                                                         *)
HandleAck(a, accepted) ==
    LET c == a.of
        p == pending[c]
    IN  /\ a \in air /\ air' = air \ {a}
        /\ a.from = target
        /\ stolen' = IF p # None /\ a.req # p.req THEN stolen \cup {<<a.req, p.req>>} ELSE stolen
        /\ \/ /\ p = None
              /\ fence' = IF fence[c] # "open" /\ a.result # "progress" THEN Answered(c) ELSE fence
              /\ UNCHANGED <<pending, line, told, unfenced>>
           \/ /\ p # None /\ a.result = "progress"
              /\ Rearm(c)
              /\ UNCHANGED <<line, unfenced>>
           \/ /\ p # None /\ a.result = "later" /\ MayRetry(c)
              /\ Transmit(c, p, accepted)
           \/ /\ p # None
              /\ a.result = "result" \/ (a.result = "later" /\ ~MayRetry(c))
              /\ pending' = [pending EXCEPT ![c] = None]
              /\ fence' = Answered(c)
              /\ told' = Told(p.req)
              /\ UNCHANGED <<line, unfenced>>
        /\ UNCHANGED <<baseVars, queue, working, left>>

(* An answer is damaged on the way, or comes from another vehicle.           *)
AckDropped(a) ==
    /\ a \in air /\ air' = air \ {a}
    /\ UNCHANGED <<baseVars, pending, fence, line, queue, working, left, history>>

(* Wrong on purpose: only another identity withdraws the waiting starts.     *)
UnsafeByIdentity(isArmed, changed) == changed

(* identityChanged or becameArmed: no motor may start any more.              *)
Unsafe(isArmed, changed) == changed \/ BecomesArmed(isArmed)

(* What a heartbeat of the selected vehicle does to them.                    *)
CommandsHear(isArmed, changed) ==
    /\ line' = IF Unsafe(isArmed, changed) THEN line \o Withdrawals(Motors) ELSE line
    /\ UNCHANGED <<pending, fence, wireVars, history>>

(* cancelProtocolOperations: the final reports of the transactions it ends.  *)
Cancelled == [r \in Requests |->
                 told[r] + (IF \E c \in Commands : pending[c].req = r THEN 1 ELSE 0)]

(* What the selection of a target does to them.                              *)
CommandsReset ==
    /\ line' = line \o Withdrawals(Motors)
    /\ told' = Cancelled
    /\ pending' = [c \in Commands |-> None]
    /\ fence' = [c \in Commands |-> "open"]
    /\ unfenced' = 1..asked
    /\ UNCHANGED <<wireVars, stolen>>
-----------------------------------------------------------------------------
(* cancelQueued of WebSerialTransport.                                       *)
Without(m) ==
    EntriesAt(queue, {i \in DOMAIN queue : ~(queue[i].kind = "start" /\ queue[i].of = m)})

(* The page thread handles the next message of the Worker.                   *)
HandleMessage ==
    /\ line # <<>> /\ line' = Tail(line)
    /\ queue' = IF Head(line).kind = "withdraw" THEN Without(Head(line).of)
                ELSE Append(queue, Head(line))
    /\ UNCHANGED <<baseVars, pending, fence, working, air, left, history>>

(* The frame drain() takes next: critical ones first, each kind in order.    *)
IsNext(i) ==
    /\ i \in DOMAIN queue
    /\ \A j \in DOMAIN queue :
          /\ j < i => Critical(queue[i]) /\ ~Critical(queue[j])
          /\ j > i => Critical(queue[i]) \/ ~Critical(queue[j])

(* A frame leaves; the vehicle it names receives it, or the line damages it. *)
Depart(i, heard) ==
    /\ IsNext(i)
    /\ queue' = RemoveAt(queue, i)
    /\ left' = IF queue[i].of \in Motors \/ queue[i].kind = "disarm"
               THEN [left EXCEPT ![queue[i].of] = queue[i].req] ELSE left
    /\ working' = IF heard /\ queue[i].of \in Commands
                  THEN working \cup {[of |-> queue[i].of, req |-> queue[i].req,
                                      n |-> queue[i].n, by |-> queue[i].to]}
                  ELSE working
    /\ UNCHANGED <<baseVars, pending, fence, line, air, history>>

(* A vehicle reports progress, asks to try later, or answers.                *)
Answer(w, result) ==
    /\ w \in working
    /\ working' = IF result = "progress" THEN working ELSE working \ {w}
    /\ air' = air \cup {[of |-> w.of, req |-> w.req, n |-> w.n, from |-> w.by, result |-> result]}
    /\ UNCHANGED <<baseVars, pending, fence, line, queue, left, history>>
-----------------------------------------------------------------------------
CommandInit ==
    /\ pending = [c \in Commands |-> None] /\ fence = [c \in Commands |-> "open"]
    /\ line = <<>> /\ queue = <<>> /\ working = {} /\ air = {}
    /\ told = [r \in Requests |-> 0] /\ stolen = {} /\ unfenced = {}
    /\ left = [x \in Motors \cup {Arming} |-> 0]

Room == Len(line) + Len(queue) < MaxWaiting

AskCommand ==
    Room /\ \/ \E c \in Commands \cap page.uses, accepted \in BOOLEAN :
                  \E what \in Asks(c) : Send(c, what, accepted)
            \/ \E c \in Commands \cap page.uses : \E what \in Asks(c) : SendRefused(c, what)
            \/ Arming \in page.uses /\ \E accepted \in BOOLEAN : EmergencyDisarm(accepted)
            \/ \E ms \in SUBSET (Motors \cap page.uses) \ {{}}, kind \in {"start", "stop"} :
                  \E ok \in SUBSET ms : MotorTest(ms, kind, ok)

CommandTimers ==
    \E c \in Commands :
        \/ \E accepted \in BOOLEAN : Room /\ Retry(c, accepted)
        \/ TimeOut(c) \/ DeadlinePasses(c) \/ WindowEnds(c)

HearAck ==
    \/ \E a \in air, accepted \in BOOLEAN : HandleAck(a, accepted)
    \/ \E a \in air : AckDropped(a)

Outside ==
    \/ HandleMessage
    \/ \E i \in DOMAIN queue, heard \in BOOLEAN : Depart(i, heard)
    \/ \E w \in working, result \in {"progress", "later", "result"} : Answer(w, result)

CommandNext == AskCommand \/ CommandTimers \/ HearAck \/ Outside
-----------------------------------------------------------------------------
(* A message or frame of a motor test that is still to leave is withdrawn by *)
(* a message behind it.                                                      *)
Withdrawn(m, i) == \E j \in DOMAIN line : j > i /\ line[j].kind = "withdraw" /\ line[j].of = m

(* Types of the state.  No command is tried more often than it may be, a     *)
(* high-risk one never twice, and none is pending behind its own fence.      *)
CommandTypeOK ==
    /\ page \in Pages /\ target \in Vehicles /\ ready \in BOOLEAN /\ armed \in BOOLEAN
    /\ asked \in 0..MaxRequests /\ switches \in 0..page.switches
    /\ pending \in [Commands -> [req : 0..asked, what : {"none", "arm", "disarm", "other"},
                                 attempt : Nat, over : BOOLEAN]]
    /\ \A c \in Commands : pending[c].attempt <= Tries[c]
    /\ fence \in [Commands -> {"open", "settling", "uncertain"}]
    /\ \A c \in Commands : pending[c] # None => fence[c] = "open"

(* An answer is credited to the request it answers, although COMMAND_ACK     *)
(* names no request: busy, uncertain and settling commands are refused.  The *)
(* exceptions are the requests that end with no fence: those cut off when a  *)
(* target is selected anew, and those whose retry the Worker refuses.        *)
AckAnswersRequest == \A p \in stolen : p[1] \in unfenced

(* What the comments of sendCommand and enqueuePendingCommand promise: no    *)
(* late answer is taken for the answer of a newer request.                   *)
NeverMislabelled == stolen = {}

(* A command request gets one final report, whatever answers, timers,        *)
(* disarms and selections come together, and none while it is pending.       *)
ReportedOnce ==
    /\ \A r \in Requests : told[r] <= 1
    /\ \A c \in Commands : pending[c] # None => told[pending[c].req] = 0

(* Frames for one motor leave in the order of their requests: an update of a *)
(* motor, one that is refused too, is never followed by an older start,      *)
(* although stops overtake starts on the way out.                            *)
MotorsInOrder == [][\A m \in Motors : left'[m] >= left[m]]_commandVars

(* While the vehicle is known to be armed, every start of a motor that has   *)
(* not left is about to be withdrawn.                                        *)
ArmedNoStart ==
    armed =>
        /\ \A i \in DOMAIN queue : queue[i].kind = "start" => Withdrawn(queue[i].of, 0)
        /\ \A i \in DOMAIN line : line[i].kind = "start" => Withdrawn(line[i].of, i)

(* No start of a motor escapes the stop, the update or the withdrawal that   *)
(* came after it.                                                            *)
MotorsHeld == []ArmedNoStart /\ MotorsInOrder

(* An arm order never leaves after a disarm the user asked for later: the    *)
(* report that the disarm supersedes it says so.                             *)
DisarmIsLast ==
    \A i \in DOMAIN queue : queue[i].kind = "arm" => queue[i].req > left[Arming]
=============================================================================
