----------------------------- MODULE SerialLink -----------------------------
(***************************************************************************)
(* The serial link between the main thread and the Worker:                 *)
(* WebSerialTransport (queue, drain, read loop, close, reconnect loop),    *)
(* LocalRuntimeClient (who calls it, what it posts) and the write          *)
(* accounting of worker.ts, over one browser SerialPort and two message    *)
(* channels.  A step is one macrotask of one thread with the promise       *)
(* continuations it releases.                                              *)
(*                                                                         *)
(* closeStreams is suspended only when it holds stream locks: without them *)
(* its promises are undefined and port.close rejects at once on a locked   *)
(* port.  So at most one closeStreams is suspended, in settling, and a     *)
(* fail() that comes second runs through in the step that starts it.       *)
(* Time is not measured: a delay may elapse and a message may be delivered *)
(* at any later step.                                                      *)
(***************************************************************************)
EXTENDS Naturals, Sequences, FiniteSets

CONSTANTS
    MaxWrites,   \* bound: write ids in use at one time
    MaxQueued,   \* MAX_QUEUED_BYTES and MAX_PENDING_WRITE_BYTES, in writes
    MaxAttempts, \* reconnect attempts of one fail()
    MaxGens,     \* bound: times the port is opened
    MaxConnects  \* bound: connects the user asks for

ASSUME LinkAssumption ==
    /\ MaxWrites \in Nat \ {0} /\ MaxQueued \in Nat \ {0} /\ MaxAttempts \in Nat \ {0}
    /\ MaxGens \in Nat /\ MaxConnects \in Nat

VARIABLES
    (* the browser's port                                                    *)
    os,           \* state of the SerialPort object
    (* WebSerialTransport                                                    *)
    port,         \* this.port # null
    kind,         \* this.activeOptions.type
    handlers,     \* onBytes, onClosed and onReopened are set
    streams,      \* this.reader and this.writer are set
    closing, reconnecting,
    queue,        \* queued writes, with the link generation that accepted them
    drain,        \* the drain() in progress
    sending,      \* the write it has handed to the stream
    reading,      \* generation whose readLoop() runs, 0 for none
    settling,     \* the closeStreams that holds the stream locks
    loops,        \* attempts left to the reconnect loop of each fail()
    gen,          \* history: times the port was opened
    (* LocalRuntimeClient and the user                                       *)
    opener,       \* the connect() in progress
    wanted,       \* history: the user asked for a connection, not for its end
    due,          \* history: a lost Bluetooth link was not retried yet
    connects,     \* connects asked for so far
    (* messages and worker.ts                                                *)
    toWorker, toMain,
    workerOpen,   \* BrowserConnectionManager.transportOpen
    failed,       \* writeFailureActive
    pending,      \* pendingWrites
    workerGen     \* history: generation the Worker was last told of

portVars   == <<os, port, kind, handlers, streams>>
flagVars   == <<closing, reconnecting>>
writeVars  == <<queue, drain, sending>>
taskVars   == <<reading, settling, loops, opener>>
pastVars   == <<gen, wanted, due, connects>>
workerVars == <<workerOpen, failed, pending, workerGen>>
vars == <<portVars, flagVars, writeVars, taskVars, pastVars, workerVars, toWorker, toMain>>

-----------------------------------------------------------------------------
NoWrite == 0
WriteIds == 1..MaxWrites
TheDrain == 0            \* fail() called by drain; the others by a read loop
Hosts == 0..MaxGens
Kinds == {"usb", "bluetooth"}
Unlocked == [by |-> "nobody", host |-> 0, port |-> FALSE, kind |-> "none", notify |-> FALSE,
             next |-> "none"]

(* Messages to the Worker.  The results of one macrotask are one message.    *)
OpenMsg(g) == [type |-> "open", ids |-> {}, ok |-> TRUE, gen |-> g]
ClosedMsg == [type |-> "closed", ids |-> {}, ok |-> TRUE, gen |-> 0]
Results(ids, ok) == IF ids = {} THEN <<>>
                    ELSE <<[type |-> "results", ids |-> ids, ok |-> ok, gen |-> 0]>>
Told(b) == IF b THEN <<ClosedMsg>> ELSE <<>>

(* Messages to the main thread.                                              *)
WriteMsg(i, t) == [type |-> "write", id |-> i, tag |-> t, gen |-> workerGen]
CancelMsg == [type |-> "cancel", id |-> NoWrite, tag |-> TRUE, gen |-> workerGen]
AbortMsg == [type |-> "abort", id |-> NoWrite, tag |-> FALSE, gen |-> workerGen]

Ids(entries) == {w.id : w \in entries}

InUse(i) ==
    \/ i \in Ids(queue) \cup Ids(pending) \/ sending = i
    \/ \E n \in DOMAIN toMain : toMain[n].id = i
    \/ \E n \in DOMAIN toWorker : i \in toWorker[n].ids

Init ==
    /\ os = "closed" /\ port = FALSE /\ kind = "none" /\ handlers = FALSE /\ streams = FALSE
    /\ closing = FALSE /\ reconnecting = FALSE
    /\ queue = {} /\ drain = "idle" /\ sending = NoWrite
    /\ reading = 0 /\ settling = Unlocked /\ loops = [h \in Hosts |-> 0] /\ opener = "idle"
    /\ gen = 0 /\ wanted = FALSE /\ due = FALSE /\ connects = 0
    /\ workerOpen = FALSE /\ failed = FALSE /\ pending = {} /\ workerGen = 0
    /\ toWorker = <<>> /\ toMain = <<>>
-----------------------------------------------------------------------------
(* port.close: refused while the streams are locked or the port is not open. *)
(* It waits for the write in flight.                                         *)
Closed(had) ==
    IF ~had \/ os # "open" \/ streams \/ settling.by # "nobody" THEN os
    ELSE IF sending # NoWrite THEN "closing" ELSE "closed"

(* Wrong on purpose: the queue of the failed link is kept.                   *)
TakeStreamsKeepsQueue(by, host, next) ==
    /\ settling' = [by |-> by, host |-> host, port |-> port, kind |-> kind,
                    notify |-> handlers, next |-> next]
    /\ streams' = FALSE /\ reading' = 0 /\ UNCHANGED queue

(* The streams are taken by a closeStreams that has to wait for them.        *)
(* Its caller by has captured the port, its kind and onClosed; next is what  *)
(* open() wants then.                                                        *)
TakeStreams(by, host, next) ==
    /\ settling' = [by |-> by, host |-> host, port |-> port, kind |-> kind,
                    notify |-> handlers, next |-> next]
    /\ streams' = FALSE /\ reading' = 0 /\ queue' = {}

(* What close() forgets once the streams have settled.                       *)
Forget == port' = FALSE /\ kind' = "none" /\ handlers' = FALSE

(* open(), once its own close() is done, with the port in state o.           *)
BeginOpen(o, k) ==
    /\ closing' = FALSE /\ port' = TRUE /\ kind' = k /\ handlers' = TRUE
    /\ os' = IF o = "closed" THEN "opening" ELSE o
    /\ opener' = IF o = "closed" THEN "opening" ELSE "idle"

(* Wrong on purpose: the read loop runs on a link that is being closed.      *)
NewStreamsAlwaysRead(quiet) ==
    /\ os' = "open" /\ streams' = TRUE /\ gen' = gen + 1
    /\ reading' = gen + 1

(* The streams of a fresh generation; its read loop runs unless closing.     *)
NewStreams(quiet) ==
    /\ os' = "open" /\ streams' = TRUE /\ gen' = gen + 1
    /\ reading' = IF quiet THEN 0 ELSE gen + 1

(* Wrong on purpose: one attempt too many.                                   *)
AttemptsOneMore == MaxAttempts + 1

(* The bound of the reconnect loop.                                          *)
Attempts == MaxAttempts

(* A fail() that finds no streams to wait for: it reports and, for a         *)
(* Bluetooth port that nobody closes or retries already, starts the loop.    *)
Retries == port /\ kind = "bluetooth" /\ ~closing /\ ~reconnecting
-----------------------------------------------------------------------------
(* connect().  open() first closes what is open; a close() that finds        *)
(* closing set does nothing.                                                 *)
Connect(k) ==
    /\ opener = "idle" /\ connects < MaxConnects
    /\ connects' = connects + 1 /\ wanted' = TRUE /\ due' = FALSE
    /\ \/ /\ closing
          /\ BeginOpen(os, k)
          /\ UNCHANGED <<reconnecting, queue, streams, reading, settling, toWorker>>
       \/ /\ ~closing /\ streams
          /\ closing' = TRUE /\ reconnecting' = FALSE
          /\ TakeStreams("open", 0, k)
          /\ opener' = "closing"
          /\ toWorker' = toWorker \o Results(Ids(queue), FALSE)
          /\ UNCHANGED <<os, port, kind, handlers>>
       \/ /\ ~closing /\ ~streams
          /\ reconnecting' = FALSE
          /\ BeginOpen(Closed(port), k)
          /\ UNCHANGED <<queue, streams, reading, settling, toWorker>>
    /\ UNCHANGED <<drain, sending, loops, gen, workerVars, toMain>>

(* port.open of connect() resolves or rejects.                               *)
OpenDone ==
    /\ opener = "opening"
    /\ opener' = "idle"
    /\ \/ /\ gen < MaxGens
          /\ NewStreams(closing)
          /\ toWorker' = Append(toWorker, OpenMsg(gen + 1))
       \/ os' = "closed" /\ UNCHANGED <<streams, gen, reading, toWorker>>
    /\ UNCHANGED <<port, kind, handlers, flagVars, writeVars, settling, loops,
                   wanted, due, connects, workerVars, toMain>>

(* close(false) for a disconnect() or for a transport_abort.                 *)
CloseFor(by) ==
    \/ /\ closing
       /\ toWorker' = toWorker \o Told(by = "user")
       /\ UNCHANGED <<portVars, flagVars, queue, reading, settling>>
    \/ /\ ~closing /\ streams
       /\ closing' = TRUE /\ reconnecting' = FALSE
       /\ TakeStreams(by, 0, "none")
       /\ toWorker' = toWorker \o Results(Ids(queue), FALSE)
       /\ UNCHANGED <<os, port, kind, handlers>>
    \/ /\ ~closing /\ ~streams
       /\ closing' = TRUE /\ reconnecting' = FALSE
       /\ os' = Closed(port) /\ Forget
       /\ toWorker' = toWorker \o Told(by = "user")
       /\ UNCHANGED <<streams, queue, reading, settling>>

(* disconnect(), after the bounded prepare_disconnect round.                 *)
Disconnect ==
    /\ wanted
    /\ wanted' = FALSE /\ due' = FALSE
    /\ CloseFor("user")
    /\ UNCHANGED <<drain, sending, loops, opener, gen, connects, workerVars, toMain>>

(* Wrong on purpose: the drain of a failed link never ends.                  *)
DrainStays(host, again) == drain

(* The drain whose fail() returns is over; one that retries is still inside. *)
DrainAfterFail(host, again) == IF host = TheDrain /\ ~again THEN "idle" ELSE drain

(* The streams have settled or their time is up: the locks go, the port is   *)
(* closed, and whoever called closeStreams goes on.                          *)
Settled ==
    /\ settling.by # "nobody"
    /\ settling' = Unlocked
    /\ LET o == IF ~settling.port THEN os ELSE IF sending # NoWrite THEN "closing" ELSE "closed"
           again == /\ settling.by = "fail" /\ settling.port /\ settling.kind = "bluetooth"
                    /\ ~closing /\ ~reconnecting
       IN
       /\ IF settling.by = "open"
          THEN BeginOpen(o, settling.next)
          ELSE /\ os' = o /\ UNCHANGED <<closing, opener>>
               /\ IF settling.by = "fail" THEN UNCHANGED <<port, kind, handlers>> ELSE Forget
       /\ reconnecting' = (reconnecting \/ again)
       /\ loops' = [loops EXCEPT ![settling.host] = IF again THEN Attempts ELSE @]
       /\ drain' = IF settling.by = "fail" THEN DrainAfterFail(settling.host, again) ELSE drain
       /\ toWorker' = toWorker \o Told(\/ settling.by = "user"
                                       \/ settling.by = "fail" /\ settling.notify)
    /\ UNCHANGED <<streams, queue, sending, reading, pastVars, workerVars, toMain>>
-----------------------------------------------------------------------------
(* Failure and reconnect.                                                    *)

(* The read loop ends by itself: the device is gone.                         *)
DeviceLost ==
    /\ reading # 0
    /\ TakeStreams("fail", reading, "none")
    /\ due' = (wanted /\ port /\ kind = "bluetooth")
    /\ toWorker' = toWorker \o Results(Ids(queue), FALSE)
    /\ UNCHANGED <<os, port, kind, handlers, flagVars, drain, sending, loops, opener,
                   gen, wanted, connects, workerVars, toMain>>

(* The write in flight is rejected.  With streams to close, cancelling the   *)
(* reader ends the read loop, whose own fail() finds none left.              *)
WriteFails ==
    /\ sending # NoWrite
    /\ sending' = NoWrite
    /\ \/ /\ streams
          /\ TakeStreams("fail", TheDrain, "none") /\ drain' = "failing"
          /\ LET second == reading # 0 /\ ~closing IN
             /\ toWorker' = toWorker \o Results(Ids(queue) \cup {sending}, FALSE)
                                     \o Told(second /\ handlers)
             /\ loops' = IF second /\ Retries THEN [loops EXCEPT ![reading] = Attempts]
                         ELSE loops
             /\ reconnecting' = (reconnecting \/ (second /\ Retries))
          /\ due' = (due \/ (wanted /\ port /\ kind = "bluetooth"))
          /\ UNCHANGED os
       \/ /\ ~streams
          /\ toWorker' = toWorker \o Results({sending}, FALSE) \o Told(handlers)
          /\ loops' = IF Retries THEN [loops EXCEPT ![TheDrain] = Attempts] ELSE loops
          /\ drain' = IF Retries THEN "failing" ELSE "idle"
          /\ reconnecting' = (reconnecting \/ Retries)
          /\ os' = IF os = "closing" THEN "closed"
                   ELSE IF port /\ os = "open" /\ settling.by = "nobody" THEN "closed" ELSE os
          /\ UNCHANGED <<streams, queue, reading, settling, due>>
    /\ UNCHANGED <<port, kind, handlers, closing, opener, gen, wanted, connects,
                   workerVars, toMain>>

(* The reconnect delay of a loop elapses and port.open succeeds.             *)
Reopens(h) ==
    /\ loops[h] > 0 /\ os = "closed" /\ gen < MaxGens
    /\ NewStreams(FALSE)
    /\ reconnecting' = FALSE /\ closing' = FALSE
    /\ loops' = [loops EXCEPT ![h] = 0]
    /\ drain' = DrainAfterFail(h, FALSE)
    /\ due' = FALSE
    /\ toWorker' = IF handlers THEN Append(toWorker, OpenMsg(gen + 1)) ELSE toWorker
    /\ UNCHANGED <<port, kind, handlers, queue, sending, settling, opener, wanted, connects,
                   workerVars, toMain>>

(* Wrong on purpose: attempts are not counted.                               *)
ReopenFailsForever(h) ==
    /\ loops[h] > 0
    /\ os' = Closed(TRUE)
    /\ UNCHANGED <<loops, reconnecting, port, kind, drain, due>>
    /\ UNCHANGED <<handlers, streams, closing, queue, sending, reading, settling, opener, gen,
                   wanted, connects, workerVars, toMain, toWorker>>

(* Or port.open rejects, the port is closed again, and the loop goes on      *)
(* while it has attempts and is still wanted.                                *)
ReopenFails(h) ==
    /\ loops[h] > 0
    /\ os' = Closed(TRUE)
    /\ due' = FALSE
    /\ IF loops[h] > 1 /\ reconnecting /\ ~closing
       THEN /\ loops' = [loops EXCEPT ![h] = @ - 1]
            /\ UNCHANGED <<reconnecting, port, kind, drain>>
       ELSE /\ loops' = [loops EXCEPT ![h] = 0]
            /\ reconnecting' = FALSE /\ port' = FALSE /\ kind' = "none"
            /\ drain' = DrainAfterFail(h, FALSE)
    /\ UNCHANGED <<handlers, streams, closing, queue, sending, reading, settling, opener, gen,
                   wanted, connects, workerVars, toMain, toWorker>>
-----------------------------------------------------------------------------
(* Writes on the main thread.                                                *)

(* drain() hands one queued write to the stream.                             *)
SendOne(entries) ==
    \E w \in entries :
        sending' = w.id /\ queue' = entries \ {w} /\ drain' = "sending"

(* Wrong on purpose: a refused write is not answered.                        *)
AcceptSilently(m) ==
    IF streams /\ ~closing /\ Cardinality(queue) < MaxQueued
    THEN LET entries == queue \cup {[id |-> m.id, tag |-> m.tag, gen |-> gen]} IN
         /\ IF drain = "idle" THEN SendOne(entries)
            ELSE queue' = entries /\ UNCHANGED <<drain, sending>>
         /\ UNCHANGED toWorker
    ELSE UNCHANGED <<writeVars, toWorker>>

(* write(): refused without a writer, while closing, and for want of room.   *)
Accept(m) ==
    IF streams /\ ~closing /\ Cardinality(queue) < MaxQueued
    THEN LET entries == queue \cup {[id |-> m.id, tag |-> m.tag, gen |-> gen]} IN
         /\ IF drain = "idle" THEN SendOne(entries)
            ELSE queue' = entries /\ UNCHANGED <<drain, sending>>
         /\ UNCHANGED toWorker
    ELSE /\ toWorker' = toWorker \o Results({m.id}, FALSE)
         /\ UNCHANGED writeVars

(* cancelQueued(): the queued writes of the tag are refused.                 *)
Cancel ==
    LET tagged == {w \in queue : w.tag} IN
    /\ queue' = queue \ tagged
    /\ toWorker' = toWorker \o Results(Ids(tagged), FALSE)
    /\ UNCHANGED <<drain, sending>>

(* handleWorkerMessage.                                                      *)
MainReceives ==
    /\ toMain # <<>>
    /\ toMain' = Tail(toMain)
    /\ LET m == Head(toMain) IN
       \/ m.type = "write" /\ Accept(m) /\ UNCHANGED <<portVars, flagVars, reading, settling>>
       \/ m.type = "cancel" /\ Cancel /\ UNCHANGED <<portVars, flagVars, reading, settling>>
       \/ m.type = "abort" /\ CloseFor("abort") /\ UNCHANGED <<drain, sending>>
    /\ UNCHANGED <<loops, opener, pastVars, workerVars>>

(* The write in flight is done; drain() goes on with what is queued.         *)
WriteDone ==
    /\ sending # NoWrite
    /\ toWorker' = toWorker \o Results({sending}, TRUE)
    /\ os' = IF os = "closing" THEN "closed" ELSE os
    /\ IF streams /\ queue # {} THEN SendOne(queue)
       ELSE sending' = NoWrite /\ drain' = "idle" /\ UNCHANGED queue
    /\ UNCHANGED <<port, kind, handlers, streams, flagVars, taskVars, pastVars, workerVars,
                   toMain>>
-----------------------------------------------------------------------------
(* The Worker.                                                               *)

(* coordinator.write: counted, posted and reported as accepted.              *)
WorkerWrite(tag) ==
    /\ workerOpen /\ ~failed /\ Cardinality(pending) < MaxQueued
    /\ \E i \in WriteIds :
          /\ ~InUse(i) /\ \A j \in 1 .. i - 1 : InUse(j)
          /\ pending' = pending \cup {[id |-> i, tag |-> tag]}
          /\ toMain' = Append(toMain, WriteMsg(i, tag))
    /\ UNCHANGED <<portVars, flagVars, writeVars, taskVars, pastVars, workerOpen, failed,
                   workerGen, toWorker>>

(* cancelQueuedWrites: no longer counted here, and cancelled there.          *)
WorkerCancel ==
    /\ workerOpen /\ \E w \in pending : w.tag
    /\ pending' = {w \in pending : ~w.tag}
    /\ toMain' = Append(toMain, CancelMsg)
    /\ UNCHANGED <<portVars, flagVars, writeVars, taskVars, pastVars, workerOpen, failed,
                   workerGen, toWorker>>

(* Wrong on purpose: a refused write is only forgotten.                      *)
WorkerHearsResultsOnly(m) ==
    /\ pending' = {w \in pending : w.id \notin m.ids}
    /\ UNCHANGED <<workerOpen, failed, workerGen, toMain>>

(* write_result: the refusal of a write that still counts ends the link      *)
(* generation, here and on the main thread.                                  *)
WorkerHearsResults(m) ==
    IF ~m.ok /\ ~failed /\ Ids(pending) \cap m.ids # {}
    THEN /\ failed' = TRUE /\ pending' = {} /\ workerOpen' = FALSE
         /\ toMain' = Append(toMain, AbortMsg)
         /\ UNCHANGED workerGen
    ELSE /\ pending' = {w \in pending : w.id \notin m.ids}
         /\ UNCHANGED <<workerOpen, failed, workerGen, toMain>>

WorkerReceives ==
    /\ toWorker # <<>>
    /\ toWorker' = Tail(toWorker)
    /\ LET m == Head(toWorker) IN
       \/ /\ m.type = "open"
          /\ pending' = {} /\ failed' = FALSE /\ workerOpen' = TRUE /\ workerGen' = m.gen
          /\ UNCHANGED toMain
       \/ /\ m.type = "closed"
          /\ pending' = {} /\ failed' = TRUE /\ workerOpen' = FALSE
          /\ UNCHANGED <<workerGen, toMain>>
       \/ m.type = "results" /\ WorkerHearsResults(m)
    /\ UNCHANGED <<portVars, flagVars, writeVars, taskVars, pastVars>>
-----------------------------------------------------------------------------
User == (\E k \in Kinds : Connect(k)) \/ Disconnect

Reconnects == \E h \in Hosts : Reopens(h) \/ ReopenFails(h)

Next ==
    \/ User \/ OpenDone \/ Settled \/ DeviceLost \/ Reconnects
    \/ WriteDone \/ WriteFails \/ MainReceives
    \/ (\E tag \in BOOLEAN : WorkerWrite(tag)) \/ WorkerCancel \/ WorkerReceives

Spec == Init /\ [][Next]_vars

(* Promises settle, timers fire, messages are delivered and the GCS          *)
(* heartbeat writes once a second, however much else is written and          *)
(* cancelled; nothing is assumed of the user or the device.                  *)
FairSpec ==
    /\ Spec
    /\ WF_vars(OpenDone) /\ WF_vars(Settled) /\ WF_vars(WriteDone \/ WriteFails)
    /\ \A h \in Hosts : WF_vars(Reopens(h) \/ ReopenFails(h))
    /\ WF_vars(MainReceives) /\ WF_vars(WorkerReceives) /\ SF_vars(WorkerWrite(FALSE))
-----------------------------------------------------------------------------
TypeOK ==
    /\ os \in {"closed", "opening", "open", "closing"}
    /\ port \in BOOLEAN /\ kind \in Kinds \cup {"none"} /\ handlers \in BOOLEAN
    /\ streams \in BOOLEAN /\ closing \in BOOLEAN /\ reconnecting \in BOOLEAN
    /\ queue \subseteq [id : WriteIds, tag : BOOLEAN, gen : 1..MaxGens]
    /\ drain \in {"idle", "sending", "failing"} /\ sending \in WriteIds \cup {NoWrite}
    /\ reading \in Hosts /\ loops \in [Hosts -> 0..MaxAttempts] /\ gen \in Hosts
    /\ settling \in [by : {"nobody", "user", "abort", "open", "fail"}, host : Hosts,
                     port : BOOLEAN, kind : Kinds \cup {"none"}, notify : BOOLEAN,
                     next : Kinds \cup {"none"}]
    /\ opener \in {"idle", "closing", "opening"}
    /\ wanted \in BOOLEAN /\ due \in BOOLEAN /\ connects \in 0..MaxConnects
    /\ toWorker \in Seq([type : {"open", "closed", "results"}, ids : SUBSET WriteIds,
                         ok : BOOLEAN, gen : Hosts])
    /\ toMain \in Seq([type : {"write", "cancel", "abort"}, id : WriteIds \cup {NoWrite},
                       tag : BOOLEAN, gen : Hosts])
    /\ workerOpen \in BOOLEAN /\ failed \in BOOLEAN /\ workerGen \in Hosts
    /\ pending \subseteq [id : WriteIds, tag : BOOLEAN]

(* "Queued bytes belong to the failed link generation. Replaying them after  *)
(* an in-tab Bluetooth reconnect could execute stale vehicle commands"       *)
(* (fail): what is queued was accepted by the streams that are open now, so  *)
(* drain() never hands a write of one generation to the streams of another,  *)
(* whichever of fail, close, open and a reconnect loop came in between.      *)
QueueFenced == queue # {} => streams /\ \A w \in queue : w.gen = gen

(* One link at a time: streams belong to an open port and to nobody who is   *)
(* closing them, and a read loop reads the streams of the last generation,   *)
(* so that no byte of a dead link is taken for one of the new link and       *)
(* cancelling a reader never looks like the loss of the next device.         *)
OneLink ==
    /\ streams => os = "open" /\ settling.by = "nobody"
    /\ settling.by # "nobody" => os = "open"
    /\ reading # 0 => streams /\ ~closing /\ reading = gen

(* The draining flag is never left behind: it is up while a write is in      *)
(* flight or the fail() of that drain is still in closeStreams or in its     *)
(* reconnect loop.  Otherwise no later write would ever leave the queue.     *)
DrainReleased ==
    /\ drain = "sending" <=> sending # NoWrite
    /\ drain = "failing" <=> \/ loops[TheDrain] > 0
                             \/ settling.by = "fail" /\ settling.host = TheDrain

(* Port, streams, reader and drain fit together, and each has its type       *)
(* (open, closeStreams, drain).                                              *)
LinkConsistent == TypeOK /\ OneLink /\ DrainReleased

(* Every write the Worker counts against its 512 KiB is still on its way:    *)
(* posted, queued, in flight, or its result is.  A write that disappeared    *)
(* would be counted for ever, and writes would be refused at the limit.      *)
PendingTraceable ==
    \A w \in pending :
        \/ w.id \in Ids(queue) \/ sending = w.id
        \/ \E n \in DOMAIN toMain : toMain[n].id = w.id
        \/ \E n \in DOMAIN toWorker : w.id \in toWorker[n].ids

(* The link, its queue and the writes counted against it agree.              *)
LinkSound == LinkConsistent /\ QueueFenced /\ PendingTraceable

(* The Worker does not go on for ever with a link the main thread has lost,  *)
(* not even when it was closed without a message (transport_abort, open):    *)
(* the next heartbeat is refused, and that ends the generation.              *)
WorkerLearns == workerOpen /\ ~streams ~> ~workerOpen \/ streams

(* "Bounded reconnect" (ARCHITECTURE.md): every reconnect loop ends.         *)
ReconnectEnds == \A h \in Hosts : loops[h] > 0 ~> loops[h] = 0

(* A lost link is settled: the Worker learns of it and nobody reopens it for *)
(* ever.                                                                     *)
LossSettles == WorkerLearns /\ ReconnectEnds

(* "An explicit disconnect permanently ends this reconnect"                  *)
(* (ARCHITECTURE.md): a reconnect loop opens the port only for a user who    *)
(* has not disconnected.                                                     *)
DisconnectIsFinal == [][os = "closed" /\ os' = "open" => wanted]_vars

(* "A later main-thread rejection makes that link generation indeterminate,  *)
(* so fail it closed" (worker.ts): the abort closes the generation whose     *)
(* write was refused, no later one.                                          *)
AbortOnlyItsOwnLink ==
    [][toMain # <<>> /\ toMain' = Tail(toMain) /\ Head(toMain).type = "abort" /\ streams
         => streams' \/ Head(toMain).gen = gen]_vars

(* "Bluetooth SPP is reconnected, bounded, while the tab is in an active     *)
(* connection session" (ARCHITECTURE.md): a Bluetooth link that failed under *)
(* a user who wants it is tried again at least once.                         *)
ReconnectAttempted ==
    due => settling.by # "nobody" \/ \E h \in Hosts : loops[h] > 0
=============================================================================
