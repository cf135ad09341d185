--------------------------- MODULE SerialLink_proofs ---------------------------
(***************************************************************************)
(* Proofs about SerialLink: its type, and that one link is open at a time, *)
(* no write crosses from one link generation to the next, the drain is     *)
(* never left behind and no write the Worker counts is lost, for every     *)
(* number of writes, generations and reconnect attempts.                   *)
(***************************************************************************)
EXTENDS SerialLink, SequenceTheorems, TLAPS

WorkerMsgs == [type : {"open", "closed", "results"}, ids : SUBSET WriteIds, ok : BOOLEAN, gen : Hosts]
MainMsgs == [type : {"write", "cancel", "abort"}, id : WriteIds \cup {NoWrite}, tag : BOOLEAN, gen : Hosts]
Settlings == [by : {"nobody", "user", "abort", "open", "fail"}, host : Hosts, port : BOOLEAN,
              kind : Kinds \cup {"none"}, notify : BOOLEAN, next : Kinds \cup {"none"}]
QueuedWrites == [id : WriteIds, tag : BOOLEAN, gen : 1..MaxGens]

(* The type, in parts: the browser's port and who closes it, the flags and   *)
(* numbers, the writes, the messages and the Worker.                         *)
PortTypes ==
    /\ os \in {"closed", "opening", "open", "closing"}
    /\ port \in BOOLEAN /\ kind \in Kinds \cup {"none"} /\ handlers \in BOOLEAN
    /\ streams \in BOOLEAN /\ closing \in BOOLEAN /\ reconnecting \in BOOLEAN
    /\ settling \in Settlings /\ opener \in {"idle", "closing", "opening"}
CountTypes ==
    /\ reading \in Hosts /\ loops \in [Hosts -> 0..MaxAttempts] /\ gen \in Hosts
    /\ wanted \in BOOLEAN /\ due \in BOOLEAN /\ connects \in 0..MaxConnects
WriteTypes ==
    /\ queue \subseteq QueuedWrites
    /\ drain \in {"idle", "sending", "failing"} /\ sending \in WriteIds \cup {NoWrite}
WorkerTypes ==
    /\ workerOpen \in BOOLEAN /\ failed \in BOOLEAN /\ workerGen \in Hosts
    /\ pending \subseteq [id : WriteIds, tag : BOOLEAN]

LEMMA TypeParts ==
    TypeOK <=> /\ PortTypes /\ CountTypes /\ WriteTypes /\ WorkerTypes
               /\ toWorker \in Seq(WorkerMsgs) /\ toMain \in Seq(MainMsgs)
BY Zenon DEF TypeOK, PortTypes, CountTypes, WriteTypes, WorkerTypes, WorkerMsgs, MainMsgs, Settlings,
             QueuedWrites

(* The inductive invariant.  What open() waits for is a port that opens;     *)
(* a drain in closeStreams has no reconnect loop yet; open streams have a    *)
(* generation; the writes posted are those with a number.                    *)
OpenerWaits == opener = "opening" => os = "opening"
DrainOnce == settling.by = "fail" /\ settling.host = TheDrain => loops[TheDrain] = 0
StreamsNumbered == streams => gen # 0
PostsNumbered == \A n \in 1..Len(toMain) : toMain[n].type = "write" <=> toMain[n].id # NoWrite

LinkState == /\ OneLink /\ DrainReleased /\ QueueFenced
             /\ OpenerWaits /\ DrainOnce /\ StreamsNumbered
LinkInv == TypeOK /\ LinkState /\ PostsNumbered /\ PendingTraceable
-----------------------------------------------------------------------------
(* The port, its streams and their tasks.  One lemma per action: none of     *)
(* them needs to know what is on its way between the threads.                *)
StateTypes == PortTypes /\ CountTypes /\ WriteTypes
StateOK == StateTypes /\ LinkState

LEMMA NumberFacts ==
    /\ MaxAttempts \in Nat /\ MaxAttempts > 0 /\ MaxGens \in Nat /\ MaxConnects \in Nat
    /\ TheDrain \in Hosts /\ 0 \in 0..MaxAttempts /\ Attempts \in 1..MaxAttempts
    /\ NoWrite \notin WriteIds
BY LinkAssumption DEF LinkAssumption, TheDrain, Hosts, Attempts, WriteIds, NoWrite

LEMMA Taken ==
    ASSUME PortTypes, NEW by \in {"nobody", "user", "abort", "open", "fail"}, NEW host \in Hosts,
           NEW next \in Kinds \cup {"none"}, TakeStreams(by, host, next)
    PROVE  /\ settling' \in Settlings /\ settling'.by = by /\ settling'.host = host
           /\ streams' = FALSE /\ reading' = 0 /\ queue' = {}
BY DEF TakeStreams, PortTypes, Settlings

LEMMA ClosedPort ==
    ASSUME NEW had \in BOOLEAN
    PROVE  \/ Closed(had) = os
           \/ /\ os = "open" /\ ~streams /\ settling.by = "nobody"
              /\ Closed(had) \in {"closing", "closed"}
BY DEF Closed

LEMMA ConnectState == ASSUME StateOK, NEW k \in Kinds, Connect(k) PROVE StateOK'
<1> USE NumberFacts DEF StateOK, StateTypes
<1>a. port \in BOOLEAN /\ k \in Kinds \cup {"none"} /\ 0 \in Hosts
  BY DEF PortTypes, TheDrain
<1>b. ASSUME closing PROVE  PortTypes' /\ LinkState'
  <2>1. BeginOpen(os, k) /\ UNCHANGED <<reconnecting, queue, streams, reading, settling>>
    BY <1>b DEF Connect
  <2>2. PortTypes'
    BY <2>1, <1>a DEF BeginOpen, PortTypes
  <2>3. LinkState'
    BY <2>1 DEF Connect, BeginOpen, LinkState, OneLink, DrainReleased, QueueFenced, OpenerWaits,
                DrainOnce, StreamsNumbered
  <2> QED BY <2>2, <2>3
<1>c. ASSUME ~closing /\ streams PROVE  PortTypes' /\ LinkState'
  <2>1. /\ TakeStreams("open", 0, k) /\ opener' = "closing" /\ closing' = TRUE
        /\ reconnecting' = FALSE /\ UNCHANGED <<os, port, kind, handlers>>
    BY <1>c DEF Connect
  <2>2. /\ settling' \in Settlings /\ settling'.by = "open" /\ settling'.host = 0
        /\ streams' = FALSE /\ reading' = 0 /\ queue' = {}
    BY <2>1, <1>a, Taken
  <2>3. PortTypes'
    BY <2>1, <2>2 DEF PortTypes
  <2>4. LinkState'
    BY <1>c, <2>1, <2>2 DEF Connect, LinkState, OneLink, DrainReleased, QueueFenced, OpenerWaits,
                DrainOnce, StreamsNumbered
  <2> QED BY <2>3, <2>4
<1>d. ASSUME ~closing /\ ~streams PROVE  PortTypes' /\ LinkState'
  <2>1. /\ BeginOpen(Closed(port), k) /\ reconnecting' = FALSE
        /\ UNCHANGED <<queue, streams, reading, settling>>
    BY <1>d DEF Connect
  <2> DEFINE o == Closed(port)
  <2>2. \/ o = os
        \/ os = "open" /\ ~streams /\ settling.by = "nobody" /\ o \in {"closing", "closed"}
    BY <1>a, ClosedPort
  <2>3. BeginOpen(o, k)
    BY <2>1
  <2> HIDE DEF o
  <2>4. PortTypes'
    BY <2>1, <2>2, <2>3, <1>a DEF BeginOpen, PortTypes
  <2>5. LinkState'
    BY <1>d, <2>1, <2>2, <2>3 DEF Connect, BeginOpen, LinkState, OneLink, DrainReleased,
                QueueFenced, OpenerWaits, DrainOnce, StreamsNumbered
  <2> QED BY <2>4, <2>5
<1>2. CountTypes'
  BY DEF Connect, BeginOpen, TakeStreams, CountTypes, Hosts, workerVars
<1>3. WriteTypes'
  BY DEF Connect, BeginOpen, TakeStreams, WriteTypes
<1> QED BY <1>b, <1>c, <1>d, <1>2, <1>3

LEMMA OpenDoneState == ASSUME StateOK, OpenDone PROVE StateOK'
<1> USE NumberFacts DEF StateOK, StateTypes
<1>1. PortTypes'
  BY DEF OpenDone, NewStreams, PortTypes, flagVars
<1>2. CountTypes'
  BY SMTT(30) DEF OpenDone, NewStreams, CountTypes, Hosts
<1>3. WriteTypes'
  BY DEF OpenDone, WriteTypes, writeVars
<1>4. LinkState'
  BY DEF OpenDone, NewStreams, LinkState, OneLink, DrainReleased, QueueFenced, OpenerWaits,
         DrainOnce, StreamsNumbered, CountTypes, Hosts, flagVars, writeVars
<1> QED BY <1>1, <1>2, <1>3, <1>4

LEMMA CloseState ==
    ASSUME StateOK, NEW by \in {"user", "abort"}, CloseFor(by),
           UNCHANGED <<drain, sending, loops, opener, gen, connects>>,
           wanted' \in BOOLEAN, due' \in BOOLEAN
    PROVE  StateOK'
<1> USE NumberFacts DEF StateOK, StateTypes
<1>a. port \in BOOLEAN /\ 0 \in Hosts
  BY DEF PortTypes, TheDrain
<1>b. ASSUME closing PROVE  PortTypes' /\ LinkState'
  <2>1. UNCHANGED <<portVars, flagVars, queue, reading, settling>>
    BY <1>b DEF CloseFor
  <2>2. PortTypes'
    BY <2>1 DEF PortTypes, portVars, flagVars
  <2>3. LinkState'
    BY <2>1 DEF LinkState, OneLink, DrainReleased, QueueFenced, OpenerWaits, DrainOnce,
                StreamsNumbered, portVars, flagVars
  <2> QED BY <2>2, <2>3
<1>c. ASSUME ~closing /\ streams PROVE  PortTypes' /\ LinkState'
  <2>1. /\ TakeStreams(by, 0, "none") /\ closing' = TRUE
        /\ reconnecting' = FALSE /\ UNCHANGED <<os, port, kind, handlers>>
    BY <1>c DEF CloseFor
  <2>2. /\ settling' \in Settlings /\ settling'.by = by /\ settling'.host = 0
        /\ streams' = FALSE /\ reading' = 0 /\ queue' = {}
    BY <2>1, <1>a, Taken
  <2>3. PortTypes'
    BY <2>1, <2>2 DEF PortTypes
  <2>4. LinkState'
    BY <1>c, <2>1, <2>2 DEF LinkState, OneLink, DrainReleased, QueueFenced, OpenerWaits,
                DrainOnce, StreamsNumbered
  <2> QED BY <2>3, <2>4
<1>d. ASSUME ~closing /\ ~streams PROVE  PortTypes' /\ LinkState'
  <2> DEFINE o == Closed(port)
  <2>1. /\ closing' = TRUE /\ reconnecting' = FALSE /\ os' = o /\ Forget
        /\ UNCHANGED <<streams, queue, reading, settling>>
    BY <1>d DEF CloseFor
  <2>2. \/ o = os
        \/ os = "open" /\ ~streams /\ settling.by = "nobody" /\ o \in {"closing", "closed"}
    BY <1>a, ClosedPort
  <2> HIDE DEF o
  <2>3. PortTypes'
    BY <2>1, <2>2, <1>a DEF Forget, PortTypes
  <2>4. LinkState'
    BY <1>d, <2>1, <2>2 DEF Forget, LinkState, OneLink, DrainReleased, QueueFenced, OpenerWaits,
                DrainOnce, StreamsNumbered
  <2> QED BY <2>3, <2>4
<1>2. CountTypes'
  BY DEF CloseFor, Forget, TakeStreams, CountTypes, Hosts
<1>3. WriteTypes'
  BY DEF CloseFor, Forget, TakeStreams, WriteTypes
<1>4. closing \in BOOLEAN /\ streams \in BOOLEAN
  BY DEF PortTypes
<1> QED BY <1>b, <1>c, <1>d, <1>2, <1>3, <1>4

LEMMA SettledState == ASSUME StateOK, Settled PROVE StateOK'
<1> USE NumberFacts DEF StateOK, StateTypes
<1>a. settling' \in Settlings
  BY DEF Settled, Unlocked, Settlings, TheDrain
<1>b. ASSUME settling.by = "open" PROVE  PortTypes'
  <2>1. PICK o \in {"open", "closing", "closed"} : BeginOpen(o, settling.next)
    BY <1>b DEF Settled, LinkState, OneLink
  <2>2. settling.next \in Kinds \cup {"none"} /\ reconnecting' \in BOOLEAN /\ streams' = streams
    BY DEF Settled, PortTypes, Settlings
  <2> QED BY <1>a, <2>1, <2>2 DEF BeginOpen, PortTypes
<1>c. ASSUME settling.by # "open" PROVE  PortTypes'
  <2>1. /\ os' \in {"open", "closing", "closed"} /\ UNCHANGED <<closing, opener, streams>>
        /\ reconnecting' \in BOOLEAN
        /\ port' \in BOOLEAN /\ kind' \in Kinds \cup {"none"} /\ handlers' \in BOOLEAN
    BY <1>c DEF Settled, Forget, PortTypes, LinkState, OneLink
  <2> QED BY <1>a, <2>1 DEF PortTypes
<1>1. PortTypes'
  BY <1>b, <1>c
<1>2. CountTypes'
  BY DEF Settled, CountTypes, PortTypes, Settlings, Hosts, pastVars
<1>3. WriteTypes'
  BY DEF Settled, DrainAfterFail, WriteTypes
<1>4. LinkState'
  BY DEF Settled, BeginOpen, Forget, Unlocked, DrainAfterFail, LinkState, OneLink, DrainReleased,
         QueueFenced, OpenerWaits, DrainOnce, StreamsNumbered, PortTypes, CountTypes, Settlings,
         Hosts, pastVars
<1> QED BY <1>1, <1>2, <1>3, <1>4

LEMMA DeviceLostState == ASSUME StateOK, DeviceLost PROVE StateOK'
<1> USE NumberFacts DEF StateOK, StateTypes
<1>1. PortTypes'
  BY DEF DeviceLost, TakeStreams, PortTypes, CountTypes, Settlings, Hosts, Kinds, flagVars
<1>2. CountTypes'
  BY DEF DeviceLost, TakeStreams, CountTypes, PortTypes, Hosts, flagVars
<1>3. WriteTypes'
  BY DEF DeviceLost, TakeStreams, WriteTypes
<1>4. LinkState'
  BY DEF DeviceLost, TakeStreams, LinkState, OneLink, DrainReleased, QueueFenced, OpenerWaits,
         DrainOnce, StreamsNumbered, TheDrain, flagVars
<1> QED BY <1>1, <1>2, <1>3, <1>4

LEMMA WriteFailsState == ASSUME StateOK, WriteFails PROVE StateOK'
<1> USE NumberFacts DEF StateOK, StateTypes
<1>1. PortTypes'
  BY DEF WriteFails, TakeStreams, Retries, PortTypes, CountTypes, Settlings, Hosts, Kinds
<1>2. CountTypes'
  BY DEF WriteFails, TakeStreams, Retries, CountTypes, PortTypes, Hosts
<1>3. WriteTypes'
  BY DEF WriteFails, TakeStreams, Retries, WriteTypes
<1>4. LinkState'
  BY DEF WriteFails, TakeStreams, Retries, LinkState, OneLink, DrainReleased, QueueFenced,
         OpenerWaits, DrainOnce, StreamsNumbered, CountTypes, PortTypes, TheDrain, Hosts
<1> QED BY <1>1, <1>2, <1>3, <1>4

LEMMA ReopensState == ASSUME StateOK, NEW h \in Hosts, Reopens(h) PROVE StateOK'
<1> USE NumberFacts DEF StateOK, StateTypes
<1>1. PortTypes'
  BY DEF Reopens, NewStreams, PortTypes
<1>2. CountTypes'
  <2>1. loops' \in [Hosts -> 0..MaxAttempts]
    BY DEF Reopens, CountTypes
  <2>2. gen' \in Hosts /\ reading' \in Hosts
    BY DEF Reopens, NewStreams, CountTypes, Hosts
  <2> QED BY <2>1, <2>2 DEF Reopens, CountTypes
<1>3. WriteTypes'
  BY DEF Reopens, DrainAfterFail, WriteTypes
<1>4. LinkState'
  BY DEF Reopens, NewStreams, DrainAfterFail, LinkState, OneLink, DrainReleased, QueueFenced,
         OpenerWaits, DrainOnce, StreamsNumbered, CountTypes, Hosts
<1> QED BY <1>1, <1>2, <1>3, <1>4

LEMMA ReopenFailsState == ASSUME StateOK, NEW h \in Hosts, ReopenFails(h) PROVE StateOK'
<1> USE NumberFacts DEF StateOK, StateTypes
<1>1. PortTypes'
  BY DEF ReopenFails, Closed, PortTypes
<1>2. CountTypes'
  <2>1. loops[h] \in 0..MaxAttempts
    BY DEF CountTypes
  <2>2. loops[h] > 1 => loops[h] - 1 \in 0..MaxAttempts
    BY <2>1
  <2>3. loops' \in [Hosts -> 0..MaxAttempts]
    BY <2>2 DEF ReopenFails, CountTypes
  <2> QED BY <2>3 DEF ReopenFails, CountTypes
<1>3. WriteTypes'
  BY DEF ReopenFails, DrainAfterFail, WriteTypes
<1>4. LinkState'
  BY DEF ReopenFails, Closed, DrainAfterFail, LinkState, OneLink, DrainReleased, QueueFenced,
         OpenerWaits, DrainOnce, StreamsNumbered, CountTypes, Hosts
<1> QED BY <1>1, <1>2, <1>3, <1>4

(* What the drain hands to the stream is one of the writes it may take.      *)
LEMMA SendState ==
    ASSUME StateOK, streams, UNCHANGED <<portVars, flagVars, reading, settling, loops, opener, pastVars>>,
           NEW entries, entries \subseteq QueuedWrites, \A w \in entries : w.gen = gen,
           drain \in {"idle", "sending"}, SendOne(entries)
    PROVE  StateOK'
<1> USE NumberFacts DEF StateOK, StateTypes
<1> PICK w \in entries : sending' = w.id /\ queue' = entries \ {w} /\ drain' = "sending"
  BY DEF SendOne
<1>1. PortTypes'
  BY DEF PortTypes, portVars, flagVars
<1>2. CountTypes'
  BY DEF CountTypes, pastVars
<1>3. WriteTypes'
  BY DEF WriteTypes, QueuedWrites
<1>4. sending' # NoWrite
  BY DEF QueuedWrites, NoWrite
<1>5. LinkState'
  BY <1>4 DEF LinkState, OneLink, DrainReleased, QueueFenced, OpenerWaits, DrainOnce,
              StreamsNumbered, portVars, flagVars, pastVars
<1> QED BY <1>1, <1>2, <1>3, <1>5

(* A step that only lets queued writes go, or frees the drain.               *)
LEMMA LessState ==
    ASSUME StateOK, UNCHANGED <<port, kind, handlers, streams, flagVars, reading, settling, loops, opener, pastVars>>,
           queue' \subseteq queue,
           \/ UNCHANGED <<os, drain, sending>>
           \/ /\ drain = "sending" /\ drain' = "idle" /\ sending' = NoWrite
              /\ os' = IF os = "closing" THEN "closed" ELSE os
    PROVE  StateOK'
<1> USE NumberFacts DEF StateOK, StateTypes
<1>1. PortTypes'
  BY DEF PortTypes, flagVars
<1>2. CountTypes'
  BY DEF CountTypes, pastVars
<1>3. WriteTypes'
  BY DEF WriteTypes, NoWrite
<1>4. LinkState'
  BY DEF LinkState, OneLink, DrainReleased, QueueFenced, OpenerWaits, DrainOnce,
         StreamsNumbered, flagVars, pastVars
<1> QED BY <1>1, <1>2, <1>3, <1>4
-----------------------------------------------------------------------------
(* What is on its way between the threads.                                   *)
Carries(msgs, i) == \E n \in 1..Len(msgs) : i \in msgs[n].ids
Posted(msgs, i) == \E n \in 1..Len(msgs) : msgs[n].id = i
OnMain(entries, flying, i) == (\E w \in entries : w.id = i) \/ flying = i

MessageTypes == toWorker \in Seq(WorkerMsgs) /\ toMain \in Seq(MainMsgs)
Traced == MessageTypes /\ PostsNumbered /\ PendingTraceable

LEMMA TracedWrites ==
    ASSUME MessageTypes
    PROVE  PendingTraceable <=>
             \A w \in pending : \/ OnMain(queue, sending, w.id)
                                \/ Posted(toMain, w.id) \/ Carries(toWorker, w.id)
<1>1. DOMAIN toMain = 1..Len(toMain) /\ DOMAIN toWorker = 1..Len(toWorker)
  BY LenProperties, Zenon DEF MessageTypes
<1>2. \A i : i \in Ids(queue) <=> \E w \in queue : w.id = i
  BY DEF Ids
<1> QED BY <1>1, <1>2 DEF PendingTraceable, OnMain, Posted, Carries

LEMMA TracedWritesNext ==
    ASSUME MessageTypes'
    PROVE  PendingTraceable' <=>
             \A w \in pending' : \/ OnMain(queue', sending', w.id)
                                 \/ Posted(toMain', w.id) \/ Carries(toWorker', w.id)
<1>1. DOMAIN toMain' = 1..Len(toMain') /\ DOMAIN toWorker' = 1..Len(toWorker')
  BY LenProperties, Zenon DEF MessageTypes
<1>2. \A i : i \in (Ids(queue))' <=> \E w \in queue' : w.id = i
  BY DEF Ids
<1> QED BY <1>1, <1>2 DEF PendingTraceable, OnMain, Posted, Carries

LEMMA CarriedOn ==
    ASSUME NEW s \in Seq(WorkerMsgs), NEW es \in Seq(WorkerMsgs)
    PROVE  /\ s \o es \in Seq(WorkerMsgs)
           /\ \A i : Carries(s, i) \/ Carries(es, i) => Carries(s \o es, i)
<1> DEFINE all == s \o es
<1>1. /\ all \in Seq(WorkerMsgs) /\ Len(all) = Len(s) + Len(es)
      /\ \A n \in 1..Len(s) + Len(es) : all[n] = IF n <= Len(s) THEN s[n] ELSE es[n - Len(s)]
  BY ConcatProperties
<1>2. Len(s) \in Nat /\ Len(es) \in Nat
  BY LenProperties
<1> HIDE DEF all
<1>3. \A n \in 1..Len(s) : n \in 1..Len(all) /\ all[n] = s[n]
  BY <1>1, <1>2
<1>4. ASSUME NEW n \in 1..Len(es)
      PROVE  Len(s) + n \in 1..Len(all) /\ all[Len(s) + n] = es[n]
  <2>1. /\ Len(s) + n \in 1..Len(s) + Len(es) /\ ~(Len(s) + n <= Len(s))
        /\ (Len(s) + n) - Len(s) = n
    BY <1>2
  <2> QED BY <1>1, <2>1
<1>5. \A i : Carries(s, i) \/ Carries(es, i) => Carries(all, i)
  BY <1>3, <1>4 DEF Carries
<1> QED BY <1>1, <1>5 DEF all

LEMMA ResultsSent ==
    ASSUME NEW ids \in SUBSET WriteIds, NEW ok \in BOOLEAN
    PROVE  Results(ids, ok) \in Seq(WorkerMsgs) /\ \A i \in ids : Carries(Results(ids, ok), i)
<1>1. CASE ids = {}
  BY <1>1, EmptySeq DEF Results
<1>2. CASE ids # {}
  <2> DEFINE e == [type |-> "results", ids |-> ids, ok |-> ok, gen |-> 0]
  <2>1. Results(ids, ok) = <<e>>
    BY <1>2 DEF Results
  <2>2. e \in WorkerMsgs /\ e.ids = ids
    BY NumberFacts DEF WorkerMsgs, TheDrain
  <2> HIDE DEF e
  <2>3. <<e>> \in Seq(WorkerMsgs) /\ Len(<<e>>) = 1 /\ <<e>>[1] = e
    BY <2>2
  <2> QED BY <2>1, <2>2, <2>3 DEF Carries
<1> QED BY <1>1, <1>2

LEMMA ToldSent == ASSUME NEW b \in BOOLEAN PROVE Told(b) \in Seq(WorkerMsgs)
<1>1. ClosedMsg \in WorkerMsgs
  BY NumberFacts DEF ClosedMsg, WorkerMsgs, Hosts, TheDrain
<1> QED BY <1>1, EmptySeq DEF Told

LEMMA OpenSent ==
    ASSUME NEW g \in Hosts
    PROVE  /\ <<OpenMsg(g)>> \in Seq(WorkerMsgs)
           /\ \A s \in Seq(WorkerMsgs) : Append(s, OpenMsg(g)) = s \o <<OpenMsg(g)>>
<1>1. OpenMsg(g) \in WorkerMsgs
  BY DEF OpenMsg, WorkerMsgs
<1> DEFINE e == OpenMsg(g)
<1> HIDE DEF e
<1>2. e \in WorkerMsgs => <<e>> \in Seq(WorkerMsgs)
  OBVIOUS
<1>3. e \in WorkerMsgs => \A s \in Seq(WorkerMsgs) : Append(s, e) = s \o <<e>>
  BY AppendIsConcat
<1> QED BY <1>1, <1>2, <1>3 DEF e

(* A step of the main thread loses no write: what leaves the queue, the      *)
(* stream or its mailbox is answered in the same step.                       *)
LEMMA HandedOn ==
    ASSUME Traced, WorkerTypes, pending' = pending, toMain' \in Seq(MainMsgs), PostsNumbered',
           NEW es \in Seq(WorkerMsgs), toWorker' = toWorker \o es,
           \A i \in WriteIds : OnMain(queue, sending, i) \/ Posted(toMain, i)
               => OnMain(queue', sending', i) \/ Posted(toMain', i) \/ Carries(es, i)
    PROVE  Traced'
<1>1. /\ toWorker' \in Seq(WorkerMsgs)
      /\ \A i : Carries(toWorker, i) \/ Carries(es, i) => Carries(toWorker', i)
  BY CarriedOn, Zenon DEF Traced, MessageTypes
<1>2. MessageTypes'
  BY <1>1 DEF MessageTypes
<1>3. \A w \in pending : w.id \in WriteIds
  BY DEF WorkerTypes
<1>4. PendingTraceable'
  BY <1>1, <1>2, <1>3, TracedWrites, TracedWritesNext DEF Traced
<1> QED BY <1>2, <1>4 DEF Traced

LEMMA MainTurn ==
    ASSUME Traced, WorkerTypes, UNCHANGED <<pending, toMain>>,
           NEW es \in Seq(WorkerMsgs), toWorker' = toWorker \o es,
           \A i \in WriteIds : OnMain(queue, sending, i) => OnMain(queue', sending', i) \/ Carries(es, i)
    PROVE  Traced'
<1>1. PostsNumbered' /\ toMain' \in Seq(MainMsgs)
  BY DEF PostsNumbered, Traced, MessageTypes
<1> QED BY <1>1, HandedOn

LEMMA SilentTurn ==
    ASSUME Traced, UNCHANGED <<queue, sending, pending, toMain, toWorker>>
    PROVE  Traced'
BY DEF Traced, MessageTypes, PostsNumbered, PendingTraceable, Ids
-----------------------------------------------------------------------------
(* The queue and the stream, action by action.                               *)
TraceOK == Traced /\ StateOK /\ WorkerTypes

LEMMA QueueIds == ASSUME WriteTypes PROVE Ids(queue) \in SUBSET WriteIds
BY DEF WriteTypes, QueuedWrites, Ids

LEMMA NothingSent ==
    ASSUME MessageTypes
    PROVE  <<>> \in Seq(WorkerMsgs) /\ toWorker \o <<>> = toWorker
BY EmptySeq, ConcatEmptySeq, Zenon DEF MessageTypes

LEMMA AllRefused ==
    ASSUME WriteTypes, NEW i \in WriteIds, OnMain(queue, sending, i)
    PROVE  OnMain({}, sending, i) \/ Carries(Results(Ids(queue), FALSE), i)
BY QueueIds, ResultsSent DEF OnMain, Ids

LEMMA CloseTrace ==
    ASSUME TraceOK, NEW by \in {"user", "abort"}, CloseFor(by), sending' = sending
    PROVE  \E es \in Seq(WorkerMsgs) :
             /\ toWorker' = toWorker \o es
             /\ \A i \in WriteIds : OnMain(queue, sending, i) => OnMain(queue', sending', i) \/ Carries(es, i)
<1> USE DEF TraceOK, StateOK, StateTypes
<1>1. MessageTypes
  BY DEF Traced
<1>2. CASE closing
  <2>1. toWorker' = toWorker \o Told(by = "user") /\ queue' = queue
    BY <1>2 DEF CloseFor
  <2> QED BY <2>1, ToldSent
<1>3. CASE ~closing /\ streams
  <2>1. toWorker' = toWorker \o Results(Ids(queue), FALSE) /\ queue' = {}
    BY <1>3 DEF CloseFor, TakeStreams
  <2> QED BY <2>1, QueueIds, ResultsSent, AllRefused
<1>4. CASE ~closing /\ ~streams
  <2>1. toWorker' = toWorker \o Told(by = "user") /\ queue' = queue
    BY <1>4 DEF CloseFor
  <2> QED BY <2>1, ToldSent
<1>5. closing \in BOOLEAN /\ streams \in BOOLEAN
  BY DEF PortTypes
<1> QED BY <1>2, <1>3, <1>4, <1>5

LEMMA ConnectTrace == ASSUME TraceOK, NEW k \in Kinds, Connect(k) PROVE Traced'
<1> USE DEF TraceOK, StateOK, StateTypes
<1>1. MessageTypes /\ UNCHANGED <<pending, toMain, sending>>
  BY DEF Connect, Traced, workerVars
<1>2. CASE toWorker' = toWorker /\ queue' = queue
  BY <1>1, <1>2, SilentTurn
<1>3. CASE toWorker' = toWorker \o Results(Ids(queue), FALSE) /\ queue' = {}
  BY <1>1, <1>3, QueueIds, ResultsSent, AllRefused, MainTurn
<1>4. \/ toWorker' = toWorker /\ queue' = queue
      \/ toWorker' = toWorker \o Results(Ids(queue), FALSE) /\ queue' = {}
  BY DEF Connect, TakeStreams
<1> QED BY <1>2, <1>3, <1>4

LEMMA OpenedTrace ==
    ASSUME TraceOK, UNCHANGED <<queue, sending, pending, toMain>>, gen < MaxGens,
           toWorker' = Append(toWorker, OpenMsg(gen + 1))
    PROVE  Traced'
<1> USE DEF TraceOK, StateOK, StateTypes
<1>1. MessageTypes
  BY DEF Traced
<1>2. gen + 1 \in Hosts
  BY NumberFacts DEF CountTypes, Hosts
<1>3. toWorker' = toWorker \o <<OpenMsg(gen + 1)>> /\ <<OpenMsg(gen + 1)>> \in Seq(WorkerMsgs)
  BY <1>1, <1>2, OpenSent DEF MessageTypes
<1> QED BY <1>3, MainTurn

LEMMA OpenDoneTrace == ASSUME TraceOK, OpenDone PROVE Traced'
<1>1. UNCHANGED <<queue, sending, pending, toMain>>
  BY DEF OpenDone, writeVars, workerVars
<1>2. toWorker' = toWorker \/ (gen < MaxGens /\ toWorker' = Append(toWorker, OpenMsg(gen + 1)))
  BY DEF OpenDone
<1> QED BY <1>1, <1>2, OpenedTrace, SilentTurn DEF TraceOK

LEMMA ReopensTrace == ASSUME TraceOK, NEW h \in Hosts, Reopens(h) PROVE Traced'
<1>1. UNCHANGED <<queue, sending, pending, toMain>>
  BY DEF Reopens, workerVars
<1>2. toWorker' = toWorker \/ (gen < MaxGens /\ toWorker' = Append(toWorker, OpenMsg(gen + 1)))
  BY DEF Reopens
<1> QED BY <1>1, <1>2, OpenedTrace, SilentTurn DEF TraceOK

LEMMA ReopenFailsTrace == ASSUME TraceOK, NEW h \in Hosts, ReopenFails(h) PROVE Traced'
<1>1. UNCHANGED <<queue, sending, pending, toMain, toWorker>>
  BY DEF ReopenFails, workerVars
<1> QED BY <1>1, SilentTurn DEF TraceOK

LEMMA DisconnectTrace == ASSUME TraceOK, Disconnect PROVE Traced'
<1>1. UNCHANGED <<sending, pending, toMain>> /\ CloseFor("user")
  BY DEF Disconnect, workerVars
<1> QED BY <1>1, CloseTrace, MainTurn DEF TraceOK

LEMMA SettledTrace == ASSUME TraceOK, Settled PROVE Traced'
<1>1. UNCHANGED <<queue, sending, pending, toMain>>
  BY DEF Settled, workerVars
<1> DEFINE b == \/ settling.by = "user"
                \/ settling.by = "fail" /\ settling.notify
<1>2. toWorker' = toWorker \o Told(b)
  BY DEF Settled
<1>3. b \in BOOLEAN
  OBVIOUS
<1> HIDE DEF b
<1>4. Told(b) \in Seq(WorkerMsgs)
  BY <1>3, ToldSent
<1> QED BY <1>1, <1>2, <1>4, MainTurn DEF TraceOK

LEMMA DeviceLostTrace == ASSUME TraceOK, DeviceLost PROVE Traced'
<1>1. /\ UNCHANGED <<sending, pending, toMain>> /\ queue' = {}
      /\ toWorker' = toWorker \o Results(Ids(queue), FALSE)
  BY DEF DeviceLost, TakeStreams, workerVars
<1> QED BY <1>1, QueueIds, ResultsSent, AllRefused, MainTurn DEF TraceOK, StateOK, StateTypes

(* The write in flight is answered, with those of a queue that is given up.  *)
LEMMA AnsweredTrace ==
    ASSUME TraceOK, UNCHANGED <<pending, toMain>>, sending # NoWrite,
           NEW ids \in SUBSET WriteIds, sending \in ids, NEW ok \in BOOLEAN, NEW told \in BOOLEAN,
           \A i \in WriteIds : i \in Ids(queue) => i \in ids \/ OnMain(queue', sending', i),
           toWorker' = toWorker \o Results(ids, ok) \o Told(told)
    PROVE  Traced'
<1> DEFINE a == Results(ids, ok)
           b == Told(told)
<1>1. a \in Seq(WorkerMsgs) /\ (\A i \in ids : Carries(a, i)) /\ b \in Seq(WorkerMsgs)
  BY ResultsSent, ToldSent
<1>2. toWorker' = (toWorker \o a) \o b
  OBVIOUS
<1> HIDE DEF a, b
<1>3. a \o b \in Seq(WorkerMsgs) /\ \A i \in ids : Carries(a \o b, i)
  BY <1>1, CarriedOn
<1>4. toWorker' = toWorker \o (a \o b)
  BY <1>1, <1>2, ConcatAssociative DEF TraceOK, Traced, MessageTypes
<1>5. \A i \in WriteIds : OnMain(queue, sending, i) => OnMain(queue', sending', i) \/ Carries(a \o b, i)
  BY <1>3 DEF OnMain, Ids
<1> QED BY <1>3, <1>4, <1>5, MainTurn DEF TraceOK

LEMMA WriteFailsTrace == ASSUME TraceOK, WriteFails PROVE Traced'
<1> USE DEF TraceOK, StateOK, StateTypes
<1>1. UNCHANGED <<pending, toMain>> /\ sending # NoWrite
  BY DEF WriteFails, workerVars
<1>2. sending \in WriteIds /\ Ids(queue) \in SUBSET WriteIds
  BY <1>1, QueueIds DEF WriteTypes
<1>3. CASE streams
  <2>1. toWorker' = toWorker \o Results(Ids(queue) \cup {sending}, FALSE)
                             \o Told((reading # 0 /\ ~closing) /\ handlers)
    BY <1>3 DEF WriteFails
  <2>2. ((reading # 0 /\ ~closing) /\ handlers) \in BOOLEAN /\ FALSE \in BOOLEAN
    BY DEF PortTypes
  <2>3. Ids(queue) \cup {sending} \in SUBSET WriteIds
    BY <1>2
  <2> QED BY <1>1, <2>1, <2>2, <2>3, AnsweredTrace
<1>4. CASE ~streams
  <2>1. /\ toWorker' = toWorker \o Results({sending}, FALSE) \o Told(handlers)
        /\ queue' = queue
    BY <1>4 DEF WriteFails
  <2>2. handlers \in BOOLEAN /\ FALSE \in BOOLEAN
    BY DEF PortTypes
  <2>3. \A i \in WriteIds : i \in Ids(queue) => OnMain(queue', sending', i)
    BY <2>1 DEF Ids, OnMain
  <2> QED BY <1>1, <1>2, <2>1, <2>2, <2>3, AnsweredTrace
<1> QED BY <1>3, <1>4 DEF PortTypes

LEMMA WriteDoneTrace == ASSUME TraceOK, WriteDone PROVE Traced'
<1> USE DEF TraceOK, StateOK, StateTypes
<1>1. /\ UNCHANGED <<pending, toMain>> /\ sending # NoWrite
      /\ toWorker' = toWorker \o Results({sending}, TRUE)
  BY DEF WriteDone, workerVars
<1>2. sending \in WriteIds
  BY <1>1 DEF WriteTypes
<1>3. \A i \in WriteIds : i \in Ids(queue) => OnMain(queue', sending', i)
  <2>1. CASE streams /\ queue # {}
    BY <2>1 DEF WriteDone, SendOne, OnMain, Ids
  <2>2. CASE ~(streams /\ queue # {})
    BY <2>2 DEF WriteDone, OnMain, Ids
  <2> QED BY <2>1, <2>2
<1>4. Results({sending}, TRUE) \in Seq(WorkerMsgs) /\ Carries(Results({sending}, TRUE), sending)
  BY <1>2, ResultsSent
<1>5. \A i \in WriteIds : OnMain(queue, sending, i)
         => OnMain(queue', sending', i) \/ Carries(Results({sending}, TRUE), i)
  BY <1>3, <1>4 DEF OnMain, Ids
<1> QED BY <1>1, <1>4, <1>5, MainTurn
-----------------------------------------------------------------------------
(* What the main thread takes out of its mailbox.                            *)
LEMMA MailTaken ==
    ASSUME Traced, toMain # <<>>
    PROVE  /\ Tail(toMain) \in Seq(MainMsgs) /\ Head(toMain) \in MainMsgs
           /\ Head(toMain).type = "write" <=> Head(toMain).id # NoWrite
           /\ \A n \in 1..Len(Tail(toMain)) :
                 Tail(toMain)[n].type = "write" <=> Tail(toMain)[n].id # NoWrite
           /\ \A i : Posted(toMain, i) => Head(toMain).id = i \/ Posted(Tail(toMain), i)
<1> DEFINE t == Tail(toMain)
<1>1. /\ Head(toMain) \in MainMsgs /\ t \in Seq(MainMsgs) /\ Len(t) = Len(toMain) - 1
      /\ \A n \in 1..Len(t) : t[n] = toMain[n + 1]
  BY HeadTailProperties DEF Traced, MessageTypes
<1>2. Len(toMain) \in Nat \ {0}
  BY EmptySeq DEF Traced, MessageTypes
<1>3. Head(toMain) = toMain[1]
  OBVIOUS
<1> HIDE DEF t
<1>4. \A n \in 1..Len(t) : n + 1 \in 1..Len(toMain)
  BY <1>1, <1>2
<1>5. \A n \in 1..Len(toMain) : n = 1 \/ (n - 1 \in 1..Len(t) /\ toMain[n] = t[n - 1])
  <2> TAKE n \in 1..Len(toMain)
  <2>1. n # 1 => n - 1 \in 1..Len(t) /\ (n - 1) + 1 = n
    BY <1>1, <1>2
  <2> QED BY <1>1, <2>1
<1>6. \A i : Posted(toMain, i) => Head(toMain).id = i \/ Posted(t, i)
  BY <1>3, <1>5 DEF Posted
<1>7. \A n \in 1..Len(t) : t[n].type = "write" <=> t[n].id # NoWrite
  BY <1>1, <1>4 DEF Traced, PostsNumbered
<1>8. Head(toMain).type = "write" <=> Head(toMain).id # NoWrite
  BY <1>2, <1>3 DEF Traced, PostsNumbered
<1> QED BY <1>1, <1>6, <1>7, <1>8 DEF t

(* A write is queued, handed to the stream or refused.                       *)
LEMMA AcceptStep ==
    ASSUME TraceOK, NEW m \in MainMsgs, m.id \in WriteIds, Accept(m),
           UNCHANGED <<portVars, flagVars, reading, settling, loops, opener, pastVars>>
    PROVE  /\ StateOK'
           /\ \E es \in Seq(WorkerMsgs) :
                /\ toWorker' = toWorker \o es
                /\ \A i \in WriteIds : OnMain(queue, sending, i) \/ i = m.id
                     => OnMain(queue', sending', i) \/ Carries(es, i)
<1> USE DEF TraceOK, StateOK, StateTypes
<1> DEFINE new == [id |-> m.id, tag |-> m.tag, gen |-> gen]
           entries == queue \cup {new}
<1>1. CASE streams /\ ~closing /\ Cardinality(queue) < MaxQueued
  <2>1. gen \in 1..MaxGens
    BY <1>1, NumberFacts DEF LinkState, StreamsNumbered, CountTypes, Hosts
  <2>2. new \in QueuedWrites /\ new.id = m.id /\ new.gen = gen
    BY <2>1 DEF QueuedWrites, MainMsgs
  <2>3. entries \subseteq QueuedWrites /\ \A w \in entries : w.gen = gen
    BY <2>2 DEF WriteTypes, LinkState, QueueFenced
  <2>4. toWorker' = toWorker
    BY <1>1 DEF Accept
  <2>5. IF drain = "idle" THEN SendOne(entries) ELSE queue' = entries /\ UNCHANGED <<drain, sending>>
    BY <1>1 DEF Accept
  <2>6. \A w \in queue : w \in entries
    OBVIOUS
  <2>7. new \in entries
    OBVIOUS
  <2> HIDE DEF entries, new
  <2>8. CASE drain = "idle"
    <3>1. SendOne(entries)
      BY <2>5, <2>8
    <3>2. UNCHANGED <<portVars, flagVars, reading, settling, loops, opener, pastVars>>
      OBVIOUS
    <3>3. StateOK'
      BY <1>1, <2>3, <2>8, <3>1, <3>2, SendState
    <3>4. sending = NoWrite
      BY <2>8 DEF LinkState, DrainReleased
    <3>5. \A i \in WriteIds : OnMain(queue, sending, i) \/ i = m.id => OnMain(queue', sending', i)
      BY <2>2, <2>6, <2>7, <3>1, <3>4, NumberFacts DEF SendOne, OnMain
    <3> QED BY <2>4, <3>3, <3>5, NothingSent DEF Traced
  <2>9. CASE drain # "idle"
    <3>1. queue' = entries /\ UNCHANGED <<drain, sending>>
      BY <2>5, <2>9
    <3>2. PortTypes' /\ CountTypes' /\ WriteTypes'
      BY <2>3, <3>1 DEF PortTypes, CountTypes, WriteTypes, portVars, flagVars, pastVars
    <3>3. LinkState'
      BY <1>1, <2>3, <3>1 DEF LinkState, OneLink, DrainReleased, QueueFenced, OpenerWaits, DrainOnce,
                  StreamsNumbered, portVars, flagVars, pastVars
    <3>4. \A i \in WriteIds : OnMain(queue, sending, i) \/ i = m.id => OnMain(queue', sending', i)
      BY <2>2, <2>6, <2>7, <3>1 DEF OnMain
    <3> QED BY <2>4, <3>2, <3>3, <3>4, NothingSent DEF Traced
  <2> QED BY <2>8, <2>9
<1>2. CASE ~(streams /\ ~closing /\ Cardinality(queue) < MaxQueued)
  <2>1. toWorker' = toWorker \o Results({m.id}, FALSE) /\ UNCHANGED <<queue, drain, sending>>
    BY <1>2 DEF Accept, writeVars
  <2>2. UNCHANGED <<os, port, kind, handlers, streams>>
    BY DEF portVars
  <2>3. StateOK'
    BY <2>1, <2>2, LessState
  <2>4. Results({m.id}, FALSE) \in Seq(WorkerMsgs) /\ Carries(Results({m.id}, FALSE), m.id)
    BY ResultsSent
  <2> QED BY <2>1, <2>3, <2>4
<1> QED BY <1>1, <1>2

LEMMA CancelStep ==
    ASSUME TraceOK, Cancel,
           UNCHANGED <<portVars, flagVars, reading, settling, loops, opener, pastVars>>
    PROVE  /\ StateOK'
           /\ \E es \in Seq(WorkerMsgs) :
                /\ toWorker' = toWorker \o es
                /\ \A i \in WriteIds : OnMain(queue, sending, i)
                     => OnMain(queue', sending', i) \/ Carries(es, i)
<1> USE DEF TraceOK, StateOK, StateTypes
<1> DEFINE tagged == {w \in queue : w.tag}
<1>1. /\ queue' = queue \ tagged /\ toWorker' = toWorker \o Results(Ids(tagged), FALSE)
      /\ UNCHANGED <<drain, sending>>
  BY DEF Cancel
<1>2. UNCHANGED <<os, port, kind, handlers, streams>>
  BY DEF portVars
<1>3. StateOK'
  BY <1>1, <1>2, LessState
<1>4. Ids(tagged) \in SUBSET WriteIds
  BY DEF WriteTypes, QueuedWrites, Ids
<1>5. Results(Ids(tagged), FALSE) \in Seq(WorkerMsgs) /\ \A i \in Ids(tagged) : Carries(Results(Ids(tagged), FALSE), i)
  BY <1>4, ResultsSent
<1>6. \A w \in queue : w.id \in Ids(tagged) \/ w \in queue'
  BY <1>1 DEF Ids
<1>7. \A i \in WriteIds : OnMain(queue, sending, i)
         => OnMain(queue', sending', i) \/ Carries(Results(Ids(tagged), FALSE), i)
  BY <1>1, <1>5, <1>6 DEF OnMain
<1> QED BY <1>1, <1>3, <1>5, <1>7

LEMMA MainReceivesStep == ASSUME TraceOK, MainReceives PROVE Traced' /\ StateOK'
<1> DEFINE m == Head(toMain)
<1>1. /\ toMain # <<>> /\ toMain' = Tail(toMain) /\ pending' = pending
      /\ UNCHANGED <<loops, opener, pastVars>>
  BY DEF MainReceives, workerVars
<1>2. /\ toMain' \in Seq(MainMsgs) /\ m \in MainMsgs
      /\ m.type = "write" <=> m.id # NoWrite
      /\ \A i : Posted(toMain, i) => m.id = i \/ Posted(toMain', i)
      /\ PostsNumbered'
  BY <1>1, MailTaken DEF TraceOK, PostsNumbered
<1>3. /\ StateOK'
      /\ \E es \in Seq(WorkerMsgs) :
            /\ toWorker' = toWorker \o es
            /\ \A i \in WriteIds : OnMain(queue, sending, i) \/ i = m.id
                 => OnMain(queue', sending', i) \/ Carries(es, i)
  <2>1. CASE m.type = "write"
    <3>1. Accept(m) /\ UNCHANGED <<portVars, flagVars, reading, settling>>
      BY <2>1 DEF MainReceives
    <3>2. m.id \in WriteIds
      BY <1>2, <2>1 DEF MainMsgs
    <3> QED BY <1>1, <1>2, <3>1, <3>2, AcceptStep
  <2>2. CASE m.type = "cancel"
    <3>1. Cancel /\ UNCHANGED <<portVars, flagVars, reading, settling>>
      BY <2>2 DEF MainReceives
    <3>2. m.id \notin WriteIds
      BY <1>2, <2>2, NumberFacts
    <3> QED BY <1>1, <3>1, <3>2, CancelStep
  <2>3. CASE m.type = "abort"
    <3>1. CloseFor("abort") /\ UNCHANGED <<drain, sending>>
      BY <2>3 DEF MainReceives
    <3>2. m.id \notin WriteIds
      BY <1>2, <2>3, NumberFacts
    <3>3. UNCHANGED <<gen, connects>> /\ wanted' \in BOOLEAN /\ due' \in BOOLEAN
      BY <1>1 DEF pastVars, TraceOK, StateOK, StateTypes, CountTypes
    <3>4. StateOK'
      BY <1>1, <3>1, <3>3, CloseState DEF TraceOK
    <3> QED BY <3>1, <3>2, <3>4, CloseTrace
  <2> QED BY <1>2, <2>1, <2>2, <2>3 DEF MainMsgs
<1> HIDE DEF m
<1>4. Traced'
  BY <1>1, <1>2, <1>3, HandedOn DEF TraceOK
<1> QED BY <1>3, <1>4
-----------------------------------------------------------------------------
(* The Worker counts what it posts and forgets what it is told of.           *)
LEMMA Posting ==
    ASSUME Traced, NEW e \in MainMsgs, e.type = "write" <=> e.id # NoWrite,
           toMain' = Append(toMain, e)
    PROVE  /\ toMain' \in Seq(MainMsgs) /\ PostsNumbered' /\ Posted(toMain', e.id)
           /\ \A i : Posted(toMain, i) => Posted(toMain', i)
<1>1. /\ toMain' \in Seq(MainMsgs) /\ Len(toMain') = Len(toMain) + 1
      /\ \A n \in 1..Len(toMain) : toMain'[n] = toMain[n]
      /\ toMain'[Len(toMain) + 1] = e
  BY AppendProperties DEF Traced, MessageTypes
<1>2. Len(toMain) \in Nat
  BY LenProperties DEF Traced, MessageTypes
<1>3. /\ \A n \in 1..Len(toMain) : n \in 1..Len(toMain')
      /\ Len(toMain) + 1 \in 1..Len(toMain')
      /\ \A n \in 1..Len(toMain') : n = Len(toMain) + 1 \/ n \in 1..Len(toMain)
  BY <1>1, <1>2
<1>4. PostsNumbered'
  BY <1>1, <1>3 DEF Traced, PostsNumbered
<1>5. Posted(toMain', e.id) /\ \A i : Posted(toMain, i) => Posted(toMain', i)
  BY <1>1, <1>3 DEF Posted
<1> QED BY <1>1, <1>4, <1>5

LEMMA StateUntouched ==
    ASSUME StateOK, UNCHANGED <<portVars, flagVars, writeVars, taskVars, pastVars>>
    PROVE  StateOK'
<1>1. PortTypes'
  BY DEF StateOK, StateTypes, PortTypes, portVars, flagVars, taskVars
<1>2. CountTypes' /\ WriteTypes'
  BY DEF StateOK, StateTypes, CountTypes, WriteTypes, writeVars, taskVars, pastVars
<1>3. LinkState'
  BY DEF StateOK, LinkState, OneLink, DrainReleased, QueueFenced, OpenerWaits, DrainOnce,
         StreamsNumbered, portVars, flagVars, writeVars, taskVars, pastVars
<1> QED BY <1>1, <1>2, <1>3 DEF StateOK, StateTypes

LEMMA WorkerWriteStep ==
    ASSUME TraceOK, NEW tag \in BOOLEAN, WorkerWrite(tag)
    PROVE  Traced' /\ WorkerTypes'
<1> PICK i \in WriteIds : /\ pending' = pending \cup {[id |-> i, tag |-> tag]}
                          /\ toMain' = Append(toMain, WriteMsg(i, tag))
  BY DEF WorkerWrite
<1> DEFINE e == WriteMsg(i, tag)
<1>1. /\ e \in MainMsgs /\ e.id = i /\ e.type = "write" /\ e.id # NoWrite
  BY NumberFacts DEF WriteMsg, MainMsgs, TraceOK, WorkerTypes
<1>2. toMain' = Append(toMain, e)
  OBVIOUS
<1> HIDE DEF e
<1>3. /\ toMain' \in Seq(MainMsgs) /\ PostsNumbered' /\ Posted(toMain', i)
      /\ \A j : Posted(toMain, j) => Posted(toMain', j)
  BY <1>1, <1>2, Posting DEF TraceOK
<1>4. UNCHANGED <<queue, sending, toWorker, workerOpen, failed, workerGen>>
  BY DEF WorkerWrite, writeVars
<1>5. WorkerTypes'
  BY <1>4 DEF WorkerTypes, TraceOK
<1>6. MessageTypes'
  BY <1>3, <1>4 DEF MessageTypes, TraceOK, Traced
<1>7. PendingTraceable'
  BY <1>3, <1>4, <1>6, TracedWrites, TracedWritesNext DEF TraceOK, Traced
<1> QED BY <1>3, <1>5, <1>6, <1>7 DEF Traced

LEMMA WorkerCancelStep == ASSUME TraceOK, WorkerCancel PROVE Traced' /\ WorkerTypes'
<1>1. CancelMsg \in MainMsgs /\ CancelMsg.type # "write" /\ CancelMsg.id = NoWrite
  BY DEF CancelMsg, MainMsgs, TraceOK, WorkerTypes
<1>2. /\ toMain' = Append(toMain, CancelMsg) /\ pending' \subseteq pending
      /\ UNCHANGED <<queue, sending, toWorker, workerOpen, failed, workerGen>>
  BY DEF WorkerCancel, writeVars
<1>3. /\ toMain' \in Seq(MainMsgs) /\ PostsNumbered'
      /\ \A j : Posted(toMain, j) => Posted(toMain', j)
  BY <1>1, <1>2, Posting DEF TraceOK
<1>5. WorkerTypes'
  BY <1>2 DEF WorkerTypes, TraceOK
<1>6. MessageTypes'
  BY <1>2, <1>3 DEF MessageTypes, TraceOK, Traced
<1>7. PendingTraceable'
  BY <1>2, <1>3, <1>6, TracedWrites, TracedWritesNext DEF TraceOK, Traced
<1> QED BY <1>3, <1>5, <1>6, <1>7 DEF Traced

LEMMA ReportTaken ==
    ASSUME MessageTypes, toWorker # <<>>
    PROVE  /\ Tail(toWorker) \in Seq(WorkerMsgs) /\ Head(toWorker) \in WorkerMsgs
           /\ \A i : Carries(toWorker, i) => i \in Head(toWorker).ids \/ Carries(Tail(toWorker), i)
<1> DEFINE t == Tail(toWorker)
<1>1. /\ Head(toWorker) \in WorkerMsgs /\ t \in Seq(WorkerMsgs) /\ Len(t) = Len(toWorker) - 1
      /\ \A n \in 1..Len(t) : t[n] = toWorker[n + 1]
  BY HeadTailProperties DEF MessageTypes
<1>2. Len(toWorker) \in Nat \ {0}
  BY EmptySeq DEF MessageTypes
<1>3. Head(toWorker) = toWorker[1]
  OBVIOUS
<1> HIDE DEF t
<1>5. \A n \in 1..Len(toWorker) : n = 1 \/ (n - 1 \in 1..Len(t) /\ toWorker[n] = t[n - 1])
  <2> TAKE n \in 1..Len(toWorker)
  <2>1. n # 1 => n - 1 \in 1..Len(t) /\ (n - 1) + 1 = n
    BY <1>1, <1>2
  <2> QED BY <1>1, <2>1
<1>6. \A i : Carries(toWorker, i) => i \in Head(toWorker).ids \/ Carries(t, i)
  BY <1>3, <1>5 DEF Carries
<1> QED BY <1>1, <1>6 DEF t

LEMMA WorkerReceivesStep == ASSUME TraceOK, WorkerReceives PROVE Traced' /\ WorkerTypes'
<1> DEFINE m == Head(toWorker)
<1>1. /\ toWorker # <<>> /\ toWorker' = Tail(toWorker) /\ UNCHANGED <<queue, sending>>
  BY DEF WorkerReceives, writeVars
<1>2. /\ toWorker' \in Seq(WorkerMsgs) /\ m \in WorkerMsgs
      /\ \A i : Carries(toWorker, i) => i \in m.ids \/ Carries(toWorker', i)
  BY <1>1, ReportTaken DEF TraceOK, Traced
<1>3. AbortMsg \in MainMsgs /\ AbortMsg.type # "write" /\ AbortMsg.id = NoWrite
  BY DEF AbortMsg, MainMsgs, TraceOK, WorkerTypes
<1>4. /\ WorkerTypes'
      /\ pending' = {} \/ pending' = {w \in pending : w.id \notin m.ids}
      /\ toMain' = toMain \/ toMain' = Append(toMain, AbortMsg)
  <2>1. CASE m.type = "open"
    BY <1>2, <2>1 DEF WorkerReceives, TraceOK, WorkerTypes, WorkerMsgs
  <2>2. CASE m.type = "closed"
    BY <2>2 DEF WorkerReceives, TraceOK, WorkerTypes
  <2>3. CASE m.type = "results"
    <3>1. WorkerHearsResults(m)
      BY <2>3 DEF WorkerReceives
    <3> QED BY <3>1 DEF WorkerHearsResults, TraceOK, WorkerTypes
  <2> QED BY <1>2, <2>1, <2>2, <2>3 DEF WorkerMsgs
<1>5. /\ toMain' \in Seq(MainMsgs) /\ PostsNumbered'
      /\ \A j : Posted(toMain, j) => Posted(toMain', j)
  BY <1>3, <1>4, Posting DEF TraceOK, Traced, MessageTypes, PostsNumbered
<1>6. MessageTypes'
  BY <1>2, <1>5 DEF MessageTypes
<1> HIDE DEF m
<1>7. \A w \in pending' : w \in pending /\ w.id \notin m.ids
  BY <1>4
<1>8. PendingTraceable'
  BY <1>1, <1>2, <1>5, <1>6, <1>7, TracedWrites, TracedWritesNext DEF TraceOK, Traced
<1> QED BY <1>4, <1>5, <1>6, <1>8 DEF Traced
-----------------------------------------------------------------------------
LEMMA InvParts == LinkInv <=> TraceOK
BY TypeParts DEF LinkInv, TraceOK, Traced, StateOK, StateTypes, MessageTypes

LEMMA InvPartsNext == LinkInv' <=> TraceOK'
BY InvParts, PTL

LEMMA InitLink == Init => LinkInv
<1> SUFFICES ASSUME Init PROVE TraceOK
  BY InvParts
<1> USE NumberFacts DEF Init
<1>1. PortTypes
  BY DEF PortTypes, Settlings, Unlocked, TheDrain
<1>2. CountTypes
  <2>1. 0 \in Hosts /\ 0 \in 0..MaxConnects /\ loops \in [Hosts -> 0..MaxAttempts]
    BY DEF TheDrain
  <2> QED BY <2>1 DEF CountTypes
<1>3. WriteTypes /\ WorkerTypes
  BY DEF WriteTypes, WorkerTypes, TheDrain
<1>4. LinkState
  BY DEF LinkState, OneLink, DrainReleased, QueueFenced, OpenerWaits, DrainOnce, StreamsNumbered,
         Unlocked, TheDrain, Hosts
<1>5. MessageTypes /\ PostsNumbered
  BY EmptySeq DEF MessageTypes, PostsNumbered
<1>6. PendingTraceable
  BY DEF PendingTraceable
<1> QED BY <1>1, <1>2, <1>3, <1>4, <1>5, <1>6 DEF TraceOK, Traced, StateOK, StateTypes

LEMMA WorkerTypesKept == ASSUME WorkerTypes, UNCHANGED workerVars PROVE WorkerTypes'
BY DEF WorkerTypes, workerVars

LEMMA StepLink == LinkInv /\ [Next]_vars => LinkInv'
<1> SUFFICES ASSUME TraceOK, [Next]_vars PROVE Traced' /\ StateOK' /\ WorkerTypes'
  BY InvParts, InvPartsNext DEF TraceOK
<1>0. StateOK /\ WorkerTypes
  BY DEF TraceOK
<1>1. ASSUME NEW k \in Kinds, Connect(k) PROVE Traced' /\ StateOK' /\ WorkerTypes'
  <2>1. UNCHANGED workerVars
    BY <1>1 DEF Connect
  <2> QED BY <1>0, <1>1, <2>1, ConnectState, ConnectTrace, WorkerTypesKept
<1>2. CASE Disconnect
  <2>1. /\ CloseFor("user") /\ UNCHANGED <<drain, sending, loops, opener, gen, connects>>
        /\ wanted' = FALSE /\ due' = FALSE /\ UNCHANGED workerVars
    BY <1>2 DEF Disconnect
  <2>2. StateOK'
    BY <1>0, <2>1, CloseState
  <2> QED BY <1>0, <1>2, <2>1, <2>2, DisconnectTrace, WorkerTypesKept
<1>3. CASE OpenDone
  <2>1. UNCHANGED workerVars
    BY <1>3 DEF OpenDone
  <2> QED BY <1>0, <1>3, <2>1, OpenDoneState, OpenDoneTrace, WorkerTypesKept
<1>4. CASE Settled
  <2>1. UNCHANGED workerVars
    BY <1>4 DEF Settled
  <2> QED BY <1>0, <1>4, <2>1, SettledState, SettledTrace, WorkerTypesKept
<1>5. CASE DeviceLost
  <2>1. UNCHANGED workerVars
    BY <1>5 DEF DeviceLost
  <2> QED BY <1>0, <1>5, <2>1, DeviceLostState, DeviceLostTrace, WorkerTypesKept
<1>6. ASSUME NEW h \in Hosts, Reopens(h) PROVE Traced' /\ StateOK' /\ WorkerTypes'
  <2>1. UNCHANGED workerVars
    BY <1>6 DEF Reopens
  <2> QED BY <1>0, <1>6, <2>1, ReopensState, ReopensTrace, WorkerTypesKept
<1>7. ASSUME NEW h \in Hosts, ReopenFails(h) PROVE Traced' /\ StateOK' /\ WorkerTypes'
  <2>1. UNCHANGED workerVars
    BY <1>7 DEF ReopenFails
  <2> QED BY <1>0, <1>7, <2>1, ReopenFailsState, ReopenFailsTrace, WorkerTypesKept
<1>8. CASE WriteDone
  <2>1. /\ UNCHANGED workerVars /\ sending # NoWrite
        /\ UNCHANGED <<port, kind, handlers, streams, flagVars, reading, settling, loops, opener, pastVars>>
        /\ os' = IF os = "closing" THEN "closed" ELSE os
    BY <1>8 DEF WriteDone, taskVars
  <2>2. drain = "sending"
    BY <2>1 DEF TraceOK, StateOK, LinkState, DrainReleased
  <2>3. CASE streams /\ queue # {}
    <3>1. SendOne(queue) /\ os = "open"
      BY <1>8, <2>3 DEF WriteDone, TraceOK, StateOK, LinkState, OneLink
    <3>2. queue \subseteq QueuedWrites /\ \A w \in queue : w.gen = gen
      BY <2>3 DEF TraceOK, StateOK, StateTypes, WriteTypes, LinkState, QueueFenced
    <3>3. UNCHANGED <<portVars, flagVars, reading, settling, loops, opener, pastVars>>
      BY <2>1, <3>1 DEF portVars
    <3>4. StateOK'
      BY <1>0, <2>2, <2>3, <3>1, <3>2, <3>3, SendState
    <3> QED BY <1>0, <1>8, <2>1, <3>4, WriteDoneTrace, WorkerTypesKept
  <2>4. CASE ~(streams /\ queue # {})
    <3>1. sending' = NoWrite /\ drain' = "idle" /\ queue' = queue
      BY <1>8, <2>4 DEF WriteDone
    <3>2. StateOK'
      BY <1>0, <2>1, <2>2, <3>1, LessState
    <3> QED BY <1>0, <1>8, <2>1, <3>2, WriteDoneTrace, WorkerTypesKept
  <2> QED BY <2>3, <2>4
<1>9. CASE WriteFails
  <2>1. UNCHANGED workerVars
    BY <1>9 DEF WriteFails
  <2> QED BY <1>0, <1>9, <2>1, WriteFailsState, WriteFailsTrace, WorkerTypesKept
<1>10. CASE MainReceives
  <2>1. UNCHANGED workerVars
    BY <1>10 DEF MainReceives
  <2> QED BY <1>0, <1>10, <2>1, MainReceivesStep, WorkerTypesKept
<1>11. ASSUME NEW tag \in BOOLEAN, WorkerWrite(tag) PROVE Traced' /\ StateOK' /\ WorkerTypes'
  <2>1. UNCHANGED <<portVars, flagVars, writeVars, taskVars, pastVars>>
    BY <1>11 DEF WorkerWrite
  <2> QED BY <1>0, <1>11, <2>1, StateUntouched, WorkerWriteStep
<1>12. CASE WorkerCancel
  <2>1. UNCHANGED <<portVars, flagVars, writeVars, taskVars, pastVars>>
    BY <1>12 DEF WorkerCancel
  <2> QED BY <1>0, <1>12, <2>1, StateUntouched, WorkerCancelStep
<1>13. CASE WorkerReceives
  <2>1. UNCHANGED <<portVars, flagVars, writeVars, taskVars, pastVars>>
    BY <1>13 DEF WorkerReceives
  <2> QED BY <1>0, <1>13, <2>1, StateUntouched, WorkerReceivesStep
<1>14. CASE UNCHANGED vars
  <2>1. /\ UNCHANGED <<portVars, flagVars, writeVars, taskVars, pastVars>> /\ UNCHANGED workerVars
        /\ UNCHANGED <<toWorker, toMain>>
    BY <1>14 DEF vars
  <2>2. UNCHANGED <<queue, sending, pending, toMain, toWorker>>
    BY <2>1 DEF writeVars, workerVars
  <2>3. Traced'
    BY <2>2, SilentTurn DEF TraceOK
  <2> QED BY <1>0, <2>1, <2>3, StateUntouched, WorkerTypesKept
<1> QED BY <1>1, <1>2, <1>3, <1>4, <1>5, <1>6, <1>7, <1>8, <1>9, <1>10, <1>11, <1>12, <1>13, <1>14
        DEF Next, User, Reconnects

(* One link is open at a time, no queued write crosses from one link         *)
(* generation to the next, the drain is never left behind and every write    *)
(* the Worker counts is still on its way or answered.                        *)
THEOREM LinkIsSound == Spec => []LinkSound
<1>1. LinkInv => LinkSound
  BY DEF LinkInv, LinkState, LinkSound, LinkConsistent
<1> QED BY InitLink, StepLink, <1>1, PTL DEF Spec
=============================================================================
