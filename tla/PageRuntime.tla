----------------------------- MODULE PageRuntime -----------------------------
(***************************************************************************)
(* The page's half of the parameter synchronisation: useLocalRuntime hears *)
(* the events of the Worker one macrotask at a time, keeps the connection  *)
(* store and the parameter store, batches what is told and asks for the    *)
(* list by itself whenever a vehicle becomes ready.  With it goes what the *)
(* coordinator and the bridge send: connection snapshots, targets,         *)
(* generations, batches and the ends of a download.  The two sides meet    *)
(* only in two queues of messages, so each acts on what the other was.     *)
(*                                                                         *)
(* A parameter value is its index and the link it was told on.             *)
(***************************************************************************)
EXTENDS Integers, Sequences, FiniteSets

CONSTANTS
    Indices,       \* parameter indices of the vehicle
    MaxAttempts,   \* AUTO_PARAM_MAX_ATTEMPTS
    MaxLinks,      \* bound: links opened
    MaxGens,       \* bound: parameterGeneration
    MaxDrops,      \* bound: readiness losses and raw sessions
    MaxRefreshes,  \* bound: refreshes the user asks for
    MaxSilent,     \* bound: generations opened without a request
    MaxQueue       \* bound: events the page is behind

NoGen == 0
NoId == 0

ASSUME PageAssumption ==
    /\ IsFiniteSet(Indices) /\ Indices # {}
    /\ MaxAttempts \in Nat \ {0} /\ MaxLinks \in Nat /\ MaxGens \in Nat /\ MaxDrops \in Nat
    /\ MaxRefreshes \in Nat /\ MaxSilent \in Nat /\ MaxQueue \in Nat \ {0}

VARIABLES
    wire,      \* Worker: [open, ready, raw, link], what a snapshot tells
    drops,     \* bounded: readiness losses and raw sessions so far
    gen,       \* Worker: activeParameterGeneration
    gens,      \* Worker: parameterGeneration
    silent,    \* generations opened without a request
    asked,     \* generations whose request the bridge has sent
    users,     \* generations opened by a request of the user
    left,      \* bridge: indices the download still waits for
    loading,   \* bridge: paramDownloadActive
    told,      \* Worker: pendingParams
    events,    \* Worker to page
    commands,  \* page to Worker: request ids of param_request_list
    seen,      \* page: connectionStore
    last,      \* page: lastVehicleReady
    preserve,  \* page: preserveParamsOnReadyRecovery
    pageGen,   \* page: activeParamGeneration
    auto,      \* page: the automatic request
    requests,  \* page: requests posted so far
    refreshes, \* page: of them, those of the user
    batch,     \* page: paramBatch
    list,      \* page: parameterStore.params
    show,      \* page: what loading and error of parameterStore say
    by,        \* page: the generation that completed the list
    wiped      \* page: the generation it followed when it cleared the list

workerVars == <<wire, drops, gen, gens, silent, asked, users, left, loading, told>>
storeVars == <<batch, list, show, by, wiped>>
pageVars == <<seen, last, preserve, pageGen, auto, requests, refreshes, storeVars>>
runtimeVars == <<workerVars, events, commands, pageVars>>

NoLink == [open |-> FALSE, ready |-> FALSE, raw |-> FALSE, target |-> FALSE, link |-> 0]
AutoIdle == [pending |-> FALSE, inFlight |-> FALSE, id |-> NoId, gen |-> NoGen,
             tries |-> 0, timer |-> FALSE]

PageInit ==
    /\ wire = NoLink /\ drops = 0 /\ gen = NoGen /\ gens = 0 /\ silent = 0 /\ asked = {} /\ users = {}
    /\ left = {} /\ loading = FALSE /\ told = {}
    /\ events = <<>> /\ commands = <<>>
    /\ seen = NoLink /\ last = FALSE /\ preserve = FALSE /\ pageGen = NoGen
    /\ auto = AutoIdle /\ requests = 0 /\ refreshes = 0
    /\ batch = {} /\ list = {} /\ show = "none" /\ by = NoGen /\ wiped = NoGen
-----------------------------------------------------------------------------
(* What the Worker sends.                                                    *)
Snapshot(w) == [kind |-> "connection", wire |-> w]
Target(known) == [kind |-> "target", known |-> known]
Sync(status, g) == [kind |-> "sync", status |-> status, gen |-> g]
Batch(g, values) == [kind |-> "batch", gen |-> g, values |-> values]
Ends(kind, g) == [kind |-> kind, gen |-> g]
Refused(id, retryable) == [kind |-> "refused", id |-> id, retryable |-> retryable]

(* A change of readiness is told twice, by vehicleReadyChange and by         *)
(* connectionStateDetail; so is a change of status.                          *)
Snapshots(w) == <<Snapshot(w), Snapshot(w)>>

Post(es) == events' = events \o es
KeepsUp == Len(events) < MaxQueue

(* flushParams, the batch stamped with the generation of the moment.         *)
Flushed == IF told = {} THEN <<>> ELSE <<Batch(gen, told)>>

(* finishParameterSync.                                                      *)
Finished(status) == IF gen = NoGen THEN <<>> ELSE Flushed \o <<Sync(status, gen)>>
-----------------------------------------------------------------------------
(* The Worker.                                                               *)

(* Links are opened and closed, and raw sessions begun and ended, by         *)
(* messages of the page, which wait behind the requests posted before them.  *)
InTurn == commands = <<>>

(* open(): fresh services, whatever was loading is gone.  The page posts it  *)
(* once it has heard that the last link is closed: the dialog connects then, *)
(* and the reconnect waits reconnectDelayMs, 250 ms and more.                *)
Open ==
    /\ KeepsUp /\ InTurn /\ ~wire.open /\ wire.link < MaxLinks
    /\ ~seen.open /\ seen.link = wire.link
    /\ wire' = [NoLink EXCEPT !.open = TRUE, !.link = wire.link + 1]
    /\ gen' = NoGen /\ loading' = FALSE /\ left' = {} /\ told' = {}
    /\ Post(Snapshots(wire'))
    /\ UNCHANGED <<drops, gens, silent, asked, users, commands, pageVars>>

(* close(): the generation is forgotten before the bridge reports its        *)
(* download, so neither is an end of it the page could recognise.            *)
Close ==
    /\ KeepsUp /\ InTurn /\ wire.open
    /\ wire' = [NoLink EXCEPT !.link = wire.link]
    /\ gen' = NoGen /\ loading' = FALSE /\ left' = {} /\ told' = {}
    /\ Post((IF loading THEN <<Ends("failed", NoGen)>> ELSE <<>>) \o Snapshots(wire'))
    /\ UNCHANGED <<drops, gens, silent, asked, users, commands, pageVars>>

(* The first heartbeat after an opening, a loss or a raw session.            *)
BecomesReady ==
    /\ KeepsUp /\ wire.open /\ ~wire.ready /\ ~wire.raw
    /\ wire' = [wire EXCEPT !.ready = TRUE, !.target = TRUE]
    /\ Post(<<Target(TRUE)>> \o Snapshots(wire'))
    /\ UNCHANGED <<drops, gen, gens, silent, asked, users, left, loading, told, commands, pageVars>>

(* HEARTBEAT_TIMEOUT_MS without a heartbeat: the generation is over, the     *)
(* download of the bridge is not.                                            *)
SoftLoss ==
    /\ KeepsUp /\ wire.ready /\ drops < MaxDrops
    /\ drops' = drops + 1
    /\ wire' = [wire EXCEPT !.ready = FALSE]
    /\ Post(Finished("cancelled") \o Snapshots(wire'))
    /\ gen' = NoGen /\ told' = IF gen = NoGen THEN told ELSE {}
    /\ UNCHANGED <<gens, silent, asked, users, left, loading, commands, pageVars>>

(* A raw ESC session takes the link: the protocol is paused, its download    *)
(* fails, the target is reset.                                               *)
RawBegins ==
    /\ KeepsUp /\ InTurn /\ wire.ready /\ gen = NoGen /\ drops < MaxDrops
    /\ drops' = drops + 1
    /\ wire' = [wire EXCEPT !.ready = FALSE, !.raw = TRUE, !.target = FALSE]
    /\ loading' = FALSE /\ left' = {} /\ told' = IF loading THEN {} ELSE told
    /\ Post((IF loading THEN Flushed \o <<Ends("failed", NoGen)>> ELSE <<>>)
            \o <<Target(FALSE)>> \o Snapshots(wire'))
    /\ UNCHANGED <<gen, gens, silent, asked, users, commands, pageVars>>

(* The session ends, minutes later or at a wish of the page that has heard   *)
(* of it; no snapshot says so.                                               *)
RawEnds ==
    /\ InTurn /\ events = <<>> /\ wire.raw /\ wire' = [wire EXCEPT !.raw = FALSE]
    /\ UNCHANGED <<drops, gen, gens, silent, asked, users, left, loading, told, events, commands, pageVars>>

(* beginParameterSync: what is open is superseded.                           *)
Begun == Finished("cancelled") \o <<Sync("started", gens + 1)>>
BeginSync == gens < MaxGens /\ gens' = gens + 1 /\ gen' = gens + 1

(* A calibration succeeds: a generation is opened, nothing is requested.     *)
BeginsSilently ==
    /\ KeepsUp /\ wire.ready /\ silent < MaxSilent
    /\ silent' = silent + 1
    /\ BeginSync /\ Post(Begun)
    /\ IF gen = NoGen THEN UNCHANGED <<left, loading, told>>
       ELSE loading' = FALSE /\ left' = {} /\ told' = {}
    /\ UNCHANGED <<wire, drops, asked, users, commands, pageVars>>

(* param_request_list passes the gates, opens its generation and is sent.    *)
Downloads ==
    /\ KeepsUp /\ commands # <<>> /\ wire.ready
    /\ commands' = Tail(commands)
    /\ BeginSync /\ Post(Begun)
    /\ asked' = asked \cup {gens + 1}
    /\ users' = IF Head(commands) = NoId THEN users \cup {gens + 1} ELSE users
    /\ left' = Indices /\ loading' = TRUE
    /\ told' = IF gen = NoGen THEN told ELSE {}
    /\ UNCHANGED <<wire, drops, silent, pageVars>>

(* The gates refuse it: not ready, or another operation has the link.        *)
GateRefuses ==
    /\ KeepsUp /\ commands # <<>>
    /\ commands' = Tail(commands)
    /\ Post(<<Refused(Head(commands), TRUE)>>)
    /\ UNCHANGED <<workerVars, pageVars>>

(* The bridge refuses it, after its generation was opened: a transfer runs   *)
(* (retryable) or autopilots conflict.                                       *)
BridgeRefuses ==
    /\ KeepsUp /\ commands # <<>> /\ wire.ready
    /\ commands' = Tail(commands)
    /\ BeginSync
    /\ \E retryable \in BOOLEAN : Post(Begun \o <<Refused(Head(commands), retryable)>>)
    /\ IF gen = NoGen THEN UNCHANGED <<left, loading, told>>
       ELSE loading' = FALSE /\ left' = {} /\ told' = {}
    /\ UNCHANGED <<wire, drops, silent, asked, users, pageVars>>

(* PARAM_VALUE; the last one completes the download.                         *)
Tells(i) ==
    /\ KeepsUp /\ loading /\ i \in left
    /\ left' = left \ {i}
    /\ LET values == told \cup {<<i, wire.link>>}
           all    == <<Batch(gen, values), Ends("complete", gen)>>
       IN IF left' # {}
          THEN told' = values /\ UNCHANGED <<loading, gen, events>>
          ELSE /\ told' = {} /\ loading' = FALSE /\ gen' = NoGen
               /\ Post(IF gen = NoGen THEN all ELSE all \o <<Sync("complete", gen)>>)
    /\ UNCHANGED <<wire, drops, gens, silent, asked, users, commands, pageVars>>

(* PARAM_BATCH_INTERVAL_MS after the first of them.                          *)
FlushParams ==
    /\ KeepsUp /\ told # {} /\ told' = {} /\ Post(Flushed)
    /\ UNCHANGED <<wire, drops, gen, gens, silent, asked, users, left, loading, commands, pageVars>>

(* The budget of the download is used up.                                    *)
DownloadFails ==
    /\ KeepsUp /\ loading /\ loading' = FALSE /\ left' = {} /\ told' = {} /\ gen' = NoGen
    /\ Post(Flushed \o <<Ends("failed", gen)>>
            \o (IF gen = NoGen THEN <<>> ELSE <<Sync("failed", gen)>>))
    /\ UNCHANGED <<wire, drops, gens, silent, asked, users, commands, pageVars>>

(* PARAM_SYNC_TIMEOUT_MS after the generation was opened.                    *)
SyncTimesOut ==
    /\ KeepsUp /\ gen # NoGen
    /\ gen' = NoGen /\ loading' = FALSE /\ left' = {} /\ told' = {}
    /\ Post(Finished("cancelled"))
    /\ UNCHANGED <<wire, drops, gens, silent, asked, users, commands, pageVars>>
-----------------------------------------------------------------------------
(* The page.                                                                 *)

Cleared == list' = {} /\ by' = NoGen /\ wiped' = NoGen

(* Wrong on purpose: the flush timer is left running.                        *)
DiscardedNot == batch' = batch

(* discardParamBatch.                                                        *)
Discarded == batch' = {}
StoreKept == UNCHANGED storeVars

(* The list is cleared while the generation the page follows goes on.        *)
Wiped == list' = {} /\ by' = NoGen /\ wiped' = pageGen

(* Wrong on purpose: the retry is prepared, but not scheduled.               *)
RetryUnscheduled ==
    IF ~seen.ready \/ ~seen.open \/ auto.tries >= MaxAttempts
    THEN auto' = AutoIdle /\ UNCHANGED <<list, by, wiped>>
    ELSE /\ auto' = [AutoIdle EXCEPT !.pending = TRUE, !.tries = auto.tries]
         /\ Wiped

(* prepareAutomaticParamRetry, on what the connection store says.            *)
RetryPrepared ==
    IF ~seen.ready \/ ~seen.open
    THEN auto' = AutoIdle /\ UNCHANGED <<list, by, wiped>>
    ELSE IF auto.tries >= MaxAttempts
    THEN auto' = AutoIdle /\ UNCHANGED <<list, by, wiped>>
    ELSE /\ auto' = [AutoIdle EXCEPT !.pending = TRUE, !.tries = auto.tries, !.timer = TRUE]
         /\ Wiped
GivesUp == seen.ready /\ seen.open /\ auto.tries >= MaxAttempts
RetryShows(otherwise) ==
    show' = IF ~seen.ready \/ ~seen.open THEN otherwise
            ELSE IF GivesUp THEN "failed" ELSE "loading"

(* handleMessage: connection.                                                *)
HearConnection(w) ==
    LET edge == w.ready /\ ~last /\ ~preserve
        soft == ~w.ready /\ w.open /\ ~(w.raw \/ seen.raw)
        gone == ~w.ready /\ ~w.open /\ ~w.raw
    IN
    /\ seen' = [w EXCEPT !.target = seen.target /\ ~gone]
    /\ last' = w.ready
    /\ preserve' = (soft /\ (preserve \/ last))
    /\ IF w.ready
       THEN IF edge
            THEN /\ auto' = [AutoIdle EXCEPT !.pending = TRUE, !.timer = TRUE]
                 /\ Discarded /\ Cleared /\ show' = "loading"
            ELSE UNCHANGED <<auto, storeVars>>
       ELSE /\ auto' = AutoIdle /\ Discarded
            /\ IF gone THEN Cleared /\ show' = "none" ELSE UNCHANGED <<list, show, by, wiped>>
    /\ UNCHANGED pageGen

(* handleMessage: target.                                                    *)
HearTarget(known) ==
    /\ seen' = [seen EXCEPT !.target = known]
    /\ UNCHANGED <<last, preserve, pageGen, auto, storeVars>>

(* handleMessage: param_sync, started.                                       *)
HearStarted(g) ==
    /\ IF pageGen # NoGen /\ g < pageGen THEN UNCHANGED <<pageGen, auto, storeVars>>
       ELSE /\ pageGen' = g
            /\ auto' = IF auto.inFlight THEN [auto EXCEPT !.gen = g] ELSE auto
            /\ Discarded /\ Cleared /\ show' = "loading"
    /\ UNCHANGED <<seen, last, preserve>>

(* handleMessage: param_sync, ended.                                         *)
HearEnded(status, g) ==
    LET mine == auto.inFlight /\ auto.gen = g
        bad  == status # "complete"
    IN
    /\ IF pageGen # g THEN UNCHANGED <<pageGen, auto, storeVars>>
       ELSE /\ pageGen' = NoGen
            /\ IF bad THEN Discarded ELSE UNCHANGED batch
            /\ IF bad /\ mine
               THEN RetryPrepared /\ RetryShows("failed")
               ELSE /\ auto' = IF mine THEN AutoIdle ELSE auto
                    /\ show' = IF bad THEN "failed" ELSE show
                    /\ UNCHANGED <<list, by, wiped>>
    /\ UNCHANGED <<seen, last, preserve>>

(* acceptsParamGeneration, with NoGen for "no generation" on both sides.     *)
Accepts(g) == g = pageGen

(* handleMessage: param_batch.                                               *)
HearBatch(g, values) ==
    /\ batch' = IF Accepts(g) THEN batch \cup values ELSE batch
    /\ UNCHANGED <<seen, last, preserve, pageGen, auto, list, show, by, wiped>>

(* Wrong on purpose: the batch is left for its timer.                        *)
HearEndUnflushed(kind, g) ==
    /\ IF ~Accepts(g) THEN UNCHANGED <<auto, storeVars>>
       ELSE /\ show' = kind
            /\ by' = IF kind = "complete" THEN g ELSE by
            /\ UNCHANGED <<auto, list, batch, wiped>>
    /\ UNCHANGED <<seen, last, preserve, pageGen>>

(* handleMessage: param_complete and param_failed.                           *)
HearEnd(kind, g) ==
    /\ IF ~Accepts(g) THEN UNCHANGED <<auto, storeVars>>
       ELSE /\ list' = list \cup batch /\ batch' = {}
            /\ show' = kind
            /\ by' = IF kind = "complete" THEN g ELSE by
            /\ UNCHANGED wiped
            /\ auto' = IF kind = "complete" /\ g # NoGen /\ auto.inFlight /\ auto.gen = g
                       THEN AutoIdle ELSE auto
    /\ UNCHANGED <<seen, last, preserve, pageGen>>

(* handleMessage: client_error and operation_error.                          *)
HearRefused(id, retryable) ==
    /\ IF ~auto.inFlight \/ id # auto.id THEN UNCHANGED <<auto, list, show, by, wiped>>
       ELSE IF ~retryable
       THEN auto' = AutoIdle /\ show' = "failed" /\ UNCHANGED <<list, by, wiped>>
       ELSE RetryPrepared /\ RetryShows(show)
    /\ UNCHANGED <<seen, last, preserve, pageGen, batch>>

Hear ==
    /\ events # <<>> /\ events' = Tail(events)
    /\ LET e == Head(events) IN
       \/ e.kind = "connection" /\ HearConnection(e.wire)
       \/ e.kind = "target" /\ HearTarget(e.known)
       \/ e.kind = "sync" /\ e.status = "started" /\ HearStarted(e.gen)
       \/ e.kind = "sync" /\ e.status # "started" /\ HearEnded(e.status, e.gen)
       \/ e.kind = "batch" /\ HearBatch(e.gen, e.values)
       \/ e.kind \in {"complete", "failed"} /\ HearEnd(e.kind, e.gen)
       \/ e.kind = "refused" /\ HearRefused(e.id, e.retryable)
    /\ UNCHANGED <<workerVars, commands, requests, refreshes>>

(* The automatic request is posted.  It stays pending until it is settled.   *)
AutoSent ==
    [auto EXCEPT !.inFlight = TRUE, !.id = requests + 1, !.tries = auto.tries + 1, !.timer = FALSE]

(* tryStartAutomaticParamRequest.                                            *)
MayStart == auto.pending /\ ~auto.inFlight /\ seen.ready /\ seen.open /\ seen.target

(* scheduleAutomaticParamRequest: the timer fires, and is set again if the   *)
(* request could not be posted.                                              *)
AutoTimer ==
    /\ auto.timer
    /\ IF MayStart
       THEN auto' = AutoSent /\ requests' = requests + 1 /\ commands' = Append(commands, requests + 1)
       ELSE /\ auto' = [auto EXCEPT !.timer = auto.pending /\ ~auto.inFlight]
            /\ UNCHANGED <<requests, commands>>
    /\ UNCHANGED <<workerVars, events, seen, last, preserve, pageGen, refreshes, storeVars>>

(* flushParamBatch, at most ten times a second.                              *)
FlushParamBatch ==
    /\ batch # {} /\ list' = list \cup batch /\ batch' = {}
    /\ UNCHANGED <<workerVars, events, commands, seen, last, preserve, pageGen, auto, requests,
                   refreshes, show, by, wiped>>

(* Wrong on purpose: the automatic request goes on beside the user's.        *)
YieldedNot == auto' = auto

(* sendRuntimeCommand gives the automatic request up.                        *)
Yielded == auto' = AutoIdle

(* A page asks for the list, which its button allows only while none is      *)
(* loading: it clears the store and posts the request without an id.         *)
Refresh ==
    /\ seen.open /\ seen.ready /\ show # "loading" /\ refreshes < MaxRefreshes
    /\ refreshes' = refreshes + 1
    /\ Wiped /\ show' = "loading" /\ UNCHANGED batch
    /\ Yielded
    /\ commands' = Append(commands, NoId)
    /\ UNCHANGED <<workerVars, events, seen, last, preserve, pageGen, requests>>
-----------------------------------------------------------------------------
WorkerStep ==
    \/ Open \/ Close \/ BecomesReady \/ SoftLoss \/ RawBegins \/ RawEnds
    \/ BeginsSilently \/ Downloads \/ GateRefuses \/ BridgeRefuses
    \/ (\E i \in Indices : Tells(i)) \/ FlushParams \/ DownloadFails \/ SyncTimesOut
PageStep == Hear \/ AutoTimer \/ FlushParamBatch \/ Refresh

PageNext == WorkerStep \/ PageStep
PageSpec == PageInit /\ [][PageNext]_runtimeVars

(* Queues deliver, timers fire, a posted request is answered one way or      *)
(* another.  Links, losses, values of the vehicle and the user are free.     *)
PageFair ==
    /\ WF_runtimeVars(Hear) /\ WF_runtimeVars(AutoTimer) /\ WF_runtimeVars(FlushParamBatch)
    /\ WF_runtimeVars(Downloads \/ GateRefuses \/ BridgeRefuses)
    /\ WF_runtimeVars(SyncTimesOut) /\ WF_runtimeVars(FlushParams)
PageFairSpec == PageSpec /\ PageFair
-----------------------------------------------------------------------------
Values == Indices \X (1..MaxLinks)
Wires == [open : BOOLEAN, ready : BOOLEAN, raw : BOOLEAN, target : BOOLEAN, link : 0..MaxLinks]

PageTypeOK ==
    /\ wire \in Wires /\ seen \in Wires /\ drops \in 0..MaxDrops
    /\ gen \in 0..MaxGens /\ gens \in 0..MaxGens /\ silent \in 0..MaxSilent
    /\ users \subseteq asked /\ asked \subseteq 1..MaxGens /\ left \subseteq Indices /\ loading \in BOOLEAN
    /\ told \subseteq Values /\ batch \subseteq Values /\ list \subseteq Values
    /\ last \in BOOLEAN /\ preserve \in BOOLEAN /\ pageGen \in 0..MaxGens
    /\ auto \in [pending : BOOLEAN, inFlight : BOOLEAN, id : Nat, gen : 0..MaxGens,
                 tries : 0..MaxAttempts, timer : BOOLEAN]
    /\ show \in {"none", "loading", "failed", "complete"} /\ by \in 0..MaxGens /\ wiped \in 0..MaxGens

(* A wanted download is on its way: the automatic request that is pending    *)
(* waits for its timer or for its answer, and none is pending that has       *)
(* nothing to go to.                                                         *)
WantedIsComing ==
    /\ auto.pending /\ ~auto.inFlight <=> auto.timer
    /\ auto # AutoIdle => auto.pending /\ seen.open /\ seen.ready
    /\ auto.gen # NoGen => auto.inFlight

(* The page that has heard of a lost link keeps nothing of its vehicle, and  *)
(* never mixes the values of two links.                                      *)
NothingOfLostLink ==
    /\ ~seen.open => list = {} /\ batch = {} /\ auto = AutoIdle /\ show # "complete"
    /\ \A v \in list \cup batch : v[2] = seen.link

(* A list shown complete by a generation that was requested holds every      *)
(* parameter of the vehicle, unless the page cleared the list under way.     *)
RequestedIsWhole ==
    show = "complete" /\ by \in asked /\ by # wiped => {v[1] : v \in list} = Indices

(* What the page shows and what it waits for agree with the runtime.         *)
PageConsistent == PageTypeOK /\ WantedIsComing /\ NothingOfLostLink /\ RequestedIsWhole

(* The same of every list shown complete.                                    *)
CompleteIsWhole == show = "complete" /\ wiped = NoGen => {v[1] : v \in list} = Indices

(* The page never asks by itself while it follows a generation that the      *)
(* user has asked for.                                                       *)
UserSyncUndisturbed ==
    [][AutoTimer /\ commands' # commands => ~(gen = pageGen /\ gen \in users)]_runtimeVars

(* The automatic request ends, however often it is refused.                  *)
AutomaticEnds == auto.pending ~> ~auto.pending

(* Keep target-bound state over a soft loss, or else download again: a page  *)
(* at rest on a ready vehicle shows a list or says that there is none.       *)
AtRest == events = <<>> /\ commands = <<>> /\ gen = NoGen /\ ~loading /\ ~auto.pending
PreservedOrDownloaded == AtRest /\ wire.ready => show # "loading"

(* Every batch of a download tells its generation.                           *)
ListBatchesStamped ==
    \A i \in DOMAIN events : events[i].kind = "batch" => events[i].gen # NoGen
=============================================================================
