----------------------------- MODULE LogTransfer -----------------------------
(***************************************************************************)
(* MavlinkLogTransfer: the list of the dataflash logs, the download of one *)
(* and the erasure of all of them over LOG_* messages, which carry neither *)
(* sequence numbers nor acknowledgements.                                  *)
(*                                                                         *)
(* collectList is one sub-operation of all three.  The budget of frames of *)
(* a list is counted, that of useless frames may end a list after any of   *)
(* them; the quiet timer, the hard deadline and the budgets of a data pass *)
(* are one action, and so are the limits that make a flush fail.           *)
(***************************************************************************)
EXTENDS TransferLink, Intervals, SequencesExt

CONSTANTS
    Logs,         \* number of logs of the vehicle; their ids are 1..Logs
    Size,         \* the size its LOG_ENTRY reports
    RealLen,      \* the bytes it really has of each log
    Chunk,        \* LOG_DATA_CHUNK_SIZE
    Attempts,     \* REQUEST_MAX_ATTEMPTS
    MaxFrames,    \* LIST_MAX_FRAMES
    LogPasses,    \* MAX_NO_PROGRESS_PASSES
    MaxRounds,    \* ERASE_VERIFY_MAX_ROUNDS
    LogRetained,  \* MAX_RETAINED_DOWNLOADS
    LogAirLimit   \* bound: frames on their way from the vehicle

Ids == 1..Logs
MaxId == 65535

ASSUME LogAssumption ==
    /\ Logs \in 0..MaxId /\ Size \in Nat /\ RealLen \in Nat /\ Chunk \in Nat \ {0}
    /\ Attempts \in Nat \ {0} /\ MaxFrames \in Nat /\ LogPasses \in Nat \ {0}
    /\ MaxRounds \in Nat /\ LogRetained \in Nat \ {0} /\ LogAirLimit \in Nat

VARIABLES
    logOp,       \* state, where the operation waits, cancelRequested
    roll,        \* the running collectList
    fetch,       \* the running download
    rounds,      \* rounds of the running erasure
    logFiles,    \* registered downloads, the oldest first
    vehicle,     \* external: logs present, erasing, what is streamed
    logAir       \* external: frames on their way from the vehicle

logVars == <<logOp, roll, fetch, rounds, logFiles, vehicle, logAir>>

NoLog == -1
NoFetch == [id |-> NoLog, total |-> 0, missing |-> {}, got |-> {}, from |-> 0, until |-> 0,
            before |-> 0, passes |-> 0]
NoRoll == [state |-> "none", from |-> 0, to |-> 0, num |-> NoLog, last |-> NoLog,
           found |-> {}, attempts |-> 0, frames |-> 0]
NoLogStream == [kind |-> "none", at |-> 0, until |-> 0, id |-> NoLog]
-----------------------------------------------------------------------------
LogInit ==
    /\ logOp = [op |-> "idle", step |-> "idle", cancelRequested |-> FALSE, home |-> Nobody]
    /\ roll = NoRoll /\ fetch = NoFetch /\ rounds = 0 /\ logFiles = <<>> /\ logAir = <<>>
    /\ vehicle = [logs |-> Logs, erasing |-> FALSE, stream |-> NoLogStream]

logBusy == logOp.op # "idle"

LogWaits == {"idle", "roll", "delay", "dir", "allocate", "stream", "flush", "rename", "cleanup"}
LogTypeOK ==
    /\ logOp \in [op : {"idle", "list", "download", "erase"}, step : LogWaits,
                  cancelRequested : BOOLEAN, home : Vehicles \cup {Nobody}]
    /\ roll.found \subseteq Ids /\ roll.attempts \in 0..Attempts /\ roll.frames \in 0..MaxFrames
    /\ fetch.total \in 0..Size /\ fetch.got \subseteq 0..(Size - 1)
    /\ fetch.missing \subseteq (0..Size) \X (0..Size) /\ fetch.passes \in 0..LogPasses
    /\ rounds \in 0..MaxRounds
    /\ Len(logFiles) <= LogRetained /\ Len(logAir) <= LogAirLimit
    /\ vehicle.logs \in 0..Logs /\ vehicle.erasing \in BOOLEAN
-----------------------------------------------------------------------------
(* The vehicle (external).                                                   *)
LogEntry(id) == [kind |-> "entry", id |-> id, num |-> vehicle.logs, last |-> vehicle.logs,
                 ofs |-> 0, count |-> 0]
LogData(id, ofs, count) ==
    [kind |-> "data", id |-> id, num |-> 0, last |-> 0, ofs |-> ofs, count |-> count]

LogSends(frame) ==
    \/ UNCHANGED logAir
    \/ link = "up" /\ Len(logAir) < LogAirLimit /\ logAir' = Append(logAir, frame)

Lesser(a, b) == IF a < b THEN a ELSE b

(* A request is lost, or the vehicle begins to stream.                       *)
Streams(s) == UNCHANGED vehicle \/ (Heard /\ vehicle' = [vehicle EXCEPT !.stream = s])

ListStream(from, to) == [kind |-> "entry", at |-> IF from < 1 THEN 1 ELSE from,
                         until |-> Lesser(to, vehicle.logs), id |-> NoLog]
DataStream(id, ofs, count) == [kind |-> "data", at |-> ofs, until |-> ofs + count, id |-> id]

(* The next frame of the stream.  Without logs one empty entry says so; a    *)
(* log that ends before the requested end is followed by a short chunk.      *)
VehicleStreams ==
    LET s == vehicle.stream
        there == IF s.at < RealLen THEN RealLen - s.at ELSE 0
        count == Lesser(Chunk, Lesser(there, s.until - s.at))
        ends == count < Chunk \/ s.at + count = s.until
    IN
    /\ s.kind # "none"
    /\ IF s.kind = "entry"
       THEN IF vehicle.logs = 0 \/ s.at > s.until
            THEN /\ vehicle' = [vehicle EXCEPT !.stream = NoLogStream]
                 /\ IF vehicle.logs = 0 THEN LogSends(LogEntry(0)) ELSE UNCHANGED logAir
            ELSE /\ vehicle' = [vehicle EXCEPT !.stream = [s EXCEPT !.at = @ + 1]]
                 /\ LogSends(LogEntry(s.at))
       ELSE /\ vehicle' = [vehicle EXCEPT
                  !.stream = IF ends THEN NoLogStream ELSE [s EXCEPT !.at = @ + count]]
            /\ LogSends(LogData(s.id, s.at, count))
    /\ sent' = NoFrame /\ said' = Quiet
    /\ UNCHANGED <<linkVars, logOp, roll, fetch, rounds, logFiles>>

(* It says again what nobody asked for.  What came before the operation      *)
(* began may as well come now.                                               *)
VehicleBabbles ==
    /\ logBusy /\ vehicle.logs > 0 /\ link = "up" /\ Len(logAir) < LogAirLimit
    /\ \E id \in 1..vehicle.logs : logAir' = Append(logAir, LogEntry(id))
    /\ sent' = NoFrame /\ said' = Quiet
    /\ UNCHANGED <<linkVars, logOp, roll, fetch, rounds, logFiles, vehicle>>

(* The chips are formatted.                                                  *)
VehicleErases ==
    /\ vehicle.erasing
    /\ vehicle' = [logs |-> 0, erasing |-> FALSE, stream |-> NoLogStream]
    /\ sent' = NoFrame /\ said' = Quiet
    /\ UNCHANGED <<linkVars, logOp, roll, fetch, rounds, logFiles, logAir>>
-----------------------------------------------------------------------------
LogRest == said' = Quiet /\ UNCHANGED <<linkVars, logFiles>>

LogClaimable == ~logBusy /\ ~destroyed
LogClaimed(op, step) ==
    logOp' = [op |-> op, step |-> step, cancelRequested |-> FALSE, home |-> target]
LogGoes(step) == logOp' = [logOp EXCEPT !.step = step]

(* release(), after a report of the given type.                              *)
LogReleases(type, entries) ==
    /\ logOp' = [logOp EXCEPT !.op = "idle", !.step = "idle", !.home = Nobody]
    /\ roll' = NoRoll /\ fetch' = NoFetch /\ rounds' = 0
    /\ said' = [Quiet EXCEPT !.type = type, !.entries = entries]

(* cancelAll(): the flag, and the vehicle is asked to stop streaming.        *)
LogCancel ==
    IF ~logBusy THEN UNCHANGED <<logOp, vehicle>> /\ sent' = NoFrame
    ELSE /\ logOp' = [logOp EXCEPT !.cancelRequested = TRUE]
         /\ IF Takes THEN Streams(NoLogStream) /\ sent' = Frame("log end", logOp.home)
            ELSE UNCHANGED vehicle /\ sent' = NoFrame
-----------------------------------------------------------------------------
(* collectList.                                                              *)

(* Ids the vehicle has advertised for the window but has not delivered yet.  *)
MissingIds(r) ==
    IF r.num \in {NoLog, 0} THEN {}
    ELSE {id \in Ids : id >= r.from /\ id > r.last - r.num /\ id <= r.to /\ id <= r.last} \ r.found

(* Wrong on purpose: one delivered entry is a list.                          *)
CompleteByAny(r) == r.num # NoLog /\ (r.num = 0 \/ r.found # {})

IsComplete(r) == r.num # NoLog /\ (r.num = 0 \/ (MissingIds(r) = {} /\ r.found # {}))

(* requestWindow: the missing ids, or the whole window.                      *)
RequestWindow(r, home) ==
    LET ids == MissingIds(r)
        first == IF ids = {} THEN r.from ELSE CHOOSE i \in ids : \A k \in ids : i <= k
        final == IF ids = {} THEN r.to ELSE CHOOSE i \in ids : \A k \in ids : k <= i
    IN \/ /\ roll' = [r EXCEPT !.state = "failed"]
          /\ sent' = NoFrame /\ UNCHANGED vehicle
       \/ /\ Takes /\ roll' = [r EXCEPT !.state = "waiting"]
          /\ Streams(ListStream(first, final)) /\ sent' = Frame("log list", home)

CollectList(from, to, home) == RequestWindow([NoRoll EXCEPT !.from = from, !.to = to], home)

(* No entry for requestTimeoutMs.                                            *)
ListQuiet ==
    /\ roll.state = "waiting"
    /\ \/ /\ logOp.cancelRequested \/ roll.attempts + 1 >= Attempts
          /\ roll' = [roll EXCEPT !.state = IF logOp.cancelRequested THEN "cancelled" ELSE "timeout"]
          /\ sent' = NoFrame /\ UNCHANGED vehicle
       \/ /\ ~logOp.cancelRequested /\ roll.attempts + 1 < Attempts
          /\ RequestWindow([roll EXCEPT !.attempts = @ + 1], logOp.home)
    /\ LogRest /\ UNCHANGED <<logOp, fetch, rounds, logAir>>

(* Wrong on purpose: only the entries that are new are counted.              *)
TakesAnyEntry(r, x) ==
    LET fits == x.num > 0 /\ x.id >= r.from /\ x.id <= r.to
        next == [r EXCEPT !.num = x.num, !.last = x.last,
                          !.frames = IF fits /\ x.id \notin r.found THEN @ + 1 ELSE @,
                          !.found = IF fits THEN @ \cup {x.id} ELSE @]
    IN IF r.frames + 1 > MaxFrames THEN [r EXCEPT !.state = "overflow"]
       ELSE IF IsComplete(next) THEN [next EXCEPT !.state = "done"] ELSE next

(* onEntry within its budget of frames.                                      *)
TakesEntry(r, x) ==
    LET fits == x.num > 0 /\ x.id >= r.from /\ x.id <= r.to
        next == [r EXCEPT !.num = x.num, !.last = x.last, !.frames = @ + 1,
                          !.found = IF fits THEN @ \cup {x.id} ELSE @]
    IN IF r.frames + 1 > MaxFrames THEN [r EXCEPT !.state = "overflow"]
       ELSE IF IsComplete(next) THEN [next EXCEPT !.state = "done"] ELSE next

HandleLogEntry ==
    /\ logAir # <<>> /\ logAir[1].kind = "entry" /\ logAir' = Tail(logAir)
    /\ IF Heard /\ roll.state = "waiting"
       THEN IF logOp.cancelRequested THEN roll' = [roll EXCEPT !.state = "cancelled"]
            ELSE \/ roll' = TakesEntry(roll, logAir[1])
                 \/ roll.frames > 0 /\ roll' = [roll EXCEPT !.state = "overflow"]
       ELSE UNCHANGED roll
    /\ sent' = NoFrame /\ LogRest /\ UNCHANGED <<logOp, fetch, rounds, vehicle>>

(* The list is there, or is not.                                             *)
ListCollected == roll.state = "done"
CollectFails == roll.state \in {"failed", "cancelled", "timeout", "overflow"}

StartLogList ==
    /\ LogClaimable /\ LogClaimed("list", "roll") /\ CollectList(0, MaxId, target)
    /\ LogRest /\ UNCHANGED <<fetch, rounds, logAir>>

LogListed ==
    /\ logOp.op = "list" /\ ListCollected
    /\ LogReleases("log_list", SetToSeq(roll.found))
    /\ sent' = NoFrame /\ UNCHANGED <<linkVars, logFiles, vehicle, logAir>>

LogListFails ==
    /\ logOp.op = "list" /\ CollectFails /\ LogReleases("log_op_error", <<>>)
    /\ sent' = NoFrame /\ UNCHANGED <<linkVars, logFiles, vehicle, logAir>>
-----------------------------------------------------------------------------
(* Download.                                                                 *)

(* The catch of runDownload, which first closes and unlinks the part file.   *)
LogCatch ==
    /\ LogGoes("cleanup") /\ roll' = NoRoll
    /\ sent' = NoFrame /\ UNCHANGED <<fetch, vehicle>>

StartLogDownload(id) ==
    /\ LogClaimable /\ LogClaimed("download", "dir")
    /\ fetch' = [NoFetch EXCEPT !.id = id]
    /\ sent' = NoFrame /\ LogRest /\ UNCHANGED <<roll, rounds, vehicle, logAir>>

(* The next pass asks for the first gap; without one the file is renamed.    *)
DataPass(g) ==
    LET gap == FirstGap(g.missing)
        h == [g EXCEPT !.before = remainingBytes(g.missing), !.from = gap[1], !.until = gap[2]]
    IN
    IF logOp.cancelRequested THEN LogCatch
    ELSE IF g.missing = {}
    THEN LogGoes("rename") /\ fetch' = g /\ sent' = NoFrame /\ UNCHANGED <<roll, vehicle>>
    ELSE /\ fetch' = h /\ roll' = NoRoll
         /\ \/ LogGoes("flush") /\ sent' = NoFrame /\ UNCHANGED vehicle
            \/ /\ Takes /\ LogGoes("stream") /\ sent' = Frame("log data", logOp.home)
               /\ Streams(DataStream(g.id, gap[1], gap[2] - gap[1]))

LogDirReady(ok) ==
    /\ logOp.step = "dir" /\ LogRest
    /\ IF ok THEN /\ LogGoes("roll") /\ UNCHANGED fetch
                  /\ CollectList(fetch.id, fetch.id, logOp.home)
             ELSE LogCatch
    /\ UNCHANGED <<rounds, logAir>>

(* The log is sized; one that is not there ends the download.                *)
LogSized ==
    /\ logOp.op = "download" /\ roll.state \notin {"none", "waiting"} /\ LogRest
    /\ IF ListCollected /\ fetch.id \in roll.found
       THEN LogGoes("allocate") /\ roll' = NoRoll /\ sent' = NoFrame /\ UNCHANGED <<fetch, vehicle>>
       ELSE LogCatch
    /\ UNCHANGED <<rounds, logAir>>

LogAllocate(ok) ==
    /\ logOp.step = "allocate" /\ LogRest
    /\ IF ok THEN DataPass([fetch EXCEPT !.total = Size,
                                         !.missing = IF Size > 0 THEN {<<0, Size>>} ELSE {}])
             ELSE LogCatch
    /\ UNCHANGED <<rounds, logAir>>

(* Wrong on purpose: the end of the log is the end of the gaps.              *)
TruncateAll(g, end) == [g EXCEPT !.missing = {}, !.total = end]

(* truncateTo: what lies behind the true end is not missing.                 *)
TruncateTo(g, end) ==
    IF end >= g.total THEN g
    ELSE [g EXCEPT !.missing = subtractInterval(@, end, g.total), !.total = end]

Stored(g, x) ==
    LET end == Lesser(g.total, x.ofs + x.count) IN
    IF end <= x.ofs THEN g
    ELSE [g EXCEPT !.missing = subtractInterval(@, x.ofs, end),
                   !.got = @ \cup x.ofs..(end - 1)]

(* onChunk: a short chunk below the requested end marks the end of the log.  *)
HandleLogData ==
    LET x == logAir[1]
        g == Stored(fetch, x)
        short == x.count < Chunk /\ x.ofs + x.count < fetch.until
        full == \A i \in g.missing : i[1] >= fetch.until \/ i[2] <= fetch.from
    IN
    /\ logAir # <<>> /\ logAir[1].kind = "data" /\ logAir' = Tail(logAir)
    /\ IF Heard /\ logOp.step = "stream" /\ x.id = fetch.id
       THEN /\ fetch' = IF short THEN TruncateTo(g, x.ofs + x.count) ELSE g
            /\ IF short \/ full THEN LogGoes("flush") ELSE UNCHANGED logOp
       ELSE UNCHANGED <<fetch, logOp>>
    /\ sent' = NoFrame /\ LogRest /\ UNCHANGED <<roll, rounds, vehicle>>

(* Silence, the deadline, or more frames than the budgets allow.             *)
DataPassEnds ==
    /\ logOp.step = "stream" /\ LogGoes("flush")
    /\ sent' = NoFrame /\ LogRest /\ UNCHANGED <<roll, fetch, rounds, vehicle, logAir>>

LogPassOver(g) ==
    [g EXCEPT !.passes = IF remainingBytes(g.missing) < g.before THEN 0 ELSE @ + 1]

LogFlush(ok) ==
    /\ logOp.step = "flush" /\ LogRest
    /\ LET g == LogPassOver(fetch) IN
       IF ~ok \/ g.passes >= LogPasses THEN LogCatch ELSE DataPass(g)
    /\ UNCHANGED <<rounds, logAir>>

(* The finally: the vehicle is told to stop, on whatever is selected now.    *)
LogEnd ==
    \/ sent' = NoFrame /\ UNCHANGED vehicle
    \/ Takes /\ sent' = Frame("log end", logOp.home) /\ Streams(NoLogStream)

LogRegistered(d) ==
    LET all == Append(logFiles, d)
        n == Len(all)
    IN IF n > LogRetained THEN SubSeq(all, n - LogRetained + 1, n) ELSE all

(* The part file is renamed, registered and reported.                        *)
LogRename(ok) ==
    /\ logOp.step = "rename"
    /\ IF ok THEN /\ logFiles' = LogRegistered([total |-> fetch.total, got |-> fetch.got])
                  /\ LogReleases("log_download_complete", <<>>) /\ LogEnd
             ELSE LogCatch /\ said' = Quiet /\ UNCHANGED <<rounds, logFiles>>
    /\ UNCHANGED <<linkVars, logAir>>

LogCleanup ==
    /\ logOp.step = "cleanup" /\ LogReleases("log_op_error", <<>>) /\ LogEnd
    /\ UNCHANGED <<linkVars, logFiles, logAir>>

ConsumeLog ==
    /\ \E i \in DOMAIN logFiles : logFiles' = RemoveAt(logFiles, i)
    /\ said' = Quiet /\ sent' = NoFrame
    /\ UNCHANGED <<linkVars, logOp, roll, fetch, rounds, vehicle, logAir>>
-----------------------------------------------------------------------------
(* Erasure, which nothing acknowledges.                                      *)
StartErase ==
    /\ LogClaimable /\ UNCHANGED <<linkVars, roll, fetch, rounds, logFiles, logAir>>
    /\ \/ /\ sent' = NoFrame /\ said' = [Quiet EXCEPT !.type = "log_op_error"]
          /\ UNCHANGED <<logOp, vehicle>>
       \/ /\ Takes /\ LogClaimed("erase", "delay") /\ said' = Quiet
          /\ sent' = Frame("log erase", target)
          /\ UNCHANGED vehicle \/ (Heard /\ vehicle' = [vehicle EXCEPT !.erasing = TRUE])

(* ERASE_VERIFY_DELAY_MS later the list is asked for, cancelled or not.      *)
EraseDelayEnds ==
    /\ logOp.step = "delay" /\ LogGoes("roll") /\ CollectList(0, MaxId, logOp.home)
    /\ LogRest /\ UNCHANGED <<fetch, rounds, logAir>>

(* Wrong on purpose: a vehicle that is silent has erased.                    *)
EraseVerifiedBySilence == (ListCollected /\ roll.found = {}) \/ roll.state = "timeout"

EraseVerified == ListCollected /\ roll.found = {}

EraseDone ==
    /\ logOp.op = "erase" /\ EraseVerified /\ LogReleases("log_erase_done", <<>>)
    /\ sent' = NoFrame /\ UNCHANGED <<linkVars, logFiles, vehicle, logAir>>

(* It still has logs or does not answer: the next round.                     *)
Unverified == (ListCollected /\ roll.found # {}) \/ roll.state = "timeout"

EraseAgain ==
    /\ logOp.op = "erase" /\ Unverified /\ rounds + 1 < MaxRounds /\ ~logOp.cancelRequested
    /\ LogGoes("delay") /\ rounds' = rounds + 1 /\ roll' = NoRoll
    /\ sent' = NoFrame /\ LogRest /\ UNCHANGED <<fetch, vehicle, logAir>>

EraseFails ==
    /\ logOp.op = "erase" /\ roll.state \notin {"none", "waiting"} /\ ~EraseVerified
    /\ Unverified => rounds + 1 >= MaxRounds \/ logOp.cancelRequested
    /\ LogReleases("log_op_error", <<>>)
    /\ sent' = NoFrame /\ UNCHANGED <<linkVars, logFiles, vehicle, logAir>>
-----------------------------------------------------------------------------
(* The operation goes on after an await.                                     *)
LogResumes ==
    \/ LogListed \/ LogListFails \/ LogSized \/ LogCleanup
    \/ EraseDone \/ EraseAgain \/ EraseFails
    \/ \E ok \in BOOLEAN : LogDirReady(ok) \/ LogAllocate(ok) \/ LogFlush(ok) \/ LogRename(ok)

LogStep ==
    \/ LogResumes \/ ListQuiet \/ HandleLogEntry \/ HandleLogData \/ DataPassEnds
    \/ EraseDelayEnds \/ VehicleStreams \/ VehicleBabbles \/ VehicleErases \/ ConsumeLog
=============================================================================
