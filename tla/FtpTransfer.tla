----------------------------- MODULE FtpTransfer -----------------------------
(***************************************************************************)
(* MavlinkFtp: listing, download and recursive deletion over the one       *)
(* request that may be outstanding, against a server that executes a       *)
(* request once and repeats its answer, on a link that loses frames.       *)
(*                                                                         *)
(* A step is one resumption of the running operation, from one await to    *)
(* the next; an answer settles the request first and the operation goes on *)
(* in a later step, so whatever the same bytes bring (another frame, a     *)
(* target change) comes between.  Chunks have length 1.  The quiet timer,  *)
(* the hard deadline, the frame budgets and the full write queue all end a *)
(* pass and are one action; so are the limits that make a flush fail.      *)
(* Sequence numbers run modulo SeqCycle.  What is more than MaxAge of them *)
(* old when a new one is taken is lost: a frame, a burst that has stood    *)
(* still, and the answer the server would repeat.                          *)
(***************************************************************************)
EXTENDS TransferLink, Intervals, SequencesExt

CONSTANTS
    Files,            \* files of the server
    Dirs,             \* its directories
    Listing,          \* records of a directory: names, and Skip for those dropped
    Skip,             \* a record that is no usable entry
    FileLen,          \* length of a file
    Tries,            \* REQUEST_MAX_ATTEMPTS
    MaxPasses,        \* MAX_NO_PROGRESS_PASSES
    GapFill,          \* GAP_FILL_MAX_BYTES
    MaxPages,         \* LIST_MAX_PAGES
    PageLen,          \* records of a page
    MaxEntries,       \* LIST_MAX_ENTRIES
    MaxDepth,         \* DELETE_MAX_DEPTH
    MaxItems,         \* DELETE_MAX_ITEMS
    MaxRetained,      \* MAX_RETAINED_DOWNLOADS
    SeqCycle,         \* 65536
    MaxAge,           \* bound: numbers that are taken while a frame is on its way
    AirLimit          \* bound: frames on their way from the server

Hole == "hole"
Junk == "junk"

ASSUME FtpAssumption ==
    /\ FileLen \in Nat \ {0} /\ Tries \in Nat \ {0} /\ MaxPasses \in Nat \ {0}
    /\ GapFill \in Nat /\ MaxPages \in Nat \ {0} /\ PageLen \in Nat \ {0}
    /\ MaxEntries \in Nat \ {0}
    /\ MaxDepth \in Nat /\ MaxItems \in Nat /\ MaxRetained \in Nat \ {0}
    /\ SeqCycle \in Nat /\ MaxAge \in Nat \ {0} /\ AirLimit \in Nat
    /\ MaxAge + FileLen + 1 <= SeqCycle \div 2
    /\ Files \cap Dirs = {} /\ {Skip, Hole, Junk, Nobody} \cap (Files \cup Dirs) = {}
    /\ Listing \in [Dirs -> Seq(Files \cup Dirs \cup {Skip})]

VARIABLES
    ftp,         \* state, where the operation waits, cancelRequested, seq
    ask,         \* pending of transact, or the way it was settled
    get,         \* the running download
    scan,        \* the running collectDirectory
    del,         \* the running deletion
    downloads,   \* registered downloads, the oldest first
    server,      \* external: session, last answer, running burst, deleted paths
    air          \* external: frames on their way from the server

ftpVars == <<ftp, ask, get, scan, del, downloads, server, air>>
transferVars == <<get, scan, del, downloads>>

Paths == Files \cup Dirs
Units == 0..(FileLen - 1)
Idle == "idle"
NoStream == -1
Waiting == [kind |-> "waiting", arg |-> <<>>, body |-> <<>>]
NoAsk == [opcode |-> "none", arg |-> <<>>, seq |-> 0, left |-> 0, ran |-> 0, got |-> Waiting]
NoDownload == [path |-> Nobody, missing |-> {}, part |-> [u \in Units |-> Hole], before |-> 0,
               passes |-> 0, fallback |-> FALSE, bursting |-> FALSE, gaps |-> {},
               opened |-> FALSE, complete |-> FALSE]
NoScan == [dir |-> Nobody, offset |-> 0, pages |-> 0, found |-> <<>>]
NoDelete == [wanted |-> {}, todo |-> <<>>, work |-> <<>>, done |-> 0]
NoReply == [opcode |-> "none", arg |-> <<>>, seq |-> 0, kind |-> "none", body |-> <<>>]
-----------------------------------------------------------------------------
(* Sequence numbers.                                                         *)
Succ(n) == (n + 1) % SeqCycle
Forward(n, m) == (n - m) % SeqCycle

(* advanceSeqFromReply: never backwards around the wrap point.               *)
Advanced(seq, n) ==
    IF Forward(Succ(n), seq) \in 1..(SeqCycle \div 2 - 1) THEN Succ(n) ELSE seq

(* allocSeq.                                                                 *)
Allocated(seq) == Succ(seq)

(* Not too far behind, or ahead by the frames of a burst.                    *)
Fresh(f, n) == Forward(f.seq, n) \notin MaxAge + 1 .. SeqCycle - FileLen - 1
-----------------------------------------------------------------------------
(* The server (external).                                                    *)

Alive(dir, gone) ==
    Drawn(Listing[dir], {i \in DOMAIN Listing[dir] : Listing[dir][i] \notin gone})

(* What a request does: the state after it and the answer.                   *)
Effect(opcode, arg) ==
    LET is(s, k, b) == [state |-> s, kind |-> k, body |-> b]
        refuse == is(server, "nak", <<>>)
        path == arg[1]
        absent == path \in server.gone
    IN
    CASE opcode = "reset" -> is([server EXCEPT !.open = Nobody, !.stream = NoStream], "ack", <<>>)
      [] opcode = "terminate" ->
            is([server EXCEPT !.open = Nobody, !.stream = NoStream], "ack", <<>>)
      [] opcode = "open" ->
            IF absent \/ server.open # Nobody THEN refuse
            ELSE is([server EXCEPT !.open = path], "ack", <<>>)
      [] opcode = "read" ->
            IF server.open = Nobody THEN refuse
            ELSE is(server, "ack", <<arg[2], server.open>>)
      [] opcode = "crc" -> IF absent THEN refuse ELSE is(server, "ack", <<path>>)
      [] opcode = "list" ->
            LET names == Alive(path, server.gone)
                page == SubSeq(names, arg[2] + 1,
                               IF arg[2] + PageLen < Len(names) THEN arg[2] + PageLen
                               ELSE Len(names))
            IN IF absent THEN refuse
               ELSE IF page = <<>> THEN is(server, "eof", <<>>) ELSE is(server, "ack", page)
      [] opcode = "removeFile" ->
            IF absent THEN is(server, "absent", <<>>)
            ELSE is([server EXCEPT !.gone = @ \cup {path}], "ack", <<>>)
      [] opcode = "removeDir" ->
            IF absent THEN is(server, "absent", <<>>)
            ELSE IF Alive(path, server.gone) # <<>> THEN refuse
            ELSE is([server EXCEPT !.gone = @ \cup {path}], "ack", <<>>)
      [] OTHER -> refuse

(* The answer of the server, if the frame arrives: its last one when the     *)
(* number says that this is a repetition, otherwise the request is executed, *)
(* or refused.  What it reads may be damaged.                                *)
Repeats(r) == server.last # NoReply /\ server.last.seq = Succ(r.seq)
Refusal == [state |-> server, kind |-> "nak", body |-> <<>>]
Answer(r, e, body) ==
    [opcode |-> r.opcode, arg |-> r.arg, seq |-> Succ(r.seq), kind |-> e.kind, body |-> body]
Damaged(r, e) ==
    IF r.opcode = "read" /\ e.kind = "ack" THEN {e.body, <<e.body[1], Junk>>} ELSE {e.body}

(* A frame of the server reaches the air or is lost.                         *)
Sends(before, reply) ==
    \/ air' = before
    \/ link = "up" /\ Len(before) < AirLimit /\ air' = Append(before, reply)

(* What is left after a new number: frames, the burst, and no answer.        *)
Aged(f) == Drawn(air, {i \in DOMAIN air : Fresh(f, air[i].seq)})
Outlasts(f, s) == IF Fresh(f, Succ(s.bseq)) THEN s ELSE [s EXCEPT !.stream = NoStream]
Forgetful(f) == Outlasts(f, [server EXCEPT !.last = NoReply])

(* The request r, new or written again, is lost, executed, refused or        *)
(* answered from memory.                                                     *)
Serve(f, r, new) ==
    LET ran == IF new THEN 0 ELSE ask.ran
        pending(n) == ask' = [opcode |-> r.opcode, arg |-> r.arg, seq |-> r.seq,
                              left |-> r.left, ran |-> n, got |-> Waiting]
        before == IF new THEN Aged(f) ELSE air
    IN
    \/ /\ air' = before /\ pending(ran)
       /\ server' = IF new THEN Forgetful(f) ELSE server
    \/ /\ target = Server /\ link = "up"
       /\ IF Repeats(r) THEN pending(ran) /\ UNCHANGED server /\ Sends(before, server.last)
          ELSE /\ pending(ran + 1)
               /\ \E e \in {Effect(r.opcode, r.arg), Refusal} : \E b \in Damaged(r, e) :
                    /\ server' = Outlasts(f, [e.state EXCEPT !.last = Answer(r, e, b)])
                    /\ Sends(before, Answer(r, e, b))

(* The next frame of the running burst.                                      *)
ServerStreams ==
    /\ server.stream # NoStream
    /\ \E data \in {server.open, Junk} :
         LET last == server.stream = FileLen - 1
             frame == [opcode |-> "burst", arg |-> <<server.open>>, seq |-> Succ(server.bseq),
                       kind |-> IF last THEN "done" ELSE "ack", body |-> <<server.stream, data>>]
         IN /\ Sends(air, frame)
            /\ server' = [server EXCEPT !.stream = IF last THEN NoStream ELSE @ + 1,
                                        !.bseq = Succ(@)]
    /\ sent' = NoFrame /\ said' = Quiet
    /\ UNCHANGED <<linkVars, ftp, ask, transferVars>>
-----------------------------------------------------------------------------
FtpInit ==
    /\ ftp = [op |-> Idle, step |-> Idle, cancelRequested |-> FALSE, seq |-> 0, home |-> Nobody]
    /\ ask = NoAsk /\ get = NoDownload /\ scan = NoScan /\ del = NoDelete /\ downloads = <<>>
    /\ server = [open |-> Nobody, last |-> NoReply, stream |-> NoStream, bseq |-> 0, gone |-> {}]
    /\ air = <<>>

ftpBusy == ftp.op # Idle

Numbers == 0..(SeqCycle - 1)
Gaps == (0..FileLen) \X (0..FileLen)
FtpWaits == {Idle, "list", "removeFile", "removeDir", "dir", "reset", "open", "allocate", "read",
             "burst", "flush", "crc", "verify", "terminate", "cleanup"}
FtpTypeOK ==
    /\ ftp \in [op : {Idle, "list", "download", "delete"}, step : FtpWaits,
                cancelRequested : BOOLEAN, seq : Numbers, home : Vehicles \cup {Nobody}]
    /\ ask.seq \in Numbers /\ ask.left \in 0..Tries \cup {1, 2} /\ ask.ran \in Nat
    /\ get.path \in Files \cup {Nobody} /\ get.missing \subseteq Gaps /\ get.gaps \subseteq Gaps
    /\ get.passes \in 0..MaxPasses /\ get.before \in 0..FileLen
    /\ get.part \in [Units -> Files \cup {Hole, Junk}]
    /\ scan.dir \in Dirs \cup {Nobody} /\ (scan.pages < MaxPages \/ scan = NoScan)
    /\ (Len(scan.found) < MaxEntries \/ scan = NoScan)
    /\ Len(del.work) <= MaxItems + MaxDepth /\ del.work \in Seq(Paths)
    /\ (del.done < Len(del.work) \/ del.done = 0)
    /\ Len(downloads) <= MaxRetained
    /\ server.gone \subseteq Paths /\ server.open \in Files \cup {Nobody}
    /\ server.stream \in Units \cup {NoStream} /\ server.bseq \in Numbers
    /\ Len(air) <= AirLimit
-----------------------------------------------------------------------------
(* transact: one sequence number for all attempts.  A cancelled operation    *)
(* and a write that is refused settle the request at once.                   *)
Settle(r, kind) ==
    /\ ask' = [opcode |-> r.opcode, arg |-> r.arg, seq |-> r.seq, left |-> 0, ran |-> 0,
               got |-> [Waiting EXCEPT !.kind = kind]]
    /\ sent' = NoFrame

Request(f, opcode, arg, attempts) ==
    LET g == [f EXCEPT !.seq = Allocated(@), !.step = opcode]
        r == [opcode |-> opcode, arg |-> arg, seq |-> f.seq, left |-> attempts]
    IN
    /\ ftp' = g
    /\ \/ /\ Settle(r, IF f.cancelRequested THEN "cancelled" ELSE "failed")
          /\ server' = Forgetful(g) /\ air' = Aged(g)
       \/ /\ ~f.cancelRequested /\ Takes
          /\ Serve(g, r, TRUE) /\ sent' = Frame(opcode, f.home)

Again(seq) ==
    [opcode |-> ask.opcode, arg |-> ask.arg, seq |-> seq, left |-> ask.left - 1]

(* Wrong on purpose: a retransmission takes a number of its own.             *)
RetransmitRenumbered ==
    /\ ftp' = [ftp EXCEPT !.seq = Succ(@)]
    /\ Takes /\ Serve(ftp', Again(ftp.seq), FALSE) /\ sent' = Frame(ask.opcode, ftp.home)

(* The same frame again.                                                     *)
Retransmit ==
    /\ UNCHANGED ftp
    /\ Takes /\ Serve(ftp, Again(ask.seq), FALSE) /\ sent' = Frame(ask.opcode, ftp.home)

(* The timer of the request.                                                 *)
RequestTimeout ==
    /\ ask # NoAsk /\ ask.got = Waiting
    /\ \/ Settle(Again(ask.seq), "failed") /\ UNCHANGED <<ftp, server, air>>
       \/ ask.left > 1 /\ Retransmit
    /\ said' = Quiet /\ UNCHANGED <<linkVars, transferVars>>

(* Wrong on purpose: any answer to the right kind of request will do.        *)
MatchesOpcode(x) == ask # NoAsk /\ ask.got = Waiting /\ x.opcode = ask.opcode

(* reqOpcode and expectedSeq of handleFtpPayload.                            *)
Matches(x) ==
    ask # NoAsk /\ ask.got = Waiting /\ x.opcode = ask.opcode /\ x.seq = Succ(ask.seq)

Written(g, off, data) ==
    [g EXCEPT !.missing = subtractInterval(@, off, off + 1),
              !.part = [@ EXCEPT ![off] = data]]

(* handleFtpPayload: the answer awaited, a chunk of the running burst, or    *)
(* nothing anybody waits for.                                                *)
HandleFtpPayload ==
    /\ air # <<>> /\ air' = Tail(air)
    /\ LET x == air[1] IN
       IF Heard /\ Matches(x)
       THEN /\ ask' = [ask EXCEPT !.got = [kind |-> x.kind, arg |-> x.arg, body |-> x.body]]
            /\ ftp' = [ftp EXCEPT !.seq = Advanced(@, x.seq)] /\ UNCHANGED get
       ELSE IF Heard /\ ftp.step = "burst" /\ x.opcode = "burst"
       THEN /\ ftp' = [ftp EXCEPT !.seq = Advanced(@, x.seq),
                                  !.step = IF x.kind = "ack" THEN "burst" ELSE "flush"]
            /\ get' = IF x.kind = "nak" THEN get ELSE Written(get, x.body[1], x.body[2])
            /\ UNCHANGED ask
       ELSE UNCHANGED <<ask, ftp, get>>
    /\ sent' = NoFrame /\ said' = Quiet
    /\ UNCHANGED <<linkVars, scan, del, downloads, server>>

(* The request is answered or given up and the operation goes on.            *)
Settled(opcode) == ftp.step = opcode /\ ask # NoAsk /\ ask.got # Waiting
Acked(opcode) == Settled(opcode) /\ ask.got.kind = "ack"

(* release().                                                                *)
Release == ftp' = [ftp EXCEPT !.op = Idle, !.step = Idle, !.home = Nobody] /\ ask' = NoAsk

(* claim().                                                                  *)
Claimed(op, step) ==
    [ftp EXCEPT !.op = op, !.step = step, !.cancelRequested = FALSE, !.home = target]
Claimable == ~ftpBusy /\ ~destroyed

(* Wrong on purpose: only the pending request is rejected.                   *)
FtpCancelPending ==
    /\ ask' = IF ask # NoAsk /\ ask.got = Waiting
              THEN [ask EXCEPT !.got = [Waiting EXCEPT !.kind = "cancelled"]] ELSE ask
    /\ UNCHANGED ftp

(* cancelAll().                                                              *)
FtpCancel ==
    /\ ftp' = [ftp EXCEPT !.cancelRequested = TRUE]
    /\ ask' = IF ask # NoAsk /\ ask.got = Waiting
              THEN [ask EXCEPT !.got = [Waiting EXCEPT !.kind = "cancelled"]] ELSE ask

(* The catch of a listing or a deletion: report and release.                 *)
Fails ==
    /\ Release /\ said' = [Quiet EXCEPT !.type = "fs_op_error"]
    /\ scan' = NoScan /\ del' = NoDelete /\ sent' = NoFrame
    /\ UNCHANGED <<linkVars, get, downloads, server, air>>
-----------------------------------------------------------------------------
(* collectDirectory.                                                         *)
Usable(page) == Drawn(page, {i \in DOMAIN page : page[i] # Skip})

(* Wrong on purpose: records that are dropped do not advance the offset.     *)
NextPageOfEntries(s, page) ==
    [s EXCEPT !.offset = @ + Len(Usable(page)), !.pages = @ + 1, !.found = @ \o Usable(page)]

(* The offset counts wire records, whatever becomes of them.                 *)
NextPage(s, page) ==
    [s EXCEPT !.offset = @ + Len(page), !.pages = @ + 1, !.found = @ \o Usable(page)]

AskPage(f, s) == Request(f, "list", <<s.dir, s.offset>>, Tries) /\ scan' = s

(* The directory after the answer.  It ends with the end the server reports  *)
(* and at the cap on entries.                                                *)
Listed == IF ask.got.kind = "ack" THEN NextPage(scan, ask.got.body) ELSE scan
DirectoryEnds ==
    /\ Settled("list")
    /\ ask.got.kind = "eof" \/ (ask.got.kind = "ack" /\ Len(Listed.found) >= MaxEntries)

PageListed ==
    /\ Acked("list") /\ ~DirectoryEnds /\ Listed.pages < MaxPages
    /\ AskPage(ftp, Listed)
    /\ said' = Quiet /\ UNCHANGED <<linkVars, get, del, downloads>>

(* A refusal, a timeout, a cancellation, or a directory of too many pages.   *)
ListFails ==
    /\ Settled("list") /\ ~DirectoryEnds
    /\ Acked("list") => Listed.pages >= MaxPages
    /\ Fails

StartList(d) ==
    /\ Claimable /\ AskPage(Claimed("list", Idle), [NoScan EXCEPT !.dir = d])
    /\ said' = Quiet /\ UNCHANGED <<linkVars, get, del, downloads>>

ListDone ==
    /\ ftp.op = "list" /\ DirectoryEnds
    /\ said' = [type |-> "fs_list", path |-> scan.dir, entries |-> Listed.found,
                clean |-> Len(Listed.found) < MaxEntries]
    /\ Release /\ scan' = NoScan /\ sent' = NoFrame
    /\ UNCHANGED <<linkVars, get, del, downloads, server, air>>
-----------------------------------------------------------------------------
(* Deletion.  expandDeleteTarget walks depth first; todo holds what it has   *)
(* yet to visit, a directory that has been listed stands behind its          *)
(* children, and work is the list of what to remove.                         *)
Entry(p, depth) == [path |-> p, depth |-> depth, listed |-> p \notin Dirs]

(* Entries of todo before the next directory to list.                        *)
Known(todo) == CHOOSE k \in 0..Len(todo) :
    /\ \A i \in 1..k : todo[i].listed
    /\ k < Len(todo) => ~todo[k + 1].listed

(* Wrong on purpose: only the depth is limited.                              *)
ExceedsDepth(d, k) == k < Len(d.todo) /\ d.todo[k + 1].depth >= MaxDepth

(* The limits on items and depth, met on the way to that directory.          *)
Exceeds(d, k) ==
    \/ \E i \in 1..k : d.todo[i].path \notin Dirs /\ Len(d.work) + i - 1 >= MaxItems
    \/ k < Len(d.todo) /\ (Len(d.work) + k >= MaxItems \/ d.todo[k + 1].depth >= MaxDepth)

Collected(d, k) ==
    [d EXCEPT !.work = @ \o [i \in 1..k |-> d.todo[i].path],
              !.todo = IF k = Len(@) THEN <<>>
                       ELSE <<[@[k + 1] EXCEPT !.listed = TRUE]>> \o SubSeq(@, k + 2, Len(@))]

AskRemove(f, d) ==
    LET p == d.work[d.done + 1] IN
    /\ Request(f, IF p \in Dirs THEN "removeDir" ELSE "removeFile", <<p>>, Tries) /\ del' = d

(* On to the next listing, or to the first removal.                          *)
Expands(f, d) ==
    LET k == Known(d.todo)
        e == Collected(d, k)
    IN
    IF Exceeds(d, k) THEN Fails
    ELSE /\ IF e.todo = <<>> THEN AskRemove(f, e) /\ scan' = NoScan
            ELSE AskPage(f, [NoScan EXCEPT !.dir = e.todo[1].path]) /\ del' = e
         /\ said' = Quiet /\ UNCHANGED <<linkVars, get, downloads>>

StartDelete(selection) ==
    /\ Claimable
    /\ Expands(Claimed("delete", Idle),
               [NoDelete EXCEPT !.wanted = ToSet(selection),
                                !.todo = [i \in DOMAIN selection |-> Entry(selection[i], 0)]])

(* A directory is listed: its children come before it.                       *)
ChildrenListed ==
    /\ ftp.op = "delete" /\ DirectoryEnds
    /\ LET children == Listed.found IN
       Expands(ftp, [del EXCEPT !.todo =
           [i \in DOMAIN children |-> Entry(children[i], del.todo[1].depth + 1)] \o @])

(* Wrong on purpose: a refusal counts as removed.                            *)
RemovedAnyhow == ask.got.kind \in {"ack", "absent", "nak"}

(* FileNotFound counts as removed.                                           *)
Removed == ask.got.kind \in {"ack", "absent"}

Removing == Settled("removeFile") \/ Settled("removeDir")

RemoveNext ==
    /\ Removing /\ Removed /\ del.done + 1 < Len(del.work)
    /\ AskRemove(ftp, [del EXCEPT !.done = @ + 1])
    /\ said' = Quiet /\ UNCHANGED <<linkVars, get, scan, downloads>>

RemoveFails == Removing /\ ~Removed /\ Fails

DeleteDone ==
    /\ Removing /\ Removed /\ del.done + 1 = Len(del.work)
    /\ said' = [Quiet EXCEPT !.type = "fs_delete_done", !.entries = SetToSeq(del.wanted)]
    /\ Release /\ del' = NoDelete /\ sent' = NoFrame
    /\ UNCHANGED <<linkVars, get, scan, downloads, server, air>>
-----------------------------------------------------------------------------
(* Download.                                                                 *)

(* The catch of runDownload, which first closes and unlinks the part file.   *)
Catch ==
    /\ ftp' = [ftp EXCEPT !.step = "cleanup"] /\ ask' = NoAsk
    /\ sent' = NoFrame /\ UNCHANGED <<get, server, air>>

Goes(step, g) ==
    /\ ftp' = [ftp EXCEPT !.step = step] /\ ask' = NoAsk /\ get' = g
    /\ sent' = NoFrame /\ UNCHANGED <<server, air>>

DownloadRest == said' = Quiet /\ UNCHANGED <<linkVars, scan, del, downloads>>

StartDownload(p) ==
    /\ Claimable
    /\ ftp' = Claimed("download", "dir") /\ get' = [NoDownload EXCEPT !.path = p]
    /\ sent' = NoFrame /\ DownloadRest /\ UNCHANGED <<ask, server, air>>

(* The next piece of a gap fill; the end of the pass with the last one and   *)
(* on a cancellation.                                                        *)
ReadNext(g) ==
    IF g.gaps = {} \/ ftp.cancelRequested THEN Goes("flush", g)
    ELSE Request(ftp, "read", <<g.path, FirstGap(g.gaps)[1]>>, Tries) /\ get' = g

(* BurstReadFile is written once, without a pending request.  The server     *)
(* streams, refuses, or never hears of it.                                   *)
Burst(g) ==
    LET f == [ftp EXCEPT !.seq = Allocated(@)]
        refusal == [opcode |-> "burst", arg |-> <<g.path>>, seq |-> Succ(ftp.seq),
                    kind |-> "nak", body |-> <<>>]
    IN
    /\ get' = g /\ ask' = NoAsk
    /\ \/ /\ ftp' = [f EXCEPT !.step = "flush"] /\ sent' = NoFrame
          /\ air' = Aged(f) /\ server' = Forgetful(f)
       \/ /\ Takes /\ ftp' = [f EXCEPT !.step = "burst"] /\ sent' = Frame("burst", ftp.home)
          /\ \/ air' = Aged(f) /\ server' = Forgetful(f)
             \/ /\ target = Server /\ link = "up"
                /\ \/ Sends(Aged(f), refusal) /\ server' = Forgetful(f)
                   \/ /\ server.open # Nobody /\ air' = Aged(f)
                      /\ server' = [Forgetful(f) EXCEPT !.stream = FirstGap(g.missing)[1],
                                                        !.bseq = ftp.seq]

(* The loop over the passes: the whole file is there, it is cancelled, or    *)
(* the next pass is a gap fill or a burst.                                   *)
NextPass(g) ==
    LET left == remainingBytes(g.missing)
        gap  == g.fallback \/ left <= GapFill
        h    == [g EXCEPT !.before = left, !.bursting = ~gap,
                          !.gaps = IF gap THEN g.missing ELSE {}]
    IN
    IF ftp.cancelRequested THEN Catch
    ELSE IF g.missing = {} THEN Request(ftp, "crc", <<g.path>>, Tries) /\ get' = g
    ELSE IF gap THEN ReadNext(h) ELSE Burst(h)

DirReady(ok) ==
    /\ ftp.step = "dir" /\ DownloadRest
    /\ IF ok THEN Request(ftp, "reset", <<>>, 2) /\ UNCHANGED get ELSE Catch

(* Whatever came of ResetSessions.                                           *)
ResetDone ==
    /\ Settled("reset") /\ DownloadRest
    /\ Request(ftp, "open", <<get.path>>, Tries) /\ UNCHANGED get

OpenDone ==
    /\ Settled("open") /\ DownloadRest
    /\ IF Acked("open") THEN Goes("allocate", [get EXCEPT !.opened = TRUE]) ELSE Catch

(* The capacity is checked and the part file opened.                         *)
Allocate(ok) ==
    /\ ftp.step = "allocate" /\ DownloadRest
    /\ IF ok THEN NextPass([get EXCEPT !.missing = {<<0, FileLen>>}]) ELSE Catch

ReadDone ==
    /\ Settled("read") /\ DownloadRest
    /\ LET gap  == FirstGap(get.gaps)
           rest == (get.gaps \ {gap})
                   \cup (IF gap[1] + 1 < gap[2] THEN {<<gap[1] + 1, gap[2]>>} ELSE {})
       IN CASE ask.got.kind = "ack" ->
                 ReadNext([Written(get, ask.got.body[1], ask.got.body[2]) EXCEPT !.gaps = rest])
            [] ask.got.kind \in {"eof", "failed"} -> Goes("flush", get)
            [] OTHER -> Catch

(* A burst pass ends without a last frame.                                   *)
BurstEnds == ftp.step = "burst" /\ DownloadRest /\ Goes("flush", get)

(* Wrong on purpose: passes that bring nothing are not counted.              *)
AfterPassUncounted(g) ==
    IF remainingBytes(g.missing) < g.before THEN [g EXCEPT !.passes = 0]
    ELSE IF g.bursting THEN [g EXCEPT !.fallback = TRUE, !.passes = 0] ELSE g

(* A pass that brought nothing: bursts give way to single reads, those are   *)
(* counted.                                                                  *)
AfterPass(g) ==
    IF remainingBytes(g.missing) < g.before THEN [g EXCEPT !.passes = 0]
    ELSE IF g.bursting THEN [g EXCEPT !.fallback = TRUE, !.passes = 0]
    ELSE [g EXCEPT !.passes = @ + 1]

(* The queued writes of the pass are on disk, or failed or were too many.    *)
Flush(ok) ==
    /\ ftp.step = "flush" /\ DownloadRest
    /\ LET g == AfterPass(get) IN
       IF ~ok \/ g.passes >= MaxPasses THEN Catch ELSE NextPass(g)

CrcDone ==
    /\ Settled("crc") /\ DownloadRest
    /\ IF Acked("crc") THEN Goes("verify", get) ELSE Catch

(* Wrong on purpose: a file that was fetched completely is taken as good.    *)
SameCrcUnasked(g) == TRUE

(* The checksums of the part file and of the file on the server agree.       *)
SameCrc(g) == g.part = [u \in Units |-> g.path]

(* The finally of runDownload.                                               *)
Terminate(g) ==
    IF g.opened THEN Request([ftp EXCEPT !.cancelRequested = FALSE], "terminate", <<>>, 1)
                     /\ get' = g
    ELSE Release /\ get' = NoDownload /\ sent' = NoFrame /\ UNCHANGED <<server, air>>

(* registerDownload: the oldest ones are evicted.                            *)
Registered(d) ==
    LET all == Append(downloads, d)
        n == Len(all)
    IN IF n > MaxRetained THEN SubSeq(all, n - MaxRetained + 1, n) ELSE all

(* crc32File and rename.                                                     *)
Verify(ok) ==
    /\ ftp.step = "verify"
    /\ IF ok /\ SameCrc(get)
       THEN /\ downloads' = Registered([path |-> get.path, part |-> get.part])
            /\ Terminate([get EXCEPT !.complete = TRUE])
       ELSE Catch /\ UNCHANGED downloads
    /\ said' = Quiet /\ UNCHANGED <<linkVars, scan, del>>

Cleanup ==
    /\ ftp.step = "cleanup" /\ Terminate(get)
    /\ said' = [Quiet EXCEPT !.type = "fs_op_error"]
    /\ UNCHANGED <<linkVars, scan, del, downloads>>

TerminateDone ==
    /\ Settled("terminate") /\ Release /\ get' = NoDownload /\ sent' = NoFrame
    /\ said' = [Quiet EXCEPT !.type = IF get.complete THEN "fs_download_complete" ELSE "none"]
    /\ UNCHANGED <<linkVars, scan, del, downloads, server, air>>

(* consumeDownload, when the page takes an artifact.                         *)
ConsumeDownload ==
    /\ \E i \in DOMAIN downloads : downloads' = RemoveAt(downloads, i)
    /\ said' = Quiet /\ sent' = NoFrame
    /\ UNCHANGED <<linkVars, ftp, ask, get, scan, del, server, air>>
-----------------------------------------------------------------------------
(* The operation goes on after an await.                                     *)
FtpResumes ==
    \/ PageListed \/ ListFails \/ ListDone
    \/ ChildrenListed \/ RemoveNext \/ RemoveFails \/ DeleteDone
    \/ ResetDone \/ OpenDone \/ ReadDone \/ CrcDone \/ Cleanup \/ TerminateDone
    \/ \E ok \in BOOLEAN : DirReady(ok) \/ Allocate(ok) \/ Flush(ok) \/ Verify(ok)

FtpStep ==
    \/ FtpResumes \/ RequestTimeout \/ BurstEnds \/ HandleFtpPayload \/ ServerStreams
    \/ ConsumeDownload
=============================================================================
