------------------------------ MODULE ParamLink ------------------------------
(***************************************************************************)
(* The parameters of MavlinkBridge: PARAM_SET transactions, confirmed by   *)
(* the value a PARAM_VALUE carries; the airframe transaction that writes   *)
(* two of them and restores the first when the second fails; the download  *)
(* of the whole list.  Their frames are written with the same priority and *)
(* keep their order; each may be lost.                                     *)
(*                                                                         *)
(* A request the bridge turns away changes nothing and is no step.  The    *)
(* reboot that ends the airframe of a PX4 is a command of CommandLink,     *)
(* seen here by whether the bridge could queue it.                         *)
(***************************************************************************)
EXTENDS BridgeBase, FiniteSets

CONSTANTS
    NParams,      \* parameters of the vehicle; the first two are the airframe
    Values,       \* what a parameter may be
    Airframes,    \* values of the first two the page may ask for
    MaxPending,   \* MAX_PENDING_PARAM_SETS
    SetAttempts,  \* transmissions of one PARAM_SET: 3 in the code
    MaxStalls,    \* PARAM_MAX_STALL_RETRIES
    MaxReads,     \* PARAM_MAX_READ_REQUESTS
    Batch,        \* parameters asked for again at a time
    MaxLoads,     \* bound: downloads
    MaxAir        \* bound: frames on their way in one direction

NoVal == "no value"

ASSUME ParamAssumption ==
    /\ NParams \in Nat /\ NParams >= 2
    /\ \A p \in Pages : p.has \subseteq [0 .. NParams - 1 -> Values]
    /\ Values \cap {NoVal, "doubt"} = {}
    /\ Airframes \subseteq [{0, 1} -> Values]
    /\ MaxPending \in Nat \ {0} /\ SetAttempts \in Nat \ {0} /\ Batch \in Nat \ {0}
    /\ MaxStalls \in Nat /\ MaxReads \in Nat /\ MaxLoads \in Nat /\ MaxAir \in Nat

Params == 0 .. NParams - 1
First == 0
Second == 1

VARIABLES
    cache,    \* parameterValues
    pset,     \* pendingParamSets
    frame,    \* activeAirframeTransaction, with the closure of applyAirframe
    frames,   \* airframe transactions so far
    load,     \* the parameter download
    loads,    \* downloads so far
    down, up, \* frames to and from the vehicle
    actual,   \* external: the parameters of the vehicle
    known,    \* history: the value last confirmed, and by whom, of each parameter;
              \* "doubt" once a write of it ended without confirmation
    report,   \* history: how the last airframe transaction ended
    baseless  \* history: one was abandoned although its context was safe

paramVars == <<cache, pset, frame, frames, load, loads, down, up, actual, known, report, baseless>>

NoSet == [val |-> NoVal, n |-> 0, by |-> 0]
NoFrame == [id |-> 0, phase |-> "none", old |-> <<>>, new |-> <<>>, intact |-> TRUE]
NoLoad == [active |-> FALSE, counted |-> FALSE, got |-> {}, stalls |-> 0, cursor |-> 0,
           reads |-> 0, complete |-> FALSE]

Unsure == [val |-> NoVal, by |-> 0]
Doubt == [val |-> "doubt", by |-> 0]

SetFrame(p, v, n) == [kind |-> "set", param |-> p, val |-> v, n |-> n]
ListFrame == [kind |-> "list", param |-> First, val |-> NoVal, n |-> 0]
ReadFrame(p) == [kind |-> "read", param |-> p, val |-> NoVal, n |-> 0]
ValueFrame(p, v, listed) == [param |-> p, val |-> v, listed |-> listed]

(* evaluateParamWritePolicy for raw writes and verified setups.              *)
Writable == ready /\ ~armed

(* sendParamSet takes a write: the type of the parameter is known, no other  *)
(* write of it is pending, there is room, and the Worker takes the frame.    *)
Takes(ps, p, taken) ==
    /\ cache[p] # NoVal
    /\ ps[p] = NoSet
    /\ Cardinality({q \in Params : ps[q] # NoSet}) < MaxPending
    /\ p \in taken

(* A write of p ends, or one of it is sent.                                  *)
Judged(p, ok) ==
    [known EXCEPT ![p] = IF @ = Doubt \/ ~ok THEN Doubt
                         ELSE [val |-> pset[p].val, by |-> pset[p].by]]
Awaited(k, p) == [k EXCEPT ![p] = IF @ = Doubt THEN Doubt ELSE Unsure]

(* airframeContextIsSafe, without the identity of the transaction.           *)
Safe == frame.id # 0 /\ frame.intact /\ ready /\ ~armed

(* abortAirframeTransaction.                                                 *)
Abort ==
    /\ frame' = NoFrame
    /\ report' = IF frame.id # 0 THEN "abandoned" ELSE report
-----------------------------------------------------------------------------
(* The next write of the airframe transaction.                               *)
Write(ps, k, p, v, phase) ==
    /\ pset' = [ps EXCEPT ![p] = [val |-> v, n |-> 1, by |-> frame.id]]
    /\ known' = Awaited(k, p)
    /\ down' = Append(down, SetFrame(p, v, 1))
    /\ frame' = [frame EXCEPT !.phase = phase]
    /\ UNCHANGED <<report, ready>>

End(ps, k, how) ==
    /\ pset' = ps /\ known' = k
    /\ frame' = NoFrame /\ report' = how
    /\ UNCHANGED down

(* Wrong on purpose: a failure of the second write restores nothing.         *)
RestoreNothing(ps, k, taken) == End(ps, k, "failed") /\ UNCHANGED ready

(* finishFailure: what was confirmed is restored.                            *)
Restore(ps, k, taken) ==
    \/ Takes(ps, First, taken) /\ Write(ps, k, First, frame.old[First], "undo")
    \/ ~Takes(ps, First, taken) /\ End(ps, k, "dirty") /\ UNCHANGED ready

(* The completion of a write of the airframe transaction that is active and  *)
(* safe: the next write, the restoration, or its end.                        *)
Continue(ps, k, ok, taken) ==
    \/ /\ frame.phase = "first" /\ ok
       /\ \/ Takes(ps, Second, taken) /\ Write(ps, k, Second, frame.new[Second], "second")
          \/ ~Takes(ps, Second, taken) /\ Restore(ps, k, taken)
    \/ frame.phase = "first" /\ ~ok /\ End(ps, k, "failed") /\ UNCHANGED ready
    \/ frame.phase = "second" /\ ok
       /\ \/ End(ps, k, "done") /\ ready' \in {FALSE, ready}
          \/ End(ps, k, "no reboot") /\ UNCHANGED ready
    \/ frame.phase = "second" /\ ~ok /\ Restore(ps, k, taken)
    \/ frame.phase = "undo" /\ End(ps, k, IF ok THEN "failed" ELSE "dirty") /\ UNCHANGED ready

(* emitParamSetResult: a PARAM_SET transaction ends, and its completion runs. *)
(* One of an airframe transaction that is over or no longer safe aborts the  *)
(* airframe transaction that is active, whichever that is.                   *)
Settle(p, ok, taken) ==
    LET by == pset[p].by
        ps == [pset EXCEPT ![p] = NoSet]
        k == Judged(p, ok)
    IN  \/ /\ by = 0
           /\ pset' = ps /\ known' = k
           /\ UNCHANGED <<frame, report, baseless, down, ready>>
        \/ /\ by # 0 /\ ~(by = frame.id /\ Safe)
           /\ pset' = ps /\ known' = k
           /\ Abort
           /\ baseless' = (baseless \/ Safe)
           /\ UNCHANGED <<down, ready>>
        \/ /\ by # 0 /\ by = frame.id /\ Safe
           /\ Continue(ps, k, ok, taken)
           /\ UNCHANGED baseless
-----------------------------------------------------------------------------
(* param_set, vehicle_config_set.                                            *)
SetParam(p, v) ==
    /\ \E r \in Requests : NextRequest(r)
    /\ Writable
    /\ Takes(pset, p, Params)
    /\ pset' = [pset EXCEPT ![p] = [val |-> v, n |-> 1, by |-> 0]]
    /\ known' = Awaited(known, p)
    /\ down' = Append(down, SetFrame(p, v, 1))
    /\ UNCHANGED <<target, ready, armed, switches, cache, frame, frames, load, loads, up,
                   actual, report, baseless>>

(* applyAirframe.                                                            *)
ApplyAirframe(new, taken) ==
    /\ \E r \in Requests : NextRequest(r)
    /\ Writable /\ frame.id = 0
    /\ cache[First] # NoVal /\ cache[Second] # NoVal
    /\ frames' = frames + 1
    /\ \/ /\ Takes(pset, First, taken)
          /\ frame' = [id |-> frames + 1, phase |-> "first", new |-> new,
                       old |-> [p \in {First, Second} |-> cache[p]], intact |-> TRUE]
          /\ pset' = [pset EXCEPT ![First] = [val |-> new[First], n |-> 1, by |-> frames + 1]]
          /\ known' = Awaited(known, First)
          /\ down' = Append(down, SetFrame(First, new[First], 1))
          /\ UNCHANGED report
       \/ /\ ~Takes(pset, First, taken)
          /\ report' = "failed"
          /\ UNCHANGED <<frame, pset, known, down>>
    /\ UNCHANGED <<target, ready, armed, switches, cache, load, loads, up, actual, baseless>>

(* handleParamSetTimeout.  A retransmission passes no gate again.            *)
SetTimeout(p, taken) ==
    /\ pset[p] # NoSet
    /\ \/ /\ pset[p].n < SetAttempts /\ p \in taken
          /\ pset' = [pset EXCEPT ![p].n = @ + 1]
          /\ down' = Append(down, SetFrame(p, pset[p].val, pset[p].n + 1))
          /\ UNCHANGED <<ready, frame, known, report, baseless>>
       \/ /\ pset[p].n >= SetAttempts \/ p \notin taken
          /\ Settle(p, FALSE, taken)
    /\ UNCHANGED <<target, armed, asked, switches, cache, frames, load, loads, up, actual>>

(* The safety generation advances with a target conflict, and with the       *)
(* authority of the page (invalidateAirframeTransaction).                    *)
ConflictChanges ==
    /\ frame.id # 0 /\ frame.intact
    /\ frame' = [frame EXCEPT !.intact = FALSE]
    /\ UNCHANGED <<baseVars, cache, pset, frames, load, loads, down, up, actual, known, report,
                   baseless>>

InvalidateAirframe ==
    /\ frame.id # 0
    /\ Abort
    /\ UNCHANGED <<baseVars, cache, pset, frames, load, loads, down, up, actual, known, baseless>>
-----------------------------------------------------------------------------
(* sendParamRequestList: a download that runs is replaced without a word.    *)
StartLoad(taken) ==
    /\ ready /\ loads < MaxLoads /\ loads' = loads + 1
    /\ load' = [NoLoad EXCEPT !.active = TRUE]
    /\ down' = IF taken THEN Append(down, ListFrame) ELSE down
    /\ UNCHANGED <<baseVars, cache, pset, frame, frames, up, actual, known, report, baseless>>

(* The parameters the next requests name: a batch of the missing ones, from  *)
(* the cursor on.                                                            *)
Missing == EntriesAt([i \in 1..NParams |-> i - 1], {i \in 1..NParams : i - 1 \notin load.got})
Wanted ==
    LET m == Len(Missing)
    IN  [i \in 1 .. (IF Batch < m THEN Batch ELSE m) |->
            ReadFrame(Missing[((load.cursor + i - 1) % m) + 1])]

(* retryMissingParams: the list again as long as no value has come, then the *)
(* missing ones, until the retries, the requests or the time are used up.    *)
RetryMissing(late, taken) ==
    /\ load.active
    /\ IF late \/ load.reads >= MaxReads \/ load.stalls >= MaxStalls
       THEN load' = NoLoad /\ UNCHANGED down
       ELSE LET asks == IF load.counted THEN Wanted ELSE <<ListFrame>> IN
            /\ down' = IF taken THEN down \o asks ELSE down
            /\ load' = [load EXCEPT
                   !.stalls = @ + 1,
                   !.cursor = IF load.counted THEN (@ + Len(asks)) % Len(Missing) ELSE @,
                   !.reads = IF load.counted /\ taken THEN @ + Len(asks) ELSE @]
    /\ UNCHANGED <<baseVars, cache, pset, frame, frames, loads, up, actual, known, report, baseless>>

(* Wrong on purpose: values are counted, not parameters.                     *)
LoadedByCount(m) ==
    LET got == load.got \cup {IF First \in load.got THEN Second ELSE First}
        new == load.active /\ m.listed
    IN  IF ~load.active THEN load
        ELSE IF got = Params THEN [NoLoad EXCEPT !.complete = TRUE]
        ELSE [load EXCEPT !.counted = @ \/ m.listed, !.got = got, !.stalls = IF new THEN 0 ELSE @]

(* handleParamValue: what a value means for the download.                    *)
Loaded(m) ==
    LET got == IF m.listed THEN load.got \cup {m.param} ELSE load.got
    IN  IF ~load.active THEN load
        ELSE IF got = Params THEN [NoLoad EXCEPT !.complete = TRUE]
        ELSE [load EXCEPT !.counted = @ \/ m.listed, !.got = got,
                          !.stalls = IF got # load.got THEN 0 ELSE @]

(* Wrong on purpose: any value of the parameter confirms a write of it.      *)
EchoesAnything(m) == pset[m.param] # NoSet

Echoes(m) == pset[m.param] # NoSet /\ m.val = pset[m.param].val

(* handleParamValue: the cache, the write that waits for it, the download.   *)
HandleValue(taken) ==
    LET m == Head(up) IN
    /\ up # <<>> /\ up' = Tail(up)
    /\ cache' = [cache EXCEPT ![m.param] = m.val]
    /\ IF Echoes(m) THEN Settle(m.param, TRUE, taken)
       ELSE UNCHANGED <<ready, pset, frame, down, known, report, baseless>>
    /\ load' = Loaded(m)
    /\ UNCHANGED <<target, armed, asked, switches, frames, loads, actual>>

ValueLost ==
    /\ up # <<>> /\ up' = Tail(up)
    /\ UNCHANGED <<baseVars, cache, pset, frame, frames, load, loads, down, actual, known, report,
                   baseless>>

(* External: the vehicle takes the next frame, or it was lost.  It may keep  *)
(* its value of a parameter, and tells the one it has; what it tells of a    *)
(* write may or may not name the place in the list.                          *)
VehicleTakes(heard, applies, listed) ==
    LET f == Head(down)
        v == IF applies THEN f.val ELSE actual[f.param]
    IN  /\ down # <<>> /\ down' = Tail(down)
        /\ \/ ~heard /\ UNCHANGED <<actual, up>>
           \/ /\ heard /\ f.kind = "set"
              /\ actual' = [actual EXCEPT ![f.param] = v]
              /\ up' = Append(up, ValueFrame(f.param, v, listed))
           \/ /\ heard /\ f.kind = "read"
              /\ up' = Append(up, ValueFrame(f.param, actual[f.param], TRUE))
              /\ UNCHANGED actual
           \/ /\ heard /\ f.kind = "list"
              /\ up' = up \o [i \in 1..NParams |-> ValueFrame(i - 1, actual[i - 1], TRUE)]
              /\ UNCHANGED actual
        /\ UNCHANGED <<baseVars, cache, pset, frame, frames, load, loads, known, report, baseless>>
-----------------------------------------------------------------------------
(* What a heartbeat of the selected vehicle does to them.                    *)
ParamsHear(isArmed, changed) ==
    /\ IF changed \/ BecomesArmed(isArmed) THEN Abort ELSE UNCHANGED <<frame, report>>
    /\ UNCHANGED <<cache, pset, frames, load, loads, down, up, actual, known, baseless>>

(* What the selection of a target does to them: everything ends, and the     *)
(* values are forgotten.                                                     *)
ParamsReset ==
    /\ Abort
    /\ pset' = [p \in Params |-> NoSet]
    /\ known' = [p \in Params |-> IF pset[p] # NoSet THEN Doubt ELSE known[p]]
    /\ load' = NoLoad
    /\ cache' = [p \in Params |-> NoVal]
    /\ UNCHANGED <<frames, loads, down, up, actual, baseless>>

(* A page that downloads the parameters finds an empty cache, another one    *)
(* comes after a download.                                                   *)
ParamInit ==
    /\ actual \in page.has
    /\ cache = IF "load" \in page.uses THEN [p \in Params |-> NoVal] ELSE actual
    /\ pset = [p \in Params |-> NoSet]
    /\ frame = NoFrame /\ frames = 0 /\ load = NoLoad /\ loads = 0
    /\ down = <<>> /\ up = <<>>
    /\ known = [p \in Params |-> Unsure] /\ report = "none" /\ baseless = FALSE

AskParam ==
    /\ Len(down) < MaxAir
    /\ \/ "set" \in page.uses /\ \E p \in Params, v \in Values : SetParam(p, v)
       \/ "airframe" \in page.uses
          /\ \E new \in Airframes, taken \in SUBSET {First} :
                ApplyAirframe(new, taken)
       \/ "load" \in page.uses /\ \E taken \in BOOLEAN : StartLoad(taken)

ParamTimers ==
    /\ Len(down) < MaxAir
    /\ \/ \E p \in Params, taken \in SUBSET Params : SetTimeout(p, taken)
       \/ \E late, taken \in BOOLEAN : RetryMissing(late, taken)

ParamsOutside ==
    \/ \E heard, applies, listed \in BOOLEAN : Len(up) < MaxAir /\ VehicleTakes(heard, applies, listed)
    \/ \E taken \in SUBSET Params : Len(down) < MaxAir /\ HandleValue(taken)
    \/ ValueLost \/ ConflictChanges \/ InvalidateAirframe

ParamNext == AskParam \/ ParamTimers \/ ParamsOutside
-----------------------------------------------------------------------------
(* Types of the parameter requests.                                          *)
ParamTypeOK ==
    /\ cache \in [Params -> Values \cup {NoVal}] /\ actual \in [Params -> Values]
    /\ pset \in [Params -> [val : Values \cup {NoVal}, n : 0..SetAttempts, by : 0..frames]]
    /\ Cardinality({p \in Params : pset[p] # NoSet}) <= MaxPending
    /\ frame.id \in 0..frames
    /\ load.got \subseteq Params /\ load.stalls \in 0..MaxStalls
    /\ load.got # Params

(* A write the page was told is confirmed is in the vehicle, whatever other  *)
(* values of the parameter were on their way; only a write that ended        *)
(* unconfirmed leaves a parameter in doubt.                                  *)
ConfirmedIsApplied ==
    \A p \in Params : known[p].val \in Values => actual[p] = known[p].val

(* An airframe transaction ends as it is reported: done, when the vehicle    *)
(* has both values; failed without rollback failures, when the first value   *)
(* is what it was.  Excepted are parameters in doubt, and those the page     *)
(* wrote otherwise in the meantime.                                          *)
AirframeAsReported ==
    [][frame.id # 0 /\ frame'.id = 0 =>
          /\ report' = "done" =>
                \A p \in {First, Second} : known'[p].by = frame.id => actual[p] = frame.new[p]
          /\ report' = "failed" /\ known'[First].by = frame.id => actual[First] = frame.old[First]
      ]_paramVars

(* What evaluateParamWritePolicy says of itself: every PARAM_SET passes it   *)
(* immediately before transmission.                                          *)
WrittenDisarmed ==
    [][Len(down') > Len(down) /\ Last(down').kind = "set" => ~armed]_paramVars

(* An airframe transaction is abandoned for a change of its safety context,  *)
(* as the reason safety_context_changed_no_rollback says.                    *)
AbandonedForCause == ~baseless

(* A download that is complete has left the values of the vehicle in the     *)
(* cache, except of parameters with a write that is pending or in doubt.     *)
LoadedIsCurrent ==
    [][load.active /\ load'.complete =>
          \A p \in Params : pset'[p] = NoSet /\ known'[p] # Doubt => cache'[p] = actual[p]]_paramVars

(* What an airframe transaction or a download reports is so.                 *)
OutcomesReported == AirframeAsReported /\ LoadedIsCurrent
=============================================================================
