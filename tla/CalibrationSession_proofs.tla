---------------------- MODULE CalibrationSession_proofs ----------------------
(***************************************************************************)
(* What a sensor calibration guarantees for every number of sessions,      *)
(* pages, positions and compasses, and whatever the vehicle sends.         *)
(***************************************************************************)
EXTENDS CalibrationSession, TLAPS

Runs(x) == x.phase # "none" /\ ~Ended(x)

Watched(x) ==
    /\ IF x.flow = "oneShot" THEN "start" \in x.timers
       ELSE IF x.cancelling THEN "cancel" \in x.timers
       ELSE "overall" \in x.timers /\ {"start", "idle"} \cap x.timers # {}
    /\ x.accepting => {"accept", "settle"} \cap x.timers # {}

Verdict(x) ==
    /\ x.ver = "verified" => x.told
    /\ x.phase = "done" => x.ver = "verified"
    /\ x.phase = "accepted" => x.ver = "ack_only" /\ x.acked
    /\ x.phase = "done" /\ x.flow = "mag" => x.accepting /\ AllExpected(x, {"saved"})

(* What the flow of a session allows, and what its phase promises.           *)
Allowed(x) ==
    /\ x.cancelling => CancelSupported(x.flow)
    /\ x.accepting => x.flow = "mag"

FlowFits(x) ==
    /\ Allowed(x)
    /\ "settle" \in x.timers => x.acked /\ x.accepting
    /\ x.phase = "awaiting_accept" => x.flow = "mag" /\ AllExpected(x, {"success", "saved"})
    /\ x.phase = "waiting_position" => x.open /\ x.asked = x.last

(* A session in order, but for what was published of it.                     *)
Sane(x) ==
    /\ x \in Session /\ ~({"accept", "settle"} \subseteq x.timers)
    /\ IF Runs(x) THEN Watched(x) ELSE x.timers = {}
    /\ Verdict(x) /\ FlowFits(x)

Published(x) == x.phase # "none" => x.shown = View(x) \/ "flush" \in x.timers

Good(x) == Sane(x) /\ Published(x)

(* What no message changes.                                                  *)
Keeps(x, y) ==
    /\ y.flow = x.flow /\ y.owner = x.owner /\ y.phase # "none"
    /\ x.cancelling => y.cancelling

Grace == Live /\ Orphaned /\ recover => orphanTimer

IInv ==
    /\ sessions \in Nat /\ refreshes \in Nat
    /\ {active, fed, recover, orphanTimer, retained} \subseteq BOOLEAN
    /\ sent \in Positions \cup {"none", "start", "cancel", "accept"}
    /\ Good(s) /\ OneSession /\ OrphanHandled /\ Grace

-----------------------------------------------------------------------------
(* Publishing puts the session in order.                                     *)
LEMMA EmitGood ==
    ASSUME NEW x, Sane(x), Runs(x)
    PROVE  Good(Emit(x)) /\ Keeps(x, Emit(x)) /\ Runs(Emit(x))
<1> DEFINE y == Emit(x)
<1>1. x \in Session
  BY DEF Sane
<1>2. /\ y \in Session /\ y.timers = x.timers \ {"flush"} /\ y.shown = View(y)
      /\ y.flow = x.flow /\ y.owner = x.owner /\ y.phase = x.phase /\ y.ver = x.ver
      /\ y.cancelling = x.cancelling /\ y.asked = x.asked /\ y.last = x.last
      /\ y.mask = x.mask /\ y.mags = x.mags /\ y.accepting = x.accepting
      /\ y.told = x.told /\ y.acked = x.acked /\ y.open = x.open
  BY <1>1 DEF Session, Emit, View, Views
<1> HIDE DEF y
<1>3. Runs(y) /\ Keeps(x, y)
  BY <1>2 DEF Runs, Ended, Keeps
<1>4. Watched(y) /\ ~({"accept", "settle"} \subseteq y.timers)
  BY <1>2 DEF Sane, Watched
<1>5. AllExpected(x, {"saved"}) = AllExpected(y, {"saved"})
      /\ AllExpected(x, {"success", "saved"}) = AllExpected(y, {"success", "saved"})
  BY <1>2 DEF AllExpected
<1>6. Verdict(y) /\ FlowFits(y)
  BY <1>2, <1>5 DEF Sane, Verdict, FlowFits, Allowed
<1>7. QED BY <1>2, <1>3, <1>4, <1>6 DEF Good, Sane, Published, y

(* A session ends in order.                                                  *)
LEMMA FinishGood ==
    ASSUME NEW x \in Session, Allowed(x),
           NEW phase \in Terminal, NEW ver \in Verdicts,
           ver = "verified" => x.told,
           phase = "done" => ver = "verified",
           phase = "accepted" => ver = "ack_only" /\ x.acked,
           phase = "done" /\ x.flow = "mag" => x.accepting /\ AllExpected(x, {"saved"})
    PROVE  Good(Finish(x, phase, ver)) /\ Keeps(x, Finish(x, phase, ver))
           /\ Finish(x, phase, ver).phase = phase
<1> DEFINE w == [x EXCEPT !.phase = phase, !.ver = ver, !.timers = {}]
           y == Emit(w)
<1>1. /\ w \in Session /\ w.timers = {} /\ w.phase = phase /\ w.ver = ver
      /\ w.flow = x.flow /\ w.owner = x.owner
      /\ w.cancelling = x.cancelling
      /\ w.mask = x.mask /\ w.mags = x.mags /\ w.accepting = x.accepting
      /\ w.told = x.told /\ w.acked = x.acked
  BY ZenonT(60) DEF Session, Phases, Terminal
<1> HIDE DEF w
<1>2. /\ y \in Session /\ y.timers = {} /\ y.shown = View(y)
      /\ y.flow = w.flow /\ y.owner = w.owner /\ y.phase = w.phase /\ y.ver = w.ver
      /\ y.cancelling = w.cancelling
      /\ y.mask = w.mask /\ y.mags = w.mags /\ y.accepting = w.accepting
      /\ y.told = w.told /\ y.acked = w.acked
  BY <1>1, ZenonT(60) DEF Session, Emit, View, Views
<1>3. y = Finish(x, phase, ver)
  BY DEF Finish, w
<1> HIDE DEF y
<1>4. Ended(y) /\ y.phase # "none" /\ y.phase # "awaiting_accept" /\ y.phase # "waiting_position"
  BY <1>1, <1>2 DEF Ended, Terminal
<1>5. AllExpected(x, {"saved"}) = AllExpected(y, {"saved"})
  BY <1>1, <1>2 DEF AllExpected
<1>6. Verdict(y) /\ FlowFits(y) /\ Keeps(x, y)
  BY <1>1, <1>2, <1>4, <1>5 DEF Verdict, FlowFits, Allowed, Keeps
<1>7. QED BY <1>1, <1>2, <1>3, <1>4, <1>6 DEF Good, Sane, Published, Runs

(* So does one that fails, whatever it was doing.                            *)
LEMMA FailGood ==
    ASSUME NEW x \in Session, Allowed(x), NEW ver \in Verdicts, ver = "verified" => x.told
    PROVE  Good(Fail(x, ver)) /\ Keeps(x, Fail(x, ver)) /\ Fail(x, ver).phase = "failed"
BY FinishGood DEF Fail, Terminal

(* A sign of life moves the watchdogs and nothing else.                      *)
LEMMA EvidenceFields ==
    ASSUME NEW x \in Session
    PROVE  /\ Evidence(x) = [x EXCEPT !.timers = Evidence(x).timers]
           /\ Evidence(x).timers = IF x.cancelling THEN x.timers
                                   ELSE (x.timers \ {"start"}) \cup {"idle"}
           /\ Evidence(x) \in Session
BY ZenonT(60) DEF Evidence, Armed, Cleared, Session, Timers

LEMMA ToldGood ==
    ASSUME NEW x, Good(x), Runs(x), x.flow # "oneShot"
    PROVE  /\ Good(Told(x)) /\ Keeps(x, Told(x)) /\ Runs(Told(x))
           /\ Told(x).told /\ Told(x) \in Session
           /\ Told(x).phase = x.phase /\ Told(x).sides = x.sides
           /\ Told(x).mask = x.mask /\ Told(x).mags = x.mags
           /\ Told(x).accepting = x.accepting /\ Told(x).last = x.last
<1> DEFINE y == Told(x)
<1>1. x \in Session
  BY DEF Good, Sane
<1>2. /\ y \in Session /\ y.told /\ y.shown = x.shown /\ View(y) = View(x)
      /\ y.timers = IF x.cancelling THEN x.timers ELSE (x.timers \ {"start"}) \cup {"idle"}
      /\ y.flow = x.flow /\ y.owner = x.owner /\ y.phase = x.phase /\ y.ver = x.ver
      /\ y.cancelling = x.cancelling /\ y.asked = x.asked /\ y.last = x.last
      /\ y.mask = x.mask /\ y.mags = x.mags /\ y.accepting = x.accepting /\ y.sides = x.sides
      /\ y.acked = x.acked /\ y.open = x.open
  BY <1>1, ZenonT(60) DEF Told, Evidence, Armed, Cleared, Session, Timers, View
<1> HIDE DEF y
<1>3. Runs(y) /\ Keeps(x, y)
  BY <1>2 DEF Runs, Ended, Keeps
<1>4. Watched(y) /\ ~({"accept", "settle"} \subseteq y.timers)
  BY <1>2 DEF Good, Sane, Watched
<1>5. AllExpected(x, {"saved"}) = AllExpected(y, {"saved"})
      /\ AllExpected(x, {"success", "saved"}) = AllExpected(y, {"success", "saved"})
  BY <1>2 DEF AllExpected
<1>6. Verdict(y) /\ FlowFits(y) /\ Published(y)
  BY <1>2, <1>5 DEF Good, Sane, Verdict, FlowFits, Allowed, Published
<1>7. QED BY <1>2, <1>3, <1>4, <1>6 DEF Good, Sane, y

-----------------------------------------------------------------------------
(* The lines of PX4.                                                         *)
LEMMA TextGood ==
    ASSUME NEW x, Good(x), Runs(x), x.flow = "px4"
    PROVE  /\ \A v \in SUBSET Positions : Good(LineStarted(x, v)) /\ Keeps(x, LineStarted(x, v))
           /\ \A p \in Positions, st \in {"active", "done"} :
                Good(LineSide(x, p, st)) /\ Keeps(x, LineSide(x, p, st))
           /\ \A pct \in Nat : Good(LineProgress(x, pct)) /\ Keeps(x, LineProgress(x, pct))
           /\ Good(LineDone(x)) /\ Keeps(x, LineDone(x))
<1> DEFINE y == Told(x)
<1>1. /\ Good(y) /\ Keeps(x, y) /\ Runs(y) /\ y.told /\ y \in Session
      /\ y.phase = x.phase /\ y.sides = x.sides /\ y.flow = "px4"
  BY ToldGood DEF Keeps
<1> HIDE DEF y
<1>2. ASSUME NEW v \in SUBSET Positions
      PROVE  Good(LineStarted(x, v)) /\ Keeps(x, LineStarted(x, v))
  <2> DEFINE phase == IF y.phase = "starting" THEN "running" ELSE y.phase
             shown == [p \in Positions |-> IF p \in v THEN "pending" ELSE "hidden"]
             z == [y EXCEPT !.phase = phase, !.sides = shown]
  <2>1. phase \in Phases /\ shown \in [Positions -> SideStates]
    BY <1>1 DEF Session, Phases, SideStates
  <2>2. LineStarted(x, v) = Emit(z)
    BY DEF LineStarted, y
  <2>3. phase = (IF y.phase = "starting" THEN "running" ELSE y.phase)
    OBVIOUS
  <2> HIDE DEF phase, shown
  <2>4. /\ z \in Session /\ z.timers = y.timers /\ z.flow = y.flow /\ z.owner = y.owner
        /\ z.phase = phase /\ z.ver = y.ver
        /\ z.cancelling = y.cancelling /\ z.asked = y.asked /\ z.last = y.last
        /\ z.mask = y.mask /\ z.mags = y.mags /\ z.accepting = y.accepting
        /\ z.told = y.told /\ z.acked = y.acked /\ z.open = y.open
    BY <1>1, <2>1 DEF Session
  <2> HIDE DEF z
  <2>5. Sane(z) /\ Runs(z) /\ Keeps(x, z)
    BY <1>1, <2>3, <2>4
       DEF Good, Sane, Runs, Ended, Terminal, Watched, Verdict, FlowFits, Allowed, AllExpected, Keeps
  <2>6. QED BY <2>2, <2>5, EmitGood DEF Keeps
<1>3. ASSUME NEW p \in Positions, NEW st \in {"active", "done"}
      PROVE  Good(LineSide(x, p, st)) /\ Keeps(x, LineSide(x, p, st))
  <2> DEFINE z == [y EXCEPT !.sides[p] = st]
  <2>1. CASE x.sides[p] \in {"hidden", st}
    BY <1>1, <2>1 DEF LineSide, y
  <2>2. CASE x.sides[p] \notin {"hidden", st}
    <3>1. /\ z \in Session /\ z.timers = y.timers /\ z.flow = y.flow /\ z.owner = y.owner
          /\ z.phase = y.phase /\ z.ver = y.ver
          /\ z.cancelling = y.cancelling /\ z.asked = y.asked /\ z.last = y.last
          /\ z.mask = y.mask /\ z.mags = y.mags /\ z.accepting = y.accepting
          /\ z.told = y.told /\ z.acked = y.acked /\ z.open = y.open
      BY <1>1 DEF Session, SideStates
    <3>2. LineSide(x, p, st) = Emit(z)
      BY <2>2 DEF LineSide, y
    <3> HIDE DEF z
    <3>3. Sane(z) /\ Runs(z) /\ Keeps(x, z)
      BY <1>1, <3>1 DEF Good, Sane, Runs, Ended, Watched, Verdict, FlowFits, Allowed, AllExpected, Keeps
    <3>4. QED BY <3>2, <3>3, EmitGood DEF Keeps
  <2>3. QED BY <2>1, <2>2
<1>4. ASSUME NEW pct \in Nat
      PROVE  Good(LineProgress(x, pct)) /\ Keeps(x, LineProgress(x, pct))
  <2> DEFINE z == Dirty([y EXCEPT !.progress = pct])
  <2>1. /\ z \in Session /\ z.timers = y.timers \cup {"flush"} /\ z.flow = y.flow /\ z.owner = y.owner
        /\ z.phase = y.phase /\ z.ver = y.ver
        /\ z.cancelling = y.cancelling /\ z.asked = y.asked /\ z.last = y.last
        /\ z.mask = y.mask /\ z.mags = y.mags /\ z.accepting = y.accepting
        /\ z.told = y.told /\ z.acked = y.acked /\ z.open = y.open
    BY <1>1 DEF Session, Dirty, Timers
  <2>2. LineProgress(x, pct) = z
    BY DEF LineProgress, y
  <2> HIDE DEF z
  <2>3. Runs(z) /\ Keeps(x, z) /\ Published(z)
    BY <1>1, <2>1 DEF Runs, Ended, Keeps, Published
  <2>4. Watched(z) /\ ~({"accept", "settle"} \subseteq z.timers)
    BY <1>1, <2>1 DEF Good, Sane, Watched
  <2>5. Verdict(z) /\ FlowFits(z)
    BY <1>1, <2>1 DEF Good, Sane, Verdict, FlowFits, Allowed, AllExpected
  <2>6. QED BY <2>1, <2>2, <2>3, <2>4, <2>5 DEF Good, Sane
<1>5. Good(LineDone(x)) /\ Keeps(x, LineDone(x))
  <2> DEFINE z == [y EXCEPT !.progress = 100,
                            !.sides = [p \in Positions |-> IF y.sides[p] = "hidden" THEN "hidden" ELSE "done"]]
  <2>1. /\ z \in Session /\ z.timers = y.timers /\ z.flow = y.flow /\ z.owner = y.owner
        /\ z.phase = y.phase /\ z.cancelling = y.cancelling /\ z.asked = y.asked /\ z.last = y.last
        /\ z.mask = y.mask /\ z.mags = y.mags /\ z.accepting = y.accepting
        /\ z.told = y.told /\ z.acked = y.acked /\ z.open = y.open
    BY <1>1, ZenonT(60) DEF Session, SideStates
  <2>2. LineDone(x) = Finish(z, "done", "verified")
    BY DEF LineDone, y
  <2> HIDE DEF z
  <2>3. Allowed(z)
    BY <1>1, <2>1 DEF Good, Sane, FlowFits, Allowed
  <2>4. Good(Finish(z, "done", "verified")) /\ Keeps(z, Finish(z, "done", "verified"))
    BY <1>1, <2>1, <2>3, FinishGood DEF Terminal, Verdicts
  <2>5. QED BY <1>1, <2>1, <2>2, <2>4 DEF Keeps
<1>6. QED BY <1>2, <1>3, <1>4, <1>5

(* The requests of ArduPilot for positions.                                  *)
LEMMA PositionGood ==
    ASSUME NEW x, Good(x), Runs(x), x.flow = "accel"
    PROVE  /\ \A p \in Positions : Good(PositionAsked(x, p)) /\ Keeps(x, PositionAsked(x, p))
           /\ Good(PositionsDone(x)) /\ Keeps(x, PositionsDone(x))
<1> DEFINE y == Told(x)
<1>1. /\ Good(y) /\ Keeps(x, y) /\ Runs(y) /\ y.told /\ y \in Session
      /\ y.phase = x.phase /\ y.sides = x.sides /\ y.flow = "accel"
  BY ToldGood DEF Keeps
<1>2. x.sides \in [Positions -> SideStates]
  BY DEF Good, Sane, Session
<1> HIDE DEF y
<1>3. ASSUME NEW p \in Positions
      PROVE  Good(PositionAsked(x, p)) /\ Keeps(x, PositionAsked(x, p))
  <2> DEFINE before == IF x.last \in Positions \ {p} THEN [x.sides EXCEPT ![x.last] = "done"] ELSE x.sides
             after == [before EXCEPT ![p] = "active"]
             z == [y EXCEPT !.sides = after, !.last = p, !.asked = p,
                            !.phase = "waiting_position", !.open = TRUE]
  <2>1. after \in [Positions -> SideStates]
    BY <1>2 DEF SideStates
  <2>2. PositionAsked(x, p) = Emit(z)
    BY DEF PositionAsked, y
  <2> HIDE DEF after
  <2>3. /\ z \in Session /\ z.timers = y.timers /\ z.flow = y.flow /\ z.owner = y.owner
        /\ z.phase = "waiting_position" /\ z.ver = y.ver
        /\ z.cancelling = y.cancelling /\ z.asked = p /\ z.last = p
        /\ z.mask = y.mask /\ z.mags = y.mags /\ z.accepting = y.accepting
        /\ z.told = y.told /\ z.acked = y.acked /\ z.open
    BY <1>1, <2>1 DEF Session, Phases
  <2> HIDE DEF z
  <2>4. Sane(z) /\ Runs(z) /\ Keeps(x, z)
    BY <1>1, <2>3 DEF Good, Sane, Runs, Ended, Terminal, Watched, Verdict, FlowFits, Allowed, AllExpected, Keeps
  <2>5. QED BY <2>2, <2>4, EmitGood DEF Keeps
<1>4. Good(PositionsDone(x)) /\ Keeps(x, PositionsDone(x))
  <2> DEFINE all == AllSides("done")
             z == [y EXCEPT !.progress = 100, !.sides = all, !.asked = NoPosition]
  <2>1. all \in [Positions -> SideStates]
    BY DEF AllSides, SideStates
  <2>2. PositionsDone(x) = Finish(z, "done", "verified")
    BY DEF PositionsDone, y
  <2> HIDE DEF all
  <2>3. /\ z \in Session /\ z.flow = y.flow /\ z.owner = y.owner /\ z.timers = y.timers
        /\ z.cancelling = y.cancelling
        /\ z.mask = y.mask /\ z.mags = y.mags /\ z.accepting = y.accepting
        /\ z.told = y.told /\ z.acked = y.acked
    BY <1>1, <2>1, ZenonT(60) DEF Session
  <2> HIDE DEF z
  <2>4. Allowed(z)
    BY <1>1, <2>3 DEF Good, Sane, FlowFits, Allowed
  <2>5. Good(Finish(z, "done", "verified")) /\ Keeps(z, Finish(z, "done", "verified"))
    BY <1>1, <2>3, <2>4, FinishGood DEF Terminal, Verdicts
  <2>6. QED BY <1>1, <2>2, <2>3, <2>5 DEF Keeps
<1>5. QED BY <1>3, <1>4

-----------------------------------------------------------------------------
(* The messages of the compasses.  Only what happens to the mask and to the  *)
(* reports matters: the mask is fixed by the first message, and a message of *)
(* progress leaves the reports alone.                                        *)
LEMMA LatchedFields ==
    ASSUME NEW y \in Session, NEW c \in Compasses, NEW mask \in SUBSET Compasses
    PROVE  LET z == Latched(y, c, mask) IN
           /\ z \in Session /\ z.phase = y.phase /\ z.mags = y.mags
           /\ z.timers = y.timers /\ z.flow = y.flow /\ z.owner = y.owner
           /\ z.ver = y.ver /\ z.cancelling = y.cancelling /\ z.asked = y.asked
           /\ z.last = y.last /\ z.accepting = y.accepting
           /\ z.told = y.told /\ z.acked = y.acked /\ z.open = y.open
           /\ y.mask # {} => z.mask = y.mask
BY DEF Latched, Session

LEMMA MagProgressGood ==
    ASSUME NEW x, Good(x), Runs(x), x.flow = "mag",
           NEW c \in Compasses, NEW mask \in SUBSET Compasses,
           NEW status \in {"running", "success", "bad"}, NEW pct \in Nat
    PROVE  Good(MagProgressed(x, c, mask, status, pct))
           /\ Keeps(x, MagProgressed(x, c, mask, status, pct))
<1> DEFINE y == Told(x)
           z == Latched(y, c, mask)
           entry == [z.mags[c] EXCEPT !.status = status]
           seen == [z EXCEPT !.mags[c] = entry]
           phase == IF seen.phase = "starting" THEN "running" ELSE seen.phase
           moved == [seen EXCEPT !.phase = phase, !.progress = pct]
           late == Dirty(moved)
<1>1. /\ Good(y) /\ Keeps(x, y) /\ Runs(y) /\ y.told /\ y \in Session
      /\ y.mask = x.mask /\ y.mags = x.mags /\ y.flow = "mag"
  BY ToldGood DEF Keeps
<1> HIDE DEF y
<1>2. /\ z \in Session /\ z.phase = y.phase /\ z.mags = y.mags
      /\ z.timers = y.timers /\ z.flow = y.flow /\ z.owner = y.owner
      /\ z.ver = y.ver /\ z.cancelling = y.cancelling /\ z.asked = y.asked
      /\ z.last = y.last /\ z.accepting = y.accepting
      /\ z.told = y.told /\ z.acked = y.acked /\ z.open = y.open
      /\ y.mask # {} => z.mask = y.mask
  BY <1>1, LatchedFields
<1> HIDE DEF z
<1>3. entry \in Compass /\ entry.report = z.mags[c].report
  <2>1. z.mags[c] \in Compass
    BY <1>2 DEF Session
  <2>2. QED BY <2>1 DEF Compass
<1>4. [z EXCEPT !.mags[c].status = status] = seen
  OBVIOUS
<1> HIDE DEF entry
<1>5. /\ seen \in Session /\ seen.phase = z.phase /\ seen.mask = z.mask
      /\ seen.timers = z.timers /\ seen.flow = z.flow /\ seen.owner = z.owner
      /\ seen.ver = z.ver /\ seen.cancelling = z.cancelling /\ seen.asked = z.asked
      /\ seen.last = z.last /\ seen.accepting = z.accepting
      /\ seen.told = z.told /\ seen.acked = z.acked /\ seen.open = z.open
      /\ \A d \in Compasses : seen.mags[d].report = z.mags[d].report
  BY <1>2, <1>3 DEF Session
<1> HIDE DEF seen
<1>6. AllExpected(y, {"success", "saved"}) => AllExpected(seen, {"success", "saved"})
  <2>1. y.mask \subseteq Compasses
    BY <1>1 DEF Session
  <2>2. QED BY <1>2, <1>5, <2>1 DEF AllExpected
<1>7. phase \in Phases /\ phase = (IF y.phase = "starting" THEN "running" ELSE y.phase)
  BY <1>1, <1>2, <1>5 DEF Session, Phases
<1> HIDE DEF phase
<1>8. /\ moved \in Session /\ moved.phase = phase /\ moved.mask = seen.mask /\ moved.mags = seen.mags
      /\ moved.timers = seen.timers /\ moved.flow = seen.flow /\ moved.owner = seen.owner
      /\ moved.ver = seen.ver /\ moved.cancelling = seen.cancelling /\ moved.asked = seen.asked
      /\ moved.last = seen.last /\ moved.accepting = seen.accepting
      /\ moved.told = seen.told /\ moved.acked = seen.acked /\ moved.open = seen.open
  BY <1>5, <1>7, ZenonT(60) DEF Session
<1> HIDE DEF moved
<1>9. AllExpected(y, {"success", "saved"}) => AllExpected(moved, {"success", "saved"})
  BY <1>6, <1>8 DEF AllExpected
<1>10. Runs(moved) /\ Keeps(x, moved)
  BY <1>1, <1>2, <1>5, <1>7, <1>8 DEF Runs, Ended, Terminal, Keeps
<1>11. Watched(moved) /\ ~({"accept", "settle"} \subseteq moved.timers)
  BY <1>1, <1>2, <1>5, <1>8 DEF Good, Sane, Watched
<1>12. Verdict(moved) /\ FlowFits(moved)
  BY <1>1, <1>2, <1>5, <1>7, <1>8, <1>9, <1>10
     DEF Good, Sane, Runs, Ended, Terminal, Verdict, FlowFits, Allowed
<1>13. Sane(moved)
  BY <1>8, <1>10, <1>11, <1>12 DEF Sane
<1>14. CASE status = "bad"
  <2>1. MagProgressed(x, c, mask, status, pct) = Fail(seen, "verified")
    BY <1>4, <1>14 DEF MagProgressed, z, y
  <2>2. Allowed(seen) /\ seen.told
    BY <1>1, <1>2, <1>5 DEF Good, Sane, FlowFits, Allowed
  <2>3. Good(Fail(seen, "verified")) /\ Keeps(seen, Fail(seen, "verified"))
    BY <1>5, <2>2, FailGood DEF Verdicts
  <2>4. QED BY <1>1, <1>2, <1>5, <2>1, <2>3 DEF Keeps
<1>15. CASE status # "bad" /\ x.mags[c].status # status
  <2>1. MagProgressed(x, c, mask, status, pct) = Emit(moved)
    BY <1>4, <1>15 DEF MagProgressed, moved, phase, z, y
  <2>2. QED BY <1>10, <1>13, <2>1, EmitGood DEF Keeps
<1>16. CASE status # "bad" /\ x.mags[c].status = status
  <2>1. MagProgressed(x, c, mask, status, pct) = late
    BY <1>4, <1>16 DEF MagProgressed, moved, phase, z, y
  <2>2. /\ late \in Session /\ late.timers = moved.timers \cup {"flush"}
        /\ late.phase = moved.phase /\ late.mask = moved.mask /\ late.mags = moved.mags
        /\ late.flow = moved.flow /\ late.owner = moved.owner
        /\ late.ver = moved.ver /\ late.cancelling = moved.cancelling /\ late.asked = moved.asked
        /\ late.last = moved.last /\ late.accepting = moved.accepting
        /\ late.told = moved.told /\ late.acked = moved.acked /\ late.open = moved.open
    BY <1>8 DEF Session, Dirty, Timers
  <2> HIDE DEF late
  <2>3. Runs(late) /\ Keeps(x, late) /\ Published(late)
    BY <1>10, <2>2 DEF Runs, Ended, Keeps, Published
  <2>4. Watched(late) /\ ~({"accept", "settle"} \subseteq late.timers)
    BY <1>11, <2>2 DEF Watched
  <2>5. Verdict(late) /\ FlowFits(late)
    BY <1>12, <2>2 DEF Verdict, FlowFits, Allowed, AllExpected
  <2>6. QED BY <2>1, <2>2, <2>3, <2>4, <2>5 DEF Good, Sane
<1>17. QED BY <1>14, <1>15, <1>16

LEMMA MagReportGood ==
    ASSUME NEW x, Good(x), Runs(x), x.flow = "mag",
           NEW c \in Compasses, NEW mask \in SUBSET Compasses,
           NEW report \in {"success", "saved", "bad"}, NEW pct \in Nat
    PROVE  Good(MagReported(x, c, mask, report, pct))
           /\ Keeps(x, MagReported(x, c, mask, report, pct))
<1> DEFINE y == Told(x)
           z == Latched(y, c, mask)
           status == IF report = "bad" THEN "bad" ELSE "success"
           entry == [status |-> status, report |-> report]
           seen == [z EXCEPT !.mags[c] = entry]
           moved == [seen EXCEPT !.progress = pct]
           phase == IF AllExpected(moved, {"success", "saved"}) THEN "awaiting_accept" ELSE moved.phase
           ready == [moved EXCEPT !.phase = phase]
           over == [moved EXCEPT !.progress = 100]
<1>1. /\ Good(y) /\ Keeps(x, y) /\ Runs(y) /\ y.told /\ y \in Session
      /\ y.accepting = x.accepting /\ y.flow = "mag"
  BY ToldGood DEF Keeps
<1> HIDE DEF y
<1>2. /\ z \in Session /\ z.phase = y.phase /\ z.mags = y.mags
      /\ z.timers = y.timers /\ z.flow = y.flow /\ z.owner = y.owner
      /\ z.ver = y.ver /\ z.cancelling = y.cancelling /\ z.asked = y.asked
      /\ z.last = y.last /\ z.accepting = y.accepting
      /\ z.told = y.told /\ z.acked = y.acked /\ z.open = y.open
      /\ y.mask # {} => z.mask = y.mask
  BY <1>1, LatchedFields
<1> HIDE DEF z
<1>3. entry \in Compass /\ entry.report = report
  BY DEF Compass
<1> HIDE DEF entry
<1>4. /\ seen \in Session /\ seen.phase = z.phase /\ seen.mask = z.mask
      /\ seen.timers = z.timers /\ seen.flow = z.flow /\ seen.owner = z.owner
      /\ seen.ver = z.ver /\ seen.cancelling = z.cancelling /\ seen.asked = z.asked
      /\ seen.last = z.last /\ seen.accepting = z.accepting
      /\ seen.told = z.told /\ seen.acked = z.acked /\ seen.open = z.open
      /\ \A d \in Compasses : seen.mags[d].report = IF d = c THEN report ELSE z.mags[d].report
  BY <1>2, <1>3 DEF Session
<1> HIDE DEF seen
<1>5. /\ moved \in Session /\ moved.phase = seen.phase /\ moved.mask = seen.mask /\ moved.mags = seen.mags
      /\ moved.timers = seen.timers /\ moved.flow = seen.flow /\ moved.owner = seen.owner
      /\ moved.ver = seen.ver /\ moved.cancelling = seen.cancelling /\ moved.asked = seen.asked
      /\ moved.last = seen.last /\ moved.accepting = seen.accepting
      /\ moved.told = seen.told /\ moved.acked = seen.acked /\ moved.open = seen.open
  BY <1>4 DEF Session
<1> HIDE DEF moved
<1>6. report # "bad" /\ AllExpected(y, {"success", "saved"}) => AllExpected(moved, {"success", "saved"})
  <2>1. y.mask \subseteq Compasses
    BY <1>1 DEF Session
  <2>2. QED BY <1>2, <1>4, <1>5, <2>1 DEF AllExpected
<1>7. Runs(moved) /\ Keeps(x, moved) /\ moved.told /\ moved.flow = "mag"
  BY <1>1, <1>2, <1>4, <1>5 DEF Runs, Ended, Keeps
<1>8. Watched(moved) /\ ~({"accept", "settle"} \subseteq moved.timers)
  BY <1>1, <1>2, <1>4, <1>5 DEF Good, Sane, Watched
<1>9. Allowed(moved) /\ Allowed(seen)
  BY <1>1, <1>2, <1>4, <1>5 DEF Good, Sane, FlowFits, Allowed
<1>10. CASE report = "bad"
  <2>1. MagReported(x, c, mask, report, pct) = Fail(seen, "verified")
    BY <1>10 DEF MagReported, seen, entry, z, y
  <2>2. Good(Fail(seen, "verified")) /\ Keeps(seen, Fail(seen, "verified"))
    BY <1>1, <1>2, <1>4, <1>9, FailGood DEF Verdicts
  <2>3. QED BY <1>1, <1>2, <1>4, <2>1, <2>2 DEF Keeps
<1>11. CASE report # "bad" /\ x.accepting /\ AllExpected(moved, {"saved"})
  <2>1. MagReported(x, c, mask, report, pct) = Finish(over, "done", "verified")
    BY <1>11 DEF MagReported, moved, seen, entry, z, y
  <2>2. /\ over \in Session /\ over.mask = moved.mask /\ over.mags = moved.mags
        /\ over.flow = moved.flow /\ over.owner = moved.owner /\ over.cancelling = moved.cancelling
        /\ over.accepting = moved.accepting /\ over.told = moved.told /\ over.acked = moved.acked
    BY <1>5 DEF Session
  <2> HIDE DEF over
  <2>3. Allowed(over) /\ AllExpected(over, {"saved"}) /\ over.accepting /\ over.told
    BY <1>1, <1>2, <1>4, <1>5, <1>7, <1>9, <1>11, <2>2 DEF Allowed, AllExpected
  <2>4. Good(Finish(over, "done", "verified")) /\ Keeps(over, Finish(over, "done", "verified"))
    BY <2>2, <2>3, FinishGood DEF Verdicts, Terminal
  <2>5. QED BY <1>7, <2>1, <2>2, <2>4 DEF Keeps
<1>12. CASE report # "bad" /\ x.accepting /\ ~AllExpected(moved, {"saved"})
  <2>1. MagReported(x, c, mask, report, pct) = Emit(moved)
    BY <1>12 DEF MagReported, moved, seen, entry, z, y
  <2>2. Verdict(moved) /\ FlowFits(moved)
    BY <1>1, <1>2, <1>4, <1>5, <1>6, <1>7, <1>9, <1>12
       DEF Good, Sane, Runs, Ended, Terminal, Verdict, FlowFits
  <2>3. QED BY <1>5, <1>7, <1>8, <2>1, <2>2, EmitGood DEF Sane, Keeps
<1>13. CASE report # "bad" /\ ~x.accepting
  <2>1. MagReported(x, c, mask, report, pct) = Emit(ready)
    BY <1>13 DEF MagReported, moved, seen, entry, z, y
  <2>2. phase \in Phases
    BY <1>5 DEF Session, Phases
  <2>3. \/ phase = "awaiting_accept" /\ AllExpected(moved, {"success", "saved"})
        \/ phase = moved.phase
    OBVIOUS
  <2> HIDE DEF phase
  <2>4. /\ ready \in Session /\ ready.phase = phase /\ ready.mask = moved.mask /\ ready.mags = moved.mags
        /\ ready.timers = moved.timers /\ ready.flow = moved.flow /\ ready.owner = moved.owner
        /\ ready.ver = moved.ver /\ ready.cancelling = moved.cancelling /\ ready.asked = moved.asked
        /\ ready.last = moved.last /\ ready.accepting = moved.accepting
        /\ ready.told = moved.told /\ ready.acked = moved.acked /\ ready.open = moved.open
    BY <1>5, <2>2 DEF Session
  <2> HIDE DEF ready
  <2>5. Runs(ready) /\ Keeps(x, ready)
    BY <1>7, <2>3, <2>4 DEF Runs, Ended, Terminal, Keeps
  <2>6. Watched(ready) /\ ~({"accept", "settle"} \subseteq ready.timers)
    BY <1>8, <2>4 DEF Watched
  <2>7. AllExpected(moved, {"success", "saved"}) => AllExpected(ready, {"success", "saved"})
    BY <2>4 DEF AllExpected
  <2>8. Verdict(ready) /\ FlowFits(ready)
    BY <1>1, <1>2, <1>4, <1>5, <1>6, <1>7, <1>9, <1>13, <2>3, <2>4, <2>5, <2>7
       DEF Good, Sane, Runs, Ended, Terminal, Verdict, FlowFits, Allowed
  <2>9. QED BY <2>1, <2>4, <2>5, <2>6, <2>8, EmitGood DEF Sane, Keeps
<1>14. QED BY <1>10, <1>11, <1>12, <1>13

-----------------------------------------------------------------------------
(* What neither the timers nor the commands change.                          *)
Alike(x, y) ==
    /\ y.flow = x.flow /\ y.owner = x.owner /\ y.phase = x.phase /\ y.ver = x.ver
    /\ y.asked = x.asked /\ y.last = x.last /\ y.open = x.open /\ y.told = x.told
    /\ y.mask = x.mask /\ y.mags = x.mags

(* A step that only moves timers keeps the session in order.                 *)
LEMMA RetimedGood ==
    ASSUME NEW x, Good(x), Runs(x), NEW y \in Session, Alike(x, y), Watched(y),
           y.shown = x.shown, View(y) = View(x), y.accepting = x.accepting,
           x.cancelling => y.cancelling, y.cancelling => CancelSupported(y.flow),
           x.acked => y.acked, "settle" \in y.timers => y.acked /\ y.accepting,
           ~({"accept", "settle"} \subseteq y.timers),
           "flush" \in x.timers => "flush" \in y.timers
    PROVE  Good(y) /\ Keeps(x, y) /\ Runs(y)
<1>1. Runs(y) /\ Keeps(x, y)
  BY DEF Alike, Runs, Ended, Keeps
<1>2. AllExpected(x, {"saved"}) = AllExpected(y, {"saved"})
      /\ AllExpected(x, {"success", "saved"}) = AllExpected(y, {"success", "saved"})
  BY DEF Alike, AllExpected
<1>3. Verdict(y) /\ FlowFits(y) /\ Published(y)
  BY <1>2 DEF Good, Sane, Alike, Verdict, FlowFits, Allowed, Published
<1>4. QED BY <1>1, <1>3 DEF Good, Sane

LEMMA EvidenceGood ==
    ASSUME NEW x, Good(x), Runs(x), x.flow # "oneShot"
    PROVE  Good(Evidence(x)) /\ Keeps(x, Evidence(x)) /\ Runs(Evidence(x))
<1> DEFINE y == Evidence(x)
<1>1. x \in Session
  BY DEF Good, Sane
<1>2. /\ y \in Session /\ y.shown = x.shown /\ View(y) = View(x) /\ Alike(x, y)
      /\ y.timers = IF x.cancelling THEN x.timers ELSE (x.timers \ {"start"}) \cup {"idle"}
      /\ y.cancelling = x.cancelling /\ y.acked = x.acked /\ y.accepting = x.accepting
  <2> DEFINE z == [x EXCEPT !.timers = (x.timers \ {"start"}) \cup {"idle"}]
  <2>1. Evidence(x) = IF x.cancelling THEN x ELSE z
    BY <1>1 DEF Evidence, Armed, Cleared, Session
  <2>2. /\ z \in Session /\ z.shown = x.shown /\ View(z) = View(x) /\ Alike(x, z)
        /\ z.timers = (x.timers \ {"start"}) \cup {"idle"}
        /\ z.cancelling = x.cancelling /\ z.acked = x.acked /\ z.accepting = x.accepting
    BY <1>1 DEF Session, Timers, View, Alike
  <2> HIDE DEF z
  <2>3. Alike(x, x)
    BY DEF Alike
  <2>4. QED BY <1>1, <2>1, <2>2, <2>3
<1>3. y = Evidence(x)
  OBVIOUS
<1> HIDE DEF y
<1>4. Watched(y) /\ ~({"accept", "settle"} \subseteq y.timers)
  BY <1>2 DEF Good, Sane, Watched, Alike
<1>5. /\ y.cancelling => CancelSupported(y.flow)
      /\ "settle" \in y.timers => y.acked /\ y.accepting
  BY <1>2 DEF Good, Sane, FlowFits, Allowed, Alike
<1>6. QED BY <1>2, <1>3, <1>4, <1>5, RetimedGood

LEMMA RunningGood ==
    ASSUME NEW x, Good(x), Runs(x)
    PROVE  Good(Running(x)) /\ Keeps(x, Running(x))
<1> DEFINE z == [x EXCEPT !.phase = "running"]
<1>1. CASE x.phase # "starting"
  BY <1>1 DEF Running, Keeps, Runs
<1>2. CASE x.phase = "starting"
  <2>1. x \in Session
    BY DEF Good, Sane
  <2>2. /\ z \in Session /\ z.timers = x.timers /\ z.phase = "running" /\ z.ver = x.ver
        /\ z.flow = x.flow /\ z.owner = x.owner /\ z.cancelling = x.cancelling
        /\ z.mask = x.mask /\ z.mags = x.mags /\ z.accepting = x.accepting
        /\ z.told = x.told /\ z.acked = x.acked
    BY <2>1 DEF Session, Phases
  <2>3. Running(x) = Emit(z)
    BY <1>2 DEF Running
  <2> HIDE DEF z
  <2>4. Runs(z) /\ Keeps(x, z)
    BY <2>2 DEF Runs, Ended, Terminal, Keeps
  <2>5. Watched(z) /\ ~({"accept", "settle"} \subseteq z.timers)
    BY <2>2 DEF Good, Sane, Watched
  <2>6. Verdict(z) /\ FlowFits(z)
    BY <2>2 DEF Good, Sane, Verdict, FlowFits, Allowed
  <2>7. QED BY <2>2, <2>3, <2>4, <2>5, <2>6, EmitGood DEF Sane, Keeps
<1>3. QED BY <1>1, <1>2

(* What an acknowledgement does.                                             *)
LEMMA AcceptAckedGood ==
    ASSUME NEW x, Good(x), Runs(x), x.accepting, NEW result \in Results
    PROVE  Good(AcceptAcked(x, result)) /\ Keeps(x, AcceptAcked(x, result))
<1>1. x \in Session /\ Allowed(x) /\ Keeps(x, x) /\ x.flow = "mag"
  BY DEF Good, Sane, FlowFits, Allowed, Keeps, Runs
<1>2. CASE result = "accepted" /\ x.acked
  BY <1>1, <1>2 DEF AcceptAcked
<1>3. CASE result = "accepted" /\ ~x.acked
  <2> DEFINE y == Armed([Cleared(x, {"accept"}) EXCEPT !.acked = TRUE], "settle")
  <2>1. /\ y \in Session /\ y.shown = x.shown /\ View(y) = View(x) /\ Alike(x, y)
        /\ y.timers = (x.timers \ {"accept"}) \cup {"settle"}
        /\ y.cancelling = x.cancelling /\ y.acked /\ y.accepting = x.accepting
    BY <1>1 DEF Armed, Cleared, Session, Timers, View, Alike
  <2>2. AcceptAcked(x, result) = y
    BY <1>3 DEF AcceptAcked
  <2> HIDE DEF y
  <2>3. Watched(y) /\ ~({"accept", "settle"} \subseteq y.timers)
    BY <2>1 DEF Good, Sane, Watched, Alike
  <2>4. y.cancelling => CancelSupported(y.flow)
    BY <1>1, <2>1 DEF Allowed, Alike
  <2>5. QED BY <2>1, <2>2, <2>3, <2>4, RetimedGood
<1>4. CASE result = "progress"
  <2> DEFINE y == Armed(Cleared(x, {"settle"}), "accept")
  <2>1. /\ y \in Session /\ y.shown = x.shown /\ View(y) = View(x) /\ Alike(x, y)
        /\ y.timers = (x.timers \ {"settle"}) \cup {"accept"}
        /\ y.cancelling = x.cancelling /\ y.acked = x.acked /\ y.accepting = x.accepting
    BY <1>1 DEF Armed, Cleared, Session, Timers, View, Alike
  <2>2. AcceptAcked(x, result) = y
    BY <1>4 DEF AcceptAcked
  <2> HIDE DEF y
  <2>3. Watched(y) /\ ~({"accept", "settle"} \subseteq y.timers)
    BY <2>1 DEF Good, Sane, Watched, Alike
  <2>4. y.cancelling => CancelSupported(y.flow)
    BY <1>1, <2>1 DEF Allowed, Alike
  <2>5. QED BY <2>1, <2>2, <2>3, <2>4, RetimedGood
<1>5. CASE result = "refused"
  <2>1. AcceptAcked(x, result) = Fail(x, "not_applicable")
    BY <1>5 DEF AcceptAcked
  <2>2. QED BY <1>1, <2>1, FailGood DEF Verdicts
<1>6. QED BY <1>2, <1>3, <1>4, <1>5 DEF Results

LEMMA StartAckedGood ==
    ASSUME NEW x, Good(x), Runs(x), NEW result \in Results
    PROVE  Good(StartAcked(x, result)) /\ Keeps(x, StartAcked(x, result))
<1>1. x \in Session /\ Allowed(x)
  BY DEF Good, Sane, FlowFits
<1>2. CASE result = "accepted" /\ x.flow = "oneShot"
  <2> DEFINE y == [x EXCEPT !.acked = TRUE]
  <2>1. /\ y \in Session /\ y.flow = x.flow /\ y.owner = x.owner /\ y.acked
        /\ y.cancelling = x.cancelling /\ y.accepting = x.accepting
    BY <1>1 DEF Session
  <2>2. StartAcked(x, result) = Finish(y, "accepted", "ack_only")
    BY <1>2 DEF StartAcked
  <2> HIDE DEF y
  <2>3. Allowed(y)
    BY <1>1, <2>1 DEF Allowed
  <2>4. Good(Finish(y, "accepted", "ack_only")) /\ Keeps(y, Finish(y, "accepted", "ack_only"))
    BY <2>1, <2>3, FinishGood DEF Verdicts, Terminal
  <2>5. QED BY <2>1, <2>2, <2>4 DEF Keeps
<1>3. CASE result = "progress" /\ x.flow = "oneShot"
  <2> DEFINE y == Armed(x, "start")
  <2>1. /\ y \in Session /\ y.shown = x.shown /\ View(y) = View(x) /\ Alike(x, y)
        /\ y.timers = x.timers \cup {"start"}
        /\ y.cancelling = x.cancelling /\ y.acked = x.acked /\ y.accepting = x.accepting
    BY <1>1 DEF Armed, Session, Timers, View, Alike
  <2>2. StartAcked(x, result) = Running(y)
    BY <1>3 DEF StartAcked
  <2> HIDE DEF y
  <2>3. Watched(y) /\ ~({"accept", "settle"} \subseteq y.timers)
    BY <2>1 DEF Good, Sane, Watched, Alike
  <2>4. /\ y.cancelling => CancelSupported(y.flow)
        /\ "settle" \in y.timers => y.acked /\ y.accepting
    BY <2>1 DEF Good, Sane, FlowFits, Allowed, Alike
  <2>5. Good(y) /\ Keeps(x, y) /\ Runs(y)
    BY <2>1, <2>3, <2>4, RetimedGood
  <2>6. QED BY <2>2, <2>5, RunningGood DEF Keeps
<1>4. CASE result # "refused" /\ x.flow # "oneShot"
  <2>1. StartAcked(x, result) = Running(Evidence(x))
    BY <1>4 DEF StartAcked, Results
  <2>2. QED BY <1>4, <2>1, EvidenceGood, RunningGood DEF Keeps
<1>5. CASE result = "refused"
  <2>1. StartAcked(x, result) = Fail(x, "not_applicable")
    BY <1>5 DEF StartAcked
  <2>2. QED BY <1>1, <2>1, FailGood DEF Verdicts
<1>6. QED BY <1>2, <1>3, <1>4, <1>5 DEF Results

LEMMA AckGood ==
    ASSUME NEW x, Good(x), Runs(x), NEW command \in Commands, NEW result \in Results
    PROVE  Good(Acked(x, command, result)) /\ Keeps(x, Acked(x, command, result))
<1>1. x \in Session /\ Allowed(x) /\ Keeps(x, x)
  BY DEF Good, Sane, FlowFits, Keeps, Runs
<1>2. Good(CancelAcked(x, result)) /\ Keeps(x, CancelAcked(x, result))
  <2>1. Good(Fail(x, "ack_only")) /\ Keeps(x, Fail(x, "ack_only"))
    BY <1>1, FailGood DEF Verdicts
  <2>2. Good(Finish(x, "cancelled", "ack_only")) /\ Keeps(x, Finish(x, "cancelled", "ack_only"))
    BY <1>1, FinishGood DEF Verdicts, Terminal
  <2>3. QED BY <1>1, <2>1, <2>2 DEF CancelAcked
<1>3. QED BY <1>1, <1>2, AcceptAckedGood, StartAckedGood DEF Acked

-----------------------------------------------------------------------------
(* What the owner does.                                                      *)
LEMMA ConfirmedGood ==
    ASSUME NEW x, Good(x), Runs(x), x.flow = "accel", NEW written \in BOOLEAN
    PROVE  Good(Confirmed(x, written)) /\ Keeps(x, Confirmed(x, written))
<1> DEFINE y == [x EXCEPT !.asked = NoPosition, !.phase = "running"]
           e == Evidence(y)
           z == [e EXCEPT !.open = FALSE]
<1>1. x \in Session /\ Allowed(x)
  BY DEF Good, Sane, FlowFits
<1>2. CASE ~written
  BY <1>1, <1>2, FailGood DEF Confirmed, Verdicts
<1>3. CASE written
  <2>1. Confirmed(x, written) = Emit(z)
    BY <1>3 DEF Confirmed
  <2>2. /\ y \in Session /\ y.timers = x.timers /\ y.phase = "running" /\ y.ver = x.ver
        /\ y.flow = x.flow /\ y.owner = x.owner /\ y.cancelling = x.cancelling
        /\ y.accepting = x.accepting /\ y.told = x.told /\ y.acked = x.acked
    BY <1>1 DEF Session, Phases
  <2> HIDE DEF y
  <2>3. /\ e \in Session /\ e.phase = "running" /\ e.ver = y.ver
        /\ e.timers = IF y.cancelling THEN y.timers ELSE (y.timers \ {"start"}) \cup {"idle"}
        /\ e.flow = y.flow /\ e.owner = y.owner /\ e.cancelling = y.cancelling
        /\ e.accepting = y.accepting /\ e.told = y.told /\ e.acked = y.acked
    <3>1. /\ e = [y EXCEPT !.timers = e.timers] /\ e \in Session
          /\ e.timers = IF y.cancelling THEN y.timers ELSE (y.timers \ {"start"}) \cup {"idle"}
      BY <2>2, EvidenceFields
    <3> HIDE DEF e
    <3>2. QED BY <2>2, <3>1 DEF Session
  <2> HIDE DEF e
  <2>4. /\ z \in Session /\ z.timers = e.timers /\ z.phase = "running" /\ z.ver = e.ver
        /\ z.flow = e.flow /\ z.owner = e.owner /\ z.cancelling = e.cancelling
        /\ z.accepting = e.accepting /\ z.told = e.told /\ z.acked = e.acked
    BY <2>3 DEF Session
  <2> HIDE DEF z
  <2>5. Runs(z) /\ Keeps(x, z)
    BY <2>2, <2>3, <2>4 DEF Runs, Ended, Terminal, Keeps
  <2>6. Watched(z) /\ ~({"accept", "settle"} \subseteq z.timers)
    BY <2>2, <2>3, <2>4 DEF Good, Sane, Watched
  <2>7. Verdict(z) /\ FlowFits(z)
    BY <2>2, <2>3, <2>4 DEF Good, Sane, Verdict, FlowFits, Allowed
  <2>8. QED BY <2>1, <2>4, <2>5, <2>6, <2>7, EmitGood DEF Sane, Keeps
<1>4. QED BY <1>2, <1>3

LEMMA AcceptingGood ==
    ASSUME NEW x, Good(x), Runs(x), x.flow = "mag", ~x.accepting, NEW written \in BOOLEAN
    PROVE  Good(Accepting(x, written)) /\ Keeps(x, Accepting(x, written))
<1> DEFINE y == [x EXCEPT !.accepting = TRUE, !.timers = @ \cup {"accept"}]
<1>1. x \in Session /\ Allowed(x)
  BY DEF Good, Sane, FlowFits
<1>2. CASE ~written
  BY <1>1, <1>2, FailGood DEF Accepting, Verdicts
<1>3. CASE written
  <2>1. Armed([x EXCEPT !.accepting = TRUE], "accept") = y
    BY <1>1 DEF Armed, Session
  <2>2. Accepting(x, written) = Emit(y)
    BY <1>3, <2>1 DEF Accepting
  <2>3. /\ y \in Session /\ y.timers = x.timers \cup {"accept"} /\ y.accepting /\ Alike(x, y)
        /\ y.cancelling = x.cancelling /\ y.acked = x.acked
    BY <1>1 DEF Session, Timers, Alike
  <2> HIDE DEF y
  <2>4. Runs(y) /\ Keeps(x, y)
    BY <2>3 DEF Alike, Runs, Ended, Keeps
  <2>5. Watched(y) /\ ~({"accept", "settle"} \subseteq y.timers)
    BY <2>3 DEF Good, Sane, Watched, FlowFits, Alike
  <2>6. AllExpected(x, {"success", "saved"}) = AllExpected(y, {"success", "saved"})
    BY <2>3 DEF AllExpected, Alike
  <2>7. Verdict(y) /\ FlowFits(y)
    BY <2>3, <2>4, <2>6 DEF Good, Sane, Runs, Ended, Terminal, Verdict, FlowFits, Allowed, Alike
  <2>8. QED BY <2>2, <2>3, <2>4, <2>5, <2>7, EmitGood DEF Sane, Keeps
<1>4. QED BY <1>2, <1>3

LEMMA CancelledGood ==
    ASSUME NEW x, Good(x), Runs(x), CancelSupported(x.flow), NEW written \in BOOLEAN
    PROVE  /\ Good(Cancelled(x, written)) /\ Keeps(x, Cancelled(x, written))
           /\ ~written => Cancelled(x, written).phase = "failed"
           /\ written => Runs(Cancelled(x, written)) /\ Cancelled(x, written).cancelling
<1> DEFINE y == [x EXCEPT !.cancelling = TRUE,
                          !.timers = (@ \ {"start", "idle", "overall"}) \cup {"cancel"}]
<1>1. x \in Session /\ Allowed(x)
  BY DEF Good, Sane, FlowFits
<1>2. CASE ~written
  BY <1>1, <1>2, FailGood DEF Cancelled, Verdicts
<1>3. CASE written
  <2>1. Cancelled(x, written) = y
    BY <1>1, <1>3 DEF Cancelled, Armed, Cleared, Session
  <2>2. /\ y \in Session /\ y.shown = x.shown /\ View(y) = View(x) /\ Alike(x, y)
        /\ y.timers = (x.timers \ {"start", "idle", "overall"}) \cup {"cancel"}
        /\ y.cancelling /\ y.acked = x.acked /\ y.accepting = x.accepting
    BY <1>1 DEF Session, Timers, View, Alike
  <2> HIDE DEF y
  <2>3. Watched(y) /\ ~({"accept", "settle"} \subseteq y.timers)
    BY <2>2 DEF Good, Sane, Watched, Alike, CancelSupported
  <2>4. /\ CancelSupported(y.flow)
        /\ "settle" \in y.timers => y.acked /\ y.accepting
    BY <2>2 DEF Good, Sane, FlowFits, Alike
  <2>5. Good(y) /\ Keeps(x, y) /\ Runs(y)
    BY <2>2, <2>3, <2>4, RetimedGood
  <2>6. QED BY <1>3, <2>1, <2>2, <2>5
<1>4. QED BY <1>2, <1>3

LEMMA FiredGood ==
    ASSUME NEW x, Good(x), Runs(x), NEW t \in x.timers
    PROVE  Good(Fired(x, t)) /\ Keeps(x, Fired(x, t))
<1>1. x \in Session /\ Allowed(x)
  BY DEF Good, Sane, FlowFits
<1>2. CASE t = "flush"
  BY <1>2, EmitGood DEF Good, Fired
<1>3. CASE t = "cancel"
  BY <1>1, <1>3, FinishGood DEF Fired, Verdicts, Terminal
<1>4. CASE t = "settle"
  <2>1. x.acked
    BY <1>4 DEF Good, Sane, FlowFits
  <2>2. QED BY <1>1, <1>4, <2>1, FinishGood DEF Fired, Verdicts, Terminal
<1>5. CASE t \notin {"flush", "cancel", "settle"}
  BY <1>1, <1>5, FailGood DEF Fired, Verdicts
<1>6. QED BY <1>2, <1>3, <1>4, <1>5

(* A session begins in order; if its command cannot be sent it has failed.   *)
LEMMA BegunGood ==
    ASSUME NEW flow \in Flows, NEW c \in Clients, NEW written \in BOOLEAN
    PROVE  LET b == Begun(flow, c, written) IN
           /\ Good(b) /\ b.owner = c
           /\ written => Runs(b)
           /\ ~written => b.phase = "failed"
<1> DEFINE f == Fresh(flow, c)
           sides == IF flow = "accel" THEN AllSides("pending") ELSE f.sides
           x == Emit(f)
           y == Emit([x EXCEPT !.sides = sides])
           ts == IF flow = "oneShot" THEN {"start"} ELSE {"start", "overall"}
           z == [y EXCEPT !.timers = @ \cup ts]
<1>1. flow \in {"px4", "accel", "mag", "oneShot"}
  BY CalibrationAssumption
<1>2. /\ f \in Session /\ f.flow = flow /\ f.owner = c /\ f.phase = "starting"
      /\ f.ver = "not_applicable" /\ f.timers = {} /\ ~f.cancelling /\ ~f.accepting
      /\ ~f.told /\ ~f.acked
  <2>1. NoCompass \in [Compasses -> Compass]
    BY DEF NoCompass, Compass
  <2>2. AllSides("hidden") \in [Positions -> SideStates]
    BY DEF AllSides, SideStates
  <2> HIDE DEF f
  <2>3. f = Fresh(flow, c)
    BY DEF f
  <2>4. QED BY <1>1, <2>1, <2>2, <2>3 DEF Fresh, Session, Phases, Verdicts
<1>3. /\ x \in Session /\ x.flow = flow /\ x.owner = c /\ x.phase = "starting"
      /\ x.ver = "not_applicable" /\ x.timers = {} /\ ~x.cancelling /\ ~x.accepting
      /\ ~x.told /\ ~x.acked /\ x.sides = f.sides
  <2> HIDE DEF f
  <2>1. QED BY <1>2 DEF Emit, Session, View, Views
<1>4. sides \in [Positions -> SideStates]
  <2> HIDE DEF f
  <2>1. QED BY <1>2 DEF Session, AllSides, SideStates
<1>5. Begun(flow, c, written)
        = IF ~written THEN Fail(x, "not_applicable")
          ELSE IF flow = "oneShot" THEN Armed(y, "start") ELSE Armed(Armed(y, "start"), "overall")
  <2>1. (IF flow = "accel" THEN [x EXCEPT !.sides = AllSides("pending")] ELSE x)
          = [x EXCEPT !.sides = sides]
    <3> HIDE DEF f, x
    <3>1. QED BY <1>3 DEF Session
  <2>2. QED BY <2>1 DEF Begun
<1> HIDE DEF f, x, sides
<1>6. /\ y \in Session /\ y.flow = flow /\ y.owner = c /\ y.phase = "starting"
      /\ y.ver = "not_applicable" /\ y.timers = {} /\ ~y.cancelling /\ ~y.accepting
      /\ ~y.told /\ ~y.acked /\ y.shown = View(y)
  <2> DEFINE w == [x EXCEPT !.sides = sides]
  <2>1. /\ w \in Session /\ w.flow = flow /\ w.owner = c /\ w.phase = "starting"
        /\ w.ver = "not_applicable" /\ w.timers = {} /\ ~w.cancelling /\ ~w.accepting
        /\ ~w.told /\ ~w.acked
    BY <1>3, <1>4 DEF Session
  <2> HIDE DEF w
  <2>2. QED BY <2>1, ZenonT(60) DEF Emit, Session, View, Views, w
<1> HIDE DEF y
<1>7. (IF flow = "oneShot" THEN Armed(y, "start") ELSE Armed(Armed(y, "start"), "overall")) = z
  BY <1>6 DEF Armed, Session
<1>8. CASE written
  <2>1. /\ z \in Session /\ z.flow = flow /\ z.owner = c /\ z.phase = "starting"
        /\ z.ver = "not_applicable" /\ z.timers = ts /\ ~z.cancelling /\ ~z.accepting
        /\ ~z.told /\ ~z.acked /\ z.shown = View(z)
    BY <1>6 DEF Session, Timers, View
  <2>2. Begun(flow, c, written) = z
    BY <1>5, <1>7, <1>8
  <2> HIDE DEF z
  <2>3. Runs(z)
    BY <2>1 DEF Runs, Ended, Terminal
  <2>4. Watched(z) /\ ~({"accept", "settle"} \subseteq z.timers)
    BY <2>1 DEF Watched
  <2>5. Verdict(z) /\ FlowFits(z) /\ Published(z)
    BY <2>1 DEF Verdict, FlowFits, Allowed, Published
  <2>6. QED BY <1>8, <2>1, <2>2, <2>3, <2>4, <2>5 DEF Good, Sane
<1>9. CASE ~written
  <2>1. Allowed(x)
    BY <1>3 DEF Allowed
  <2>2. QED BY <1>3, <1>5, <1>9, <2>1, FailGood DEF Verdicts, Keeps
<1>10. QED BY <1>8, <1>9

(* The session changes hands.                                                *)
LEMMA OwnerGood ==
    ASSUME NEW x, Good(x), Runs(x), NEW c \in Clients \cup {NoClient}
    PROVE  LET y == Emit([x EXCEPT !.owner = c]) IN
           Good(y) /\ Runs(y) /\ y.owner = c /\ y.phase = x.phase
<1> DEFINE z == [x EXCEPT !.owner = c]
<1>1. x \in Session
  BY DEF Good, Sane
<1>2. /\ z \in Session /\ z.timers = x.timers /\ z.phase = x.phase /\ z.ver = x.ver
      /\ z.flow = x.flow /\ z.owner = c /\ z.cancelling = x.cancelling
      /\ z.mask = x.mask /\ z.mags = x.mags /\ z.accepting = x.accepting
      /\ z.told = x.told /\ z.acked = x.acked /\ z.open = x.open
      /\ z.asked = x.asked /\ z.last = x.last
  BY <1>1 DEF Session
<1>3. z = [x EXCEPT !.owner = c]
  OBVIOUS
<1> HIDE DEF z
<1>4. Runs(z)
  BY <1>2 DEF Runs, Ended
<1>5. Watched(z) /\ ~({"accept", "settle"} \subseteq z.timers)
  BY <1>2 DEF Good, Sane, Watched
<1>6. Verdict(z) /\ FlowFits(z)
  BY <1>2 DEF Good, Sane, Verdict, FlowFits, Allowed, AllExpected
<1>7. Emit(z).phase = z.phase /\ Emit(z).owner = z.owner
  BY <1>2 DEF Emit, Session
<1>8. QED BY <1>2, <1>3, <1>4, <1>5, <1>6, <1>7, EmitGood DEF Sane

-----------------------------------------------------------------------------
(* What a step says to the vehicle fits the session it leaves.               *)
Said ==
    /\ sent' \in Positions \cup {"none", "start", "cancel", "accept"}
    /\ sent' = "accept" => AllExpected(s, {"success", "saved"}) /\ ~s.accepting
    /\ sent' \in Positions => s.open /\ sent' = s.last

(* The session takes a step of its own, and the manager settles it.          *)
Settling == Live /\ Good(s') /\ Keeps(s, s') /\ Settled(s') /\ Kept

LEMMA LiveRuns == Live = Runs(s)
BY DEF Live, Runs

LEMMA LiveBoolean == Live \in BOOLEAN /\ Live' \in BOOLEAN
BY DEF Live, Ended

LEMMA QuietSaid == Silent => Said
BY CalibrationAssumption DEF Silent, Said

LEMMA HeardSettles ==
    ASSUME Live, NEW x, Good(x), Keeps(s, x), Heard(x)
    PROVE  Settling /\ Said
BY QuietSaid DEF Heard, Settled, Settling

LEMMA OwnerSettles ==
    ASSUME IInv, NEW c \in Clients, NEW written \in BOOLEAN,
           \/ Cancel(c, written)
           \/ \E p \in Positions : ConfirmPosition(c, p, written)
           \/ AcceptMag(c, written)
    PROVE  Settling /\ Said
<1>1. Good(s) /\ s \in Session
  BY DEF IInv, Good, Sane
<1>2. CASE Cancel(c, written)
  <2>1. Live /\ Runs(s) /\ CancelSupported(s.flow) /\ Settled(Cancelled(s, written)) /\ Kept
    BY <1>2, LiveRuns DEF Cancel, Owns
  <2>2. Good(Cancelled(s, written)) /\ Keeps(s, Cancelled(s, written))
    BY <1>1, <2>1, CancelledGood
  <2>3. Said
    BY <1>2, CalibrationAssumption DEF Cancel, Said
  <2>4. QED BY <2>1, <2>2, <2>3 DEF Settling, Settled
<1>3. ASSUME NEW p \in Positions, ConfirmPosition(c, p, written) PROVE Settling /\ Said
  <2>1. Live /\ Runs(s) /\ s.flow = "accel" /\ Settled(Confirmed(s, written)) /\ Kept
    BY <1>3, LiveRuns DEF ConfirmPosition, Owns
  <2>2. Good(Confirmed(s, written)) /\ Keeps(s, Confirmed(s, written))
    BY <1>1, <2>1, ConfirmedGood
  <2>3. s.open /\ s.last = p
    BY <1>1, <1>3 DEF ConfirmPosition, Good, Sane, FlowFits
  <2>4. Said
    BY <1>3, <2>3, CalibrationAssumption DEF ConfirmPosition, Said
  <2>5. QED BY <2>1, <2>2, <2>4 DEF Settling, Settled
<1>4. CASE AcceptMag(c, written)
  <2>1. Live /\ Runs(s) /\ s.flow = "mag" /\ ~s.accepting /\ Settled(Accepting(s, written)) /\ Kept
    BY <1>4, LiveRuns DEF AcceptMag, Owns
  <2>2. Good(Accepting(s, written)) /\ Keeps(s, Accepting(s, written))
    BY <1>1, <2>1, AcceptingGood
  <2>3. AllExpected(s, {"success", "saved"})
    BY <1>1, <1>4 DEF AcceptMag, Good, Sane, FlowFits
  <2>4. Said
    BY <1>4, <2>1, <2>3, CalibrationAssumption DEF AcceptMag, Said
  <2>5. QED BY <2>1, <2>2, <2>4 DEF Settling, Settled
<1>5. QED BY <1>2, <1>3, <1>4

LEMMA AckSettles == IInv /\ AckStep => Settling /\ Said
<1> SUFFICES ASSUME IInv, NEW command \in Commands, NEW result \in Results,
                    CommandAck(command, result)
             PROVE  Settling /\ Said
  BY DEF AckStep
<1>1. Good(s) /\ Live /\ Runs(s) /\ Heard(Acked(s, command, result))
  BY LiveRuns DEF IInv, CommandAck, Hears
<1>2. Good(Acked(s, command, result)) /\ Keeps(s, Acked(s, command, result))
  BY <1>1, AckGood
<1>3. QED BY <1>1, <1>2, HeardSettles

LEMMA TextSettles == IInv /\ TextStep => Settling /\ Said
<1> SUFFICES ASSUME IInv, TextStep PROVE Settling /\ Said
  OBVIOUS
<1>1. Good(s) /\ Live /\ Runs(s) /\ s.flow = "px4"
  BY LiveRuns DEF IInv, TextStep, TextStarted, TextSide, TextSideAlready, TextProgress,
                  TextDone, TextFailed, TextCancelled, Px4, Hears
<1> DEFINE y == Told(s)
<1>2. Good(y) /\ Keeps(s, y) /\ y.told /\ y \in Session /\ Allowed(y)
  BY <1>1, ToldGood DEF Good, Sane, FlowFits
<1> HIDE DEF y
<1>3. ASSUME NEW v \in SUBSET Positions, TextStarted(v) PROVE Settling /\ Said
  BY <1>1, <1>3, TextGood, HeardSettles DEF TextStarted
<1>4. ASSUME NEW p \in Positions, NEW st \in {"active", "done"}, TextSide(p, st)
      PROVE  Settling /\ Said
  BY <1>1, <1>4, TextGood, HeardSettles DEF TextSide
<1>5. CASE TextSideAlready
  BY <1>1, <1>2, <1>5, HeardSettles DEF TextSideAlready, y
<1>6. ASSUME NEW pct \in Pcts, TextProgress(pct) PROVE Settling /\ Said
  BY <1>1, <1>6, TextGood, HeardSettles DEF TextProgress, Pcts
<1>7. CASE TextDone
  BY <1>1, <1>7, TextGood, HeardSettles DEF TextDone
<1>8. CASE TextFailed
  <2>1. Good(Fail(y, "verified")) /\ Keeps(y, Fail(y, "verified"))
    BY <1>2, FailGood DEF Verdicts
  <2>2. Keeps(s, Fail(y, "verified")) /\ Heard(Fail(y, "verified"))
    BY <1>2, <1>8, <2>1 DEF Keeps, TextFailed, y
  <2>3. QED BY <1>1, <2>1, <2>2, HeardSettles
<1>9. CASE TextCancelled
  <2>1. Good(Finish(y, "cancelled", "verified")) /\ Keeps(y, Finish(y, "cancelled", "verified"))
    BY <1>2, FinishGood DEF Verdicts, Terminal
  <2>2. Keeps(s, Finish(y, "cancelled", "verified")) /\ Heard(Finish(y, "cancelled", "verified"))
    BY <1>2, <1>9, <2>1 DEF Keeps, TextCancelled, y
  <2>3. QED BY <1>1, <2>1, <2>2, HeardSettles
<1>10. QED BY <1>3, <1>4, <1>5, <1>6, <1>7, <1>8, <1>9 DEF TextStep

LEMMA PositionSettles == IInv /\ PositionStep => Settling /\ Said
<1> SUFFICES ASSUME IInv, PositionStep PROVE Settling /\ Said
  OBVIOUS
<1>1. Good(s) /\ Live /\ Runs(s) /\ s.flow = "accel"
  BY LiveRuns DEF IInv, PositionStep, PositionRequest, PositionSuccess, PositionFailed,
                  Interactive, Hears
<1> DEFINE y == Told(s)
<1>2. Good(y) /\ Keeps(s, y) /\ y.told /\ y \in Session /\ Allowed(y)
  BY <1>1, ToldGood DEF Good, Sane, FlowFits
<1> HIDE DEF y
<1>3. ASSUME NEW p \in Positions, PositionRequest(p) PROVE Settling /\ Said
  BY <1>1, <1>3, PositionGood, HeardSettles DEF PositionRequest
<1>4. CASE PositionSuccess
  BY <1>1, <1>4, PositionGood, HeardSettles DEF PositionSuccess
<1>5. CASE PositionFailed
  <2>1. Good(Fail(y, "verified")) /\ Keeps(y, Fail(y, "verified"))
    BY <1>2, FailGood DEF Verdicts
  <2>2. Keeps(s, Fail(y, "verified")) /\ Heard(Fail(y, "verified"))
    BY <1>2, <1>5, <2>1 DEF Keeps, PositionFailed, y
  <2>3. QED BY <1>1, <2>1, <2>2, HeardSettles
<1>6. QED BY <1>3, <1>4, <1>5 DEF PositionStep

LEMMA MagSettles == IInv /\ MagStep => Settling /\ Said
<1> SUFFICES ASSUME IInv, NEW c \in Compasses, NEW mask \in SUBSET Compasses, NEW pct \in Pcts,
                    \/ \E status \in {"running", "success", "bad"} : MagProgress(c, mask, status, pct)
                    \/ \E report \in {"success", "saved", "bad"} : MagReport(c, mask, report, pct)
             PROVE  Settling /\ Said
  BY DEF MagStep
<1>1. Good(s) /\ Live /\ Runs(s) /\ s.flow = "mag" /\ pct \in Nat
  BY LiveRuns DEF IInv, MagProgress, MagReport, Magnetic, Hears, Pcts
<1>2. ASSUME NEW status \in {"running", "success", "bad"}, MagProgress(c, mask, status, pct)
      PROVE  Settling /\ Said
  BY <1>1, <1>2, MagProgressGood, HeardSettles DEF MagProgress
<1>3. ASSUME NEW report \in {"success", "saved", "bad"}, MagReport(c, mask, report, pct)
      PROVE  Settling /\ Said
  BY <1>1, <1>3, MagReportGood, HeardSettles DEF MagReport
<1>4. QED BY <1>2, <1>3

LEMMA TimerSettles == ASSUME IInv, NEW t \in Timers, TimerFires(t) PROVE Settling /\ Said
<1>1. t \in s.timers /\ Settled(Fired(s, t)) /\ Silent /\ Kept
  BY DEF TimerFires
<1>2. Good(s) /\ Live /\ Runs(s)
  BY <1>1, LiveRuns DEF IInv, Good, Sane
<1>3. Good(Fired(s, t)) /\ Keeps(s, Fired(s, t))
  BY <1>1, <1>2, FiredGood
<1>4. QED BY <1>1, <1>2, <1>3, QuietSaid DEF Settling, Settled

LEMMA InterruptedSettles ==
    ASSUME IInv, Live, Settled(Fail(s, "not_applicable")), Silent, Kept
    PROVE  Settling /\ Said
<1>1. s \in Session /\ Allowed(s)
  BY DEF IInv, Good, Sane, FlowFits
<1>2. Good(Fail(s, "not_applicable")) /\ Keeps(s, Fail(s, "not_applicable"))
  BY <1>1, FailGood DEF Verdicts
<1>3. QED BY <1>2, QuietSaid DEF Settling, Settled

(* Every such step keeps the manager and the session in agreement.           *)
LEMMA SettlingKeeps == IInv /\ Settling /\ Said => IInv'
<1> SUFFICES ASSUME IInv, Settling, Said PROVE IInv'
  OBVIOUS
<1>1. CASE Ended(s')
  <2>1. ~Live' /\ active' = FALSE /\ fed' = FALSE /\ orphanTimer' = FALSE /\ retained' = TRUE
        /\ refreshes' \in Nat
    BY <1>1 DEF Settling, Settled, Live, Ended, IInv
  <2>2. Good(s') /\ UNCHANGED <<sessions, recover>>
    BY DEF Settling, Kept
  <2>3. OneSession' /\ OrphanHandled' /\ Grace'
    BY <2>1, LiveBoolean DEF OneSession, OrphanHandled, Grace
  <2>4. QED BY <2>1, <2>2, <2>3 DEF Said, IInv
<1>2. CASE ~Ended(s')
  <2>1. Live' /\ UNCHANGED <<active, fed, orphanTimer, retained, refreshes, sessions, recover>>
        /\ (Orphaned' = Orphaned) /\ (s.cancelling => s'.cancelling) /\ Live /\ Good(s')
    BY <1>2 DEF Settling, Settled, Live, Ended, Keeps, Orphaned, Kept
  <2>2. QED BY <2>1 DEF Said, IInv, OneSession, OrphanHandled, Grace
<1>3. QED BY <1>1, <1>2

(* The other steps: one starts, its owner goes or comes back, nobody has     *)
(* come back, the runtime is shut down.                                      *)
LEMMA StartKeeps ==
    ASSUME IInv, NEW c \in Clients, NEW flow \in Flows, NEW written \in BOOLEAN,
           Start(c, flow, written)
    PROVE  IInv' /\ Said /\ ~Live /\ s'.phase \in {"failed"} \cup (Phases \ (Terminal \cup {"none"}))
           /\ (s'.phase = "failed" \/ Live') /\ sessions' = sessions + 1 /\ UNCHANGED refreshes
<1> DEFINE b == Begun(flow, c, written)
<1>1. Good(b) /\ b.owner = c /\ (written => Runs(b)) /\ (~written => b.phase = "failed")
  BY BegunGood
<1>2. s' = b
  BY DEF Start
<1> HIDE DEF b
<1>3. c # NoClient
  BY CalibrationAssumption
<1>4. Live' = written /\ ~Orphaned'
  BY <1>1, <1>2, <1>3 DEF Live, Orphaned, Runs, Ended, Terminal
<1>5. ~Live
  BY DEF Start, IInv, OneSession
<1>6. active' = written /\ fed' = written /\ orphanTimer' = FALSE /\ recover' = FALSE
      /\ retained' = ~written /\ UNCHANGED refreshes /\ sessions' = sessions + 1
      /\ sent' = IF written THEN "start" ELSE "none"
  BY DEF Start
<1>7. Said
  BY <1>6, CalibrationAssumption DEF Said
<1>8. OneSession' /\ OrphanHandled' /\ Grace'
  BY <1>4, <1>6, LiveBoolean DEF OneSession, OrphanHandled, Grace
<1>9. {active', fed', recover', orphanTimer', retained'} \subseteq BOOLEAN
  BY <1>6
<1>10. sessions' \in Nat /\ refreshes' \in Nat /\ Good(s')
  BY <1>1, <1>2, <1>6 DEF IInv
<1>11. IInv'
  BY <1>7, <1>8, <1>9, <1>10 DEF IInv, Said
<1>12. b.phase \in Phases
  BY <1>1 DEF Good, Sane, Session
<1>13. QED BY <1>1, <1>2, <1>4, <1>5, <1>6, <1>7, <1>11, <1>12 DEF Runs, Ended

(* The session keeps its phase and has another owner, or none.               *)
LEMMA HandoverKeeps ==
    ASSUME IInv, NEW c \in Clients, OwnerDisconnects(c) \/ Reclaim(c)
    PROVE  IInv' /\ Said /\ Live /\ s'.phase = s.phase
           /\ UNCHANGED <<sessions, refreshes>>
           /\ (Orphaned /\ ~orphanTimer => s'.owner = NoClient)
<1>1. Live /\ Good(s) /\ Runs(s) /\ active
  BY LiveRuns DEF OwnerDisconnects, Reclaim, Owns, IInv
<1>2. CASE OwnerDisconnects(c)
  <2>1. Good(s') /\ Runs(s') /\ s'.owner = NoClient /\ s'.phase = s.phase
    BY <1>1, <1>2, OwnerGood DEF OwnerDisconnects
  <2>2. orphanTimer' = TRUE /\ recover' = TRUE /\ Silent
        /\ UNCHANGED <<sessions, active, fed, retained, refreshes>>
    BY <1>2 DEF OwnerDisconnects
  <2>3. Live' /\ Orphaned'
    BY <2>1 DEF Live, Runs, Orphaned
  <2>4. OneSession' /\ OrphanHandled' /\ Grace'
    BY <1>1, <2>2, <2>3, LiveBoolean DEF IInv, OneSession, OrphanHandled, Grace
  <2>5. Said
    BY <2>2, QuietSaid
  <2>6. QED BY <1>1, <2>1, <2>2, <2>4, <2>5 DEF IInv, Said
<1>3. CASE Reclaim(c)
  <2>1. Good(s') /\ Runs(s') /\ s'.owner = c /\ s'.phase = s.phase
    BY <1>1, <1>3, OwnerGood DEF Reclaim
  <2>2. orphanTimer' = FALSE /\ recover' = FALSE /\ Silent
        /\ UNCHANGED <<sessions, active, fed, retained, refreshes>>
    BY <1>3 DEF Reclaim
  <2>3. Live' /\ ~Orphaned'
    BY <2>1, CalibrationAssumption DEF Live, Runs, Orphaned
  <2>4. OneSession' /\ OrphanHandled' /\ Grace'
    BY <1>1, <2>2, <2>3, LiveBoolean DEF IInv, OneSession, OrphanHandled, Grace
  <2>5. Said
    BY <2>2, QuietSaid
  <2>6. orphanTimer
    BY <1>1, <1>3 DEF Reclaim, IInv, Grace
  <2>7. QED BY <1>1, <2>1, <2>2, <2>4, <2>5, <2>6 DEF IInv, Said
<1>4. QED BY <1>2, <1>3

LEMMA OrphanExpiresKeeps ==
    ASSUME IInv, NEW written \in BOOLEAN, OrphanExpires(written)
    PROVE  IInv' /\ Said /\ Live /\ s'.owner = s.owner
           /\ (Live' \/ s'.phase = "failed") /\ UNCHANGED <<sessions, refreshes>>
<1>0. s' = IF CancelSupported(s.flow) THEN Cancelled(s, written) ELSE Fail(s, "not_applicable")
  BY DEF OrphanExpires
<1>1. Live /\ Good(s) /\ Runs(s) /\ s \in Session /\ Allowed(s)
  BY LiveRuns DEF OrphanExpires, IInv, Good, Sane, FlowFits
<1>2. /\ recover' = FALSE /\ orphanTimer' = FALSE
      /\ active' = ~Ended(s') /\ fed' = ~Ended(s')
      /\ retained' = (retained \/ Ended(s'))
      /\ sent' = IF CancelSupported(s.flow) /\ written THEN "cancel" ELSE "none"
      /\ UNCHANGED <<sessions, refreshes>>
  BY DEF OrphanExpires
<1>3. Good(s') /\ Keeps(s, s') /\ (s'.phase = "failed" \/ (Runs(s') /\ s'.cancelling))
  <2>1. CASE CancelSupported(s.flow)
    <3>1. /\ Good(Cancelled(s, written)) /\ Keeps(s, Cancelled(s, written))
          /\ ~written => Cancelled(s, written).phase = "failed"
          /\ written => Runs(Cancelled(s, written)) /\ Cancelled(s, written).cancelling
      BY <1>1, <2>1, CancelledGood
    <3>2. s' = Cancelled(s, written)
      BY <1>0, <2>1
    <3>3. QED BY <3>1, <3>2
  <2>2. CASE ~CancelSupported(s.flow)
    <3>1. Good(Fail(s, "not_applicable")) /\ Keeps(s, Fail(s, "not_applicable"))
          /\ Fail(s, "not_applicable").phase = "failed"
      BY <1>1, FailGood DEF Verdicts
    <3>2. s' = Fail(s, "not_applicable")
      BY <1>0, <2>2
    <3>3. QED BY <3>1, <3>2
  <2>3. QED BY <2>1, <2>2
<1>4. Ended(s') = ~Live' /\ (Live' => s'.cancelling) /\ (Live' \/ s'.phase = "failed")
  BY <1>3 DEF Live, Runs, Ended, Keeps, Terminal
<1>5. Said
  BY <1>2, CalibrationAssumption DEF Said
<1>6. OneSession' /\ OrphanHandled' /\ Grace'
  BY <1>2, <1>4, LiveBoolean DEF OneSession, OrphanHandled, Grace
<1>7. retained' \in BOOLEAN /\ active' \in BOOLEAN /\ fed' \in BOOLEAN
  BY <1>2 DEF IInv, Ended
<1>8. IInv'
  BY <1>2, <1>3, <1>5, <1>6, <1>7 DEF IInv, Said
<1>9. QED BY <1>1, <1>2, <1>3, <1>4, <1>5, <1>8 DEF Keeps

LEMMA ShutdownKeeps ==
    ASSUME IInv, Shutdown
    PROVE  IInv' /\ Said /\ (s' = s \/ (Live /\ s'.phase = "failed" /\ s'.owner = s.owner))
           /\ UNCHANGED <<sessions, refreshes>>
<1>1. Good(s) /\ s \in Session /\ Allowed(s) /\ active = Live
  BY DEF IInv, Good, Sane, FlowFits, OneSession
<1>2. Good(Fail(s, "not_applicable")) /\ Keeps(s, Fail(s, "not_applicable"))
      /\ Fail(s, "not_applicable").phase = "failed"
  BY <1>1, FailGood DEF Verdicts
<1>3. s' = IF Live THEN Fail(s, "not_applicable") ELSE s
  BY <1>1 DEF Shutdown
<1>4. active' = FALSE /\ fed' = FALSE /\ orphanTimer' = FALSE /\ retained' = FALSE
      /\ Silent /\ Kept /\ UNCHANGED refreshes
  BY DEF Shutdown
<1>5. ~Live' /\ Good(s')
  BY <1>1, <1>2, <1>3 DEF Live, Ended, Terminal
<1>6. OneSession' /\ OrphanHandled' /\ Grace'
  BY <1>4, <1>5, LiveBoolean DEF OneSession, OrphanHandled, Grace
<1>7. Said
  BY <1>4, QuietSaid
<1>8. IInv'
  BY <1>4, <1>5, <1>6, <1>7 DEF IInv, Said, Kept
<1>9. QED BY <1>2, <1>3, <1>4, <1>7, <1>8 DEF Keeps, Kept

(* Retention, and a vehicle that changes when there is no session to end.    *)
LEMMA RetentionKeeps ==
    ASSUME IInv, RetentionExpires
    PROVE  IInv' /\ Said /\ s' = s /\ UNCHANGED <<sessions, refreshes>>
<1>1. Said /\ retained' = FALSE /\ UNCHANGED <<s, active, fed, orphanTimer, refreshes, sessions, recover>>
  BY QuietSaid DEF RetentionExpires, Kept
<1>2. OneSession' /\ OrphanHandled' /\ Grace'
  BY <1>1, LiveBoolean DEF IInv, OneSession, OrphanHandled, Grace, Live, Ended, Orphaned
<1>3. QED BY <1>1, <1>2 DEF IInv, Said

(* The shapes a step can have.                                               *)
Handover ==
    /\ Live /\ s'.phase = s.phase /\ UNCHANGED <<sessions, refreshes>>
    /\ Orphaned /\ ~orphanTimer => s'.owner = NoClient

Ending ==
    /\ s' = s \/ (Live /\ s'.owner = s.owner /\ (Live' \/ s'.phase = "failed"))
    /\ UNCHANGED <<sessions, refreshes>>

Beginning ==
    /\ ~Live /\ sessions' = sessions + 1 /\ UNCHANGED refreshes
    /\ s'.phase = "failed" \/ Live'

LEMMA Steps ==
    ASSUME IInv, Next
    PROVE  IInv' /\ Said /\ (Settling \/ Handover \/ Ending \/ Beginning)
<1>1. CASE OwnerStep
  <2> SUFFICES ASSUME NEW c \in Clients, NEW written \in BOOLEAN,
                      \/ \E flow \in Flows : Start(c, flow, written)
                      \/ Cancel(c, written)
                      \/ \E p \in Positions : ConfirmPosition(c, p, written)
                      \/ AcceptMag(c, written)
               PROVE  IInv' /\ Said /\ (Settling \/ Handover \/ Ending \/ Beginning)
    BY <1>1 DEF OwnerStep
  <2>1. CASE \E flow \in Flows : Start(c, flow, written)
    BY <2>1, StartKeeps DEF Beginning
  <2>2. CASE ~\E flow \in Flows : Start(c, flow, written)
    BY <2>2, OwnerSettles, SettlingKeeps
  <2>3. QED BY <2>1, <2>2
<1>2. CASE AckStep \/ TextStep \/ PositionStep \/ MagStep
  BY <1>2, AckSettles, TextSettles, PositionSettles, MagSettles, SettlingKeeps
<1>3. CASE \E t \in Timers : TimerFires(t)
  BY <1>3, TimerSettles, SettlingKeeps
<1>4. ASSUME NEW c \in Clients, OwnerDisconnects(c) \/ Reclaim(c)
      PROVE  IInv' /\ Said /\ Handover
  BY <1>4, HandoverKeeps DEF Handover
<1>5. ASSUME NEW written \in BOOLEAN, OrphanExpires(written) PROVE IInv' /\ Said /\ Ending
  BY <1>5, OrphanExpiresKeeps DEF Ending
<1>6. CASE Interrupted
  BY <1>6, InterruptedSettles, SettlingKeeps DEF Interrupted
<1>7. CASE VehicleChanges
  <2>1. Live
    BY <1>7 DEF VehicleChanges, IInv, OneSession
  <2>2. QED BY <1>7, <2>1, InterruptedSettles, SettlingKeeps DEF VehicleChanges
<1>8. CASE RetentionExpires
  BY <1>8, RetentionKeeps DEF Ending
<1>9. CASE Shutdown
  BY <1>9, ShutdownKeeps DEF Ending
<1>10. QED
  BY <1>1, <1>2, <1>3, <1>4, <1>5, <1>6, <1>7, <1>8, <1>9 DEF Next, ManagerStep

-----------------------------------------------------------------------------
LEMMA InitGood == Init => IInv
<1> SUFFICES ASSUME Init PROVE IInv
  OBVIOUS
<1>1. NoCompass \in [Compasses -> Compass] /\ AllSides("hidden") \in [Positions -> SideStates]
  BY DEF NoCompass, Compass, AllSides, SideStates
<1>2. /\ s \in Session /\ s.flow = "oneShot" /\ s.phase = "none" /\ s.ver = "not_applicable"
      /\ s.timers = {} /\ ~s.cancelling /\ ~s.accepting /\ ~s.told /\ ~s.acked
  BY <1>1 DEF Init, Fresh, Session, Phases, Verdicts
<1>3. ~Runs(s) /\ ~Live
  BY <1>2 DEF Runs, Live
<1>4. Good(s)
  BY <1>2, <1>3 DEF Good, Sane, Verdict, FlowFits, Allowed, Published
<1>5. OneSession /\ OrphanHandled /\ Grace
  BY <1>3, LiveBoolean DEF Init, OneSession, OrphanHandled, Grace
<1>6. QED BY <1>4, <1>5 DEF Init, IInv

LEMMA StutterKeeps == IInv /\ UNCHANGED vars => IInv'
BY DEF IInv, vars, OneSession, OrphanHandled, Grace, Live, Ended, Orphaned

(* The inductive invariant: the session is in order, the manager and the     *)
(* bridge know of it, and whoever may still reclaim it is waited for.        *)
THEOREM Safety == Spec => []IInv
<1>1. Init => IInv
  BY InitGood
<1>2. IInv /\ [Next]_vars => IInv'
  BY Steps, StutterKeeps
<1>3. QED BY <1>1, <1>2, PTL DEF Spec

(* Every variable keeps its type, and an acceptance never has two deadlines. *)
THEOREM TypeCorrect == Spec => []TypeOK
<1>1. IInv => TypeOK
  BY DEF IInv, Good, Sane, TypeOK
<1>2. QED BY <1>1, Safety, PTL

(* Whatever the vehicle sends, a session that runs has a timer to end it,    *)
(* and one without an owner has its grace or is being cancelled.             *)
THEOREM AlwaysWatched == Spec => []WatchdogArmed
<1>1. IInv => WatchdogArmed
  BY LiveRuns DEF IInv, Good, Sane, Watched, WatchdogArmed
<1>2. QED BY <1>1, Safety, PTL

(* The manager, the bridge and the session agree.                            *)
THEOREM SessionsAgree == Spec => []OneSession
<1>1. IInv => OneSession
  BY DEF IInv
<1>2. QED BY <1>1, Safety, PTL

(* Session, manager, bridge and timers fit together, in every reachable      *)
(* state.                                                                    *)
THEOREM Consistent == Spec => []CalibrationConsistent
<1>1. CalibrationConsistent <=> TypeOK /\ WatchdogArmed /\ OneSession
  BY DEF CalibrationConsistent
<1>2. QED BY <1>1, TypeCorrect, AlwaysWatched, SessionsAgree, PTL

(* No verdict without the evidence it claims.                                *)
THEOREM VerdictsProved == Spec => []VerdictHasEvidence
<1>1. IInv => VerdictHasEvidence
  BY DEF IInv, Good, Sane, Verdict, VerdictHasEvidence
<1>2. QED BY <1>1, Safety, PTL

(* What a page shows is current, or about to be.                             *)
THEOREM PagesCurrent == Spec => []PublishedIsCurrent
<1>1. IInv => PublishedIsCurrent
  BY DEF IInv, Good, Published, PublishedIsCurrent
<1>2. QED BY <1>1, Safety, PTL

(* What is shown of the outcome is what the vehicle reported, and is current.*)
THEOREM OutcomesAreShown == Spec => []OutcomesShown
<1>1. OutcomesShown <=> VerdictHasEvidence /\ PublishedIsCurrent
  BY DEF OutcomesShown
<1>2. QED BY <1>1, VerdictsProved, PagesCurrent, PTL

(* Compass values are stored only after every compass has reported, and once. *)
THEOREM AcceptsReviewed == Spec => AcceptReviewed
<1>1. IInv /\ [Next]_vars => [sent' = "accept" => AllExpected(s, {"success", "saved"}) /\ ~s.accepting]_vars
  BY Steps DEF Said
<1>2. QED BY <1>1, Safety, PTL DEF Spec, AcceptReviewed

(* A confirmed position answers the request that is open.                    *)
THEOREM EchoesAnswer == Spec => EchoAnswersRequest
<1>1. IInv /\ [Next]_vars => [sent' \in Positions => s.open /\ sent' = s.last]_vars
  BY Steps DEF Said
<1>2. QED BY <1>1, Safety, PTL DEF Spec, EchoAnswersRequest

(* What the operator confirms answers what the vehicle asked.                *)
THEOREM Answers == Spec => AnswersAsked
<1>1. AnswersAsked <=> AcceptReviewed /\ EchoAnswersRequest
  BY DEF AnswersAsked
<1>2. QED BY <1>1, AcceptsReviewed, EchoesAnswer

(* Whoever comes back after the grace finds the session closed.              *)
THEOREM GraceIsFinal == Spec => NoReturnAfterExpiry
<1>1. IInv /\ [Next]_vars
        => [Live /\ Orphaned /\ ~orphanTimer /\ sessions' = sessions => s'.owner = NoClient]_vars
  <2> SUFFICES ASSUME IInv, Next, Live, Orphaned, ~orphanTimer, sessions' = sessions
               PROVE  s'.owner = NoClient
    OBVIOUS
  <2>1. ~Beginning
    BY DEF Beginning
  <2>2. CASE Settling
    BY <2>2 DEF Settling, Keeps, Orphaned
  <2>3. CASE Handover
    BY <2>3 DEF Handover
  <2>4. CASE Ending
    BY <2>4 DEF Ending, Orphaned
  <2>5. QED BY <2>1, <2>2, <2>3, <2>4, Steps
<1>2. QED BY <1>1, Safety, PTL DEF Spec, NoReturnAfterExpiry

(* The operator answers only what was asked, and only while the session is   *)
(* his to answer for.                                                        *)
THEOREM OperatorIsBound == Spec => OperatorBounds
<1>1. OperatorBounds <=> AnswersAsked /\ NoReturnAfterExpiry
  BY DEF OperatorBounds
<1>2. QED BY <1>1, Answers, GraceIsFinal

(* The detailed calibration implements the ledger: it begins, ends once, and *)
(* asks for one refresh if it was a success.                                 *)
LEMMA StageOpen == ASSUME IInv PROVE Live = (Stage = "open")
<1>1. s.phase \in Phases
  BY DEF IInv, Good, Sane, Session
<1>2. QED BY <1>1 DEF Live, Ended, Stage, Phases, Terminal

THEOREM LedgerImplemented == Spec => LedgerSpec
<1>1. Init => Ledger!Init
  BY DEF Init, Ledger!Init, Stage, Fresh
<1>2. ASSUME IInv, IInv', [Next]_vars
      PROVE  [Ledger!Next]_<<sessions, Stage, refreshes>>
  <2>1. (Live = (Stage = "open")) /\ (Live' = (Stage' = "open"))
    <3>1. s'.phase \in Phases
      BY <1>2 DEF IInv, Good, Sane, Session
    <3>2. Live' = (Stage' = "open")
      BY <3>1 DEF Live, Ended, Stage, Phases, Terminal
    <3>3. QED BY <1>2, <3>2, StageOpen
  <2>2. s'.phase = "failed" => Stage' = "failure"
    BY DEF Stage
  <2>3. CASE UNCHANGED vars
    BY <2>3 DEF vars, Stage
  <2>4. CASE Settling
    <3>1. CASE ~Ended(s')
      <4>1. Live /\ Live' /\ UNCHANGED <<sessions, refreshes>>
        BY <2>4, <3>1 DEF Settling, Settled, Keeps, Kept, Live, Ended
      <4>2. QED BY <2>1, <4>1
    <3>2. CASE Ended(s') /\ s'.phase \in {"done", "accepted"}
      <4>1. Live /\ sessions' = sessions /\ refreshes' = refreshes + 1 /\ Stage' = "success"
        BY <2>4, <3>2 DEF Settling, Settled, Kept, Stage
      <4>2. QED BY <2>1, <4>1 DEF Ledger!Next, Ledger!Succeed
    <3>3. CASE Ended(s') /\ s'.phase \notin {"done", "accepted"}
      <4>1. Live /\ sessions' = sessions /\ refreshes' = refreshes /\ Stage' = "failure"
        BY <2>4, <3>3 DEF Settling, Settled, Kept, Stage, Ended, Terminal
      <4>2. QED BY <2>1, <4>1 DEF Ledger!Next, Ledger!Fail
    <3>4. QED BY <3>1, <3>2, <3>3
  <2>5. CASE Handover
    BY <2>5 DEF Handover, Stage
  <2>6. CASE Ending
    <3>1. CASE s' = s
      BY <2>6, <3>1 DEF Ending, Stage
    <3>2. CASE s' # s
      BY <2>1, <2>2, <2>6, <3>2 DEF Ending, Ledger!Next, Ledger!Fail
    <3>3. QED BY <3>1, <3>2
  <2>7. CASE Beginning
    BY <2>1, <2>2, <2>7 DEF Beginning, Ledger!Next, Ledger!Begin
  <2>8. QED BY <1>2, <2>3, <2>4, <2>5, <2>6, <2>7, Steps
<1>3. QED BY <1>1, <1>2, Safety, PTL DEF Spec, LedgerSpec, Ledger!Spec
=============================================================================
