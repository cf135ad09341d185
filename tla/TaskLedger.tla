----------------------------- MODULE TaskLedger -----------------------------
(***************************************************************************)
(* What the runtime promises of its calibrations: there is one at a time,  *)
(* its end is final, and a success is followed by exactly one refresh of   *)
(* the parameters, a failure by none.                                      *)
(***************************************************************************)
EXTENDS Naturals

VARIABLES
    started,     \* calibrations so far
    stage,       \* of the last one
    refreshed    \* parameter refreshes requested so far

Init == started = 0 /\ stage = "idle" /\ refreshed = 0

(* A calibration whose start command cannot be sent fails at once.           *)
Begin ==
    /\ stage # "open"
    /\ started' = started + 1
    /\ stage' \in {"open", "failure"}
    /\ UNCHANGED refreshed

Succeed ==
    /\ stage = "open" /\ stage' = "success"
    /\ refreshed' = refreshed + 1
    /\ UNCHANGED started

Fail ==
    /\ stage = "open" /\ stage' = "failure"
    /\ UNCHANGED <<started, refreshed>>

Next == Begin \/ Succeed \/ Fail

Spec == Init /\ [][Next]_<<started, stage, refreshed>>
=============================================================================
