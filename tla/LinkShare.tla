------------------------------ MODULE LinkShare ------------------------------
(***************************************************************************)
(* What the local runtime promises of the one link to the flight           *)
(* controller: the long operations take it one at a time.  An operation    *)
(* takes a free link and gives it back; nothing takes it from another one. *)
(* The only hand-over is a successful sensor calibration that is followed  *)
(* by a parameter refresh.                                                 *)
(***************************************************************************)
CONSTANT Operations

VARIABLE holders    \* the operations that have the link

Free == holders = {}

Acquire(x) == Free /\ holders' = {x}

Release == holders # {} /\ holders' = {}

Refresh == holders = {"calibration"} /\ holders' = {"sync"}

Next == (\E x \in Operations : Acquire(x)) \/ Release \/ Refresh

Spec == Free /\ [][Next]_holders
=============================================================================
