------------------------------ MODULE LinkLease ------------------------------
(***************************************************************************)
(* What the ESC stack promises about the one serial link, without          *)
(* sessions, owners, jobs or timers: the link is MAVLink's or on loan; it  *)
(* is lent only on evidence of a disarmed, ready vehicle; that evidence is *)
(* kept as it was while nobody can refresh it; and it is gone when the     *)
(* link comes back, so that a new loan needs a new heartbeat.              *)
(***************************************************************************)
VARIABLES
    holder,   \* who speaks on the link: "nobody", "mavlink" or "esc"
    evidence  \* "disarmed": the last heartbeat showed a ready, disarmed vehicle

vars == <<holder, evidence>>

TypeOK ==
    /\ holder \in {"nobody", "mavlink", "esc"}
    /\ evidence \in {"disarmed", "other"}

Init == holder = "nobody" /\ evidence = "other"

Open == holder = "nobody" /\ holder' = "mavlink" /\ evidence' = "other"
Close == holder # "nobody" /\ holder' = "nobody" /\ evidence' = "other"

(* A heartbeat, a watchdog or a target change: only MAVLink learns anything. *)
Observe == holder = "mavlink" /\ evidence' \in {"disarmed", "other"} /\ UNCHANGED holder

Lend == holder = "mavlink" /\ evidence = "disarmed" /\ holder' = "esc" /\ UNCHANGED evidence
Return == holder = "esc" /\ holder' = "mavlink" /\ evidence' = "other"

Next == Open \/ Close \/ Observe \/ Lend \/ Return

Spec == Init /\ [][Next]_vars
=============================================================================
