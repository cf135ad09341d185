----------------------------- MODULE BridgeBase -----------------------------
(***************************************************************************)
(* What the command and the parameter requests of MavlinkBridge share: the *)
(* selected vehicle, whether it takes requests, whether it is known to be  *)
(* armed.  A page confines itself to some requests, so that independent    *)
(* requests are explored side by side and not multiplied.                  *)
(***************************************************************************)
EXTENDS Integers, Sequences, SequencesExt

CONSTANTS
    Vehicles,     \* autopilots that may be selected
    Pages,        \* records: what a page uses (commands, motors, "set",
                  \* "airframe", "load"), the vehicles it finds, how often it
                  \* asks and a target is selected anew (bounds), and the
                  \* parameters the vehicle may have
    MaxRequests   \* bound: requests of a page

ASSUME BaseAssumption ==
    /\ MaxRequests \in Nat
    /\ \A p \in Pages :
          p.on \subseteq Vehicles /\ p.asks \in 0..MaxRequests /\ p.switches \in Nat

VARIABLES
    page,       \* what the page uses, fixed at the start
    target,     \* targetSysId of the bridge
    ready,      \* requireReadyTarget
    armed,      \* lastArmedState is true; it is known whenever ready is
    asked,      \* requests so far
    switches    \* times a target was selected anew

baseVars == <<target, ready, armed, asked, switches>>

Requests == 1..MaxRequests

(* The entries of a sequence at some of its positions, in their order.       *)
EntriesAt(s, at) ==
    LET kept[n \in 0..Len(s)] ==
            IF n = 0 THEN <<>> ELSE IF n \in at THEN Append(kept[n - 1], s[n]) ELSE kept[n - 1]
    IN  kept[Len(s)]

NextRequest(r) == ready /\ asked < page.asks /\ r = asked + 1 /\ asked' = r

(* identityChanged or becameArmed of a heartbeat.                            *)
BecomesArmed(isArmed) == isArmed /\ ~armed

BaseInit ==
    /\ page \in Pages /\ target \in page.on
    /\ ready = TRUE /\ armed \in BOOLEAN /\ asked = 0 /\ switches = 0

(* handleHeartbeat of the selected vehicle.  The connection manager refuses  *)
(* it while the vehicle is known to reboot.                                  *)
BaseHeartbeat(isArmed, refused) ==
    /\ ready' = ~refused
    /\ armed' = IF refused THEN armed ELSE isArmed
    /\ UNCHANGED <<target, asked, switches>>

(* activateTarget: another vehicle is selected, or the same one again after  *)
(* pauseProtocol and resumeProtocol have put the target aside.               *)
BaseReselect(v) ==
    /\ target' = v
    /\ switches < page.switches /\ switches' = switches + 1
    /\ ready' = FALSE /\ armed' = FALSE
    /\ UNCHANGED asked
=============================================================================
