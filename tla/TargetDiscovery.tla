---------------------------- MODULE TargetDiscovery ----------------------------
(***************************************************************************)
(* Which autopilot the MavlinkBridge talks to: the bounded table of the    *)
(* autopilots heard, the proof of stability that binds a lone one, the     *)
(* conflict that refuses writes while several are stable, the explicit     *)
(* choice that resolves it.  One tick stands for                           *)
(* TARGET_HEARTBEAT_CONTINUITY_MS; an entry is stale after StaleTicks ticks.    *)
(***************************************************************************)
EXTENDS Naturals, Sequences, FiniteSets, SequencesExt

CONSTANTS
    Autopilots,  \* [system, component] of the autopilots that may be on the bus
    MinBeats,    \* TARGET_STABILITY_HEARTBEAT_MIN
    StaleTicks,       \* TARGET_DISCOVERY_STALE_MS
    MaxKnown,    \* MAX_DISCOVERED_TARGETS
    MaxResets    \* bound: link changes, reboots and identity changes

NoPeer == [system |-> 0, component |-> 0]

ASSUME TargetAssumption ==
    /\ MinBeats \in Nat \ {0} /\ StaleTicks \in Nat \ {0} /\ MaxKnown \in Nat \ {0}
    /\ IsFiniteSet(Autopilots) /\ NoPeer \notin Autopilots

VARIABLES
    bus,       \* the air: per autopilot [age, beats] since the bridge listens
    kind,      \* the air: per autopilot the identity its HEARTBEAT tells
    known,     \* discoveredTargets, oldest first: [peer, age, beats]
    target,    \* targetSysId / targetCompId
    chosen,    \* explicitTargetSelected
    source,    \* targetSelectionSource
    conflict,  \* targetConflict: [reason, candidates]
    identity,  \* selectedIdentity
    beatReady, \* selectedHeartbeatReady
    managerReady, \* connection manager: vehicleReady
    rebooting, \* connection manager: the stale heartbeats of a reboot are refused
    aired,     \* the link is connected and MAVLink not paused
    boundAlone,\* history: the automatic binding saw no other steady autopilot
    resets

targetVars == <<bus, kind, known, target, chosen, source, conflict, identity, beatReady,
                managerReady, rebooting, aired, boundAlone, resets>>

NoConflict == [reason |-> "none", candidates |-> {}]
Unheard == [age |-> StaleTicks + 1, beats |-> 0]
NoKind == 0

TargetInit ==
    /\ bus = [p \in Autopilots |-> Unheard] /\ kind = [p \in Autopilots |-> 1]
    /\ known = <<>> /\ target = NoPeer /\ chosen = FALSE /\ source = "none"
    /\ conflict = NoConflict /\ identity = NoKind /\ beatReady = FALSE /\ managerReady = FALSE
    /\ rebooting = FALSE /\ aired = TRUE /\ boundAlone = TRUE /\ resets = 0

Older(n) == IF n > StaleTicks THEN n ELSE n + 1
BeatsAfter(entry) == IF entry.age > 1 THEN 1
                     ELSE IF entry.beats < MinBeats THEN entry.beats + 1 ELSE MinBeats
Steady(entry) == entry.beats >= MinBeats /\ entry.age <= StaleTicks
SteadyOn(b) == {p \in Autopilots : Steady(b[p])}
-----------------------------------------------------------------------------
(* The table.                                                                *)
PlacesOf(k, p) == {i \in DOMAIN k : k[i].peer = p}
WithoutPeer(k, p) ==
    IF PlacesOf(k, p) = {} THEN k ELSE RemoveAt(k, CHOOSE i \in PlacesOf(k, p) : TRUE)

(* Full, the oldest that is not the selected one leaves.                     *)
EvictedPeer(k, t) ==
    IF Len(k) < MaxKnown \/ {i \in DOMAIN k : k[i].peer # t} = {} THEN k
    ELSE RemoveAt(k, CHOOSE i \in DOMAIN k :
                         k[i].peer # t /\ \A j \in 1..(i - 1) : k[j].peer = t)

(* Wrong on purpose: heartbeats count across any silence.                    *)
RememberedPeerAcrossGaps(k, t, p) ==
    LET was == PlacesOf(k, p)
    IN  Append(EvictedPeer(WithoutPeer(k, p), t),
            [peer |-> p, age |-> 0,
             beats |-> IF was = {} THEN 1
                       ELSE BeatsAfter([k[CHOOSE i \in was : TRUE] EXCEPT !.age = 0])])

RememberedPeer(k, t, p) ==
    LET was == PlacesOf(k, p)
    IN  Append(EvictedPeer(WithoutPeer(k, p), t),
               [peer |-> p, age |-> 0,
                beats |-> IF was = {} THEN 1 ELSE BeatsAfter(k[CHOOSE i \in was : TRUE])])

Stable(k) == {k[i].peer : i \in {j \in DOMAIN k : Steady(k[j])}}

(* What is stale and not selected leaves; the others keep their order.       *)
Purged(k, t) ==
    LET kept[n \in 0..Len(k)] ==
            IF n = 0 THEN <<>>
            ELSE IF k[n].age <= StaleTicks \/ k[n].peer = t THEN Append(kept[n - 1], k[n])
            ELSE kept[n - 1]
    IN  kept[Len(k)]

SharedSystems(s) == {g \in {{q \in s : q.system = p.system} : p \in s} : Cardinality(g) >= 2}

(* Wrong on purpose: only a shared system id is a conflict.                  *)
ConflictOfSystems(s, explicit) ==
    IF SharedSystems(s) = {} THEN NoConflict
    ELSE [reason |-> "same_system", candidates |-> CHOOSE g \in SharedSystems(s) :
              \A h \in SharedSystems(s) : \E p \in g : \A q \in h : p.system <= q.system]

(* Two with one system id always conflict; other pairs until one is chosen.  *)
ConflictOf(s, explicit) ==
    CASE SharedSystems(s) # {} ->
           [reason |-> "same_system", candidates |-> CHOOSE g \in SharedSystems(s) :
                \A h \in SharedSystems(s) : \E p \in g : \A q \in h : p.system <= q.system]
      [] SharedSystems(s) = {} /\ ~explicit /\ Cardinality(s) >= 2 ->
           [reason |-> "multiple", candidates |-> s]
      [] OTHER -> NoConflict
-----------------------------------------------------------------------------
(* A HEARTBEAT of p: remembered, the conflict judged anew, a lone stable     *)
(* autopilot bound, and, if p is the selected one, its identity and the      *)
(* readiness of the vehicle taken from it.                                   *)
AutoBinds(s) == target = NoPeer /\ ConflictOf(s, chosen) = NoConflict /\ Cardinality(s) = 1

Heartbeat(p) ==
    LET table == Purged(RememberedPeer(known, target, p), target)
        stable == Stable(table)
        binds == AutoBinds(stable)
        now == IF binds THEN CHOOSE q \in stable : TRUE ELSE target
        before == IF binds THEN NoKind ELSE identity
    IN  /\ aired
        /\ bus' = [bus EXCEPT ![p] = [age |-> 0, beats |-> BeatsAfter(bus[p])]]
        /\ known' = table /\ conflict' = ConflictOf(stable, chosen) /\ target' = now
        /\ chosen' = (chosen /\ ~binds)
        /\ source' = IF binds THEN "automatic" ELSE source
        /\ boundAlone' = IF binds THEN SteadyOn(bus') = {now} ELSE boundAlone
        /\ IF now # p THEN /\ identity' = before /\ beatReady' = (beatReady /\ ~binds)
                           /\ UNCHANGED managerReady
           ELSE /\ identity' = kind[p] /\ managerReady' = ~rebooting /\ beatReady' = ~rebooting
        /\ UNCHANGED <<kind, rebooting, aired, resets>>

(* select_target: only what was discovered; the choice is remembered and the *)
(* conflict judged with it before the target is activated.                   *)
SelectTarget(p) ==
    LET table == Purged(known, target)
        judged == ConflictOf(Stable(table), TRUE)
    IN  /\ aired /\ PlacesOf(known, p) # {}
        /\ known' = table /\ conflict' = judged /\ chosen' = TRUE /\ source' = "explicit"
        /\ target' = p
        /\ identity' = IF target = p THEN identity ELSE NoKind
        /\ beatReady' = (beatReady /\ target = p)
        /\ UNCHANGED <<bus, kind, managerReady, rebooting, aired, boundAlone, resets>>

Tick ==
    /\ bus' = [p \in Autopilots |-> [bus[p] EXCEPT !.age = Older(@)]]
    /\ known' = [i \in DOMAIN known |-> [known[i] EXCEPT !.age = Older(@)]]
    /\ UNCHANGED <<kind, target, chosen, source, conflict, identity, beatReady, managerReady,
                   rebooting, aired, boundAlone, resets>>
-----------------------------------------------------------------------------
Resets == resets < MaxResets /\ resets' = resets + 1

(* A status change of the link, or an ESC session that pauses or resumes the *)
(* protocol: the target, the table and the conflict are forgotten.           *)
ResetTargetState ==
    /\ Resets /\ aired' \in BOOLEAN /\ bus' = [p \in Autopilots |-> Unheard]
    /\ known' = <<>> /\ target' = NoPeer /\ chosen' = FALSE /\ source' = "none"
    /\ conflict' = NoConflict /\ identity' = NoKind /\ beatReady' = FALSE
    /\ managerReady' = FALSE /\ rebooting' = FALSE
    /\ UNCHANGED <<kind, boundAlone>>

(* The connection manager: a deliberate reboot refuses heartbeats for a      *)
(* while, a silent vehicle is not ready.                                     *)
VehicleReboots == Resets /\ ~rebooting /\ target # NoPeer /\ rebooting' = TRUE /\ managerReady' = FALSE
                                /\ UNCHANGED <<bus, kind, known, target, chosen, source, conflict, identity,
                                 beatReady, aired, boundAlone>>
RebootSettles == rebooting /\ rebooting' = FALSE
                 /\ UNCHANGED <<bus, kind, known, target, chosen, source, conflict, identity,
                                beatReady, managerReady, aired, boundAlone, resets>>
HeartbeatLost == managerReady /\ bus[target].age > 1 /\ managerReady' = FALSE
                 /\ UNCHANGED <<bus, kind, known, target, chosen, source, conflict, identity,
                                beatReady, rebooting, aired, boundAlone, resets>>

(* Another firmware answers at the same address.                             *)
KindChanges(p) == Resets /\ kind' = [kind EXCEPT ![p] = 3 - @]
                  /\ UNCHANGED <<bus, known, target, chosen, source, conflict, identity, beatReady,
                                 managerReady, rebooting, aired, boundAlone>>

TargetNext ==
    \/ \E p \in Autopilots : Heartbeat(p) \/ SelectTarget(p) \/ KindChanges(p)
    \/ Tick \/ ResetTargetState \/ VehicleReboots \/ RebootSettles \/ HeartbeatLost

TargetSpec == TargetInit /\ [][TargetNext]_targetVars
-----------------------------------------------------------------------------
HasReadyTarget == target # NoPeer /\ beatReady /\ managerReady
MayWrite == HasReadyTarget /\ conflict = NoConflict

(* Fail closed on an ambiguous bus (refreshTargetConflict): as long as the   *)
(* table holds every autopilot on it, writes are possible only while the     *)
(* bridge itself heard one steady autopilot or the user chose among several  *)
(* with different system ids; an automatic choice was made of the one steady *)
(* autopilot there was; and the vehicle written to has told its identity.    *)
TargetUnambiguous ==
    /\ (Cardinality(Autopilots) <= MaxKnown /\ MayWrite) =>
         /\ chosen \/ Cardinality(SteadyOn(bus)) <= 1
         /\ \A p, q \in SteadyOn(bus) : p.system = q.system => p = q
         /\ identity # NoKind
    /\ (Cardinality(Autopilots) <= MaxKnown /\ source = "automatic") => boundAlone

(* The selected autopilot is one of those the page is told of.  NOT true:    *)
(* selectTarget takes the entry before refreshTargetConflict purges it.      *)
SelectedIsKnown == target = NoPeer \/ PlacesOf(known, target) # {}
=============================================================================
