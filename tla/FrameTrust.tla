------------------------------ MODULE FrameTrust ------------------------------
(***************************************************************************)
(* handleFrame of MavlinkCodecSession with signing configured: which of    *)
(* the frames with a right CRC are believed.  The codec remembers for each *)
(* source and signing link the last timestamp, and for each source that it *)
(* signs; both memories are bounded, evict, and outlive a reset of the     *)
(* codec, which changes nothing else that is kept here.                    *)
(***************************************************************************)
EXTENDS Integers, Sequences, SequencesExt

CONSTANTS
    Sources,        \* (sysid, compid) pairs
    SigningLinks,   \* link ids of the signature
    MaxTracked,     \* MAX_TRACKED_SOURCES
    MaxAge,         \* SIGNATURE_MAX_AGE_TICKS
    MaxFuture,      \* SIGNATURE_MAX_FUTURE_TICKS
    MaxTime,        \* bound: the clock
    RequireSigned,  \* signing.requireSigned
    AllowStale      \* signing.allowStaleFirstPacket

ASSUME TrustAssumption ==
    /\ MaxTracked \in Nat \ {0} /\ MaxAge \in Nat /\ MaxFuture \in Nat /\ MaxTime \in Nat
    /\ RequireSigned \in BOOLEAN /\ AllowStale \in BOOLEAN

Keys == Sources \X SigningLinks

VARIABLES
    now,        \* Date.now()
    watermarks, \* replayTimestamps: [key, stamp], the oldest entry first
    signers,    \* signedSources, the oldest first
    believed,   \* history: signed frames accepted, the latest last
    learned,    \* history: sources in the order the codec learned them
    downgraded  \* history: sources whose unsigned frame was accepted last

trustVars == <<now, watermarks, signers, believed, learned, downgraded>>

Frames == [source : Sources, link : SigningLinks, signed : BOOLEAN, valid : BOOLEAN,
           stamp : 0..MaxTime + MaxFuture + 1]

TrustInit ==
    /\ now = 0 /\ watermarks = <<>> /\ signers = <<>>
    /\ believed = <<>> /\ learned = <<>> /\ downgraded = {}
-----------------------------------------------------------------------------
KeyOf(f) == <<f.source, f.link>>
Tracked(key) == \E i \in DOMAIN watermarks : watermarks[i].key = key
Previous(key) == (CHOOSE i \in DOMAIN watermarks : watermarks[i].key = key)

(* Of a memory without the entry that is to become its youngest.             *)
Without(memory, places) ==
    IF places = {} THEN memory ELSE RemoveAt(memory, CHOOSE i \in places : TRUE)
Marks(memory, key) == {i \in DOMAIN memory : memory[i].key = key}

(* Room for one more: the oldest entries go.                                 *)
Evicted(memory) ==
    IF Len(memory) < MaxTracked THEN memory
    ELSE SubSeq(memory, Len(memory) - MaxTracked + 2, Len(memory))

(* learnSignedSource.                                                        *)
LearnSigned(source) ==
    IF source \in Range(signers) THEN UNCHANGED <<signers, learned>>
    ELSE /\ signers' = Append(Evicted(signers), source)
         /\ learned' = Append(Without(learned, {i \in DOMAIN learned : learned[i] = source}), source)

Stale(f) == ~Tracked(KeyOf(f)) /\ ~AllowStale /\ f.stamp < now - MaxAge
Future(f) == f.stamp > now + MaxFuture

(* Wrong on purpose: the last stamp itself is believed again.                *)
ReplayedOlder(f) == Tracked(KeyOf(f)) /\ f.stamp < watermarks[Previous(KeyOf(f))].stamp

Replayed(f) == Tracked(KeyOf(f)) /\ f.stamp <= watermarks[Previous(KeyOf(f))].stamp

(* Wrong on purpose: a key that is heard again keeps its old place.          *)
RememberedInPlace(f) ==
    IF Tracked(KeyOf(f))
    THEN [watermarks EXCEPT ![Previous(KeyOf(f))].stamp = f.stamp]
    ELSE Append(Evicted(watermarks), [key |-> KeyOf(f), stamp |-> f.stamp])

(* The key that is heard again becomes the youngest.                         *)
Remembered(f) ==
    Append(Evicted(Without(watermarks, Marks(watermarks, KeyOf(f)))),
           [key |-> KeyOf(f), stamp |-> f.stamp])

(* An unsigned frame, of either protocol version.                            *)
HandleUnsigned(f) ==
    /\ ~f.signed
    /\ IF RequireSigned \/ f.source \in Range(signers)
       THEN UNCHANGED downgraded
       ELSE downgraded' = downgraded \cup {f.source}
    /\ UNCHANGED <<watermarks, signers, believed, learned>>

(* A signed frame.  A right signature counts even when the stamp does not.   *)
HandleSigned(f) ==
    /\ f.signed
    /\ IF ~f.valid THEN UNCHANGED <<signers, learned, downgraded, watermarks, believed>>
       ELSE /\ LearnSigned(f.source) /\ downgraded' = downgraded \ {f.source}
            /\ IF Stale(f) \/ Future(f) \/ Replayed(f)
               THEN UNCHANGED <<watermarks, believed>>
               ELSE /\ watermarks' = Remembered(f)
                    /\ believed' = Append(Without(believed, Marks(believed, KeyOf(f))),
                                          [key |-> KeyOf(f), stamp |-> f.stamp])

HandleFrame == \E f \in Frames : (HandleUnsigned(f) \/ HandleSigned(f)) /\ UNCHANGED now

Ticks == now < MaxTime /\ now' = now + 1
         /\ UNCHANGED <<watermarks, signers, believed, learned, downgraded>>

TrustNext == HandleFrame \/ Ticks
TrustSpec == TrustInit /\ [][TrustNext]_trustVars
-----------------------------------------------------------------------------
TrustTypeOK ==
    /\ now \in 0..MaxTime /\ downgraded \subseteq Sources
    /\ Len(watermarks) <= MaxTracked /\ Len(signers) <= MaxTracked
    /\ \A i, j \in DOMAIN watermarks : i # j => watermarks[i].key # watermarks[j].key

(* The keys heard last: those the memory has room for.                       *)
LastHeard(history) ==
    {history[i] : i \in {k \in DOMAIN history : k > Len(history) - MaxTracked}}

(* The codec remembers the stamps of the keys it believed last, whatever was *)
(* evicted between, and no stamp it remembers lies so far ahead    *)
(* that its source is refused once the clocks agree.                         *)
TrustKept ==
    /\ TrustTypeOK
    /\ \A e \in LastHeard(believed) : e \in Range(watermarks)
    /\ \A e \in Range(watermarks) : e.stamp <= now + MaxFuture
    /\ \A e \in Range(watermarks) : e.key[1] \in Range(learned)
    /\ LastHeard(learned) = Range(signers)

(* No stamp of a key heard lately is believed twice, and no source known to  *)
(* sign is believed without a signature.                                     *)
NoReplayNoDowngrade ==
    [][/\ believed' # believed =>
            \A e \in LastHeard(believed) :
                e.key = Last(believed').key => Last(believed').stamp > e.stamp
       /\ \A s \in downgraded' \ downgraded : s \notin LastHeard(learned)]_trustVars

(* The bounded tables forget no one who matters, and what they know is used. *)
TrustHolds == []TrustKept /\ NoReplayNoDowngrade
=============================================================================
