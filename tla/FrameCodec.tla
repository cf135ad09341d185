------------------------------ MODULE FrameCodec ------------------------------
(***************************************************************************)
(* The receiving half of MavlinkCodecSession: bytes arrive in chunks cut   *)
(* anywhere, are kept in an ingress buffer and framed by magic, claimed    *)
(* length and CRC.  Noise, damaged frames and frames of unknown messages   *)
(* stand between the frames of the vehicle, and a payload may hold bytes   *)
(* that look like a frame.                                                 *)
(*                                                                         *)
(* A frame is the magic, the payload length, the message id, the payload   *)
(* and one byte of CRC; the two protocol versions differ in the bytes of   *)
(* the header only.                                                        *)
(***************************************************************************)
EXTENDS Integers, Sequences, FiniteSets, FiniteSetsExt

CONSTANTS
    KnownIds,    \* message ids of REGISTRY
    Items,       \* what the link carries: frames, damaged frames, noise
    MaxItems,    \* bound: items per run
    MaxPayload,  \* longest payload a length byte can claim
    MaxBuffered  \* options.maxBufferedBytes

Magic == MaxPayload
HeaderLength == 3
MaxFrame == HeaderLength + MaxPayload + 1

(* The constructor keeps the buffer no shorter than the longest frame.       *)
ASSUME CodecAssumption ==
    /\ MaxItems \in Nat /\ MaxPayload \in Nat
    /\ MaxBuffered \in Nat /\ MaxBuffered >= MaxFrame
    /\ Items \subseteq Seq(0..MaxPayload)

VARIABLES
    stream,     \* history: the bytes the link carries
    placed,     \* history: [at, bytes] of the items they are
    arrived,    \* history: bytes of the stream that have arrived
    ingress,    \* ingress
    delivered,  \* history: [at, bytes] of the frames handed to handleFrame
    overflowed  \* history: the buffer limit has discarded bytes

codecVars == <<stream, placed, arrived, ingress, delivered, overflowed>>
-----------------------------------------------------------------------------
(* A CRC: any change of the length, the id or one payload byte changes it.   *)
Weighed(bytes) ==
    LET weight[n \in 0..Len(bytes)] == IF n = 0 THEN 0 ELSE bytes[n] + 3 * weight[n - 1]
    IN weight[Len(bytes)]
Crc(bytes) == Weighed(bytes) % 5

FrameOf(id, payload) ==
    LET covered == <<Len(payload), id>> \o payload
    IN <<Magic>> \o covered \o <<Crc(covered)>>

From(buffer, at) == SubSeq(buffer, at, Len(buffer))

(* nextMagic: the first magic at or after a place, 0 if there is none.       *)
NextMagic(buffer, from) ==
    LET found == {i \in from..Len(buffer) : buffer[i] = Magic}
    IN IF found = {} THEN 0 ELSE Min(found)

(* frameLength, 0 while the header is incomplete.                            *)
FrameLength(buffer, at) ==
    IF Len(buffer) < at + HeaderLength - 1 THEN 0 ELSE HeaderLength + buffer[at + 1] + 1

Known(buffer, at) == buffer[at + 2] \in KnownIds
CrcOk(buffer, at) ==
    LET last == at + FrameLength(buffer, at) - 1
    IN buffer[last] = Crc(SubSeq(buffer, at + 1, last - 1))
Complete(buffer, at) ==
    FrameLength(buffer, at) > 0 /\ at + FrameLength(buffer, at) - 1 <= Len(buffer)

(* findCompleteFrame: a whole frame inside a claim that is not.              *)
FindCompleteFrame(buffer, from) ==
    LET found == {i \in from..Len(buffer) :
                    buffer[i] = Magic /\ Complete(buffer, i) /\ Known(buffer, i) /\ CrcOk(buffer, i)}
    IN IF found = {} THEN 0 ELSE Min(found)

(* Wrong on purpose: a message that is still arriving is given up for what   *)
(* its payload holds.                                                        *)
MustWaitNever(buffer) == FALSE

(* A known message may hold a whole frame in a payload still arriving.       *)
MustWait(buffer) == Known(buffer, 1)

(* Wrong on purpose: a claim that fails its CRC is dropped with all it       *)
(* claimed.                                                                  *)
AfterCrcErrorAll(buffer) == From(buffer, FrameLength(buffer, 1) + 1)

(* A wrong CRC costs one byte: the claimed length may be damaged.            *)
AfterCrcError(buffer) == Tail(buffer)

(* One turn of the loop of drain, on what is left of the buffer and the      *)
(* frames taken, each with the bytes that were left when it was.             *)
Turn(t) ==
    LET buffer == t.left
        start  == NextMagic(buffer, 1)
        size   == FrameLength(buffer, 1)
        nested == FindCompleteFrame(buffer, 2)
        Leave(rest) == [t EXCEPT !.left = rest]
    IN IF start = 0 THEN Leave(<<>>)
       ELSE IF start > 1 THEN Leave(From(buffer, start))
       ELSE IF size = 0 THEN t
       ELSE IF Len(buffer) < size
       THEN IF MustWait(buffer) \/ nested = 0 THEN t ELSE Leave(From(buffer, nested))
       ELSE IF ~Known(buffer, 1) THEN Leave(From(buffer, size + 1))
       ELSE IF ~CrcOk(buffer, 1) THEN Leave(AfterCrcError(buffer))
       ELSE [left |-> From(buffer, size + 1),
             out  |-> t.out \cup {[left |-> Len(buffer), bytes |-> SubSeq(buffer, 1, size)]}]

(* drain: a turn that goes on shortens the buffer, so its length bounds them.*)
Drain(buffer) ==
    LET after[n \in 0..Len(buffer)] ==
            IF n = 0 THEN [left |-> buffer, out |-> {}] ELSE Turn(after[n - 1])
    IN after[Len(buffer)]
-----------------------------------------------------------------------------
CodecInit ==
    /\ stream = <<>> /\ placed = {} /\ arrived = 0
    /\ ingress = <<>> /\ delivered = {} /\ overflowed = FALSE

(* The vehicle, or whatever disturbs the link, puts bytes on the wire.       *)
Sent ==
    /\ Cardinality(placed) < MaxItems
    /\ \E item \in Items : /\ stream' = stream \o item
                           /\ placed' = placed \cup {[at |-> Len(stream) + 1, bytes |-> item]}
    /\ UNCHANGED <<arrived, ingress, delivered, overflowed>>

(* write: a chunk of any length arrives and is drained; then the limit.      *)
WriteChunk ==
    \E n \in 1..(Len(stream) - arrived) :
        LET got == Drain(ingress \o SubSeq(stream, arrived + 1, arrived + n))
        IN /\ arrived' = arrived + n
           /\ overflowed' = (overflowed \/ Len(got.left) > MaxBuffered)
           /\ ingress' = IF Len(got.left) > MaxBuffered
                         THEN From(got.left, Len(got.left) - MaxFrame + 1) ELSE got.left
           /\ delivered' = delivered \cup
                 {[at |-> arrived' - taken.left + 1, bytes |-> taken.bytes] : taken \in got.out}
           /\ UNCHANGED <<stream, placed>>

CodecNext == Sent \/ WriteChunk
CodecSpec == CodecInit /\ [][CodecNext]_codecVars
-----------------------------------------------------------------------------
CodecTypeOK ==
    /\ stream \in Seq(0..MaxPayload) /\ arrived \in 0..Len(stream) /\ overflowed \in BOOLEAN
    /\ ingress \in Seq(0..MaxPayload) /\ ingress = SubSeq(stream, arrived - Len(ingress) + 1, arrived)

(* The frames of the vehicle among the items, and those that have arrived.   *)
IsFrame(item) ==
    /\ Len(item) > HeaderLength /\ item[1] = Magic /\ FrameLength(item, 1) = Len(item)
    /\ Known(item, 1) /\ CrcOk(item, 1)
FramesPlaced == {p \in placed : IsFrame(p.bytes)}
Whole(p) == p.at + Len(p.bytes) - 1 <= arrived

(* On a clean link every frame is delivered as soon as its last byte is      *)
(* here and nothing else ever is, however the bytes are cut and whatever     *)
(* frames the payloads hold.                                                 *)
CleanLinkDelivers ==
    placed = FramesPlaced => delivered = {p \in placed : Whole(p)}

(* After any disturbance a whole frame is delivered or still buffered,       *)
(* unless a claim that began before it covers it: of an unknown message,     *)
(* whose length is believed before its CRC is here, or of a known one whose  *)
(* CRC is right by chance.                                                   *)
Covers(at, start) ==
    /\ stream[at] = Magic /\ start \in at + 1..at + FrameLength(stream, at) - 1
    /\ Known(stream, at) => Complete(stream, at) /\ CrcOk(stream, at)
Resynchronised ==
    \A p \in FramesPlaced : Whole(p) =>
        \/ p \in delivered
        \/ p.at > arrived - Len(ingress)
        \/ \E at \in 1..p.at - 1 : Covers(at, p.at)

(* The limit of the buffer never costs a byte: what drain leaves is shorter  *)
(* than the longest frame.                                                   *)
NeverOverflows == ~overflowed /\ Len(ingress) < MaxFrame

FramesDelivered == CodecTypeOK /\ CleanLinkDelivers /\ Resynchronised /\ NeverOverflows
=============================================================================
