--------------------------- MODULE Transfers_proofs ---------------------------
(***************************************************************************)
(* Proofs about the file and log transfers, for files and logs of every    *)
(* length, every number of attempts, passes and registered downloads,      *)
(* every number of frames in the air and every cycle of numbers.           *)
(***************************************************************************)
EXTENDS Transfers, SequenceTheorems, FiniteSetTheorems, NaturalsInduction, TLAPS

LEMMA LeastNumber ==
    ASSUME NEW T \in SUBSET Nat, T # {}
    PROVE  \E m \in T : \A k \in T : m <= k
<1>1. PICK m \in T : \A k \in T : ~(<<k, m>> \in OpToRel(<, Nat))
  BY NatLessThanWellFounded, WFMin
<1>2. \A k \in T : ~(k < m)
  BY <1>1 DEF OpToRel
<1> QED BY <1>2

LEMMA GreatestNumber ==
    ASSUME NEW n \in Nat, NEW T \in SUBSET (0..n), T # {}
    PROVE  \E m \in T : \A k \in T : k <= m
<1> DEFINE U == {n - k : k \in T}
<1>0. \A k \in T : n - k \in Nat
  OBVIOUS
<1>1. U \in SUBSET Nat /\ U # {}
  BY <1>0
<1>2. PICK u \in U : \A k \in U : u <= k
  BY <1>1, LeastNumber
<1>3. PICK m \in T : u = n - m
  OBVIOUS
<1>4. ASSUME NEW k \in T PROVE k <= m
  <2>1. n - k \in U
    OBVIOUS
  <2>2. n - m <= n - k
    BY <1>2, <1>3, <2>1
  <2> QED BY <2>2
<1> QED BY <1>4
-----------------------------------------------------------------------------
(* Intervals.                                                                *)
LEMMA CoveredBy ==
    ASSUME NEW I
    PROVE  \A x : x \in Covered(I) <=> \E i \in I : x \in i[1]..(i[2] - 1)
BY DEF Covered

LEMMA CutPairs ==
    ASSUME NEW I, \A i \in I : i[1] \in Int /\ i[2] \in Int, NEW s \in Int, NEW e \in Int
    PROVE  \A j \in subtractInterval(I, s, e) :
              \/ j \in I
              \/ s < e /\ \E i \in I : i[1] < s /\ s < i[2] /\ j = <<i[1], s>>
              \/ s < e /\ \E i \in I : i[1] < e /\ e < i[2] /\ j = <<e, i[2]>>
BY DEF subtractInterval, Apart

(* What is left covered is what was, without the part that is cut out.       *)
LEMMA CoveredCut ==
    ASSUME NEW I, \A i \in I : i[1] \in Int /\ i[2] \in Int, NEW s \in Int, NEW e \in Int
    PROVE  Covered(subtractInterval(I, s, e)) = Covered(I) \ (s..(e - 1))
<1> DEFINE J == subtractInterval(I, s, e)
<1>1. CASE e <= s
  BY <1>1 DEF subtractInterval
<1>2. CASE s < e
  <2> DEFINE K == {i \in I : Apart(i, s, e)}
             L == {<<i[1], s>> : i \in {k \in I : ~Apart(k, s, e) /\ s > k[1]}}
             R == {<<e, i[2]>> : i \in {k \in I : ~Apart(k, s, e) /\ e < k[2]}}
  <2>1. J = K \cup L \cup R
    BY <1>2 DEF subtractInterval
  <2> HIDE DEF J
  <2>2. ASSUME NEW x, x \in Covered(J) PROVE x \in Covered(I) /\ x \notin s..(e - 1)
    <3>1. PICK j \in J : x \in j[1]..(j[2] - 1)
      BY <2>2, CoveredBy
    <3>2. CASE j \in K
      <4>1. j \in I /\ (e <= j[1] \/ s >= j[2])
        BY <3>2 DEF Apart
      <4> QED BY <3>1, <4>1, CoveredBy
    <3>3. CASE j \in L
      <4>1. PICK i \in I : i[1] < s /\ s < i[2] /\ j = <<i[1], s>>
        BY <1>2, <3>3 DEF Apart
      <4>2. x \in i[1]..(s - 1)
        BY <3>1, <4>1
      <4>3. x \in i[1]..(i[2] - 1) /\ x \notin s..(e - 1)
        BY <4>1, <4>2
      <4> QED BY <4>3, CoveredBy
    <3>4. CASE j \in R
      <4>1. PICK i \in I : i[1] < e /\ e < i[2] /\ j = <<e, i[2]>>
        BY <1>2, <3>4 DEF Apart
      <4>2. x \in e..(i[2] - 1)
        BY <3>1, <4>1
      <4>3. x \in i[1]..(i[2] - 1) /\ x \notin s..(e - 1)
        BY <4>1, <4>2
      <4> QED BY <4>3, CoveredBy
    <3> QED BY <2>1, <3>2, <3>3, <3>4
  <2>3. ASSUME NEW x, x \in Covered(I), x \notin s..(e - 1) PROVE x \in Covered(J)
    <3>1. PICK i \in I : x \in i[1]..(i[2] - 1)
      BY <2>3, CoveredBy
    <3>2. CASE Apart(i, s, e)
      <4>1. i \in J
        BY <2>1, <3>2
      <4> QED BY <3>1, <4>1, CoveredBy
    <3>3. CASE ~Apart(i, s, e) /\ x < s
      <4>1. s > i[1]
        BY <3>1, <3>3
      <4>2. <<i[1], s>> \in J
        BY <2>1, <3>3, <4>1
      <4>3. x \in <<i[1], s>>[1]..(<<i[1], s>>[2] - 1)
        BY <3>1, <3>3
      <4> QED BY <4>2, <4>3, CoveredBy
    <3>4. CASE ~Apart(i, s, e) /\ ~(x < s)
      <4>1. e < i[2] /\ x \in e..(i[2] - 1)
        BY <2>3, <3>1, <3>4
      <4>2. <<e, i[2]>> \in J
        BY <2>1, <3>4, <4>1
      <4>3. x \in <<e, i[2]>>[1]..(<<e, i[2]>>[2] - 1)
        BY <4>1
      <4> QED BY <4>2, <4>3, CoveredBy
    <3> QED BY <3>2, <3>3, <3>4
  <2> QED BY <2>2, <2>3 DEF J
<1> QED BY <1>1, <1>2

LEMMA FirstGapIn ==
    ASSUME NEW I, I # {}, \A i \in I : i[1] \in Nat
    PROVE  FirstGap(I) \in I
<1> DEFINE T == {i[1] : i \in I}
<1>1. T \in SUBSET Nat /\ T # {}
  OBVIOUS
<1>2. PICK m \in T : \A k \in T : m <= k
  BY <1>1, LeastNumber
<1>3. PICK i \in I : m = i[1]
  OBVIOUS
<1>4. \A k \in I : i[1] <= k[1]
  BY <1>2, <1>3
<1> QED BY <1>4 DEF FirstGap

LEMMA NothingCovered ==
    ASSUME NEW I, \A i \in I : i[1] \in Int /\ i[2] \in Int /\ i[1] < i[2], Covered(I) = {}
    PROVE  I = {}
<1> SUFFICES ASSUME NEW i \in I PROVE FALSE
  OBVIOUS
<1>1. i[1] \in i[1]..(i[2] - 1)
  OBVIOUS
<1> QED BY <1>1, CoveredBy

LEMMA Remaining ==
    ASSUME NEW n \in Nat, NEW I, Covered(I) \in SUBSET (0..(n - 1))
    PROVE  remainingBytes(I) \in 0..n
<1>1. IsFiniteSet(0..(n - 1)) /\ Cardinality(0..(n - 1)) = n
  <2>1. 0 \in Int /\ n - 1 \in Int
    OBVIOUS
  <2>2. Cardinality(0..(n - 1)) = IF 0 > n - 1 THEN 0 ELSE (n - 1) - 0 + 1
    BY <2>1, FS_Interval
  <2>3. IsFiniteSet(0..(n - 1))
    BY <2>1, FS_Interval
  <2> QED BY <2>2, <2>3
<1>2. IsFiniteSet(Covered(I)) /\ Cardinality(Covered(I)) <= n
  BY <1>1, FS_Subset
<1>3. Cardinality(Covered(I)) \in Nat
  BY <1>2, FS_CardinalityType
<1> QED BY <1>2, <1>3 DEF remainingBytes

LEMMA WholeCovered ==
    ASSUME NEW n \in Nat
    PROVE  Covered({<<0, n>>}) = 0..(n - 1) /\ Covered({}) = {}
BY DEF Covered
-----------------------------------------------------------------------------
(* Sequences, entry by entry.                                                *)
LEMMA Popped ==
    ASSUME NEW S, NEW s \in Seq(S), s # <<>>
    PROVE  /\ Tail(s) \in Seq(S) /\ s[1] \in S /\ 1 \in 1..Len(s)
           /\ \A i \in 1..Len(Tail(s)) : i + 1 \in 1..Len(s) /\ Tail(s)[i] = s[i + 1]
           /\ Len(Tail(s)) = Len(s) - 1 /\ Len(s) \in Nat
<1> DEFINE t == Tail(s)
<1>1. /\ t \in Seq(S) /\ Len(t) = Len(s) - 1
      /\ \A i \in 1..Len(t) : t[i] = s[i + 1]
  BY HeadTailProperties
<1>2. Len(s) \in Nat \ {0}
  BY EmptySeq
<1> HIDE DEF t
<1>3. 1 \in 1..Len(s) /\ \A i \in 1..Len(t) : i + 1 \in 1..Len(s)
  BY <1>1, <1>2
<1>4. s[1] \in S
  BY <1>3, ElementOfSeq
<1> QED BY <1>1, <1>2, <1>3, <1>4 DEF t

LEMMA Pushed ==
    ASSUME NEW S, NEW s \in Seq(S), NEW e \in S
    PROVE  /\ Append(s, e) \in Seq(S) /\ Len(Append(s, e)) = Len(s) + 1 /\ Len(s) \in Nat
           /\ \A i \in 1..Len(s) : i \in 1..Len(s) + 1 /\ Append(s, e)[i] = s[i]
           /\ Len(s) + 1 \in 1..Len(s) + 1 /\ Append(s, e)[Len(s) + 1] = e
           /\ \A i \in 1..Len(s) + 1 : i = Len(s) + 1 \/ i \in 1..Len(s)
<1>1. Len(s) \in Nat
  BY LenProperties
<1> QED BY <1>1, AppendProperties

(* What holds of every entry of s holds of every entry of what is made of s. *)
LEMMA PushedFrom ==
    ASSUME NEW S, NEW s \in Seq(S), NEW e \in S, NEW n \in Nat, Len(s) < n
    PROVE  /\ Append(s, e) \in Seq(S) /\ Len(Append(s, e)) <= n
           /\ \A i \in 1..Len(Append(s, e)) :
                 Append(s, e)[i] = e \/ \E k \in 1..Len(s) : Append(s, e)[i] = s[k]
<1> DEFINE t == Append(s, e)
<1>1. /\ t \in Seq(S) /\ Len(t) = Len(s) + 1 /\ Len(s) \in Nat
      /\ \A i \in 1..Len(s) : t[i] = s[i]
      /\ t[Len(s) + 1] = e
      /\ \A i \in 1..Len(s) + 1 : i = Len(s) + 1 \/ i \in 1..Len(s)
  BY Pushed
<1> HIDE DEF t
<1>2. Len(t) <= n
  BY <1>1
<1>3. \A i \in 1..Len(t) : t[i] = e \/ \E k \in 1..Len(s) : t[i] = s[k]
  BY <1>1
<1> QED BY <1>1, <1>2, <1>3 DEF t

LEMMA PoppedFrom ==
    ASSUME NEW S, NEW s \in Seq(S), s # <<>>
    PROVE  /\ Tail(s) \in Seq(S) /\ Len(Tail(s)) <= Len(s)
           /\ \A i \in 1..Len(Tail(s)) : \E k \in 1..Len(s) : Tail(s)[i] = s[k]
<1> DEFINE t == Tail(s)
<1>1. /\ t \in Seq(S) /\ Len(t) = Len(s) - 1 /\ Len(s) \in Nat
      /\ \A i \in 1..Len(t) : i + 1 \in 1..Len(s) /\ t[i] = s[i + 1]
  BY Popped
<1> HIDE DEF t
<1>2. Len(t) <= Len(s)
  BY <1>1
<1> QED BY <1>1, <1>2 DEF t

LEMMA RemovedFrom ==
    ASSUME NEW S, NEW s \in Seq(S), NEW i \in 1..Len(s)
    PROVE  /\ RemoveAt(s, i) \in Seq(S) /\ Len(RemoveAt(s, i)) <= Len(s)
           /\ \A j \in 1..Len(RemoveAt(s, i)) : \E k \in 1..Len(s) : RemoveAt(s, i)[j] = s[k]
<1> DEFINE a == SubSeq(s, 1, i - 1)
           b == SubSeq(s, i + 1, Len(s))
           t == a \o b
<1>1. Len(s) \in Nat /\ \A k \in 1..Len(s) : s[k] \in S
  BY LenProperties, ElementOfSeq
<1>2. /\ a \in Seq(S) /\ Len(a) = i - 1
      /\ \A k \in 1..i - 1 : a[k] = s[k]
  BY <1>1, SubSeqProperties
<1>3. /\ b \in Seq(S) /\ Len(b) = Len(s) - i
      /\ \A k \in 1..Len(s) - i : b[k] = s[i + k]
  BY <1>1, SubSeqProperties
<1>4. RemoveAt(s, i) = t
  BY DEF RemoveAt
<1> HIDE DEF a, b
<1>5. /\ t \in Seq(S) /\ Len(t) = Len(a) + Len(b)
      /\ \A k \in 1..Len(a) + Len(b) : t[k] = IF k <= Len(a) THEN a[k] ELSE b[k - Len(a)]
  BY <1>2, <1>3, ConcatProperties
<1> HIDE DEF t
<1>6. Len(t) = Len(s) - 1 /\ Len(t) <= Len(s)
  BY <1>1, <1>2, <1>3, <1>5
<1>7. ASSUME NEW j \in 1..Len(t) PROVE \E k \in 1..Len(s) : t[j] = s[k]
  <2>1. CASE j <= Len(a)
    <3>1. j \in 1..i - 1 /\ j \in 1..Len(s)
      BY <1>1, <1>2, <2>1
    <3> QED BY <1>2, <1>5, <2>1, <3>1
  <2>2. CASE ~(j <= Len(a))
    <3>1. j - Len(a) \in 1..Len(s) - i /\ i + (j - Len(a)) \in 1..Len(s)
      BY <1>1, <1>2, <1>3, <1>5, <2>2
    <3>2. t[j] = b[j - Len(a)]
      BY <1>5, <2>2
    <3>3. b[j - Len(a)] = s[i + (j - Len(a))]
      BY <1>3, <3>1
    <3> QED BY <3>1, <3>2, <3>3
  <2> QED BY <2>1, <2>2
<1> QED BY <1>4, <1>5, <1>6, <1>7

LEMMA Newest ==
    ASSUME NEW S, NEW s \in Seq(S), NEW m \in Nat \ {0}, Len(s) > m
    PROVE  /\ SubSeq(s, Len(s) - m + 1, Len(s)) \in Seq(S)
           /\ Len(SubSeq(s, Len(s) - m + 1, Len(s))) <= m
<1>1. Len(s) \in Nat /\ \A k \in 1..Len(s) : s[k] \in S
  BY LenProperties, ElementOfSeq
<1> DEFINE a == Len(s) - m + 1
<1>2. a \in 1..Len(s) /\ Len(s) - a + 1 = m
  BY <1>1
<1> HIDE DEF a
<1>3. SubSeq(s, a, Len(s)) \in Seq(S) /\ Len(SubSeq(s, a, Len(s))) = m
  BY <1>1, <1>2, SubSeqProperties
<1> QED BY <1>3 DEF a

(* The youngest entries of s and e, as many as there is room for.            *)
LEMMA RegisteredFrom ==
    ASSUME NEW S, NEW s \in Seq(S), NEW e \in S, NEW m \in Nat \ {0}, NEW t,
           t = LET all == Append(s, e)
                   n == Len(all)
               IN IF n > m THEN SubSeq(all, n - m + 1, n) ELSE all
    PROVE  /\ t \in Seq(S) /\ Len(t) <= m
           /\ \A i \in 1..Len(t) : t[i] = e \/ \E k \in 1..Len(s) : t[i] = s[k]
<1> DEFINE all == Append(s, e)
           n == Len(all)
<1>1. /\ all \in Seq(S) /\ n = Len(s) + 1 /\ Len(s) \in Nat
      /\ \A i \in 1..n : all[i] = e \/ \E k \in 1..Len(s) : all[i] = s[k]
  <2>1. /\ all \in Seq(S) /\ n = Len(s) + 1 /\ Len(s) \in Nat
        /\ \A i \in 1..Len(s) : all[i] = s[i]
        /\ all[Len(s) + 1] = e
        /\ \A i \in 1..Len(s) + 1 : i = Len(s) + 1 \/ i \in 1..Len(s)
    BY Pushed
  <2> QED BY <2>1
<1>2. \A i \in 1..n : all[i] \in S
  BY <1>1, ElementOfSeq
<1>3. t = IF n > m THEN SubSeq(all, n - m + 1, n) ELSE all
  OBVIOUS
<1> HIDE DEF all
<1>4. CASE ~(n > m)
  BY <1>1, <1>3, <1>4
<1>5. CASE n > m
  <2> DEFINE a == n - m + 1
  <2>1. /\ a \in Int /\ n \in Int /\ a <= n /\ n - a + 1 = m
        /\ \A i \in a..n : i \in 1..n
        /\ \A i \in 1..m : a + i - 1 \in 1..n
    BY <1>1, <1>5
  <2>2. t = SubSeq(all, a, n) /\ \A i \in a..n : all[i] \in S
    BY <1>2, <1>3, <1>5, <2>1
  <2> HIDE DEF a, n
  <2>3. /\ t \in Seq(S) /\ Len(t) = IF a <= n THEN n - a + 1 ELSE 0
        /\ \A i \in 1..n - a + 1 : t[i] = all[a + i - 1]
    <3> DEFINE q == SubSeq(all, a, n)
    <3>1. /\ q \in Seq(S) /\ Len(q) = IF a <= n THEN n - a + 1 ELSE 0
          /\ \A i \in 1..n - a + 1 : q[i] = all[a + i - 1]
      BY <2>1, <2>2, SubSeqProperties
    <3>2. t = q
      BY <2>2
    <3> HIDE DEF q
    <3> QED BY <3>1, <3>2
  <2>4. Len(t) = m /\ \A i \in 1..m : t[i] = all[a + i - 1]
    BY <2>1, <2>3
  <2>5. \A i \in 1..m : all[a + i - 1] = e \/ \E k \in 1..Len(s) : all[a + i - 1] = s[k]
    BY <1>1, <2>1 DEF n
  <2>6. \A i \in 1..Len(t) : t[i] = e \/ \E k \in 1..Len(s) : t[i] = s[k]
    <3> TAKE i \in 1..Len(t)
    <3>1. i \in 1..m /\ t[i] = all[a + i - 1]
      BY <2>4
    <3> QED BY <2>5, <3>1
  <2>7. t \in Seq(S) /\ Len(t) <= m
    <3>1. m <= m
      OBVIOUS
    <3> QED BY <2>3, <2>4, <3>1, Zenon
  <2> QED BY <2>6, <2>7
<1> QED BY <1>4, <1>5
-----------------------------------------------------------------------------
(* Logs.  A pass asks for gaps between edges: multiples of the chunk size,   *)
(* or positions that are not before the true end.  So a chunk that is short  *)
(* tells the true end and not the end of an earlier request.                 *)
TrueLen == Lesser(Size, RealLen)
Whole(n) == \E k \in Nat : n = k * Chunk
Edge(n) == n \in Nat /\ (Whole(n) \/ n >= TrueLen)

Counts == {0, Logs}
LogFrames == [kind : {"entry", "data"}, id : Int, num : Nat, last : Nat, ofs : Nat, count : Nat]
LogStreams == [kind : {"none", "entry", "data"}, at : Nat, until : Int, id : Int]

(* n is the number of logs the vehicle has.                                  *)
LogFrameOk(x, n) ==
    /\ x.kind = "entry" =>
         x.num \in Counts /\ x.last = x.num /\ (n # 0 => x.num = n) /\ (x.num > 0 => x.id \in Ids)
    /\ x.kind = "data" =>
         /\ Edge(x.ofs) /\ Edge(x.ofs + x.count)
         /\ x.count < Chunk => x.ofs + x.count >= TrueLen
         /\ x.count = 0 \/ x.ofs + x.count <= RealLen

LogStreamOk(s, n) ==
    /\ s.kind = "entry" => s.at >= 1 /\ s.until <= n
    /\ s.kind = "data" => Edge(s.at) /\ Edge(s.until) /\ s.at < s.until

VehicleInv ==
    /\ vehicle \in [logs : Counts, erasing : BOOLEAN, stream : LogStreams]
    /\ LogStreamOk(vehicle.stream, vehicle.logs)

LogAirInv ==
    /\ logAir \in Seq(LogFrames) /\ Len(logAir) <= LogAirLimit
    /\ \A i \in 1..Len(logAir) : LogFrameOk(logAir[i], vehicle.logs)

RollStates == {"none", "waiting", "done", "failed", "cancelled", "timeout", "overflow"}
Rolls == [state : RollStates, from : Int, to : Int, num : Counts \cup {NoLog},
          last : Counts \cup {NoLog}, found : SUBSET Ids, attempts : 0..Attempts,
          frames : 0..MaxFrames]
RollOk(r, n) ==
    /\ r.last = r.num /\ (r.num # NoLog /\ n # 0 => r.num = n)
    /\ r.state = "done" => IsComplete(r)

LogSteps == [idle |-> {"idle"}, list |-> {"roll"}, erase |-> {"delay", "roll"},
             download |-> {"dir", "roll", "allocate", "stream", "flush", "rename", "cleanup"}]
LogShape ==
    /\ logOp \in [op : {"idle", "list", "download", "erase"}, step : LogWaits,
                  cancelRequested : BOOLEAN, home : Vehicles \cup {Nobody}]
    /\ logOp.step \in LogSteps[logOp.op]
    /\ rounds \in 0..MaxRounds

RollInv ==
    /\ roll \in Rolls /\ RollOk(roll, vehicle.logs)
    /\ roll.state # "none" => logOp.step = "roll"
    /\ roll.state # "none" /\ logOp.op # "download" => roll.from = 0 /\ roll.to = MaxId

Fetches == [id : Int, total : 0..Size, missing : SUBSET ((0..Size) \X (0..Size)),
            got : SUBSET (0..(Size - 1)), from : Nat, until : Nat, before : Nat,
            passes : 0..LogPasses]

(* What has arrived and what is missing are the parts of the log up to the   *)
(* end that is believed in, which is never before the true end.              *)
FetchOk(g) ==
    /\ g \in Fetches
    /\ Covered(g.missing) \cap g.got = {} /\ Covered(g.missing) \cup g.got = 0..(g.total - 1)
    /\ g.total >= TrueLen /\ Edge(g.total)
    /\ \A k \in g.got : k < RealLen
    /\ \A i \in g.missing : i[1] < i[2] /\ Edge(i[1]) /\ Edge(i[2])

FetchInv ==
    /\ fetch \in Fetches
    /\ Covered(fetch.missing) \cap fetch.got = {}
    /\ logOp.op # "download" => fetch = NoFetch
    /\ logOp.step \in {"dir", "roll", "allocate"} => fetch = [NoFetch EXCEPT !.id = fetch.id]
    /\ logOp.step \in {"stream", "flush", "rename"} => FetchOk(fetch)
    /\ logOp.step = "rename" => fetch.missing = {}

KeptLogs == [total : {TrueLen}, got : {0..(TrueLen - 1)}]
LogFilesInv == logFiles \in Seq(KeptLogs) /\ Len(logFiles) <= LogRetained

LogInv == LogShape /\ RollInv /\ FetchInv /\ VehicleInv /\ LogAirInv /\ LogFilesInv

LEMMA LogNumbers ==
    /\ Logs \in Nat /\ Logs <= MaxId /\ Size \in Nat /\ RealLen \in Nat /\ Chunk \in Nat \ {0}
    /\ Attempts \in Nat \ {0} /\ MaxFrames \in Nat /\ LogPasses \in Nat \ {0}
    /\ MaxRounds \in Nat /\ LogRetained \in Nat \ {0} /\ LogAirLimit \in Nat
    /\ TrueLen \in Nat /\ TrueLen <= Size /\ TrueLen <= RealLen
    /\ TrueLen = Size \/ TrueLen = RealLen
<1>1. /\ Logs \in Nat /\ Logs <= MaxId /\ Size \in Nat /\ RealLen \in Nat /\ Chunk \in Nat \ {0}
      /\ Attempts \in Nat \ {0} /\ MaxFrames \in Nat /\ LogPasses \in Nat \ {0}
      /\ MaxRounds \in Nat /\ LogRetained \in Nat \ {0} /\ LogAirLimit \in Nat
  BY LogAssumption, SMTT(30) DEF MaxId
<1>2. TrueLen = IF Size < RealLen THEN Size ELSE RealLen
  BY DEF TrueLen, Lesser
<1> QED BY ONLY <1>1, <1>2

LEMMA Edges ==
    /\ Edge(0)
    /\ \A n \in Nat : n >= TrueLen => Edge(n)
    /\ \A n \in Nat : Edge(n) => Edge(n + Chunk)
    /\ \A m, n \in Nat : Edge(m) /\ Edge(n) /\ m < n /\ n < TrueLen => n - m >= Chunk
<1>1. Edge(0)
  <2>1. 0 = 0 * Chunk
    BY LogNumbers
  <2> QED BY <2>1 DEF Edge, Whole
<1>2. \A n \in Nat : n >= TrueLen => Edge(n)
  BY DEF Edge
<1>3. ASSUME NEW n \in Nat, Edge(n) PROVE Edge(n + Chunk)
  <2>1. CASE n >= TrueLen
    BY <2>1, LogNumbers DEF Edge
  <2>2. CASE Whole(n)
    <3>1. PICK k \in Nat : n = k * Chunk
      BY <2>2 DEF Whole
    <3>2. n + Chunk = (k + 1) * Chunk /\ k + 1 \in Nat /\ n + Chunk \in Nat
      BY <3>1, LogNumbers
    <3> QED BY <3>2 DEF Edge, Whole
  <2> QED BY <1>3, <2>1, <2>2 DEF Edge
<1>4. ASSUME NEW m \in Nat, NEW n \in Nat, Edge(m), Edge(n), m < n, n < TrueLen
      PROVE  n - m >= Chunk
  <2>1. ~(m >= TrueLen) /\ ~(n >= TrueLen)
    BY <1>4, LogNumbers
  <2>2. PICK k \in Nat : m = k * Chunk
    BY <1>4, <2>1 DEF Edge, Whole
  <2>3. PICK l \in Nat : n = l * Chunk
    BY <1>4, <2>1 DEF Edge, Whole
  <2>4. k < l
    <3> SUFFICES ASSUME l <= k PROVE FALSE
      BY <2>2, <2>3
    <3>1. l * Chunk <= k * Chunk
      BY LogNumbers
    <3> QED BY <1>4, <2>2, <2>3, <3>1
  <2>5. (l - k) * Chunk >= Chunk
    <3>1. l - k >= 1 /\ l - k \in Nat
      BY <2>4
    <3> QED BY <3>1, LogNumbers
  <2>6. (l - k) * Chunk = l * Chunk - k * Chunk
    BY LogNumbers
  <2> QED BY <2>2, <2>3, <2>5, <2>6
<1> QED BY <1>1, <1>2, <1>3, <1>4
-----------------------------------------------------------------------------
LEMMA NoneRunning ==
    /\ NoRoll \in Rolls /\ NoRoll.state = "none" /\ \A n : RollOk(NoRoll, n)
    /\ NoFetch \in Fetches /\ Covered(NoFetch.missing) \cap NoFetch.got = {}
    /\ NoFetch = [NoFetch EXCEPT !.id = NoFetch.id]
    /\ NoLogStream \in LogStreams /\ \A n : LogStreamOk(NoLogStream, n)
<1>1. NoRoll \in Rolls
  <2>1. {} \in SUBSET Ids /\ NoLog \in Counts \cup {NoLog} /\ 0 \in Int
    OBVIOUS
  <2>3. "none" \in RollStates
    BY DEF RollStates
  <2>2. 0 \in 0..Attempts /\ 0 \in 0..MaxFrames
    BY LogNumbers
  <2> QED BY <2>1, <2>2, <2>3 DEF NoRoll, Rolls
<1>2. NoRoll.state = "none" /\ \A n : RollOk(NoRoll, n)
  BY DEF NoRoll, RollOk, NoLog
<1>3. NoFetch \in Fetches
  BY LogNumbers DEF NoFetch, Fetches, NoLog
<1>4. NoFetch.got = {}
  BY DEF NoFetch
<1>5. NoLogStream \in LogStreams /\ \A n : LogStreamOk(NoLogStream, n)
  BY DEF NoLogStream, LogStreams, LogStreamOk, NoLog
<1>6. NoFetch = [NoFetch EXCEPT !.id = NoFetch.id]
  BY DEF NoFetch
<1> QED BY <1>1, <1>2, <1>3, <1>4, <1>5, <1>6

LEMMA StreamBegins ==
    ASSUME VehicleInv, NEW s \in LogStreams, LogStreamOk(s, vehicle.logs), Streams(s)
    PROVE  VehicleInv' /\ vehicle'.logs = vehicle.logs
BY DEF VehicleInv, Streams

LEMMA WindowAsked ==
    ASSUME VehicleInv, NEW r \in Rolls, NEW home, RequestWindow(r, home)
    PROVE  /\ VehicleInv' /\ vehicle'.logs = vehicle.logs
           /\ \E s \in {"failed", "waiting"} : roll' = [r EXCEPT !.state = s]
<1> DEFINE ids == MissingIds(r)
           first == IF ids = {} THEN r.from ELSE CHOOSE i \in ids : \A k \in ids : i <= k
           final == IF ids = {} THEN r.to ELSE CHOOSE i \in ids : \A k \in ids : k <= i
<1>1. ids \in SUBSET (0..Logs)
  BY LogNumbers DEF MissingIds, Ids
<1>2. r.from \in Int /\ r.to \in Int
  BY DEF Rolls
<1>3. \/ roll' = [r EXCEPT !.state = "failed"] /\ UNCHANGED vehicle
      \/ roll' = [r EXCEPT !.state = "waiting"] /\ Streams(ListStream(first, final))
  BY DEF RequestWindow
<1> HIDE DEF ids
<1>4. ids # {} => \E m \in ids : \A k \in ids : m <= k
  <2>1. ids \in SUBSET Nat
    BY <1>1, LogNumbers
  <2> QED BY <2>1, LeastNumber
<1>5. ids # {} => \E m \in ids : \A k \in ids : k <= m
  BY <1>1, GreatestNumber, LogNumbers
<1>6. first \in Int /\ final \in Int
  <2>1. \A k \in ids : k \in Int
    BY <1>1, LogNumbers
  <2> QED BY <1>2, <1>4, <1>5, <2>1
<1> HIDE DEF first, final
<1>7. vehicle.logs \in Nat
  BY LogNumbers DEF VehicleInv, Counts
<1>8. /\ ListStream(first, final) \in LogStreams
      /\ LogStreamOk(ListStream(first, final), vehicle.logs)
  BY <1>6, <1>7 DEF ListStream, Lesser, LogStreams, LogStreamOk, NoLog
<1>9. CASE UNCHANGED vehicle
  BY <1>3, <1>9 DEF VehicleInv
<1>10. CASE Streams(ListStream(first, final))
  BY <1>3, <1>8, <1>10, StreamBegins
<1> QED BY <1>3, <1>9, <1>10

(* What the vehicle and the air may do without breaking the rest.            *)
LEMMA LogsGone ==
    ASSUME NEW n, NEW m, m = n \/ m = 0
    PROVE  /\ \A r : RollOk(r, n) => RollOk(r, m)
           /\ \A x : LogFrameOk(x, n) => LogFrameOk(x, m)
BY DEF RollOk, LogFrameOk

LEMMA AirKept ==
    ASSUME LogAirInv, vehicle'.logs = vehicle.logs, logAir' = logAir
    PROVE  LogAirInv'
BY DEF LogAirInv

LEMMA RollAsked ==
    ASSUME NEW r \in Rolls, NEW n, r.state # "done" => RollOk(r, n), NEW s \in {"failed", "waiting"},
           r.state # "done"
    PROVE  [r EXCEPT !.state = s] \in Rolls /\ RollOk([r EXCEPT !.state = s], n)
<1> DEFINE q == [r EXCEPT !.state = s]
<1>1. q \in Rolls
  <2>1. s \in RollStates
    BY DEF RollStates
  <2> QED BY <2>1 DEF Rolls
<1>2. q.state # "done" /\ q.last = r.last /\ q.num = r.num
  BY DEF Rolls
<1> QED BY <1>1, <1>2 DEF RollOk
-----------------------------------------------------------------------------
LEMMA LogOpSteps ==
    ASSUME LogShape
    PROVE  /\ logOp.op \in {"idle", "list", "download", "erase"}
           /\ logOp.op = "idle" => logOp.step = "idle"
           /\ logOp.op = "list" => logOp.step = "roll"
           /\ logOp.op = "erase" => logOp.step \in {"delay", "roll"}
           /\ logOp.op = "download" =>
                 logOp.step \in {"dir", "roll", "allocate", "stream", "flush", "rename", "cleanup"}
BY DEF LogShape, LogSteps

LEMMA LogMoves ==
    ASSUME LogShape, logOp.op = "download", rounds' = rounds,
           NEW s \in {"dir", "roll", "allocate", "stream", "flush", "rename", "cleanup"},
           LogGoes(s)
    PROVE  LogShape' /\ logOp'.op = "download" /\ logOp'.step = s
BY DEF LogShape, LogGoes, LogSteps, LogWaits

LEMMA Released ==
    ASSUME LogInv, NEW type, NEW entries, LogReleases(type, entries),
           VehicleInv', vehicle'.logs = vehicle.logs, logAir' = logAir, LogFilesInv'
    PROVE  LogInv'
<1>1. LogShape'
  <2>1. 0 \in 0..MaxRounds
    BY LogNumbers
  <2> QED BY <2>1 DEF LogInv, LogShape, LogReleases, LogSteps, LogWaits
<1>2. logOp'.op = "idle" /\ logOp'.step = "idle" /\ roll' = NoRoll /\ fetch' = NoFetch
  BY DEF LogInv, LogShape, LogReleases
<1>3. RollInv'
  BY <1>2, NoneRunning DEF RollInv
<1>4. FetchInv'
  BY <1>2, NoneRunning DEF FetchInv
<1>5. LogAirInv'
  BY AirKept DEF LogInv
<1> QED BY <1>1, <1>3, <1>4, <1>5 DEF LogInv

LEMMA Caught ==
    ASSUME LogInv, logOp.op = "download", LogCatch, rounds' = rounds, logAir' = logAir,
           logFiles' = logFiles
    PROVE  LogInv'
<1>1. LogShape' /\ logOp'.op = "download" /\ logOp'.step = "cleanup"
  BY LogMoves DEF LogInv, LogCatch
<1>2. RollInv'
  BY <1>1, NoneRunning DEF RollInv, LogCatch
<1>3. FetchInv'
  BY <1>1 DEF FetchInv, LogCatch, LogInv
<1>4. VehicleInv' /\ LogAirInv' /\ LogFilesInv'
  BY DEF LogInv, LogCatch, VehicleInv, LogAirInv, LogFilesInv
<1> QED BY <1>1, <1>2, <1>3, <1>4 DEF LogInv

(* The next pass, from whatever the last one has brought.                    *)
LEMMA PassBegins ==
    ASSUME LogInv, logOp.op = "download", logOp.step \in {"allocate", "flush"},
           NEW g, FetchOk(g), DataPass(g),
           rounds' = rounds, logAir' = logAir, logFiles' = logFiles
    PROVE  LogInv'
<1> DEFINE gap == FirstGap(g.missing)
           h == [g EXCEPT !.before = remainingBytes(g.missing), !.from = gap[1], !.until = gap[2]]
<1>1. CASE logOp.cancelRequested
  BY <1>1, Caught DEF DataPass
<1>r. roll.state = "none"
  BY DEF LogInv, RollInv
<1>2. CASE ~logOp.cancelRequested /\ g.missing = {}
  <2>1. LogGoes("rename") /\ fetch' = g /\ UNCHANGED <<roll, vehicle>>
    BY <1>2 DEF DataPass
  <2>2. LogShape' /\ logOp'.op = "download" /\ logOp'.step = "rename"
    BY <2>1, LogMoves DEF LogInv
  <2>3. RollInv'
    BY <1>r, <2>1, <2>2 DEF LogInv, RollInv
  <2>4. FetchInv'
    BY <1>2, <2>1, <2>2 DEF FetchInv, FetchOk
  <2>5. VehicleInv' /\ LogAirInv' /\ LogFilesInv'
    BY <2>1 DEF LogInv, VehicleInv, LogAirInv, LogFilesInv
  <2> QED BY <2>2, <2>3, <2>4, <2>5 DEF LogInv
<1>3. CASE ~logOp.cancelRequested /\ g.missing # {}
  <2>0. g \in Fetches /\ \A i \in g.missing : i \in (0..Size) \X (0..Size)
    BY DEF FetchOk, Fetches
  <2>1. gap \in g.missing
    <3>1. \A i \in g.missing : i[1] \in Nat
      BY <2>0, LogNumbers
    <3> QED BY <1>3, <3>1, FirstGapIn
  <2>2. gap \in (0..Size) \X (0..Size) /\ gap[1] < gap[2] /\ Edge(gap[1]) /\ Edge(gap[2])
    BY <2>0, <2>1 DEF FetchOk
  <2>3. remainingBytes(g.missing) \in Nat
    <3>1. Covered(g.missing) \in SUBSET (0..(g.total - 1)) /\ g.total \in Nat
      BY LogNumbers DEF FetchOk, Fetches
    <3> QED BY <3>1, Remaining
  <2>4. gap[1] \in Nat /\ gap[2] \in Nat
    BY <2>2, LogNumbers
  <2>5. /\ fetch' = h /\ roll' = NoRoll
        /\ \/ LogGoes("flush") /\ UNCHANGED vehicle
           \/ LogGoes("stream") /\ Streams(DataStream(g.id, gap[1], gap[2] - gap[1]))
    BY <1>3 DEF DataPass
  <2> HIDE DEF gap
  <2>6. /\ h \in Fetches /\ h.missing = g.missing /\ h.got = g.got /\ h.total = g.total
    BY <2>0, <2>3, <2>4 DEF Fetches
  <2> HIDE DEF h
  <2>7. FetchOk(h)
    BY <2>6 DEF FetchOk
  <2>8. LogShape' /\ logOp'.op = "download" /\ logOp'.step \in {"flush", "stream"}
    BY <2>5, LogMoves DEF LogInv
  <2>9. RollInv'
    BY <2>5, <2>8, NoneRunning DEF RollInv
  <2>10. FetchInv'
    BY <2>5, <2>7, <2>8 DEF FetchInv, FetchOk
  <2>11. VehicleInv' /\ vehicle'.logs = vehicle.logs
    <3> DEFINE d == DataStream(g.id, gap[1], gap[2] - gap[1])
    <3>1. d = [kind |-> "data", at |-> gap[1], until |-> gap[2], id |-> g.id]
      BY <2>4 DEF DataStream
    <3>2. d \in LogStreams /\ LogStreamOk(d, vehicle.logs)
      BY <2>0, <2>2, <2>4, <3>1 DEF LogStreams, LogStreamOk, Fetches
    <3>3. CASE UNCHANGED vehicle
      BY <3>3 DEF LogInv, VehicleInv
    <3>4. CASE Streams(d)
      BY <3>2, <3>4, StreamBegins DEF LogInv
    <3> QED BY <2>5, <3>3, <3>4
  <2>12. LogAirInv' /\ LogFilesInv'
    BY <2>11, AirKept DEF LogInv, LogFilesInv
  <2> QED BY <2>8, <2>9, <2>10, <2>11, <2>12 DEF LogInv
<1> QED BY <1>1, <1>2, <1>3
-----------------------------------------------------------------------------
LEMMA StopAsked ==
    ASSUME VehicleInv, Streams(NoLogStream) \/ UNCHANGED vehicle
    PROVE  VehicleInv' /\ vehicle'.logs = vehicle.logs
<1>1. CASE UNCHANGED vehicle
  BY <1>1 DEF VehicleInv
<1>2. CASE Streams(NoLogStream)
  BY <1>2, NoneRunning, StreamBegins
<1> QED BY <1>1, <1>2

LEMMA LogOpsEnd ==
    ASSUME LogInv, LogListed \/ LogListFails \/ EraseDone \/ EraseFails \/ LogCleanup
    PROVE  LogInv'
<1>1. /\ \E type, entries : LogReleases(type, entries)
      /\ logAir' = logAir /\ logFiles' = logFiles
      /\ Streams(NoLogStream) \/ UNCHANGED vehicle
  BY DEF LogListed, LogListFails, EraseDone, EraseFails, LogCleanup, LogEnd
<1>2. VehicleInv' /\ vehicle'.logs = vehicle.logs
  BY <1>1, StopAsked DEF LogInv
<1>3. LogFilesInv'
  BY <1>1 DEF LogInv, LogFilesInv
<1> QED BY <1>1, <1>2, <1>3, Released

LEMMA LogRenameKeeps ==
    ASSUME LogInv, NEW ok \in BOOLEAN, LogRename(ok)
    PROVE  LogInv'
<1>0. logOp.op = "download" /\ FetchOk(fetch) /\ fetch.missing = {}
  BY LogOpSteps DEF LogInv, FetchInv, LogRename
<1>1. CASE ~ok
  BY <1>0, <1>1, Caught DEF LogRename
<1>2. CASE ok
  <2> DEFINE d == [total |-> fetch.total, got |-> fetch.got]
  <2>1. /\ logFiles' = LogRegistered(d) /\ LogReleases("log_download_complete", <<>>) /\ LogEnd
        /\ logAir' = logAir
    BY <1>2 DEF LogRename
  <2>2. fetch.got = 0..(fetch.total - 1)
    BY <1>0, WholeCovered, LogNumbers DEF FetchOk
  <2>3. fetch.total \in 0..Size /\ fetch.total >= TrueLen /\ \A k \in fetch.got : k < RealLen
    BY <1>0 DEF FetchOk, Fetches
  <2>4. fetch.total = TrueLen
    <3>1. CASE fetch.total = 0
      BY <2>3, <3>1, LogNumbers
    <3>2. CASE fetch.total > 0
      <4>1. fetch.total - 1 \in fetch.got
        BY <2>2, <2>3, <3>2, LogNumbers
      <4>2. fetch.total <= RealLen /\ fetch.total <= Size
        BY <2>3, <4>1, LogNumbers
      <4> QED BY <2>3, <4>2, LogNumbers
    <3> QED BY <2>3, <3>1, <3>2, LogNumbers
  <2>5. d \in KeptLogs
    BY <2>2, <2>4 DEF KeptLogs
  <2>6. LogFilesInv'
    <3> HIDE DEF d
    <3>1. logFiles' \in Seq(KeptLogs) /\ Len(logFiles') <= LogRetained
      BY <2>1, <2>5, LogNumbers, RegisteredFrom DEF LogInv, LogFilesInv, LogRegistered
    <3> QED BY <3>1 DEF LogFilesInv
  <2>7. VehicleInv' /\ vehicle'.logs = vehicle.logs
    BY <2>1, StopAsked DEF LogInv, LogEnd
  <2> QED BY <2>1, <2>6, <2>7, Released
<1> QED BY <1>1, <1>2

LEMMA LogSizedKeeps ==
    ASSUME LogInv, LogSized
    PROVE  LogInv'
<1>0. logOp.op = "download" /\ rounds' = rounds /\ logAir' = logAir /\ logFiles' = logFiles
  BY DEF LogSized, LogRest
<1>1. CASE ListCollected /\ fetch.id \in roll.found
  <2>1. LogGoes("allocate") /\ roll' = NoRoll /\ fetch' = fetch /\ vehicle' = vehicle
    BY <1>1 DEF LogSized
  <2>2. LogShape' /\ logOp'.op = "download" /\ logOp'.step = "allocate"
    BY <1>0, <2>1, LogMoves DEF LogInv
  <2>3. RollInv'
    BY <2>1, <2>2, NoneRunning DEF RollInv
  <2>4. logOp.step = "roll"
    BY DEF LogInv, RollInv, LogSized
  <2>5. FetchInv'
    BY <2>1, <2>2, <2>4 DEF LogInv, FetchInv
  <2> QED BY <1>0, <2>1, <2>2, <2>3, <2>5 DEF LogInv, VehicleInv, LogAirInv, LogFilesInv
<1>2. CASE ~(ListCollected /\ fetch.id \in roll.found)
  BY <1>0, <1>2, Caught DEF LogSized
<1> QED BY <1>1, <1>2

(* A list of the logs from..to is begun.                                     *)
LEMMA ListBegins ==
    ASSUME VehicleInv, NEW from \in Int, NEW to \in Int, NEW home, CollectList(from, to, home)
    PROVE  /\ VehicleInv' /\ vehicle'.logs = vehicle.logs
           /\ roll' \in Rolls /\ RollOk(roll', vehicle.logs)
           /\ roll'.from = from /\ roll'.to = to
<1> DEFINE r == [NoRoll EXCEPT !.from = from, !.to = to]
<1>1. /\ r \in Rolls /\ r.state = "none" /\ r.from = from /\ r.to = to
      /\ RollOk(r, vehicle.logs)
  <2>1. r \in Rolls
    BY NoneRunning DEF Rolls
  <2>2. r.state = "none" /\ r.num = NoLog /\ r.last = NoLog /\ r.from = from /\ r.to = to
    BY DEF NoRoll
  <2> QED BY <2>1, <2>2 DEF RollOk
<1>2. RequestWindow(r, home)
  BY DEF CollectList
<1> HIDE DEF r
<1>3. PICK s \in {"failed", "waiting"} : roll' = [r EXCEPT !.state = s]
  BY <1>1, <1>2, WindowAsked
<1>4. roll' \in Rolls /\ RollOk(roll', vehicle.logs)
  BY <1>1, <1>3, RollAsked
<1>5. roll'.from = from /\ roll'.to = to
  BY <1>1, <1>3 DEF Rolls
<1> QED BY <1>1, <1>2, <1>4, <1>5, WindowAsked

LEMMA LogDirKeeps ==
    ASSUME LogInv, NEW ok \in BOOLEAN, LogDirReady(ok)
    PROVE  LogInv'
<1>0. logOp.op = "download" /\ rounds' = rounds /\ logAir' = logAir /\ logFiles' = logFiles
  BY LogOpSteps DEF LogInv, LogDirReady, LogRest
<1>1. CASE ~ok
  BY <1>0, <1>1, Caught DEF LogDirReady
<1>2. CASE ok
  <2>1. LogGoes("roll") /\ fetch' = fetch /\ CollectList(fetch.id, fetch.id, logOp.home)
    BY <1>2 DEF LogDirReady
  <2>2. LogShape' /\ logOp'.op = "download" /\ logOp'.step = "roll"
    BY <1>0, <2>1, LogMoves DEF LogInv
  <2>3. fetch.id \in Int
    BY DEF LogInv, FetchInv, Fetches
  <2>4. /\ VehicleInv' /\ vehicle'.logs = vehicle.logs
        /\ roll' \in Rolls /\ RollOk(roll', vehicle.logs)
    BY <2>1, <2>3, ListBegins DEF LogInv
  <2>5. RollInv'
    BY <2>2, <2>4 DEF RollInv
  <2>6. FetchInv'
    BY <2>1, <2>2 DEF LogInv, FetchInv, LogDirReady
  <2>7. LogAirInv' /\ LogFilesInv'
    BY <1>0, <2>4, AirKept DEF LogInv, LogFilesInv
  <2> QED BY <2>2, <2>4, <2>5, <2>6, <2>7 DEF LogInv
<1> QED BY <1>1, <1>2

LEMMA EraseDelayKeeps ==
    ASSUME LogInv, EraseDelayEnds
    PROVE  LogInv'
<1>0. /\ logOp.op = "erase" /\ LogGoes("roll") /\ CollectList(0, MaxId, logOp.home)
      /\ UNCHANGED <<fetch, rounds, logAir, logFiles>>
  BY LogOpSteps DEF LogInv, EraseDelayEnds, LogRest
<1>1. LogShape' /\ logOp'.op = "erase" /\ logOp'.step = "roll"
  BY <1>0 DEF LogInv, LogShape, LogGoes, LogSteps, LogWaits
<1>2. /\ VehicleInv' /\ vehicle'.logs = vehicle.logs
      /\ roll' \in Rolls /\ RollOk(roll', vehicle.logs) /\ roll'.from = 0 /\ roll'.to = MaxId
  BY <1>0, ListBegins DEF LogInv, MaxId
<1>3. RollInv'
  BY <1>1, <1>2 DEF RollInv
<1>4. FetchInv'
  BY <1>0, <1>1, NoneRunning DEF LogInv, FetchInv
<1>5. LogAirInv' /\ LogFilesInv'
  BY <1>0, <1>2, AirKept DEF LogInv, LogFilesInv
<1> QED BY <1>1, <1>2, <1>3, <1>4, <1>5 DEF LogInv

LEMMA LogAllocateKeeps ==
    ASSUME LogInv, NEW ok \in BOOLEAN, LogAllocate(ok)
    PROVE  LogInv'
<1>0. /\ logOp.op = "download" /\ logOp.step = "allocate"
      /\ rounds' = rounds /\ logAir' = logAir /\ logFiles' = logFiles
  BY LogOpSteps DEF LogInv, LogAllocate, LogRest
<1>1. CASE ~ok
  BY <1>0, <1>1, Caught DEF LogAllocate
<1>2. CASE ok
  <2> DEFINE whole == IF Size > 0 THEN {<<0, Size>>} ELSE {}
             g == [fetch EXCEPT !.total = Size, !.missing = whole]
  <2>1. fetch \in Fetches /\ fetch = [NoFetch EXCEPT !.id = fetch.id]
    BY <1>0 DEF LogInv, FetchInv
  <2>2. fetch.got = {} /\ fetch.passes = 0
    BY <2>1 DEF NoFetch
  <2>3. whole \in SUBSET ((0..Size) \X (0..Size)) /\ Size \in 0..Size
    BY LogNumbers
  <2>4. Covered(whole) = 0..(Size - 1)
    <3>1. CASE Size > 0
      BY <3>1, WholeCovered, LogNumbers
    <3>2. CASE ~(Size > 0)
      <4>1. 0..(Size - 1) = {}
        BY <3>2, LogNumbers
      <4> QED BY <3>2, <4>1, WholeCovered, LogNumbers
    <3> QED BY <3>1, <3>2
  <2>5. \A i \in whole : i[1] = 0 /\ i[2] = Size /\ i[1] < i[2]
    BY LogNumbers
  <2>6. DataPass(g)
    BY <1>2 DEF LogAllocate
  <2> HIDE DEF whole
  <2>7. g \in Fetches /\ g.total = Size /\ g.missing = whole /\ g.got = {}
    BY <2>1, <2>2, <2>3 DEF Fetches
  <2>8. Edge(0) /\ Edge(Size) /\ Size >= TrueLen
    BY Edges, LogNumbers
  <2> HIDE DEF g
  <2>9. FetchOk(g)
    BY <2>4, <2>5, <2>7, <2>8 DEF FetchOk
  <2> QED BY <1>0, <2>6, <2>9, PassBegins
<1> QED BY <1>1, <1>2

LEMMA LogFlushKeeps ==
    ASSUME LogInv, NEW ok \in BOOLEAN, LogFlush(ok)
    PROVE  LogInv'
<1> DEFINE g == LogPassOver(fetch)
<1>0. /\ logOp.op = "download" /\ logOp.step = "flush" /\ FetchOk(fetch)
      /\ rounds' = rounds /\ logAir' = logAir /\ logFiles' = logFiles
  BY LogOpSteps DEF LogInv, LogFlush, LogRest, FetchInv
<1>1. CASE ~ok \/ g.passes >= LogPasses
  <2>1. LogCatch
    BY <1>1 DEF LogFlush
  <2> QED BY <1>0, <2>1, Caught
<1>2. CASE ok /\ ~(g.passes >= LogPasses)
  <2>1. DataPass(g)
    BY <1>2 DEF LogFlush
  <2>2. fetch \in Fetches /\ fetch.passes \in 0..LogPasses
    BY <1>0 DEF FetchOk, Fetches
  <2>3. g.passes = 0 \/ g.passes = fetch.passes + 1
    BY <2>2 DEF LogPassOver, Fetches
  <2>4. g.passes \in 0..LogPasses
    BY <1>2, <2>2, <2>3, LogNumbers
  <2>5. \E p : g = [fetch EXCEPT !.passes = p]
    BY DEF LogPassOver
  <2> HIDE DEF g
  <2>6. PICK p : g = [fetch EXCEPT !.passes = p]
    BY <2>5
  <2>7. /\ g \in Fetches /\ g.total = fetch.total /\ g.missing = fetch.missing
        /\ g.got = fetch.got
    BY <2>2, <2>4, <2>6 DEF Fetches
  <2>8. FetchOk(g)
    BY <1>0, <2>7 DEF FetchOk
  <2> QED BY <1>0, <2>1, <2>8, PassBegins
<1> QED BY <1>1, <1>2

LEMMA DataPassEndsKeeps ==
    ASSUME LogInv, DataPassEnds
    PROVE  LogInv'
<1>0. /\ logOp.op = "download" /\ logOp.step = "stream" /\ LogGoes("flush")
      /\ UNCHANGED <<roll, fetch, rounds, vehicle, logAir, logFiles>>
  BY LogOpSteps DEF LogInv, DataPassEnds, LogRest
<1>1. LogShape' /\ logOp'.op = "download" /\ logOp'.step = "flush"
  BY <1>0, LogMoves DEF LogInv
<1>2. RollInv'
  BY <1>0, <1>1 DEF LogInv, RollInv
<1>3. FetchInv'
  BY <1>0, <1>1 DEF LogInv, FetchInv
<1> QED BY <1>0, <1>1, <1>2, <1>3 DEF LogInv, VehicleInv, LogAirInv, LogFilesInv

LEMMA EraseAgainKeeps ==
    ASSUME LogInv, EraseAgain
    PROVE  LogInv'
<1>0. /\ logOp.op = "erase" /\ LogGoes("delay") /\ rounds' = rounds + 1 /\ rounds + 1 < MaxRounds
      /\ roll' = NoRoll /\ UNCHANGED <<fetch, vehicle, logAir, logFiles>>
  BY DEF EraseAgain, LogRest
<1>1. LogShape' /\ logOp'.op = "erase" /\ logOp'.step = "delay"
  <2>1. rounds + 1 \in 0..MaxRounds
    BY <1>0, LogNumbers DEF LogInv, LogShape
  <2> QED BY <1>0, <2>1 DEF LogInv, LogShape, LogGoes, LogSteps, LogWaits
<1>2. RollInv'
  BY <1>0, NoneRunning DEF RollInv
<1>3. FetchInv'
  BY <1>0, <1>1, NoneRunning DEF LogInv, FetchInv
<1> QED BY <1>0, <1>1, <1>2, <1>3 DEF LogInv, VehicleInv, LogAirInv, LogFilesInv

LEMMA ListQuietKeeps ==
    ASSUME LogInv, ListQuiet
    PROVE  LogInv'
<1>0. UNCHANGED <<logOp, fetch, rounds, logAir, logFiles>> /\ roll.state = "waiting"
  BY DEF ListQuiet, LogRest
<1>1. roll \in Rolls /\ RollOk(roll, vehicle.logs) /\ VehicleInv
  BY DEF LogInv, RollInv
<1>2. /\ VehicleInv' /\ vehicle'.logs = vehicle.logs
      /\ roll' \in Rolls /\ RollOk(roll', vehicle.logs)
      /\ roll'.from = roll.from /\ roll'.to = roll.to
  <2>1. CASE UNCHANGED vehicle /\ \E s \in {"cancelled", "timeout"} : roll' = [roll EXCEPT !.state = s]
    <3>1. PICK s \in {"cancelled", "timeout"} : roll' = [roll EXCEPT !.state = s]
      BY <2>1
    <3>2. /\ roll' \in Rolls /\ roll'.state = s /\ roll'.num = roll.num /\ roll'.last = roll.last
          /\ roll'.from = roll.from /\ roll'.to = roll.to
      BY <1>1, <3>1 DEF Rolls, RollStates
    <3>3. RollOk(roll', vehicle.logs)
      BY <1>1, <3>2 DEF RollOk
    <3> QED BY <1>1, <2>1, <3>2, <3>3 DEF VehicleInv
  <2>2. CASE /\ roll.attempts + 1 < Attempts
             /\ RequestWindow([roll EXCEPT !.attempts = @ + 1], logOp.home)
    <3> DEFINE r == [roll EXCEPT !.attempts = @ + 1]
    <3>1. /\ r \in Rolls /\ r.state = "waiting" /\ r.num = roll.num /\ r.last = roll.last
          /\ r.from = roll.from /\ r.to = roll.to
      <4>1. roll.attempts + 1 \in 0..Attempts
        BY <1>1, <2>2, LogNumbers DEF Rolls
      <4> QED BY <1>0, <1>1, <4>1 DEF Rolls
    <3>2. RequestWindow(r, logOp.home)
      BY <2>2
    <3> HIDE DEF r
    <3>3. RollOk(r, vehicle.logs)
      BY <1>1, <3>1 DEF RollOk
    <3>4. PICK s \in {"failed", "waiting"} : roll' = [r EXCEPT !.state = s]
      BY <1>1, <3>1, <3>2, WindowAsked
    <3>5. roll' \in Rolls /\ RollOk(roll', vehicle.logs)
      BY <3>1, <3>3, <3>4, RollAsked
    <3>6. roll'.from = roll.from /\ roll'.to = roll.to
      BY <3>1, <3>4 DEF Rolls
    <3> QED BY <1>1, <3>1, <3>2, <3>5, <3>6, WindowAsked
  <2> QED BY <2>1, <2>2 DEF ListQuiet
<1>3. LogShape' /\ FetchInv' /\ LogFilesInv'
  BY <1>0 DEF LogInv, LogShape, FetchInv, LogFilesInv
<1>4. RollInv'
  BY <1>0, <1>2 DEF LogInv, RollInv
<1>5. LogAirInv'
  BY <1>0, <1>2, AirKept DEF LogInv
<1> QED BY <1>2, <1>3, <1>4, <1>5 DEF LogInv

(* What follows an entry that says n, the number of logs there are, unless   *)
(* there are none any more.                                                  *)
LEMMA EntryTaken ==
    ASSUME NEW r \in Rolls, r.state = "waiting", NEW n \in Counts, RollOk(r, n),
           NEW x \in LogFrames, x.kind = "entry", LogFrameOk(x, n),
           NEW q, q = TakesEntry(r, x)
    PROVE  q \in Rolls /\ RollOk(q, n) /\ q.from = r.from /\ q.to = r.to
<1> DEFINE fits == x.num > 0 /\ x.id >= r.from /\ x.id <= r.to
           f == IF fits THEN r.found \cup {x.id} ELSE r.found
           next == [r EXCEPT !.num = x.num, !.last = x.last, !.frames = @ + 1,
                             !.found = IF fits THEN @ \cup {x.id} ELSE @]
<1>1. /\ x.num \in Counts /\ x.last = x.num /\ (n # 0 => x.num = n)
      /\ (x.num > 0 => x.id \in Ids)
  BY DEF LogFrameOk
<1>2. CASE r.frames + 1 > MaxFrames
  <2>1. q = [r EXCEPT !.state = "overflow"]
    BY <1>2 DEF TakesEntry
  <2>2. /\ q \in Rolls /\ q.state = "overflow" /\ q.num = r.num /\ q.last = r.last
        /\ q.from = r.from /\ q.to = r.to
    BY <2>1 DEF Rolls, RollStates
  <2> QED BY <2>2 DEF RollOk
<1>3. CASE ~(r.frames + 1 > MaxFrames)
  <2>1. q = IF IsComplete(next) THEN [next EXCEPT !.state = "done"] ELSE next
    BY <1>3 DEF TakesEntry
  <2>2. r.frames + 1 \in 0..MaxFrames /\ f \in SUBSET Ids
    BY <1>1, <1>3, LogNumbers DEF Rolls
  <2>3. next = [r EXCEPT !.num = x.num, !.last = x.last, !.frames = r.frames + 1, !.found = f]
    BY DEF Rolls
  <2> HIDE DEF f
  <2>4. /\ next \in Rolls /\ next.state = "waiting" /\ next.num = x.num /\ next.last = x.last
        /\ next.from = r.from /\ next.to = r.to
    BY <1>1, <2>2, <2>3 DEF Rolls
  <2> HIDE DEF next
  <2>5. CASE IsComplete(next)
    <3>1. q = [next EXCEPT !.state = "done"]
      BY <2>1, <2>5
    <3>2. /\ q \in Rolls /\ q.num = next.num /\ q.last = next.last /\ q.from = next.from
          /\ q.to = next.to /\ q.found = next.found
      BY <2>4, <3>1 DEF Rolls, RollStates
    <3>3. IsComplete(q)
      BY <2>5, <3>2 DEF IsComplete, MissingIds
    <3> QED BY <1>1, <2>4, <3>2, <3>3 DEF RollOk
  <2>6. CASE ~IsComplete(next)
    BY <1>1, <2>1, <2>4, <2>6 DEF RollOk
  <2> QED BY <2>5, <2>6
<1> QED BY <1>2, <1>3

LEMMA LogPopped ==
    ASSUME LogAirInv, vehicle' = vehicle, logAir # <<>>, logAir' = Tail(logAir)
    PROVE  /\ LogAirInv' /\ logAir[1] \in LogFrames
           /\ LogFrameOk(logAir[1], vehicle.logs)
<1>1. /\ Tail(logAir) \in Seq(LogFrames) /\ Len(Tail(logAir)) <= Len(logAir)
      /\ \A i \in 1..Len(Tail(logAir)) : \E k \in 1..Len(logAir) : Tail(logAir)[i] = logAir[k]
  BY PoppedFrom DEF LogAirInv
<1>2. Len(Tail(logAir)) <= LogAirLimit
  <2>1. Len(logAir) \in Nat /\ Len(Tail(logAir)) \in Nat
    BY <1>1, LenProperties DEF LogAirInv
  <2> QED BY <1>1, <2>1, LogNumbers DEF LogAirInv
<1>3. logAir[1] \in LogFrames /\ 1 \in 1..Len(logAir)
  BY Popped DEF LogAirInv
<1>4. \A i \in 1..Len(Tail(logAir)) : LogFrameOk(Tail(logAir)[i], vehicle.logs)
  BY <1>1 DEF LogAirInv
<1> QED BY <1>1, <1>2, <1>3, <1>4 DEF LogAirInv

LEMMA LogEntryKeeps ==
    ASSUME LogInv, HandleLogEntry
    PROVE  LogInv'
<1> DEFINE x == logAir[1]
<1>0. /\ logAir # <<>> /\ x.kind = "entry" /\ logAir' = Tail(logAir)
      /\ UNCHANGED <<logOp, fetch, rounds, vehicle, logFiles>>
      /\ \/ roll' = roll
         \/ /\ roll.state = "waiting"
            /\ \/ \E s \in {"cancelled", "overflow"} : roll' = [roll EXCEPT !.state = s]
               \/ roll' = TakesEntry(roll, x)
  BY DEF HandleLogEntry, LogRest
<1>1. LogAirInv' /\ x \in LogFrames /\ LogFrameOk(x, vehicle.logs)
  BY <1>0, LogPopped DEF LogInv
<1> HIDE DEF x
<1>2. roll \in Rolls /\ RollOk(roll, vehicle.logs) /\ vehicle.logs \in Counts
  BY DEF LogInv, RollInv, VehicleInv
<1>3. CASE roll' = roll
  BY <1>0, <1>1, <1>3 DEF LogInv, LogShape, RollInv, FetchInv, VehicleInv, LogFilesInv
<1>4. CASE roll.state = "waiting" /\ roll' # roll
  <2>1. roll' \in Rolls /\ RollOk(roll', vehicle.logs) /\ roll'.from = roll.from /\ roll'.to = roll.to
    <3>1. CASE \E s \in {"cancelled", "overflow"} : roll' = [roll EXCEPT !.state = s]
      <4>1. PICK s \in {"cancelled", "overflow"} : roll' = [roll EXCEPT !.state = s]
        BY <3>1
      <4>2. /\ roll' \in Rolls /\ roll'.state = s /\ roll'.num = roll.num /\ roll'.last = roll.last
            /\ roll'.from = roll.from /\ roll'.to = roll.to
        BY <1>2, <4>1 DEF Rolls, RollStates
      <4> QED BY <1>2, <4>2 DEF RollOk
    <3>2. CASE roll' = TakesEntry(roll, x)
      BY <1>0, <1>1, <1>2, <1>4, <3>2, EntryTaken
    <3> QED BY <1>0, <1>4, <3>1, <3>2
  <2>2. RollInv'
    BY <1>0, <1>4, <2>1 DEF LogInv, RollInv
  <2> QED BY <1>0, <1>1, <2>2 DEF LogInv, LogShape, FetchInv, VehicleInv, LogFilesInv
<1> QED BY <1>0, <1>3, <1>4

LEMMA GapsCut ==
    ASSUME NEW g, FetchOk(g), NEW s \in Nat, NEW e \in Nat, Edge(s), Edge(e),
           NEW J, J = subtractInterval(g.missing, s, e)
    PROVE  /\ J \in SUBSET ((0..Size) \X (0..Size))
           /\ \A j \in J : j[1] < j[2] /\ Edge(j[1]) /\ Edge(j[2])
           /\ Covered(J) = Covered(g.missing) \ (s..(e - 1))
<1>1. \A i \in g.missing : i \in (0..Size) \X (0..Size) /\ i[1] \in Int /\ i[2] \in Int
  BY LogNumbers DEF FetchOk, Fetches
<1>2. Covered(J) = Covered(g.missing) \ (s..(e - 1))
  BY <1>1, CoveredCut
<1>3. ASSUME NEW j \in J
      PROVE  /\ j \in (0..Size) \X (0..Size)
             /\ j[1] < j[2] /\ Edge(j[1]) /\ Edge(j[2])
  <2>1. \/ j \in g.missing
        \/ \E i \in g.missing : i[1] < s /\ s < i[2] /\ j = <<i[1], s>>
        \/ \E i \in g.missing : i[1] < e /\ e < i[2] /\ j = <<e, i[2]>>
    BY <1>1, <1>3, CutPairs
  <2>2. CASE j \in g.missing
    BY <1>1, <2>2 DEF FetchOk
  <2>3. CASE \E i \in g.missing : i[1] < s /\ s < i[2] /\ j = <<i[1], s>>
    <3>1. PICK i \in g.missing : i[1] < s /\ s < i[2] /\ j = <<i[1], s>>
      BY <2>3
    <3>2. i \in (0..Size) \X (0..Size) /\ Edge(i[1])
      BY <1>1 DEF FetchOk
    <3> QED BY <3>1, <3>2, LogNumbers
  <2>4. CASE \E i \in g.missing : i[1] < e /\ e < i[2] /\ j = <<e, i[2]>>
    <3>1. PICK i \in g.missing : i[1] < e /\ e < i[2] /\ j = <<e, i[2]>>
      BY <2>4
    <3>2. i \in (0..Size) \X (0..Size) /\ Edge(i[2])
      BY <1>1 DEF FetchOk
    <3> QED BY <3>1, <3>2, LogNumbers
  <2> QED BY <2>1, <2>2, <2>3, <2>4
<1> QED BY <1>2, <1>3

LEMMA ChunkStored ==
    ASSUME NEW g, FetchOk(g), NEW x \in LogFrames, x.kind = "data", NEW n, LogFrameOk(x, n),
           NEW h, h = Stored(g, x)
    PROVE  FetchOk(h)
<1> DEFINE end == Lesser(g.total, x.ofs + x.count)
           J == subtractInterval(g.missing, x.ofs, end)
           got == g.got \cup x.ofs..(end - 1)
<1>1. /\ x.ofs \in Nat /\ x.count \in Nat /\ Edge(x.ofs) /\ Edge(x.ofs + x.count)
      /\ x.count = 0 \/ x.ofs + x.count <= RealLen
  BY DEF LogFrameOk, LogFrames
<1>2. g \in Fetches /\ g.total \in 0..Size /\ Edge(g.total)
  BY DEF FetchOk, Fetches
<1>3. end \in Nat /\ end <= g.total /\ end <= x.ofs + x.count /\ Edge(end)
  BY <1>1, <1>2, LogNumbers DEF Lesser
<1>4. CASE end <= x.ofs
  BY <1>4 DEF Stored
<1>5. CASE ~(end <= x.ofs)
  <2>1. h = [g EXCEPT !.missing = J, !.got = got]
    BY <1>5, <1>2 DEF Stored, Fetches
  <2>2. /\ J \in SUBSET ((0..Size) \X (0..Size))
        /\ \A j \in J : j[1] < j[2] /\ Edge(j[1]) /\ Edge(j[2])
        /\ Covered(J) = Covered(g.missing) \ (x.ofs..(end - 1))
    BY <1>1, <1>3, GapsCut
  <2>3. /\ x.ofs..(end - 1) \in SUBSET (0..(g.total - 1))
        /\ x.ofs..(end - 1) \in SUBSET (0..(Size - 1))
        /\ \A k \in x.ofs..(end - 1) : k < RealLen
    BY <1>1, <1>2, <1>3, <1>5, LogNumbers
  <2> HIDE DEF J, end
  <2>4. /\ got \in SUBSET (0..(Size - 1)) /\ \A k \in got : k < RealLen
        /\ Covered(J) \cap got = {} /\ Covered(J) \cup got = 0..(g.total - 1)
    <3>1. /\ Covered(g.missing) \cap g.got = {}
          /\ Covered(g.missing) \cup g.got = 0..(g.total - 1)
          /\ \A k \in g.got : k < RealLen
          /\ g.got \in SUBSET (0..(Size - 1))
      BY DEF FetchOk, Fetches
    <3> DEFINE new == x.ofs..(end - 1)
    <3> HIDE DEF new
    <3>2. got = g.got \cup new
      BY DEF new
    <3>3. Covered(J) = Covered(g.missing) \ new /\ new \in SUBSET (0..(g.total - 1))
          /\ new \in SUBSET (0..(Size - 1)) /\ \A k \in new : k < RealLen
      BY <2>2, <2>3 DEF new
    <3> QED BY <3>1, <3>2, <3>3
  <2> HIDE DEF got
  <2>5. h \in Fetches /\ h.missing = J /\ h.got = got /\ h.total = g.total
    BY <1>2, <2>1, <2>2, <2>4 DEF Fetches
  <2> QED BY <2>2, <2>4, <2>5 DEF FetchOk
<1> QED BY <1>4, <1>5

LEMMA EndFound ==
    ASSUME NEW g, FetchOk(g), NEW end \in Nat, Edge(end), end >= TrueLen,
           NEW h, h = TruncateTo(g, end)
    PROVE  FetchOk(h)
<1>1. CASE end >= g.total
  BY <1>1 DEF TruncateTo
<1>2. CASE ~(end >= g.total)
  <2> DEFINE J == subtractInterval(g.missing, end, g.total)
  <2>1. h = [g EXCEPT !.missing = J, !.total = end]
    BY <1>2 DEF TruncateTo, FetchOk, Fetches
  <2>2. g \in Fetches /\ g.total \in 0..Size /\ Edge(g.total) /\ g.total \in Nat
    BY LogNumbers DEF FetchOk, Fetches
  <2>3. /\ J \in SUBSET ((0..Size) \X (0..Size))
        /\ \A j \in J : j[1] < j[2] /\ Edge(j[1]) /\ Edge(j[2])
        /\ Covered(J) = Covered(g.missing) \ (end..(g.total - 1))
    BY <2>2, GapsCut
  <2>4. end \in 0..Size /\ end >= RealLen
    BY <1>2, <2>2, LogNumbers
  <2> HIDE DEF J
  <2>5. h \in Fetches /\ h.missing = J /\ h.got = g.got /\ h.total = end
    BY <2>1, <2>2, <2>3, <2>4 DEF Fetches
  <2>6. /\ Covered(g.missing) \cap g.got = {}
        /\ Covered(g.missing) \cup g.got = 0..(g.total - 1)
        /\ \A k \in g.got : k < RealLen
    BY DEF FetchOk
  <2>7. \A k \in g.got : k \in 0..(end - 1)
    BY <2>2, <2>4, <2>6, LogNumbers
  <2>8. \A k \in 0..(g.total - 1) : k \in 0..(end - 1) \/ k \in end..(g.total - 1)
    BY <2>2
  <2>9. \A k \in 0..(end - 1) : k \in 0..(g.total - 1) /\ k \notin end..(g.total - 1)
    BY <1>2, <2>2
  <2>10. Covered(J) \cap g.got = {} /\ Covered(J) \cup g.got = 0..(end - 1)
    BY <2>3, <2>6, <2>7, <2>8, <2>9
  <2> QED BY <2>3, <2>5, <2>6, <2>10 DEF FetchOk
<1> QED BY <1>1, <1>2

LEMMA LogDataKeeps ==
    ASSUME LogInv, HandleLogData
    PROVE  LogInv'
<1> DEFINE x == logAir[1]
           g == Stored(fetch, x)
           h == TruncateTo(g, x.ofs + x.count)
<1>0. /\ logAir # <<>> /\ x.kind = "data" /\ logAir' = Tail(logAir)
      /\ UNCHANGED <<roll, rounds, vehicle, logFiles>>
      /\ \/ UNCHANGED <<fetch, logOp>>
         \/ /\ logOp.step = "stream"
            /\ \/ fetch' = g
               \/ fetch' = h /\ x.count < Chunk
            /\ LogGoes("flush") \/ UNCHANGED logOp
  BY DEF HandleLogData, LogRest
<1>1. LogAirInv' /\ x \in LogFrames /\ LogFrameOk(x, vehicle.logs)
  BY <1>0, LogPopped DEF LogInv
<1> HIDE DEF x
<1>2. CASE UNCHANGED <<fetch, logOp>>
  BY <1>0, <1>1, <1>2 DEF LogInv, LogShape, RollInv, FetchInv, VehicleInv, LogFilesInv
<1>3. CASE /\ logOp.step = "stream"
           /\ \/ fetch' = g
              \/ fetch' = h /\ x.count < Chunk
           /\ LogGoes("flush") \/ UNCHANGED logOp
  <2>1. logOp.op = "download" /\ FetchOk(fetch)
    BY <1>3, LogOpSteps DEF LogInv, FetchInv
  <2>2. FetchOk(g)
    BY <1>0, <1>1, <2>1, ChunkStored
  <2>3. x.count < Chunk => x.ofs + x.count \in Nat /\ Edge(x.ofs + x.count) /\ x.ofs + x.count >= TrueLen
    BY <1>0, <1>1 DEF LogFrameOk, LogFrames
  <2> HIDE DEF g
  <2>4. FetchOk(fetch')
    BY <1>3, <2>2, <2>3, EndFound
  <2>5. LogShape' /\ logOp'.op = "download" /\ logOp'.step \in {"flush", "stream"}
    <3>1. CASE LogGoes("flush")
      BY <1>0, <2>1, <3>1, LogMoves DEF LogInv
    <3>2. CASE UNCHANGED logOp
      BY <1>0, <1>3, <2>1, <3>2 DEF LogInv, LogShape
    <3> QED BY <1>3, <3>1, <3>2
  <2>6. RollInv'
    BY <1>0, <1>3, <2>5 DEF LogInv, RollInv
  <2>7. FetchInv'
    BY <2>4, <2>5 DEF FetchInv, FetchOk
  <2> QED BY <1>0, <1>1, <2>5, <2>6, <2>7 DEF LogInv, VehicleInv, LogFilesInv
<1> QED BY <1>0, <1>2, <1>3

LEMMA LogSent ==
    ASSUME LogAirInv, NEW x \in LogFrames, LogFrameOk(x, vehicle.logs),
           vehicle'.logs = vehicle.logs,
           logAir' = logAir \/ (Len(logAir) < LogAirLimit /\ logAir' = Append(logAir, x))
    PROVE  LogAirInv'
<1>1. CASE logAir' = logAir
  BY <1>1, AirKept
<1>2. CASE Len(logAir) < LogAirLimit /\ logAir' = Append(logAir, x)
  <2> DEFINE t == Append(logAir, x)
  <2>1. /\ t \in Seq(LogFrames) /\ Len(t) <= LogAirLimit
        /\ \A i \in 1..Len(t) : t[i] = x \/ \E k \in 1..Len(logAir) : t[i] = logAir[k]
    BY <1>2, PushedFrom, LogNumbers DEF LogAirInv
  <2> HIDE DEF t
  <2>2. logAir' = t
    BY <1>2 DEF t
  <2>3. \A i \in 1..Len(t) : LogFrameOk(t[i], vehicle.logs)
    BY <2>1 DEF LogAirInv
  <2> QED BY <2>1, <2>2, <2>3 DEF LogAirInv
<1> QED BY <1>1, <1>2

LEMMA ChunkSent ==
    ASSUME NEW s \in LogStreams, s.kind = "data", NEW n, LogStreamOk(s, n),
           NEW there, there = (IF s.at < RealLen THEN RealLen - s.at ELSE 0),
           NEW count, count = Lesser(Chunk, Lesser(there, s.until - s.at))
    PROVE  /\ count \in Nat /\ LogData(s.id, s.at, count) \in LogFrames
           /\ \A m : LogFrameOk(LogData(s.id, s.at, count), m)
           /\ ~(count < Chunk) /\ s.at + count # s.until =>
                 /\ [s EXCEPT !.at = @ + count] \in LogStreams
                 /\ LogStreamOk([s EXCEPT !.at = @ + count], n)
<1>1. /\ s.at \in Nat /\ s.until \in Nat /\ s.at < s.until /\ Edge(s.at) /\ Edge(s.until)
      /\ s.id \in Int
  BY DEF LogStreamOk, LogStreams, Edge
<1>2. there \in Nat /\ (there = 0 \/ s.at + there = RealLen) /\ (there = 0 => s.at >= RealLen)
  BY <1>1, LogNumbers
<1>3. /\ count \in Nat /\ count <= Chunk /\ count <= there /\ count <= s.until - s.at
      /\ count = Chunk \/ count = there \/ count = s.until - s.at
  BY <1>1, <1>2, LogNumbers DEF Lesser
<1>4. count < Chunk => s.at + count >= TrueLen
  <2>1. CASE count = there
    BY <1>1, <1>2, <2>1, LogNumbers
  <2>2. CASE count = s.until - s.at /\ count < Chunk
    <3>1. s.at + count = s.until
      BY <1>1, <2>2
    <3>2. ~(s.until < TrueLen)
      BY <1>1, <2>2, Edges, LogNumbers
    <3> QED BY <1>1, <3>1, <3>2, LogNumbers
  <2> QED BY <1>3, <2>1, <2>2, LogNumbers
<1>5. s.at + count \in Nat /\ Edge(s.at + count)
  <2>1. CASE count = Chunk
    BY <1>1, <2>1, Edges, LogNumbers
  <2>2. CASE count # Chunk
    <3>1. count < Chunk
      BY <1>3, <2>2, LogNumbers
    <3> QED BY <1>1, <1>3, <1>4, <3>1, Edges
  <2> QED BY <2>1, <2>2, <1>1, <1>3
<1>6. count = 0 \/ s.at + count <= RealLen
  BY <1>1, <1>2, <1>3, LogNumbers
<1>7. /\ LogData(s.id, s.at, count) \in LogFrames
      /\ \A m : LogFrameOk(LogData(s.id, s.at, count), m)
  BY <1>1, <1>3, <1>4, <1>5, <1>6 DEF LogData, LogFrames, LogFrameOk
<1>8. ASSUME ~(count < Chunk), s.at + count # s.until
      PROVE  /\ [s EXCEPT !.at = @ + count] \in LogStreams
             /\ LogStreamOk([s EXCEPT !.at = @ + count], n)
  <2> DEFINE q == [s EXCEPT !.at = @ + count]
  <2>1. s.at + count < s.until
    BY <1>1, <1>3, <1>8
  <2>2. /\ q \in LogStreams /\ q.kind = "data" /\ q.at = s.at + count /\ q.until = s.until
    BY <1>5 DEF LogStreams
  <2> HIDE DEF q
  <2>3. LogStreamOk(q, n)
    BY <1>1, <1>5, <2>1, <2>2 DEF LogStreamOk
  <2> QED BY <2>2, <2>3 DEF q
<1> QED BY <1>3, <1>7, <1>8

LEMMA EntrySent ==
    ASSUME VehicleInv, NEW id \in Int, vehicle.logs > 0 => id \in 1..vehicle.logs
    PROVE  LogEntry(id) \in LogFrames /\ LogFrameOk(LogEntry(id), vehicle.logs)
<1>1. vehicle.logs \in Counts /\ vehicle.logs \in Nat
  BY LogNumbers DEF VehicleInv, Counts
<1>2. vehicle.logs > 0 => id \in Ids
  BY <1>1 DEF Counts, Ids
<1> QED BY <1>1, <1>2 DEF LogEntry, LogFrames, LogFrameOk

(* What the vehicle does leaves the operation alone.                         *)
LEMMA LogOpKept ==
    ASSUME LogInv, UNCHANGED <<logOp, roll, fetch, rounds, logFiles>>, VehicleInv', LogAirInv',
           vehicle'.logs = vehicle.logs \/ vehicle'.logs = 0
    PROVE  LogInv'
<1>1. RollOk(roll, vehicle'.logs)
  BY LogsGone DEF LogInv, RollInv
<1>2. RollInv'
  BY <1>1 DEF LogInv, RollInv
<1>3. LogShape' /\ FetchInv' /\ LogFilesInv'
  BY DEF LogInv, LogShape, FetchInv, LogFilesInv
<1> QED BY <1>2, <1>3 DEF LogInv

LEMMA VehicleStreamsKeeps ==
    ASSUME LogInv, VehicleStreams
    PROVE  LogInv'
<1> DEFINE s == vehicle.stream
           there == IF s.at < RealLen THEN RealLen - s.at ELSE 0
           count == Lesser(Chunk, Lesser(there, s.until - s.at))
           ends == count < Chunk \/ s.at + count = s.until
<1>0. /\ vehicle \in [logs : Counts, erasing : BOOLEAN, stream : LogStreams]
      /\ LogStreamOk(s, vehicle.logs) /\ LogAirInv /\ VehicleInv
      /\ UNCHANGED <<logOp, roll, fetch, rounds, logFiles>>
  BY DEF LogInv, VehicleInv, VehicleStreams
<1>1. s \in LogStreams /\ vehicle.logs \in Nat
  BY <1>0, LogNumbers DEF Counts
<1>2. CASE s.kind = "entry"
  <2>1. CASE vehicle.logs = 0 \/ s.at > s.until
    <3>1. /\ vehicle' = [vehicle EXCEPT !.stream = NoLogStream]
          /\ logAir' = logAir \/ (vehicle.logs = 0 /\ LogSends(LogEntry(0)))
      BY <1>2, <2>1 DEF VehicleStreams
    <3>2. VehicleInv' /\ vehicle'.logs = vehicle.logs
      BY <1>0, <3>1, NoneRunning DEF VehicleInv
    <3>3. LogAirInv'
      <4>1. CASE logAir' = logAir
        BY <1>0, <3>2, <4>1, AirKept
      <4>2. CASE vehicle.logs = 0 /\ LogSends(LogEntry(0))
        BY <1>0, <3>2, <4>2, EntrySent, LogSent DEF LogSends
      <4> QED BY <3>1, <4>1, <4>2
    <3> QED BY <1>0, <3>2, <3>3, LogOpKept
  <2>2. CASE ~(vehicle.logs = 0 \/ s.at > s.until)
    <3>1. /\ vehicle' = [vehicle EXCEPT !.stream = [s EXCEPT !.at = @ + 1]]
          /\ LogSends(LogEntry(s.at))
      BY <1>2, <2>2 DEF VehicleStreams
    <3>2. s.at \in Int /\ s.at \in 1..vehicle.logs /\ s.until <= vehicle.logs
      BY <1>0, <1>1, <1>2, <2>2 DEF LogStreamOk, LogStreams
    <3>3. VehicleInv' /\ vehicle'.logs = vehicle.logs
      <4> DEFINE q == [s EXCEPT !.at = @ + 1]
      <4>1. q \in LogStreams /\ q.kind = "entry" /\ q.at = s.at + 1 /\ q.until = s.until
        BY <1>1, <1>2, <3>2 DEF LogStreams
      <4> HIDE DEF q
      <4>2. LogStreamOk(q, vehicle.logs)
        BY <3>2, <4>1 DEF LogStreamOk
      <4>3. vehicle' = [vehicle EXCEPT !.stream = q]
        BY <3>1 DEF q
      <4> QED BY <1>0, <4>1, <4>2, <4>3 DEF VehicleInv
    <3>4. LogAirInv'
      BY <1>0, <3>1, <3>2, <3>3, EntrySent, LogSent DEF LogSends
    <3> QED BY <1>0, <3>3, <3>4, LogOpKept
  <2> QED BY <2>1, <2>2
<1>3. CASE s.kind = "data"
  <2>1. /\ vehicle' = [vehicle EXCEPT !.stream = IF ends THEN NoLogStream ELSE [s EXCEPT !.at = @ + count]]
        /\ LogSends(LogData(s.id, s.at, count))
    BY <1>3 DEF VehicleStreams
  <2> HIDE DEF there
  <2>2. /\ count \in Nat /\ LogData(s.id, s.at, count) \in LogFrames
        /\ LogFrameOk(LogData(s.id, s.at, count), vehicle.logs)
        /\ ~(count < Chunk) /\ s.at + count # s.until =>
                 /\ [s EXCEPT !.at = @ + count] \in LogStreams
                 /\ LogStreamOk([s EXCEPT !.at = @ + count], vehicle.logs)
    BY <1>0, <1>1, <1>3, ChunkSent DEF there
  <2> HIDE DEF count
  <2>3. VehicleInv' /\ vehicle'.logs = vehicle.logs
    <3> DEFINE q == IF ends THEN NoLogStream ELSE [s EXCEPT !.at = @ + count]
    <3>1. q \in LogStreams /\ LogStreamOk(q, vehicle.logs)
      BY <2>2, NoneRunning
    <3> HIDE DEF q
    <3>2. vehicle' = [vehicle EXCEPT !.stream = q]
      BY <2>1 DEF q
    <3> QED BY <1>0, <3>1, <3>2 DEF VehicleInv
  <2>4. LogAirInv'
    BY <1>0, <2>1, <2>2, <2>3, LogSent DEF LogSends
  <2> QED BY <1>0, <2>3, <2>4, LogOpKept
<1> QED BY <1>1, <1>2, <1>3 DEF VehicleStreams, LogStreams

LEMMA VehicleActsKeep ==
    ASSUME LogInv, VehicleBabbles \/ VehicleErases
    PROVE  LogInv'
<1>1. CASE VehicleBabbles
  <2>1. PICK id \in 1..vehicle.logs : logAir' = Append(logAir, LogEntry(id))
    BY <1>1 DEF VehicleBabbles
  <2>2. Len(logAir) < LogAirLimit /\ UNCHANGED <<logOp, roll, fetch, rounds, logFiles, vehicle>>
    BY <1>1 DEF VehicleBabbles
  <2>3. vehicle.logs \in Nat
    BY LogNumbers DEF LogInv, VehicleInv, Counts
  <2>4. id \in Int
    BY <2>3
  <2>5. LogAirInv'
    BY <2>1, <2>2, <2>4, EntrySent, LogSent DEF LogInv
  <2> QED BY <2>2, <2>5, LogOpKept DEF LogInv, VehicleInv
<1>2. CASE VehicleErases
  <2>1. /\ vehicle' = [logs |-> 0, erasing |-> FALSE, stream |-> NoLogStream]
        /\ UNCHANGED <<logOp, roll, fetch, rounds, logFiles, logAir>>
    BY <1>2 DEF VehicleErases
  <2>2. VehicleInv' /\ vehicle'.logs = 0
    BY <2>1, NoneRunning DEF VehicleInv, Counts
  <2>3. LogAirInv'
    BY <2>1, <2>2, LogsGone DEF LogInv, LogAirInv
  <2> QED BY <2>1, <2>2, <2>3, LogOpKept
<1> QED BY <1>1, <1>2

LEMMA ConsumeLogKeeps ==
    ASSUME LogInv, ConsumeLog
    PROVE  LogInv'
<1>1. /\ UNCHANGED <<logOp, roll, fetch, rounds, vehicle, logAir>>
      /\ \E i \in DOMAIN logFiles : logFiles' = RemoveAt(logFiles, i)
  BY DEF ConsumeLog
<1>2. PICK i \in DOMAIN logFiles : logFiles' = RemoveAt(logFiles, i)
  BY <1>1
<1>3. logFiles \in Seq(KeptLogs) /\ i \in 1..Len(logFiles) /\ Len(logFiles) <= LogRetained
  BY LenProperties DEF LogInv, LogFilesInv
<1>4. RemoveAt(logFiles, i) \in Seq(KeptLogs) /\ Len(RemoveAt(logFiles, i)) <= Len(logFiles)
  BY <1>3, RemovedFrom
<1>5. Len(logFiles) \in Nat /\ Len(RemoveAt(logFiles, i)) \in Nat
  BY <1>3, <1>4, LenProperties
<1>6. LogFilesInv'
  BY <1>2, <1>3, <1>4, <1>5, LogNumbers DEF LogFilesInv
<1> QED BY <1>1, <1>6 DEF LogInv, LogShape, RollInv, FetchInv, VehicleInv, LogAirInv

Homes == Vehicles \cup {Nobody}

LEMMA LogClaims ==
    ASSUME LogShape, target \in Homes, rounds' = rounds,
           NEW o \in {"list", "download", "erase"}, NEW s \in {"roll", "dir", "delay"},
           s \in LogSteps[o], LogClaimed(o, s)
    PROVE  LogShape' /\ logOp'.op = o /\ logOp'.step = s
BY DEF LogShape, LogClaimed, LogWaits, Homes

LEMMA LogIdles ==
    ASSUME LogInv, LogClaimable
    PROVE  logOp.op = "idle" /\ logOp.step = "idle" /\ roll.state = "none" /\ fetch = NoFetch
BY LogOpSteps DEF LogInv, LogClaimable, logBusy, RollInv, FetchInv

LEMMA LogStartsKeep ==
    ASSUME LogInv, target \in Homes, StartLogList \/ StartErase \/ \E id \in Ids : StartLogDownload(id)
    PROVE  LogInv'
<1>0. LogShape /\ VehicleInv /\ LogAirInv /\ LogFilesInv
  BY DEF LogInv
<1>1. CASE StartLogList
  <2>1. /\ LogClaimed("list", "roll") /\ CollectList(0, MaxId, target)
        /\ UNCHANGED <<fetch, rounds, logAir, logFiles>> /\ fetch = NoFetch
    BY <1>1, LogIdles DEF StartLogList, LogRest
  <2>2. LogShape' /\ logOp'.op = "list" /\ logOp'.step = "roll"
    BY <1>0, <2>1, LogClaims DEF LogSteps
  <2>3. /\ VehicleInv' /\ vehicle'.logs = vehicle.logs
        /\ roll' \in Rolls /\ RollOk(roll', vehicle.logs) /\ roll'.from = 0 /\ roll'.to = MaxId
    BY <1>0, <2>1, ListBegins DEF MaxId
  <2>4. RollInv'
    BY <2>2, <2>3 DEF RollInv
  <2>5. FetchInv'
    BY <2>1, <2>2, NoneRunning DEF FetchInv
  <2>6. LogAirInv' /\ LogFilesInv'
    BY <1>0, <2>1, <2>3, AirKept DEF LogFilesInv
  <2> QED BY <2>2, <2>3, <2>4, <2>5, <2>6 DEF LogInv
<1>2. CASE StartErase
  <2>1. /\ UNCHANGED <<roll, fetch, rounds, logFiles, logAir>>
        /\ roll.state = "none" /\ fetch = NoFetch
    BY <1>2, LogIdles DEF StartErase
  <2>2. vehicle' = vehicle \/ vehicle' = [vehicle EXCEPT !.erasing = TRUE]
    BY <1>2 DEF StartErase
  <2>3. VehicleInv' /\ vehicle'.logs = vehicle.logs
    BY <1>0, <2>2 DEF VehicleInv
  <2>4. LogAirInv' /\ LogFilesInv'
    BY <1>0, <2>1, <2>3, AirKept DEF LogFilesInv
  <2>5. CASE UNCHANGED logOp
    BY <2>1, <2>3, <2>4, <2>5, LogOpKept
  <2>6. CASE LogClaimed("erase", "delay")
    <3>1. LogShape' /\ logOp'.op = "erase" /\ logOp'.step = "delay"
      BY <1>0, <2>1, <2>6, LogClaims DEF LogSteps
    <3>2. RollInv'
      BY <2>1, <2>3, <3>1 DEF LogInv, RollInv
    <3>3. FetchInv'
      BY <2>1, <3>1, NoneRunning DEF FetchInv
    <3> QED BY <2>3, <2>4, <3>1, <3>2, <3>3 DEF LogInv
  <2> QED BY <1>2, <2>5, <2>6 DEF StartErase
<1>3. CASE \E id \in Ids : StartLogDownload(id)
  <2>1. PICK id \in Ids : StartLogDownload(id)
    BY <1>3
  <2>2. /\ LogClaimed("download", "dir") /\ fetch' = [NoFetch EXCEPT !.id = id]
        /\ UNCHANGED <<roll, rounds, vehicle, logAir, logFiles>> /\ roll.state = "none"
    BY <2>1, LogIdles DEF StartLogDownload, LogRest
  <2>3. LogShape' /\ logOp'.op = "download" /\ logOp'.step = "dir"
    BY <1>0, <2>2, LogClaims DEF LogSteps
  <2>4. RollInv'
    BY <2>2, <2>3 DEF LogInv, RollInv
  <2>5. FetchInv'
    <3>1. id \in Int
      BY LogNumbers DEF Ids
    <3>2. fetch' \in Fetches /\ fetch'.missing = NoFetch.missing /\ fetch'.got = NoFetch.got
          /\ fetch'.id = id
      BY <2>2, <3>1, NoneRunning DEF Fetches
    <3> QED BY <2>2, <2>3, <3>2, NoneRunning DEF FetchInv
  <2> QED BY <1>0, <2>2, <2>3, <2>4, <2>5 DEF LogInv, VehicleInv, LogAirInv, LogFilesInv
<1> QED BY <1>1, <1>2, <1>3

LEMMA LogCancelKeeps ==
    ASSUME LogInv, LogCancel, UNCHANGED <<roll, fetch, rounds>>,
           logAir' \in {logAir, <<>>}, logFiles' \in {logFiles, <<>>}
    PROVE  LogInv'
<1>1. /\ logOp' = logOp \/ logOp' = [logOp EXCEPT !.cancelRequested = TRUE]
      /\ Streams(NoLogStream) \/ UNCHANGED vehicle
  BY DEF LogCancel
<1>2. VehicleInv' /\ vehicle'.logs = vehicle.logs
  BY <1>1, StopAsked DEF LogInv
<1>3. LogShape' /\ logOp'.op = logOp.op /\ logOp'.step = logOp.step
  BY <1>1 DEF LogInv, LogShape
<1>4. RollInv' /\ FetchInv'
  BY <1>2, <1>3 DEF LogInv, RollInv, FetchInv
<1>5. LogAirInv'
  <2>1. CASE logAir' = <<>>
    BY <1>2, <2>1, EmptySeq, LogNumbers DEF LogAirInv
  <2>2. CASE logAir' = logAir
    BY <1>2, <2>2, AirKept DEF LogInv
  <2> QED BY <2>1, <2>2
<1>6. LogFilesInv'
  <2>1. <<>> \in Seq(KeptLogs) /\ Len(<<>>) <= LogRetained
    BY EmptySeq, LogNumbers
  <2>2. logFiles' \in Seq(KeptLogs) /\ Len(logFiles') <= LogRetained
    BY <2>1 DEF LogInv, LogFilesInv
  <2> QED BY <2>2 DEF LogFilesInv
<1> QED BY <1>2, <1>3, <1>4, <1>5, <1>6 DEF LogInv

LEMMA LogBegins == LogInit => LogInv
<1> SUFFICES ASSUME LogInit PROVE LogInv
  OBVIOUS
<1>1. LogShape
  BY LogNumbers DEF LogInit, LogShape, LogSteps, LogWaits
<1>2. RollInv /\ FetchInv
  BY NoneRunning DEF LogInit, RollInv, FetchInv
<1>3. VehicleInv
  BY NoneRunning DEF LogInit, VehicleInv, Counts
<1>4. LogAirInv /\ LogFilesInv
  BY EmptySeq, LogNumbers DEF LogInit, LogAirInv, LogFilesInv
<1> QED BY <1>1, <1>2, <1>3, <1>4 DEF LogInv

LEMMA LogStepKeeps ==
    ASSUME LogInv, LogStep
    PROVE  LogInv'
<1>1. ASSUME NEW ok \in BOOLEAN, LogDirReady(ok) \/ LogAllocate(ok) \/ LogFlush(ok) \/ LogRename(ok)
      PROVE  LogInv'
  BY <1>1, LogDirKeeps, LogAllocateKeeps, LogFlushKeeps, LogRenameKeeps
<1> QED BY <1>1, LogOpsEnd, LogSizedKeeps, EraseAgainKeeps, ListQuietKeeps, LogEntryKeeps,
           LogDataKeeps, DataPassEndsKeeps, EraseDelayKeeps, VehicleStreamsKeeps,
           VehicleActsKeep, ConsumeLogKeeps
        DEF LogStep, LogResumes
-----------------------------------------------------------------------------
(* A finite set, put into a sequence.                                        *)
LEMMA SetListed ==
    ASSUME NEW S, IsFiniteSet(S)
    PROVE  ToSet(SetToSeq(S)) = S
<1> DEFINE f == SetToSeq(S)
           I == 1..Cardinality(S)
<1>1. Cardinality(S) \in Nat
  BY FS_CardinalityType
<1>2. \E g \in [I -> S] : IsInjective(g)
  <2>1. ExistsBijection(I, S)
    BY FS_CardinalityType
  <2> QED BY <2>1 DEF ExistsBijection, Bijection, Injection
<1>3. f \in [I -> S] /\ IsInjective(f)
  <2>1. f = CHOOSE g \in [I -> S] : IsInjective(g)
    BY DEF SetToSeq
  <2> HIDE DEF f
  <2> QED BY <1>2, <2>1
<1> HIDE DEF f
<1>4. f \in Injection(I, S)
  BY <1>3 DEF Injection
<1>5. IsFiniteSet(I) /\ Cardinality(I) = Cardinality(S)
  <2>1. Cardinality(I) = IF 1 > Cardinality(S) THEN 0 ELSE Cardinality(S) - 1 + 1
    BY <1>1, FS_Interval, SMTT(30)
  <2>2. IsFiniteSet(I)
    BY <1>1, FS_Interval
  <2> QED BY <1>1, <2>1, <2>2
<1>6. f \in Surjection(I, S)
  BY <1>4, <1>5, FS_Injection
<1>7. \A x \in S : \E i \in I : f[i] = x
  BY <1>6 DEF Surjection
<1>8. ToSet(f) = {f[i] : i \in I}
  BY <1>3 DEF ToSet
<1> QED BY <1>3, <1>7, <1>8 DEF f

LEMMA IdsFinite == IsFiniteSet(Ids)
BY FS_Interval, LogNumbers DEF Ids

(* A complete list from the first to the last id has all logs there are.     *)
LEMMA AllListed ==
    ASSUME LogInv, ListCollected, logOp.op # "download"
    PROVE  /\ vehicle.logs = 0 \/ roll.found = 1..vehicle.logs
           /\ roll.found = {} => vehicle.logs = 0
<1>1. /\ roll \in Rolls /\ RollOk(roll, vehicle.logs) /\ roll.from = 0 /\ roll.to = MaxId
      /\ IsComplete(roll) /\ vehicle.logs \in Counts
  BY DEF LogInv, RollInv, ListCollected, RollOk, VehicleInv
<1>2. CASE vehicle.logs = 0
  BY <1>2
<1>3. CASE vehicle.logs # 0
  <2>1. roll.num = vehicle.logs /\ roll.last = roll.num /\ vehicle.logs = Logs /\ Logs # 0
    <3>1. roll.num # NoLog
      BY <1>1 DEF IsComplete
    <3> QED BY <1>1, <1>3, <3>1 DEF RollOk, Counts
  <2>2. MissingIds(roll) = {}
    BY <1>1, <2>1 DEF IsComplete
  <2>3. roll.num \notin {NoLog, 0}
    BY <1>3, <2>1, LogNumbers DEF NoLog
  <2>4. MissingIds(roll) = Ids \ roll.found
    <3>1. \A id \in Ids : id >= 0 /\ id > Logs - Logs /\ id <= MaxId /\ id <= Logs
      BY LogNumbers DEF Ids, MaxId
    <3> QED BY <1>1, <2>1, <2>3, <3>1 DEF MissingIds
  <2>5. roll.found = Ids /\ 1 \in Ids
    <3>1. roll.found \in SUBSET Ids
      BY <1>1 DEF Rolls
    <3>2. 1 \in Ids
      BY <2>1, LogNumbers DEF Ids
    <3> QED BY <2>2, <2>4, <3>1, <3>2
  <2> QED BY <2>1, <2>5 DEF Ids
<1> QED BY <1>2, <1>3

LEMMA LogReports ==
    ASSUME LogInv, LogStep
    PROVE  LogsReportedTrue'
<1>1. CASE said'.type \notin {"log_list", "log_erase_done"}
  BY <1>1 DEF LogsReportedTrue
<1>2. CASE LogListed
  <2>1. /\ said' = [Quiet EXCEPT !.type = "log_list", !.entries = SetToSeq(roll.found)]
        /\ vehicle' = vehicle /\ ListCollected /\ logOp.op # "download"
    BY <1>2 DEF LogListed, LogReleases
  <2>2. said'.type = "log_list" /\ said'.entries = SetToSeq(roll.found)
    BY <2>1 DEF Quiet
  <2>3. IsFiniteSet(roll.found)
    <3>1. roll.found \in SUBSET Ids
      BY DEF LogInv, RollInv, Rolls
    <3> QED BY <3>1, IdsFinite, FS_Subset
  <2>4. ToSet(said'.entries) = roll.found
    BY <2>2, <2>3, SetListed
  <2> QED BY <2>1, <2>2, <2>4, AllListed DEF LogsReportedTrue
<1>3. CASE EraseDone
  <2>1. /\ said' = [Quiet EXCEPT !.type = "log_erase_done", !.entries = <<>>]
        /\ vehicle' = vehicle /\ ListCollected /\ logOp.op # "download" /\ roll.found = {}
    BY <1>3 DEF EraseDone, LogReleases, EraseVerified
  <2>2. said'.type = "log_erase_done"
    BY <2>1 DEF Quiet
  <2> QED BY <2>1, <2>2, AllListed DEF LogsReportedTrue
<1>4. CASE ~LogListed /\ ~EraseDone
  <2>1. \/ said' = Quiet
        \/ \E entries : said' = [Quiet EXCEPT !.type = "log_op_error", !.entries = entries]
        \/ said' = [Quiet EXCEPT !.type = "log_download_complete", !.entries = <<>>]
    BY <1>4 DEF LogStep, LogResumes, LogListFails, LogSized, LogCleanup, EraseAgain, EraseFails,
         LogDirReady, LogAllocate, LogFlush, LogRename, LogReleases, LogRest, ListQuiet,
         HandleLogEntry, HandleLogData, DataPassEnds, EraseDelayEnds, VehicleStreams,
         VehicleBabbles, VehicleErases, ConsumeLog
  <2>2. said'.type \in {"none", "log_op_error", "log_download_complete"}
    <3>1. CASE said' = Quiet
      BY <3>1 DEF Quiet
    <3>2. CASE \E entries : said' = [Quiet EXCEPT !.type = "log_op_error", !.entries = entries]
      <4>1. PICK entries : said' = [Quiet EXCEPT !.type = "log_op_error", !.entries = entries]
        BY <3>2
      <4> QED BY <4>1 DEF Quiet
    <3>3. CASE said' = [Quiet EXCEPT !.type = "log_download_complete", !.entries = <<>>]
      BY <3>3 DEF Quiet
    <3> QED BY <2>1, <3>1, <3>2, <3>3
  <2> QED BY <1>1, <2>2, SMTT(30)
<1> QED BY <1>2, <1>3, <1>4
-----------------------------------------------------------------------------
(* What is drawn from a sequence is the last value of a recursive function.  *)
NextDrawn(g, s, places, n) ==
    IF n = 0 THEN <<>> ELSE IF n \in places THEN Append(g[n - 1], s[n]) ELSE g[n - 1]
Recurs(g, s, places, m) == g = [n \in 0..m |-> NextDrawn(g, s, places, n)]

LEMMA DrawnRecursively ==
    ASSUME NEW S, NEW s \in Seq(S), NEW places
    PROVE  \E g : Recurs(g, s, places, Len(s))
<1> DEFINE Bad == {n \in 0..Len(s) : ~\E g : Recurs(g, s, places, n)}
<1>0. Len(s) \in Nat
  BY LenProperties
<1>1. 0 \notin Bad
  <2> DEFINE g == [i \in 0..0 |-> <<>>]
  <2>1. \A i \in 0..0 : i = 0 /\ g[i] = <<>>
    OBVIOUS
  <2>2. g = [i \in 0..0 |-> NextDrawn(g, s, places, i)]
    BY <2>1 DEF NextDrawn
  <2> HIDE DEF g
  <2> QED BY <2>2 DEF Recurs
<1>2. ASSUME NEW n \in Bad, \A k \in Bad : n <= k PROVE FALSE
  <2>1. n \in 1..Len(s) /\ n - 1 \in 0..Len(s) /\ n - 1 \in Nat
    BY <1>0, <1>1
  <2>2. n - 1 \notin Bad
    BY <1>2, <2>1
  <2> PICK g : Recurs(g, s, places, n - 1)
    BY <2>1, <2>2
  <2> DEFINE h == [i \in 0..n |-> IF i = n THEN NextDrawn(g, s, places, n) ELSE g[i]]
  <2>3. /\ \A i \in 0..n : i = n \/ i \in 0..n - 1
        /\ n \in 0..n /\ n # 0 /\ n - 1 # n /\ n - 1 \in 0..n - 1
        /\ \A i \in 0..n - 1 : i # n /\ i \in 0..n /\ (i # 0 => i - 1 \in 0..n - 1)
    BY <2>1
  <2>4. h[n] = NextDrawn(g, s, places, n) /\ \A i \in 0..n - 1 : h[i] = g[i]
    BY <2>3
  <2>5. \A i \in 0..n - 1 : g[i] = NextDrawn(g, s, places, i)
    BY DEF Recurs
  <2>6. DOMAIN h = 0..n /\ h = [i \in 0..n |-> h[i]]
    OBVIOUS
  <2> HIDE DEF h
  <2>7. \A i \in 0..n - 1 : NextDrawn(h, s, places, i) = NextDrawn(g, s, places, i)
    BY <2>3, <2>4 DEF NextDrawn
  <2>8. NextDrawn(h, s, places, n) = NextDrawn(g, s, places, n)
    BY <2>3, <2>4 DEF NextDrawn
  <2>9. \A i \in 0..n : h[i] = NextDrawn(h, s, places, i)
    BY <2>3, <2>4, <2>5, <2>7, <2>8
  <2>10. h = [i \in 0..n |-> NextDrawn(h, s, places, i)]
    BY <2>6, <2>9
  <2> QED BY <2>10 DEF Recurs
<1>3. Bad = {}
  <2> SUFFICES ASSUME NEW n \in Bad PROVE FALSE
    OBVIOUS
  <2>1. Bad \in SUBSET Nat
    BY <1>0
  <2> HIDE DEF Bad
  <2>2. \E m \in Bad : \A k \in Bad : m <= k
    BY <2>1, LeastNumber
  <2> QED BY <1>2, <2>2
<1> QED BY <1>0, <1>3

LEMMA DrawnIs ==
    ASSUME NEW S, NEW s \in Seq(S), NEW places
    PROVE  \E g : Recurs(g, s, places, Len(s)) /\ Drawn(s, places) = g[Len(s)]
<1> DEFINE d == CHOOSE g : g = [n \in 0..Len(s) |-> NextDrawn(g, s, places, n)]
<1>1. Drawn(s, places) = d[Len(s)]
  BY DEF Drawn, NextDrawn
<1>2. \E g : g = [n \in 0..Len(s) |-> NextDrawn(g, s, places, n)]
  <2> PICK g : Recurs(g, s, places, Len(s))
    BY DrawnRecursively
  <2>1. g = [n \in 0..Len(s) |-> NextDrawn(g, s, places, n)]
    BY DEF Recurs
  <2> QED BY <2>1
<1>3. d = [n \in 0..Len(s) |-> NextDrawn(d, s, places, n)]
  BY <1>2
<1> QED BY <1>1, <1>3 DEF Recurs

(* Entries at the places, and no more of them than there were.               *)
DrawnOk(t, S, s, places, n) ==
    /\ t \in Seq(S) /\ Len(t) <= n
    /\ \A i \in 1..Len(t) : \E k \in 1..n : k \in places /\ t[i] = s[k]

LEMMA DrawnFrom ==
    ASSUME NEW S, NEW s \in Seq(S), NEW places
    PROVE  DrawnOk(Drawn(s, places), S, s, places, Len(s)) /\ Len(Drawn(s, places)) <= Len(s)
<1>0. Len(s) \in Nat /\ \A n \in 1..Len(s) : s[n] \in S
  BY LenProperties, ElementOfSeq
<1>1. PICK g : Recurs(g, s, places, Len(s)) /\ Drawn(s, places) = g[Len(s)]
  BY DrawnIs
<1>2. \A n \in 0..Len(s) : g[n] = NextDrawn(g, s, places, n)
  BY <1>1 DEF Recurs
<1> DEFINE Bad == {n \in 0..Len(s) : ~DrawnOk(g[n], S, s, places, n)}
<1>3. 0 \notin Bad
  <2>1. g[0] = <<>>
    BY <1>0, <1>2 DEF NextDrawn
  <2>2. <<>> \in Seq(S) /\ Len(<<>>) = 0
    BY EmptySeq
  <2>3. \A i \in 1..0 : FALSE
    OBVIOUS
  <2>4. DrawnOk(<<>>, S, s, places, 0)
    BY <2>2, <2>3 DEF DrawnOk
  <2> QED BY <2>1, <2>4
<1>4. ASSUME NEW n \in 1..Len(s), n - 1 \notin Bad PROVE n \notin Bad
  <2>1. n \in Nat /\ n # 0 /\ n - 1 \in Nat /\ n - 1 \in 0..Len(s) /\ n \in 0..Len(s) /\ n - 1 < n
    BY <1>0
  <2>2. DrawnOk(g[n - 1], S, s, places, n - 1)
    BY <1>4, <2>1
  <2> DEFINE u == g[n - 1]
  <2>3. /\ u \in Seq(S) /\ Len(u) <= n - 1 /\ Len(u) \in Nat
        /\ \A i \in 1..Len(u) : \E k \in 1..n : k \in places /\ u[i] = s[k]
    <3>1. \A k \in 1..(n - 1) : k \in 1..n
      BY <2>1
    <3>2. u \in Seq(S) /\ Len(u) <= n - 1
      BY <2>2 DEF DrawnOk
    <3>3. Len(u) \in Nat
      BY <3>2, LenProperties
    <3>4. \A i \in 1..Len(u) : \E k \in 1..n : k \in places /\ u[i] = s[k]
      BY <2>2, <3>1 DEF DrawnOk
    <3> QED BY <3>2, <3>3, <3>4
  <2> HIDE DEF u
  <2>4. g[n] = IF n \in places THEN Append(u, s[n]) ELSE u
    BY <1>2, <2>1 DEF NextDrawn, u
  <2>5. CASE n \notin places
    BY <2>1, <2>3, <2>4, <2>5 DEF DrawnOk
  <2>6. CASE n \in places
    <3>1. /\ Append(u, s[n]) \in Seq(S) /\ Len(Append(u, s[n])) <= n
          /\ \A i \in 1..Len(Append(u, s[n])) :
                 Append(u, s[n])[i] = s[n] \/ \E k \in 1..Len(u) : Append(u, s[n])[i] = u[k]
      <4>1. Len(u) < n /\ s[n] \in S
        BY <1>0, <2>1, <2>3
      <4> QED BY <2>1, <2>3, <4>1, PushedFrom
    <3>2. n \in 1..n
      BY <2>1
    <3> DEFINE v == Append(u, s[n])
    <3>3. g[n] = v
      BY <2>4, <2>6
    <3> HIDE DEF v
    <3>4. \A i \in 1..Len(v) : \E k \in 1..n : k \in places /\ v[i] = s[k]
      <4> TAKE i \in 1..Len(v)
      <4>1. v[i] = s[n] \/ \E k \in 1..Len(u) : v[i] = u[k]
        BY <3>1 DEF v
      <4> QED BY <2>3, <2>6, <3>2, <4>1
    <3>5. DrawnOk(v, S, s, places, n)
      BY <3>1, <3>4 DEF DrawnOk, v
    <3> QED BY <3>3, <3>5
  <2> QED BY <2>5, <2>6
<1>5. Bad = {}
  <2> SUFFICES ASSUME Bad # {} PROVE FALSE
    OBVIOUS
  <2>1. Bad \in SUBSET Nat
    BY <1>0
  <2>2. PICK m \in Bad : \A k \in Bad : m <= k
    BY <2>1, LeastNumber
  <2>3. m \in 1..Len(s) /\ m - 1 < m
    BY <1>0, <1>3
  <2>4. m - 1 \notin Bad
    BY <2>1, <2>2, <2>3
  <2> QED BY <1>4, <2>2, <2>3, <2>4
<1>6. Len(s) \in 0..Len(s)
  BY <1>0
<1> QED BY <1>1, <1>5, <1>6 DEF DrawnOk
-----------------------------------------------------------------------------
(* Files.  What the frames, the running operation and the server look like.  *)
Opcodes == {"list", "removeFile", "removeDir", "reset", "open", "read", "crc", "terminate"}
Names == Paths \cup {Skip}
Pieces == Units \X (Files \cup {Junk})
Args == {<<>>} \cup {<<p>> : p \in Paths} \cup (Paths \X Nat)
Bodies == {<<>>} \cup Pieces \cup Seq(Names)
Kinds == {"none", "waiting", "cancelled", "failed", "ack", "nak", "eof", "absent", "done"}

Replies == [opcode : Opcodes \cup {"burst", "none"}, arg : Args, seq : Numbers, kind : Kinds,
            body : Bodies]
BodyOk(opcode, kind, body) ==
    /\ opcode = "burst" /\ kind # "nak" => body \in Pieces
    /\ opcode = "read" /\ kind = "ack" => body \in Pieces
    /\ opcode = "list" /\ kind = "ack" => body \in Seq(Names)
ReplyOk(x) == BodyOk(x.opcode, x.kind, x.body)

ServerInv ==
    /\ server \in [open : Files \cup {Nobody}, last : Replies, stream : Units \cup {NoStream},
                   bseq : Numbers, gone : SUBSET Paths]
    /\ server.stream # NoStream => server.open # Nobody
    /\ ReplyOk(server.last)

AirInv ==
    /\ air \in Seq(Replies) /\ Len(air) <= AirLimit
    /\ \A i \in 1..Len(air) : ReplyOk(air[i])

FtpSteps == [idle |-> {"idle"}, list |-> {"list"}, delete |-> {"list", "removeFile", "removeDir"},
             download |-> {"dir", "reset", "open", "allocate", "read", "burst", "flush", "crc",
                           "verify", "terminate", "cleanup"}]
FtpShape ==
    /\ ftp \in [op : {Idle, "list", "download", "delete"}, step : FtpWaits,
                cancelRequested : BOOLEAN, seq : Numbers, home : Vehicles \cup {Nobody}]
    /\ ftp.step \in FtpSteps[ftp.op]

Asks == [opcode : Opcodes, arg : Args, seq : Numbers, left : 0..Tries \cup {1, 2}, ran : Nat,
         got : [kind : Kinds, arg : Args, body : Bodies]]
ArgOk(opcode, arg) ==
    /\ opcode = "list" => arg \in Dirs \X Nat
    /\ opcode = "read" => arg \in Files \X Units
    /\ opcode \in {"open", "crc"} => arg \in {<<p>> : p \in Files}
    /\ opcode \in {"removeFile", "removeDir"} => arg \in {<<p>> : p \in Paths}
    /\ opcode \in {"reset", "terminate"} => arg = <<>>
AskInv ==
    ask # NoAsk =>
      /\ ask \in Asks /\ ask.opcode = ftp.step /\ ArgOk(ask.opcode, ask.arg)
      /\ BodyOk(ask.opcode, ask.got.kind, ask.got.body)

Parts == [Units -> Files \cup {Hole, Junk}]
Gets == [path : Files \cup {Nobody}, missing : SUBSET Gaps, part : Parts, before : 0..FileLen,
         passes : 0..MaxPasses, fallback : BOOLEAN, bursting : BOOLEAN, gaps : SUBSET Gaps,
         opened : BOOLEAN, complete : BOOLEAN]
GetOk(g) ==
    /\ g \in Gets /\ g.path \in Files
    /\ Covered(g.missing) = {u \in Units : g.part[u] = Hole}
    /\ \A i \in g.missing \cup g.gaps : i[1] < i[2]
GetInv ==
    /\ get \in Gets
    /\ ftp.op = "download" => get.path \in Files
    /\ ftp.step \in {"dir", "reset", "open", "allocate"} =>
         get = [NoDownload EXCEPT !.path = get.path, !.opened = get.opened]
    /\ ftp.step \in {"burst", "read", "flush", "crc", "verify"} => GetOk(get)
    /\ ftp.step = "read" => get.gaps # {}

Scans == [dir : Dirs \cup {Nobody}, offset : Nat, pages : 0..(MaxPages - 1), found : Seq(Paths)]
ScanInv ==
    /\ scan \in Scans /\ Len(scan.found) < MaxEntries
    /\ ftp.step = "list" => scan.dir \in Dirs

(* A directory that has been listed stands behind what is in it.             *)
Todos == [path : Paths, depth : Nat, listed : BOOLEAN]
ListedDir(e) == e.listed /\ e.path \in Dirs
TodoOk(s) ==
    /\ s \in Seq(Todos)
    /\ \A i \in 1..Len(s) : ListedDir(s[i]) => s[i].depth < MaxDepth
    /\ \A i \in 1..Len(s) : ~s[i].listed => s[i].path \in Dirs
    /\ \A i, j \in 1..Len(s) : i < j /\ ListedDir(s[j]) => s[i].depth > s[j].depth
Dels == [wanted : SUBSET Paths, todo : Seq(Todos), work : Seq(Paths), done : Nat]
DelInv ==
    /\ del \in Dels
    /\ TodoOk(del.todo)
    /\ Len(del.work) <= MaxItems + MaxDepth
    /\ del.todo # <<>> => Len(del.work) <= MaxItems
    /\ ftp.op = "delete" /\ ftp.step = "list" => del.todo # <<>> /\ del.done = 0
    /\ ftp.step \in {"removeFile", "removeDir"} => del.done < Len(del.work)
    /\ del.done < Len(del.work) \/ del.done = 0

KeptFiles == {[path |-> p, part |-> [u \in Units |-> p]] : p \in Files}
DownloadsInv == downloads \in Seq(KeptFiles) /\ Len(downloads) <= MaxRetained

FtpInv == FtpShape /\ AskInv /\ GetInv /\ ScanInv /\ DelInv /\ DownloadsInv /\ ServerInv /\ AirInv

LEMMA FtpNumbers ==
    /\ FileLen \in Nat \ {0} /\ Tries \in Nat \ {0} /\ MaxPasses \in Nat \ {0}
    /\ GapFill \in Nat /\ MaxPages \in Nat \ {0} /\ PageLen \in Nat \ {0}
    /\ MaxEntries \in Nat \ {0} /\ MaxDepth \in Nat /\ MaxItems \in Nat
    /\ MaxRetained \in Nat \ {0} /\ SeqCycle \in Nat /\ SeqCycle > 0 /\ AirLimit \in Nat
    /\ Server \in Vehicles /\ Numbers = 0..(SeqCycle - 1) /\ 0 \in Numbers
BY FtpAssumption, LinkAssumption DEF Numbers

LEMMA FtpNames ==
    /\ Files \cap Dirs = {}
    /\ Skip \notin Paths /\ Hole \notin Files /\ Nobody \notin Files /\ Hole # Junk
    /\ Listing \in [Dirs -> Seq(Names)]
    /\ \A p \in Paths : p \in Dirs \/ p \in Files
BY FtpAssumption DEF Paths, Hole, Junk, Names

LEMMA NumberNext ==
    /\ \A n \in Numbers : Succ(n) \in Numbers
    /\ \A n, m \in Numbers : Advanced(n, m) \in Numbers
<1>1. \A n \in Numbers : Succ(n) \in Numbers
  BY FtpNumbers DEF Succ
<1> QED BY <1>1 DEF Advanced

LEMMA AliveSome ==
    ASSUME NEW d \in Dirs, NEW gone
    PROVE  Alive(d, gone) \in Seq(Names)
<1>1. Listing[d] \in Seq(Names)
  BY FtpNames
<1> QED BY <1>1, DrawnFrom DEF Alive, DrawnOk

LEMMA PieceOf ==
    ASSUME NEW S, NEW s \in Seq(S), NEW m \in Nat, NEW n \in Nat, n <= Len(s)
    PROVE  SubSeq(s, m + 1, n) \in Seq(S) /\ Len(SubSeq(s, m + 1, n)) = IF m < n THEN n - m ELSE 0
<1>1. Len(s) \in Nat /\ \A i \in m + 1..n : i \in 1..Len(s)
  BY LenProperties
<1>2. \A i \in m + 1..n : s[i] \in S
  BY <1>1, ElementOfSeq
<1>3. SubSeq(s, m + 1, n) \in Seq(S)
  BY <1>2, SubSeqProperties
<1>4. Len(SubSeq(s, m + 1, n)) = IF m + 1 <= n THEN n - (m + 1) + 1 ELSE 0
  BY <1>2, SubSeqProperties
<1> QED BY <1>3, <1>4

Servers == [open : Files \cup {Nobody}, last : Replies, stream : Units \cup {NoStream},
            bseq : Numbers, gone : SUBSET Paths]

(* What a request does to the server, and what it answers.                   *)
LEMMA EffectOk ==
    ASSUME ServerInv, NEW opcode \in Opcodes, NEW arg \in Args, ArgOk(opcode, arg),
           NEW e, e = Effect(opcode, arg)
    PROVE  /\ e.state \in Servers /\ e.state.last = server.last /\ e.state.bseq = server.bseq
           /\ e.state.stream # NoStream => e.state.open # Nobody
           /\ e.state.gone = server.gone \/ \E p \in Paths :
                 /\ opcode \in {"removeFile", "removeDir"} /\ arg = <<p>> /\ e.kind = "ack"
                 /\ e.state.gone = server.gone \cup {p}
           /\ e.kind \in {"ack", "nak", "eof", "absent"}
           /\ e.body \in Bodies /\ BodyOk(opcode, e.kind, e.body)
<1>0. /\ server \in Servers /\ (server.stream # NoStream => server.open # Nobody)
      /\ server.open \in Files \cup {Nobody} /\ server.gone \in SUBSET Paths
      /\ <<>> \in Bodies
  BY DEF ServerInv, Servers, Bodies
<1>1. CASE e = [state |-> server, kind |-> "nak", body |-> <<>>]
  BY <1>0, <1>1 DEF BodyOk
<1>2. CASE opcode \in {"reset", "terminate"}
  <2>1. e = [state |-> [server EXCEPT !.open = Nobody, !.stream = NoStream], kind |-> "ack",
             body |-> <<>>]
    BY <1>2 DEF Effect
  <2> DEFINE z == [server EXCEPT !.open = Nobody, !.stream = NoStream]
  <2>2. /\ z \in Servers /\ z.last = server.last /\ z.bseq = server.bseq
        /\ z.stream = NoStream /\ z.gone = server.gone
    BY <1>0 DEF Servers
  <2> HIDE DEF z
  <2>3. e.state = z /\ e.kind = "ack" /\ e.body = <<>>
    BY <2>1 DEF z
  <2> QED BY <1>0, <1>2, <2>2, <2>3 DEF BodyOk
<1>3. CASE opcode = "open"
  <2>1. PICK p \in Files : arg = <<p>>
    BY <1>3 DEF ArgOk
  <2>2. \/ e = [state |-> server, kind |-> "nak", body |-> <<>>]
        \/ e = [state |-> [server EXCEPT !.open = p], kind |-> "ack", body |-> <<>>]
    BY <1>3, <2>1 DEF Effect
  <2> DEFINE z == [server EXCEPT !.open = p]
  <2>3. /\ z \in Servers /\ z.last = server.last /\ z.bseq = server.bseq
        /\ z.open # Nobody /\ z.gone = server.gone
    BY <1>0, FtpNames DEF Servers
  <2> HIDE DEF z
  <2>4. CASE e.state = z /\ e.kind = "ack" /\ e.body = <<>>
    BY <1>0, <1>3, <2>3, <2>4 DEF BodyOk
  <2> QED BY <1>1, <2>2, <2>4 DEF z
<1>4. CASE opcode = "read"
  <2>1. arg \in Files \X Units
    BY <1>4 DEF ArgOk
  <2>2. \/ e = [state |-> server, kind |-> "nak", body |-> <<>>]
        \/ server.open # Nobody /\ e = [state |-> server, kind |-> "ack", body |-> <<arg[2], server.open>>]
    BY <1>4 DEF Effect
  <2>3. CASE server.open # Nobody /\ e = [state |-> server, kind |-> "ack", body |-> <<arg[2], server.open>>]
    <3>1. <<arg[2], server.open>> \in Pieces /\ <<arg[2], server.open>> \in Bodies
      BY <1>0, <2>1, <2>3 DEF Pieces, Bodies
    <3> QED BY <1>0, <1>4, <2>3, <3>1 DEF BodyOk
  <2> QED BY <1>1, <2>2, <2>3
<1>5. CASE opcode = "crc"
  <2>1. \/ e = [state |-> server, kind |-> "nak", body |-> <<>>]
        \/ e = [state |-> server, kind |-> "ack", body |-> <<arg[1]>>]
    BY <1>5 DEF Effect
  <2>2. CASE e = [state |-> server, kind |-> "ack", body |-> <<arg[1]>>]
    <3>1. PICK p \in Files : arg = <<p>>
      BY <1>5 DEF ArgOk
    <3>2. <<p>> \in Seq(Names)
      BY DEF Names, Paths
    <3>3. e.body \in Bodies
      BY <2>2, <3>1, <3>2 DEF Bodies
    <3> QED BY <1>0, <1>5, <2>2, <3>3 DEF BodyOk
  <2> QED BY <1>1, <2>1, <2>2
<1>6. CASE opcode = "list"
  <2> DEFINE names == Alive(arg[1], server.gone)
             final == IF arg[2] + PageLen < Len(names) THEN arg[2] + PageLen ELSE Len(names)
             b == SubSeq(names, arg[2] + 1, final)
  <2>1. arg[1] \in Dirs /\ arg[2] \in Nat
    BY <1>6 DEF ArgOk
  <2>2. names \in Seq(Names)
    BY <2>1, AliveSome
  <2>3. \/ e = [state |-> server, kind |-> "nak", body |-> <<>>]
        \/ e = [state |-> server, kind |-> "eof", body |-> <<>>]
        \/ e = [state |-> server, kind |-> "ack", body |-> b]
    BY <1>6 DEF Effect
  <2> HIDE DEF names
  <2>4. final \in Nat /\ final <= Len(names)
    BY <2>1, <2>2, LenProperties, FtpNumbers
  <2> HIDE DEF final
  <2>5. b \in Seq(Names) /\ b \in Bodies
    BY <2>1, <2>2, <2>4, PieceOf DEF Bodies
  <2> HIDE DEF b
  <2>6. CASE e = [state |-> server, kind |-> "eof", body |-> <<>>]
    BY <1>0, <1>6, <2>6 DEF BodyOk
  <2>7. CASE e = [state |-> server, kind |-> "ack", body |-> b]
    BY <1>0, <1>6, <2>5, <2>7 DEF BodyOk
  <2> QED BY <1>1, <2>3, <2>6, <2>7
<1>7. CASE opcode \in {"removeFile", "removeDir"}
  <2>1. PICK p \in Paths : arg = <<p>>
    BY <1>7 DEF ArgOk
  <2>2. \/ e = [state |-> server, kind |-> "nak", body |-> <<>>]
        \/ e = [state |-> server, kind |-> "absent", body |-> <<>>]
        \/ e = [state |-> [server EXCEPT !.gone = @ \cup {p}], kind |-> "ack", body |-> <<>>]
    BY <1>7, <2>1 DEF Effect
  <2>3. CASE e = [state |-> server, kind |-> "absent", body |-> <<>>]
    BY <1>0, <1>7, <2>3 DEF BodyOk
  <2> DEFINE z == [server EXCEPT !.gone = @ \cup {p}]
  <2>4. /\ z \in Servers /\ z.last = server.last /\ z.bseq = server.bseq /\ z.open = server.open
        /\ z.stream = server.stream /\ z.gone = server.gone \cup {p}
    BY <1>0 DEF Servers
  <2> HIDE DEF z
  <2>5. CASE e = [state |-> z, kind |-> "ack", body |-> <<>>]
    BY <1>0, <1>7, <2>1, <2>4, <2>5 DEF BodyOk
  <2> QED BY <1>1, <2>2, <2>3, <2>5 DEF z
<1> QED BY <1>2, <1>3, <1>4, <1>5, <1>6, <1>7 DEF Opcodes
-----------------------------------------------------------------------------
(* Frames in the air.                                                        *)
AirOk(a) == a \in Seq(Replies) /\ Len(a) <= AirLimit /\ \A i \in 1..Len(a) : ReplyOk(a[i])

LEMMA AirAged ==
    ASSUME AirInv, NEW f
    PROVE  AirOk(Aged(f)) /\ AirOk(air)
<1> DEFINE P == {i \in DOMAIN air : Fresh(f, air[i].seq)}
<1>1. air \in Seq(Replies) /\ Len(air) \in Nat
  BY LenProperties DEF AirInv
<1>2. DrawnOk(Drawn(air, P), Replies, air, P, Len(air)) /\ Len(Drawn(air, P)) <= Len(air)
  BY <1>1, DrawnFrom
<1>3. Aged(f) = Drawn(air, P)
  BY DEF Aged
<1> HIDE DEF P
<1> DEFINE a == Aged(f)
<1>4. a \in Seq(Replies) /\ Len(a) <= Len(air) /\ \A i \in 1..Len(a) : \E k \in 1..Len(air) : a[i] = air[k]
  BY <1>2, <1>3 DEF DrawnOk
<1> HIDE DEF a
<1>5. Len(a) \in Nat
  BY <1>4, LenProperties
<1>6. Len(a) <= AirLimit
  BY <1>1, <1>4, <1>5, FtpNumbers DEF AirInv
<1>7. \A i \in 1..Len(a) : ReplyOk(a[i])
  BY <1>4 DEF AirInv
<1>8. AirOk(a)
  BY <1>4, <1>6, <1>7 DEF AirOk
<1> QED BY <1>8 DEF AirInv, AirOk, a

LEMMA AirSent ==
    ASSUME NEW before, AirOk(before), NEW x \in Replies, ReplyOk(x), Sends(before, x)
    PROVE  AirInv'
<1>1. CASE air' = before
  BY <1>1 DEF AirInv, AirOk
<1>2. CASE Len(before) < AirLimit /\ air' = Append(before, x)
  <2> DEFINE t == Append(before, x)
  <2>1. /\ t \in Seq(Replies) /\ Len(t) <= AirLimit
        /\ \A i \in 1..Len(t) : t[i] = x \/ \E k \in 1..Len(before) : t[i] = before[k]
    BY <1>2, PushedFrom, FtpNumbers DEF AirOk
  <2> HIDE DEF t
  <2>2. air' = t
    BY <1>2 DEF t
  <2>3. \A i \in 1..Len(t) : ReplyOk(t[i])
    BY <2>1 DEF AirOk
  <2> QED BY <2>1, <2>2, <2>3 DEF AirInv
<1> QED BY <1>1, <1>2 DEF Sends

LEMMA NoReplyOk == NoReply \in Replies /\ ReplyOk(NoReply)
<1>1. /\ "none" \in Opcodes \cup {"burst", "none"} /\ <<>> \in Args /\ 0 \in Numbers
      /\ "none" \in Kinds /\ <<>> \in Bodies
  BY FtpNumbers DEF Args, Kinds, Bodies
<1> QED BY <1>1 DEF NoReply, Replies, ReplyOk, BodyOk

(* All that a new number takes from the server is a burst that is too old.   *)
LEMMA OutlastsOk ==
    ASSUME NEW f, NEW s \in Servers, NEW t, t = Outlasts(f, s)
    PROVE  /\ t \in Servers /\ t.open = s.open /\ t.last = s.last /\ t.gone = s.gone
           /\ t.bseq = s.bseq /\ t.stream \in {s.stream, NoStream}
           /\ t.stream # NoStream => Fresh(f, Succ(s.bseq))
BY DEF Outlasts, Servers

LEMMA ServerForgets ==
    ASSUME ServerInv, NEW f, NEW t, t = Forgetful(f)
    PROVE  /\ t \in Servers /\ t.last = NoReply /\ t.open = server.open
           /\ t.stream \in {server.stream, NoStream}
           /\ t.gone = server.gone /\ t.bseq = server.bseq
           /\ t.stream # NoStream => Fresh(f, Succ(server.bseq))
<1> DEFINE s == [server EXCEPT !.last = NoReply]
<1>1. /\ s \in Servers /\ s.last = NoReply /\ s.open = server.open /\ s.stream = server.stream
      /\ s.gone = server.gone /\ s.bseq = server.bseq
  BY NoReplyOk DEF ServerInv, Servers
<1>2. t = Outlasts(f, s)
  BY DEF Forgetful
<1> HIDE DEF s
<1> QED BY <1>1, <1>2, OutlastsOk

Writings == [opcode : Opcodes, arg : Args, seq : Numbers, left : 0..Tries \cup {1, 2}]

LEMMA AnswerOk ==
    ASSUME ServerInv, NEW r \in Writings, ArgOk(r.opcode, r.arg),
           NEW e \in {Effect(r.opcode, r.arg), Refusal}, NEW b \in Damaged(r, e)
    PROVE  /\ Answer(r, e, b) \in Replies /\ ReplyOk(Answer(r, e, b))
           /\ [e.state EXCEPT !.last = Answer(r, e, b)] \in Servers
           /\ e.state \in Servers /\ (e.state.stream # NoStream => e.state.open # Nobody)
<1> DEFINE x == Answer(r, e, b)
<1>1. r.opcode \in Opcodes /\ r.arg \in Args /\ r.seq \in Numbers
  BY DEF Writings
<1>2. /\ e.state \in Servers /\ (e.state.stream # NoStream => e.state.open # Nobody)
      /\ e.kind \in {"ack", "nak", "eof", "absent"}
      /\ e.body \in Bodies /\ BodyOk(r.opcode, e.kind, e.body)
  <2>1. CASE e = Refusal
    BY <2>1 DEF Refusal, ServerInv, Servers, Bodies, BodyOk
  <2>2. CASE e = Effect(r.opcode, r.arg)
    BY <1>1, <2>2, EffectOk
  <2> QED BY <2>1, <2>2
<1>3. b \in Bodies /\ BodyOk(r.opcode, e.kind, b)
  <2>1. CASE r.opcode = "read" /\ e.kind = "ack"
    <3>1. e.body \in Pieces
      BY <1>2, <2>1 DEF BodyOk
    <3>2. <<e.body[1], Junk>> \in Pieces
      BY <3>1 DEF Pieces
    <3>3. b \in Pieces
      BY <2>1, <3>1, <3>2 DEF Damaged
    <3> QED BY <2>1, <3>3 DEF BodyOk, Bodies
  <2>2. CASE ~(r.opcode = "read" /\ e.kind = "ack")
    BY <1>2, <2>2 DEF Damaged
  <2> QED BY <2>1, <2>2
<1>4. Succ(r.seq) \in Numbers /\ e.kind \in Kinds
  BY <1>1, <1>2, NumberNext DEF Kinds
<1>5. x \in Replies /\ x.opcode = r.opcode /\ x.kind = e.kind /\ x.body = b
  BY <1>1, <1>3, <1>4 DEF Answer, Replies
<1>6. ReplyOk(x)
  BY <1>3, <1>5 DEF ReplyOk
<1> HIDE DEF x
<1>7. [e.state EXCEPT !.last = x] \in Servers
  BY <1>2, <1>5 DEF Servers
<1> QED BY <1>2, <1>5, <1>6, <1>7 DEF x

(* The request as it is written, and its ask.                                *)
Pending(r, n) == [opcode |-> r.opcode, arg |-> r.arg, seq |-> r.seq, left |-> r.left, ran |-> n,
                  got |-> Waiting]

LEMMA PendingOk ==
    ASSUME NEW r \in Writings, NEW n \in Nat
    PROVE  /\ Pending(r, n) \in Asks /\ Pending(r, n) # NoAsk
           /\ Pending(r, n).opcode = r.opcode /\ Pending(r, n).arg = r.arg
           /\ Pending(r, n).seq = r.seq /\ Pending(r, n).got = Waiting
<1>1. Waiting \in [kind : Kinds, arg : Args, body : Bodies]
  BY DEF Waiting, Kinds, Args, Bodies
<1>2. r.opcode # "none"
  BY DEF Writings, Opcodes
<1> QED BY <1>1, <1>2 DEF Pending, Writings, Asks, NoAsk

LEMMA Serves ==
    ASSUME NEW f, NEW r, NEW new \in BOOLEAN, Serve(f, r, new),
           NEW ran, ran = (IF new THEN 0 ELSE ask.ran),
           NEW before, before = (IF new THEN Aged(f) ELSE air)
    PROVE  \/ /\ ask' = Pending(r, ran) /\ air' = before
              /\ server' = IF new THEN Forgetful(f) ELSE server
           \/ /\ target = Server /\ link = "up" /\ Repeats(r)
              /\ ask' = Pending(r, ran) /\ server' = server /\ Sends(before, server.last)
           \/ /\ target = Server /\ link = "up" /\ ~Repeats(r) /\ ask' = Pending(r, ran + 1)
              /\ \E e \in {Effect(r.opcode, r.arg), Refusal} : \E b \in Damaged(r, e) :
                    /\ server' = Outlasts(f, [e.state EXCEPT !.last = Answer(r, e, b)])
                    /\ Sends(before, Answer(r, e, b))
BY DEF Serve, Pending

LEMMA ServeOk ==
    ASSUME ServerInv, AirInv, NEW f, NEW r \in Writings, ArgOk(r.opcode, r.arg),
           NEW new \in BOOLEAN, ~new => ask.ran \in Nat, Serve(f, r, new)
    PROVE  /\ ServerInv' /\ AirInv'
           /\ ask' \in Asks /\ ask' # NoAsk /\ ask'.opcode = r.opcode /\ ask'.arg = r.arg
           /\ ask'.got = Waiting
<1> DEFINE ran == IF new THEN 0 ELSE ask.ran
           before == IF new THEN Aged(f) ELSE air
<1>1. ran \in Nat /\ ran + 1 \in Nat
  OBVIOUS
<1>2. AirOk(before)
  BY AirAged
<1>3. server \in Servers /\ (server.stream # NoStream => server.open # Nobody)
  BY DEF ServerInv, Servers
<1>s. \/ /\ ask' = Pending(r, ran) /\ air' = before
         /\ server' = IF new THEN Forgetful(f) ELSE server
      \/ /\ ask' = Pending(r, ran) /\ server' = server /\ Sends(before, server.last)
      \/ /\ ask' = Pending(r, ran + 1)
         /\ \E e \in {Effect(r.opcode, r.arg), Refusal} : \E b \in Damaged(r, e) :
                    /\ server' = Outlasts(f, [e.state EXCEPT !.last = Answer(r, e, b)])
                    /\ Sends(before, Answer(r, e, b))
  BY Serves
<1> HIDE DEF ran, before
<1>4. CASE /\ ask' = Pending(r, ran) /\ air' = before
           /\ server' = IF new THEN Forgetful(f) ELSE server
  <2>1. ServerInv'
    <3>1. CASE ~new
      BY <1>4, <3>1 DEF ServerInv
    <3>2. CASE new
      <4>1. server' = Forgetful(f)
        BY <1>4, <3>2
      <4> QED BY <1>3, <4>1, ServerForgets, NoReplyOk DEF ServerInv, Servers
    <3> QED BY <3>1, <3>2
  <2>2. AirInv'
    BY <1>2, <1>4 DEF AirOk, AirInv
  <2> QED BY <1>1, <1>4, <2>1, <2>2, PendingOk
<1>5. CASE ask' = Pending(r, ran) /\ server' = server /\ Sends(before, server.last)
  <2>1. ServerInv'
    BY <1>5 DEF ServerInv
  <2>2. AirInv'
    BY <1>2, <1>5, AirSent DEF ServerInv
  <2> QED BY <1>1, <1>5, <2>1, <2>2, PendingOk
<1>6. CASE /\ ask' = Pending(r, ran + 1)
           /\ \E e \in {Effect(r.opcode, r.arg), Refusal} : \E b \in Damaged(r, e) :
                /\ server' = Outlasts(f, [e.state EXCEPT !.last = Answer(r, e, b)])
                /\ Sends(before, Answer(r, e, b))
  <2> PICK e \in {Effect(r.opcode, r.arg), Refusal} : \E b \in Damaged(r, e) :
                /\ server' = Outlasts(f, [e.state EXCEPT !.last = Answer(r, e, b)])
                /\ Sends(before, Answer(r, e, b))
    BY <1>6
  <2>1. PICK b \in Damaged(r, e) :
                /\ server' = Outlasts(f, [e.state EXCEPT !.last = Answer(r, e, b)])
                /\ Sends(before, Answer(r, e, b))
    OBVIOUS
  <2> DEFINE x == Answer(r, e, b)
  <2>2. /\ x \in Replies /\ ReplyOk(x) /\ [e.state EXCEPT !.last = x] \in Servers
        /\ e.state \in Servers /\ (e.state.stream # NoStream => e.state.open # Nobody)
    BY AnswerOk
  <2> DEFINE s == [e.state EXCEPT !.last = x]
  <2>3. server' = Outlasts(f, s) /\ Sends(before, x)
    BY <2>1
  <2>4. s \in Servers /\ s.stream = e.state.stream /\ s.open = e.state.open /\ s.last = x
    BY <2>2 DEF Servers
  <2> HIDE DEF x, s
  <2>7. /\ server' \in Servers /\ server'.stream \in {e.state.stream, NoStream}
        /\ server'.open = e.state.open /\ server'.last = x
    BY <2>3, <2>4, OutlastsOk
  <2>5. ServerInv'
    BY <2>2, <2>7 DEF ServerInv, Servers
  <2>6. AirInv'
    BY <1>2, <2>2, <2>3, AirSent
  <2> QED BY <1>1, <1>6, <2>5, <2>6, PendingOk
<1> QED BY <1>s, <1>4, <1>5, <1>6
-----------------------------------------------------------------------------
(* Requests.                                                                 *)
Ftps == [op : {Idle, "list", "download", "delete"}, step : FtpWaits, cancelRequested : BOOLEAN,
         seq : Numbers, home : Vehicles \cup {Nobody}]

LEMMA SettleOk ==
    ASSUME NEW r, r.opcode \in Opcodes, r.arg \in Args, r.seq \in Numbers,
           NEW k \in {"cancelled", "failed"}, Settle(r, k)
    PROVE  /\ ask' \in Asks /\ ask' # NoAsk /\ ask'.opcode = r.opcode /\ ask'.arg = r.arg
           /\ ask'.got.kind = k /\ ask'.seq = r.seq /\ ask'.ran = 0 /\ ask'.got.arg = <<>>
           /\ ask'.got # Waiting
<1> DEFINE g == [Waiting EXCEPT !.kind = k]
<1>1. /\ g \in [kind : Kinds, arg : Args, body : Bodies] /\ g.kind = k /\ g.arg = <<>>
      /\ g # Waiting
  BY DEF Waiting, Kinds, Args, Bodies
<1>2. ask' = [opcode |-> r.opcode, arg |-> r.arg, seq |-> r.seq, left |-> 0, ran |-> 0, got |-> g]
  BY DEF Settle
<1>3. r.opcode # "none" /\ 0 \in 0..Tries \cup {1, 2} /\ 0 \in Nat
  BY FtpNumbers DEF Opcodes
<1> HIDE DEF g
<1>4. ask' \in Asks
  BY <1>1, <1>2, <1>3 DEF Asks
<1> QED BY <1>1, <1>2, <1>3, <1>4 DEF NoAsk

LEMMA RequestOk ==
    ASSUME ServerInv, AirInv, NEW f \in Ftps, NEW opcode \in Opcodes, opcode \in FtpSteps[f.op],
           NEW arg \in Args, ArgOk(opcode, arg), NEW n \in {1, 2, Tries},
           Request(f, opcode, arg, n)
    PROVE  /\ FtpShape' /\ AskInv' /\ ServerInv' /\ AirInv'
           /\ ftp'.op = f.op /\ ftp'.step = opcode
<1> DEFINE g == [f EXCEPT !.seq = Allocated(@), !.step = opcode]
           r == [opcode |-> opcode, arg |-> arg, seq |-> f.seq, left |-> n]
<1>1. opcode \in FtpWaits /\ Allocated(f.seq) \in Numbers
  BY NumberNext DEF Opcodes, FtpWaits, Allocated, Ftps
<1>2. g \in Ftps /\ g.op = f.op /\ g.step = opcode
  BY <1>1 DEF Ftps
<1>3. r \in Writings /\ r.opcode = opcode /\ r.arg = arg /\ r.seq = f.seq
  <2>1. n \in 0..Tries \cup {1, 2}
    BY FtpNumbers
  <2> QED BY <2>1 DEF Writings, Ftps
<1>4. /\ ftp' = g
      /\ \/ /\ Settle(r, IF f.cancelRequested THEN "cancelled" ELSE "failed")
            /\ server' = Forgetful(g) /\ air' = Aged(g)
         \/ Serve(g, r, TRUE)
  BY DEF Request
<1> HIDE DEF g, r
<1>5. FtpShape' /\ ftp'.op = f.op /\ ftp'.step = opcode
  BY <1>2, <1>4 DEF FtpShape, Ftps
<1>6. CASE /\ Settle(r, IF f.cancelRequested THEN "cancelled" ELSE "failed")
           /\ server' = Forgetful(g) /\ air' = Aged(g)
  <2>1. ServerInv'
    BY <1>6, ServerForgets, NoReplyOk DEF ServerInv, Servers
  <2>2. AirInv'
    BY <1>6, AirAged DEF AirInv, AirOk
  <2> PICK k \in {"cancelled", "failed"} : Settle(r, k)
    BY <1>6
  <2>3. r.opcode \in Opcodes /\ r.arg \in Args /\ r.seq \in Numbers
    BY <1>3 DEF Writings
  <2>4. /\ ask' \in Asks /\ ask' # NoAsk /\ ask'.opcode = opcode /\ ask'.arg = arg
        /\ ask'.got.kind \in {"cancelled", "failed"}
    BY <1>3, <2>3, SettleOk
  <2>5. AskInv'
    BY <1>5, <2>4 DEF AskInv, BodyOk, Opcodes
  <2> QED BY <1>5, <2>1, <2>2, <2>5
<1>7. CASE Serve(g, r, TRUE)
  <2>1. /\ ServerInv' /\ AirInv'
        /\ ask' \in Asks /\ ask' # NoAsk /\ ask'.opcode = opcode /\ ask'.arg = arg
        /\ ask'.got = Waiting
    BY <1>3, <1>7, ServeOk
  <2>2. AskInv'
    BY <1>5, <2>1 DEF AskInv, BodyOk, Waiting, Opcodes
  <2> QED BY <1>5, <2>1, <2>2
<1> QED BY <1>4, <1>6, <1>7

LEMMA FtpOpSteps ==
    ASSUME FtpShape
    PROVE  /\ ftp \in Ftps /\ ftp.op \in {Idle, "list", "download", "delete"}
           /\ ftp.op = Idle <=> ftp.step = Idle
           /\ ftp.op = "list" => ftp.step = "list"
           /\ ftp.op = "delete" => ftp.step \in {"list", "removeFile", "removeDir"}
           /\ ftp.op = "download" <=>
                 ftp.step \in {"dir", "reset", "open", "allocate", "read", "burst", "flush", "crc",
                               "verify", "terminate", "cleanup"}
           /\ ftp.step = "list" => ftp.op \in {"list", "delete"}
           /\ ftp.step \in {"removeFile", "removeDir"} => ftp.op = "delete"
BY DEF FtpShape, FtpSteps, Ftps, Idle

LEMMA GetElsewhere ==
    ASSUME GetInv, get' = get, FtpShape', ftp'.op # "download"
    PROVE  GetInv'
<1>1. ftp'.step \in {"idle", "list", "removeFile", "removeDir"}
  BY DEF FtpShape, FtpSteps, Idle
<1> QED BY <1>1 DEF GetInv

LEMMA DelElsewhere ==
    ASSUME DelInv, del' = del, FtpShape', ftp'.op # "delete"
    PROVE  DelInv'
<1>1. ftp'.step \notin {"removeFile", "removeDir"}
  BY DEF FtpShape, FtpSteps, Idle
<1> QED BY <1>1 DEF DelInv

LEMMA ScanElsewhere ==
    ASSUME ScanInv, scan' = scan, ftp'.step # "list"
    PROVE  ScanInv'
BY DEF ScanInv

LEMMA NothingListed ==
    /\ NoScan \in Scans /\ Len(NoScan.found) < MaxEntries
    /\ \A d \in Dirs : /\ [NoScan EXCEPT !.dir = d] \in Scans
                       /\ [NoScan EXCEPT !.dir = d].dir = d
                       /\ Len([NoScan EXCEPT !.dir = d].found) < MaxEntries
<1>1. <<>> \in Seq(Paths) /\ Len(<<>>) = 0 /\ 0 \in Nat /\ 0 \in 0..(MaxPages - 1) /\ 0 < MaxEntries
  BY EmptySeq, FtpNumbers
<1>2. NoScan \in Scans /\ NoScan.found = <<>>
  BY <1>1 DEF NoScan, Scans
<1>3. ASSUME NEW d \in Dirs
      PROVE  /\ [NoScan EXCEPT !.dir = d] \in Scans
             /\ [NoScan EXCEPT !.dir = d].dir = d
             /\ [NoScan EXCEPT !.dir = d].found = <<>>
  BY <1>1 DEF NoScan, Scans
<1> QED BY <1>1, <1>2, <1>3

LEMMA NothingToDelete ==
    ASSUME del' = NoDelete, ftp'.op # "delete", FtpShape'
    PROVE  DelInv'
<1>1. ftp'.step \notin {"removeFile", "removeDir"}
  BY DEF FtpShape, FtpSteps, Idle
<1>2. /\ <<>> \in Seq(Todos) /\ <<>> \in Seq(Paths) /\ Len(<<>>) = 0
      /\ \A i \in 1..0 : FALSE
  BY EmptySeq
<1>3. TodoOk(<<>>)
  BY <1>2 DEF TodoOk
<1>4. /\ NoDelete \in Dels
      /\ NoDelete.todo = <<>> /\ NoDelete.work = <<>> /\ NoDelete.done = 0
  BY <1>2 DEF NoDelete, Dels
<1>5. Len(NoDelete.work) <= MaxItems + MaxDepth
  BY <1>2, <1>4, FtpNumbers
<1> QED BY <1>1, <1>3, <1>4, <1>5 DEF DelInv

LEMMA ReleaseOk ==
    ASSUME FtpShape, Release
    PROVE  FtpShape' /\ AskInv' /\ ftp'.op = Idle /\ ftp'.step = Idle
BY DEF FtpShape, Release, AskInv, FtpSteps, FtpWaits, Idle

LEMMA FailsOk ==
    ASSUME FtpInv, Fails
    PROVE  FtpInv'
<1>1. /\ Release /\ scan' = NoScan /\ del' = NoDelete
      /\ UNCHANGED <<get, downloads, server, air>>
  BY DEF Fails
<1>2. FtpShape' /\ AskInv' /\ ftp'.op = Idle /\ ftp'.step = Idle
  BY <1>1, ReleaseOk DEF FtpInv
<1>3. GetInv'
  BY <1>1, <1>2, GetElsewhere DEF FtpInv, Idle
<1>4. ScanInv'
  BY <1>1, <1>2, NothingListed DEF ScanInv, Idle
<1>5. DelInv'
  BY <1>1, <1>2, NothingToDelete DEF Idle
<1>6. DownloadsInv' /\ ServerInv' /\ AirInv'
  BY <1>1 DEF FtpInv, DownloadsInv, ServerInv, AirInv
<1> QED BY <1>2, <1>3, <1>4, <1>5, <1>6 DEF FtpInv

LEMMA UsableOk ==
    ASSUME NEW s \in Seq(Names)
    PROVE  Usable(s) \in Seq(Paths)
<1> DEFINE P == {i \in DOMAIN s : s[i] # Skip}
           u == Drawn(s, P)
<1>1. Len(s) \in Nat /\ DOMAIN s = 1..Len(s) /\ \A i \in 1..Len(s) : s[i] \in Names
  BY LenProperties, ElementOfSeq
<1>d. DrawnOk(Drawn(s, P), Names, s, P, Len(s)) /\ Len(Drawn(s, P)) <= Len(s)
  BY DrawnFrom
<1>2. u \in Seq(Names) /\ \A i \in 1..Len(u) : \E k \in 1..Len(s) : k \in P /\ u[i] = s[k]
  BY <1>d, Zenon DEF DrawnOk
<1>3. Usable(s) = u
  BY DEF Usable
<1>4. \A k \in 1..Len(s) : k \in P => s[k] \in Paths
  BY <1>1 DEF Names
<1> HIDE DEF u, P
<1>5. \A i \in 1..Len(u) : u[i] \in Paths
  BY <1>2, <1>4
<1>6. Len(u) \in Nat /\ u = [i \in 1..Len(u) |-> u[i]]
  BY <1>2, LenProperties
<1>7. [i \in 1..Len(u) |-> u[i]] \in Seq(Paths)
  BY <1>5, <1>6, SeqDef
<1> QED BY <1>3, <1>6, <1>7

(* A page of a directory is listed, or its end is reached.                   *)
LEMMA ListedOk ==
    ASSUME FtpInv, Settled("list")
    PROVE  /\ Listed \in [dir : Dirs, offset : Nat, pages : Nat, found : Seq(Paths)]
           /\ Listed.dir = scan.dir
           /\ ask.got.kind = "ack" => ask.got.body \in Seq(Names)
<1>1. ask # NoAsk /\ ftp.step = "list"
  BY DEF Settled
<1>2. ask \in Asks /\ ask.opcode = "list" /\ BodyOk(ask.opcode, ask.got.kind, ask.got.body)
  BY <1>1 DEF FtpInv, AskInv
<1>3. scan \in Scans /\ scan.dir \in Dirs
  BY <1>1 DEF FtpInv, ScanInv
<1>4. CASE ask.got.kind # "ack"
  <2>1. \A n \in 0..(MaxPages - 1) : n \in Nat
    BY FtpNumbers
  <2>2. scan \in [dir : Dirs, offset : Nat, pages : Nat, found : Seq(Paths)]
    BY <1>3, <2>1 DEF Scans
  <2> QED BY <1>4, <2>2 DEF Listed
<1>5. CASE ask.got.kind = "ack"
  <2> DEFINE b == ask.got.body
             u == Usable(b)
  <2>1. b \in Seq(Names)
    BY <1>2, <1>5 DEF BodyOk
  <2>2. u \in Seq(Paths) /\ Len(b) \in Nat
    BY <2>1, UsableOk, LenProperties
  <2>3. Listed = [scan EXCEPT !.offset = @ + Len(b), !.pages = @ + 1, !.found = @ \o u]
    BY <1>5 DEF Listed, NextPage
  <2> HIDE DEF u, b
  <2>4. scan.found \o u \in Seq(Paths)
    BY <1>3, <2>2, ConcatProperties DEF Scans
  <2>5. scan.pages + 1 \in Nat /\ scan.offset + Len(b) \in Nat
    BY <1>3, <2>2, FtpNumbers DEF Scans
  <2> DEFINE v == scan.found \o u
             o == scan.offset + Len(b)
             p == scan.pages + 1
  <2>6. Listed = [scan EXCEPT !.offset = o, !.pages = p, !.found = v]
    BY <1>3, <2>3 DEF Scans
  <2> HIDE DEF v, o, p
  <2>7. v \in Seq(Paths) /\ o \in Nat /\ p \in Nat
    BY <2>4, <2>5 DEF v, o, p
  <2>8. Listed \in [dir : Dirs, offset : Nat, pages : Nat, found : Seq(Paths)] /\ Listed.dir = scan.dir
    BY <1>3, <2>6, <2>7 DEF Scans
  <2> QED BY <2>1, <2>8 DEF b
<1> QED BY <1>4, <1>5

LEMMA AskPageOk ==
    ASSUME ServerInv, AirInv, NEW f \in Ftps, f.op \in {"list", "delete"},
           NEW s \in Scans, s.dir \in Dirs, Len(s.found) < MaxEntries, AskPage(f, s)
    PROVE  /\ FtpShape' /\ AskInv' /\ ServerInv' /\ AirInv' /\ ScanInv'
           /\ ftp'.op = f.op /\ ftp'.step = "list"
<1> DEFINE a == <<s.dir, s.offset>>
<1>1. a \in Args /\ ArgOk("list", a)
  BY DEF Scans, Args, ArgOk, Paths
<1>2. Request(f, "list", a, Tries) /\ scan' = s
  BY DEF AskPage
<1> HIDE DEF a
<1>3. "list" \in Opcodes /\ "list" \in FtpSteps[f.op]
  BY DEF Opcodes, FtpSteps
<1>4. /\ FtpShape' /\ AskInv' /\ ServerInv' /\ AirInv' /\ ftp'.op = f.op /\ ftp'.step = "list"
  BY <1>1, <1>2, <1>3, RequestOk
<1>5. ScanInv'
  BY <1>2, <1>4 DEF ScanInv
<1> QED BY <1>4, <1>5

LEMMA PageListedKeeps ==
    ASSUME FtpInv, PageListed
    PROVE  FtpInv'
<1>1. /\ Acked("list") /\ ~DirectoryEnds /\ Listed.pages < MaxPages /\ AskPage(ftp, Listed)
      /\ UNCHANGED <<get, del, downloads>>
  BY DEF PageListed
<1>2. Settled("list") /\ ask.got.kind = "ack" /\ ftp.step = "list"
  BY <1>1 DEF Acked, Settled
<1>3. /\ Listed \in [dir : Dirs, offset : Nat, pages : Nat, found : Seq(Paths)]
      /\ Listed.dir = scan.dir
  BY <1>2, ListedOk
<1>4. ~(Len(Listed.found) >= MaxEntries)
  BY <1>1, <1>2 DEF DirectoryEnds
<1> DEFINE s == Listed
<1> HIDE DEF s
<1>5. s \in [dir : Dirs, offset : Nat, pages : Nat, found : Seq(Paths)] /\ s.pages < MaxPages
      /\ ~(Len(s.found) >= MaxEntries)
  BY <1>1, <1>3, <1>4 DEF s
<1>6. s \in Scans /\ s.dir \in Dirs /\ Len(s.found) < MaxEntries
  <2>1. s.pages \in 0..(MaxPages - 1) /\ Len(s.found) \in Nat
    BY <1>5, LenProperties, FtpNumbers
  <2> QED BY <1>5, <2>1, FtpNumbers DEF Scans
<1>7. ftp \in Ftps /\ ftp.op \in {"list", "delete"}
  BY <1>2, FtpOpSteps DEF FtpInv
<1>8. /\ FtpShape' /\ AskInv' /\ ServerInv' /\ AirInv' /\ ScanInv'
      /\ ftp'.op = ftp.op /\ ftp'.step = "list"
  BY <1>1, <1>6, <1>7, AskPageOk DEF FtpInv, s
<1>9. GetInv'
  BY <1>1, <1>7, <1>8, GetElsewhere DEF FtpInv
<1>10. DelInv' /\ DownloadsInv'
  BY <1>1, <1>2, <1>8 DEF FtpInv, DelInv, DownloadsInv
<1> QED BY <1>8, <1>9, <1>10 DEF FtpInv

LEMMA ClaimedOk ==
    ASSUME FtpInv, target \in Vehicles \cup {Nobody}, Claimable,
           NEW op \in {"list", "download", "delete"}, NEW step \in FtpWaits
    PROVE  /\ Claimed(op, step) \in Ftps /\ Claimed(op, step).op = op
           /\ Claimed(op, step).step = step /\ Claimed(op, step).cancelRequested = FALSE
           /\ Claimed(op, step).home = target /\ Claimed(op, step).seq = ftp.seq
           /\ ftp.op = Idle /\ ftp.step = Idle
<1>1. ftp \in Ftps /\ ftp.op = Idle /\ ftp.step = Idle
  BY FtpOpSteps DEF FtpInv, Claimable, ftpBusy
<1> QED BY <1>1 DEF Claimed, Ftps

LEMMA StartListKeeps ==
    ASSUME FtpInv, target \in Vehicles \cup {Nobody}, NEW d \in Dirs, StartList(d)
    PROVE  FtpInv' /\ ftp'.op = "list"
<1> DEFINE f == Claimed("list", Idle)
           s == [NoScan EXCEPT !.dir = d]
<1>0. "idle" \in FtpWaits /\ Claimable
  BY DEF FtpWaits, Idle, StartList
<1>1. f \in Ftps /\ f.op = "list" /\ ftp.op = Idle /\ ftp.step = Idle
  BY <1>0, ClaimedOk DEF Idle
<1>2. s \in Scans /\ s.dir \in Dirs /\ Len(s.found) < MaxEntries
  BY NothingListed
<1>3. AskPage(f, s) /\ UNCHANGED <<get, del, downloads>>
  BY DEF StartList
<1> HIDE DEF f, s
<1>4. /\ FtpShape' /\ AskInv' /\ ServerInv' /\ AirInv' /\ ScanInv'
      /\ ftp'.op = "list" /\ ftp'.step = "list"
  BY <1>1, <1>2, <1>3, AskPageOk DEF FtpInv
<1>5. GetInv'
  BY <1>3, <1>4, GetElsewhere DEF FtpInv
<1>6. DelInv'
  BY <1>3, <1>4, DelElsewhere DEF FtpInv
<1>7. DownloadsInv'
  BY <1>3 DEF FtpInv, DownloadsInv
<1> QED BY <1>4, <1>5, <1>6, <1>7 DEF FtpInv

LEMMA ListDoneKeeps ==
    ASSUME FtpInv, ListDone
    PROVE  FtpInv'
<1>1. Release /\ scan' = NoScan /\ UNCHANGED <<get, del, downloads, server, air>>
  BY DEF ListDone
<1>2. FtpShape' /\ AskInv' /\ ftp'.op = Idle /\ ftp'.step = Idle
  BY <1>1, ReleaseOk DEF FtpInv
<1>3. GetInv'
  BY <1>1, <1>2, GetElsewhere DEF FtpInv, Idle
<1>4. ScanInv'
  BY <1>1, <1>2, NothingListed DEF ScanInv, Idle
<1>5. DelInv'
  BY <1>1, <1>2, DelElsewhere DEF Idle, FtpInv
<1>6. DownloadsInv' /\ ServerInv' /\ AirInv'
  BY <1>1 DEF FtpInv, DownloadsInv, ServerInv, AirInv
<1> QED BY <1>2, <1>3, <1>4, <1>5, <1>6 DEF FtpInv
-----------------------------------------------------------------------------
(* Deletion.  The walk takes what it knows from todo and lists the next      *)
(* directory; what is left once all is known are the directories around the  *)
(* last file, one of each depth.                                             *)
LEMMA KnownIs ==
    ASSUME NEW s \in Seq(Todos), NEW k, k = Known(s)
    PROVE  /\ k \in 0..Len(s) /\ (\A i \in 1..k : s[i].listed)
           /\ k < Len(s) => ~s[k + 1].listed
<1> DEFINE n == Len(s)
           Ends == {j \in 0..n : j < n => ~s[j + 1].listed}
<1>0. n \in Nat
  BY LenProperties
<1> HIDE DEF n
<1>1. n \in Ends /\ Ends \in SUBSET Nat
  BY <1>0
<1>2. PICK m \in Ends : \A j \in Ends : m <= j
  BY <1>1, LeastNumber
<1>3. ASSUME NEW i \in 1..m PROVE s[i].listed
  <2>1. i - 1 \in 0..n /\ i - 1 < n /\ ~(m <= i - 1) /\ (i - 1) + 1 = i
    BY <1>0, <1>2
  <2>2. i - 1 \notin Ends
    BY <1>2, <2>1
  <2> QED BY <2>1, <2>2
<1>4. m \in 0..n /\ (\A i \in 1..m : s[i].listed) /\ (m < n => ~s[m + 1].listed)
  BY <1>2, <1>3
<1>5. k = CHOOSE j \in 0..n : (\A i \in 1..j : s[i].listed) /\ (j < n => ~s[j + 1].listed)
  BY DEF Known, n
<1>6. k \in 0..n /\ (\A i \in 1..k : s[i].listed) /\ (k < n => ~s[k + 1].listed)
  BY <1>4, <1>5
<1> QED BY <1>6 DEF n

LEMMA Preceded ==
    ASSUME NEW S, NEW e \in S, NEW r \in Seq(S), NEW t, t = <<e>> \o r
    PROVE  /\ t \in Seq(S) /\ Len(t) = Len(r) + 1 /\ Len(r) \in Nat /\ t[1] = e
           /\ \A i \in 2..Len(r) + 1 : t[i] = r[i - 1]
<1>1. <<e>> \in Seq(S) /\ Len(<<e>>) = 1 /\ <<e>>[1] = e /\ Len(r) \in Nat
  BY LenProperties
<1> DEFINE u == <<e>>
<1> HIDE DEF u
<1>2. u \in Seq(S) /\ Len(u) = 1 /\ u[1] = e /\ t = u \o r
  BY <1>1 DEF u
<1>3. /\ u \o r \in Seq(S) /\ Len(u \o r) = Len(u) + Len(r)
      /\ \A i \in 1..Len(u) + Len(r) : (u \o r)[i] = IF i <= Len(u) THEN u[i] ELSE r[i - Len(u)]
  BY <1>2, ConcatProperties
<1>4. \A i \in 1..Len(r) + 1 : t[i] = IF i <= 1 THEN u[i] ELSE r[i - 1]
  BY <1>1, <1>2, <1>3
<1>5. t[1] = e
  BY <1>1, <1>2, <1>4
<1>6. \A i \in 2..Len(r) + 1 : t[i] = r[i - 1]
  BY <1>1, <1>4
<1>7. t \in Seq(S) /\ Len(t) = Len(r) + 1
  BY <1>1, <1>2, <1>3
<1> QED BY <1>1, <1>5, <1>6, <1>7

LEMMA RestToVisit ==
    ASSUME NEW s, TodoOk(s), NEW k \in Nat, k < Len(s), ~s[k + 1].listed, s[k + 1].depth < MaxDepth,
           NEW t, t = <<[s[k + 1] EXCEPT !.listed = TRUE]>> \o SubSeq(s, k + 2, Len(s))
    PROVE  TodoOk(t) /\ t # <<>> /\ t[1].path \in Dirs
<1> DEFINE e == [s[k + 1] EXCEPT !.listed = TRUE]
           n == Len(s)
           rest == SubSeq(s, k + 2, n)
<1>1. s \in Seq(Todos) /\ n \in Nat /\ \A i \in 1..n : s[i] \in Todos
  BY LenProperties, ElementOfSeq DEF TodoOk
<1>2. k + 1 \in 1..n /\ n - (k + 2) + 1 = n - k - 1 /\ k + 2 \in Int /\ \A i \in k + 2..n : i \in 1..n
  BY <1>1
<1>3. s[k + 1] \in Todos /\ s[k + 1].path \in Dirs
  BY <1>1, <1>2 DEF TodoOk
<1>4. e \in Todos /\ e.path \in Dirs /\ e.depth = s[k + 1].depth /\ e.listed
  BY <1>3 DEF Todos
<1>5. /\ rest \in Seq(Todos) /\ Len(rest) = n - k - 1
      /\ \A i \in 1..n - k - 1 : rest[i] = s[k + 1 + i]
  <2>1. \A i \in k + 2..n : s[i] \in Todos
    BY <1>1, <1>2
  <2>2. /\ rest \in Seq(Todos) /\ Len(rest) = IF k + 2 <= n THEN n - (k + 2) + 1 ELSE 0
        /\ \A i \in 1..n - (k + 2) + 1 : rest[i] = s[k + 2 + i - 1]
    BY <1>1, <1>2, <2>1, SubSeqProperties
  <2> HIDE DEF rest
  <2>3. Len(rest) = n - k - 1
    BY <1>1, <1>2, <2>2
  <2>4. \A i \in 1..n - k - 1 : k + 2 + i - 1 = k + 1 + i
    BY <1>1
  <2> QED BY <1>2, <2>2, <2>3, <2>4
<1>6. t = <<e>> \o rest
  OBVIOUS
<1> HIDE DEF e, rest
<1>7. /\ t \in Seq(Todos) /\ Len(t) = n - k
      /\ t[1] = e
      /\ \A i \in 2..n - k : t[i] = s[k + i]
  <2>1. /\ t \in Seq(Todos) /\ Len(t) = Len(rest) + 1 /\ t[1] = e
        /\ \A i \in 2..Len(rest) + 1 : t[i] = rest[i - 1]
    <3>1. e \in Todos /\ rest \in Seq(Todos) /\ t = <<e>> \o rest
      BY <1>4, <1>5, <1>6
    <3> QED BY ONLY <3>1, Preceded
  <2>2. Len(t) = n - k /\ n - k = Len(rest) + 1
    <3>1. n \in Nat /\ Len(rest) = n - k - 1 /\ Len(t) = Len(rest) + 1
      BY <1>1, <1>5, <2>1
    <3> HIDE DEF n
    <3> QED BY <3>1
  <2>3. ASSUME NEW i \in 2..n - k PROVE t[i] = s[k + i]
    <3>1. i \in 2..Len(rest) + 1 /\ i - 1 \in 1..n - k - 1 /\ k + 1 + (i - 1) = k + i
      <4>1. n \in Nat /\ n - k = Len(rest) + 1
        BY <1>1, <2>2
      <4> HIDE DEF n
      <4> QED BY <4>1
    <3> QED BY <1>5, <2>1, <3>1
  <2> QED BY <2>1, <2>2, <2>3
<1>8. \A i \in 2..n - k : k + i \in 1..n /\ k + 1 < k + i
  BY <1>1
<1>9. \A i \in 1..n - k : i = 1 \/ i \in 2..n - k
  BY <1>1
<1>10. ASSUME NEW i \in 1..n - k
       PROVE  (ListedDir(t[i]) => t[i].depth < MaxDepth) /\ (~t[i].listed => t[i].path \in Dirs)
  <2>1. CASE i = 1
    BY <1>4, <1>7, <2>1
  <2>2. CASE i \in 2..n - k
    BY <1>7, <1>8, <2>2 DEF TodoOk
  <2> QED BY <1>9, <2>1, <2>2
<1>11. ASSUME NEW i \in 1..n - k, NEW j \in 1..n - k, i < j, ListedDir(t[j])
       PROVE  t[i].depth > t[j].depth
  <2>1. j \in 2..n - k
    BY <1>11
  <2>2. t[j] = s[k + j] /\ k + j \in 1..n /\ k + 1 < k + j
    BY <1>7, <1>8, <2>1
  <2>3. CASE i = 1
    <3>1. s[k + 1].depth > s[k + j].depth
      BY <1>2, <1>11, <2>2 DEF TodoOk, n
    <3> QED BY <1>4, <1>7, <2>2, <2>3, <3>1
  <2>4. CASE i \in 2..n - k
    <3>1. t[i] = s[k + i] /\ k + i \in 1..n /\ k + i < k + j
      BY <1>7, <1>8, <1>11, <2>4
    <3> QED BY <1>11, <2>2, <3>1 DEF TodoOk, n
  <2> QED BY <1>9, <2>3, <2>4
<1>12. t # <<>>
  <2>1. Len(t) # 0
    <3>1. n \in Nat /\ k < n /\ Len(t) = n - k
      BY <1>1, <1>7
    <3> HIDE DEF n
    <3> QED BY <3>1
  <2> QED BY <2>1, EmptySeq
<1> QED BY <1>4, <1>7, <1>10, <1>11, <1>12 DEF TodoOk

(* Directories around one entry have different depths.                       *)
LEMMA DepthsBound ==
    ASSUME NEW s, TodoOk(s), \A i \in 1..Len(s) : s[i].listed, NEW m \in Nat, m <= Len(s),
           \A i \in m + 1..Len(s) : s[i].path \in Dirs
    PROVE  Len(s) - m <= MaxDepth
<1> DEFINE n == Len(s)
           Bad == {d \in 0..n - m - 1 : ~(s[n - d].depth >= d)}
<1>1. s \in Seq(Todos) /\ n \in Nat /\ \A i \in 1..n : s[i] \in Todos /\ s[i].depth \in Nat
  <2>1. s \in Seq(Todos) /\ n \in Nat /\ \A i \in 1..n : s[i] \in Todos
    BY LenProperties, ElementOfSeq DEF TodoOk
  <2> QED BY <2>1 DEF Todos
<1>2. \A d \in 0..n - m - 1 : n - d \in m + 1..n /\ n - d \in 1..n
  BY <1>1
<1>3. \A i \in m + 1..n : ListedDir(s[i])
  BY <1>1 DEF ListedDir
<1>4. ASSUME NEW d \in 0..n - m - 1, d # 0, d - 1 \notin Bad PROVE d \notin Bad
  <2>1. d - 1 \in 0..n - m - 1 /\ n - d < n - (d - 1)
    <3>1. n \in Nat /\ d \in Nat /\ d <= n - m - 1
      BY <1>1
    <3> HIDE DEF n
    <3> QED BY <1>4, <3>1
  <2>2. s[n - (d - 1)].depth >= d - 1
    BY <1>4, <2>1
  <2>3. s[n - d].depth > s[n - (d - 1)].depth
    BY <1>2, <1>3, <2>1 DEF TodoOk
  <2>4. s[n - d].depth \in Nat /\ s[n - (d - 1)].depth \in Nat
    BY <1>1, <1>2, <2>1
  <2>5. s[n - d].depth >= d
    BY <2>2, <2>3, <2>4, SMTT(30)
  <2> QED BY <2>5
<1>5. 0 \notin Bad
  <2>1. ASSUME 0 \in 0..n - m - 1 PROVE s[n - 0].depth >= 0
    <3>1. n - 0 \in 1..n
      BY <1>2, <2>1
    <3>2. s[n - 0].depth \in Nat
      BY <1>1, <3>1
    <3> QED BY <3>2
  <2> QED BY <2>1
<1>6. Bad = {}
  <2> SUFFICES ASSUME Bad # {} PROVE FALSE
    OBVIOUS
  <2>1. Bad \in SUBSET Nat
    BY <1>1
  <2> HIDE DEF Bad
  <2>2. PICK d \in Bad : \A e \in Bad : d <= e
    BY <2>1, LeastNumber
  <2>3. d \in 0..n - m - 1 /\ d # 0 /\ d - 1 < d
    BY <1>1, <1>5, <2>2 DEF Bad
  <2>4. d - 1 \notin Bad
    BY <2>1, <2>2, <2>3
  <2> QED BY <1>4, <2>2, <2>3, <2>4
<1>7. CASE m = n
  BY <1>1, <1>7, FtpNumbers
<1>8. CASE m # n
  <2>1. n - m - 1 \in 0..n - m - 1 /\ n - (n - m - 1) = m + 1 /\ m + 1 \in m + 1..n /\ m + 1 \in 1..n
    BY <1>1, <1>8
  <2>2. s[m + 1].depth >= n - m - 1
    BY <1>6, <2>1
  <2>3. s[m + 1].depth < MaxDepth
    BY <1>3, <2>1 DEF TodoOk
  <2> QED BY <1>1, <2>1, <2>2, <2>3, FtpNumbers
<1> QED BY <1>7, <1>8

LEMMA Mapped ==
    ASSUME NEW S, NEW n \in Nat, NEW f \in [1..n -> S]
    PROVE  f \in Seq(S) /\ Len(f) = n
<1>1. f \in Seq(S)
  BY SeqDef
<1>2. Len(f) \in Nat /\ DOMAIN f = 1..Len(f) /\ DOMAIN f = 1..n
  BY <1>1, LenProperties
<1>3. ~(Len(f) < n)
  <2> SUFFICES ASSUME Len(f) < n PROVE FALSE
    OBVIOUS
  <2>1. n \in 1..n /\ n \notin 1..Len(f)
    BY <1>2
  <2> QED BY <1>2, <2>1
<1>4. ~(n < Len(f))
  <2> SUFFICES ASSUME n < Len(f) PROVE FALSE
    OBVIOUS
  <2>1. Len(f) \in 1..Len(f) /\ Len(f) \notin 1..n
    BY <1>2
  <2> QED BY <1>2, <2>1
<1> QED BY <1>1, <1>2, <1>3, <1>4

LEMMA CollectedOk ==
    ASSUME NEW d \in Dels, TodoOk(d.todo), d.todo # <<>>, Len(d.work) <= MaxItems,
           NEW k, k = Known(d.todo), ~Exceeds(d, k), NEW e, e = Collected(d, k)
    PROVE  /\ e \in Dels /\ e.wanted = d.wanted /\ e.done = d.done /\ TodoOk(e.todo)
           /\ Len(e.work) <= MaxItems + MaxDepth
           /\ e.todo # <<>> => Len(e.work) <= MaxItems /\ e.todo[1].path \in Dirs
           /\ e.todo = <<>> => 0 < Len(e.work)
<1> DEFINE s == d.todo
           n == Len(s)
           v == [i \in 1..k |-> s[i].path]
           w == d.work \o v
           t == IF k = n THEN <<>>
                ELSE <<[s[k + 1] EXCEPT !.listed = TRUE]>> \o SubSeq(s, k + 2, n)
<1>1. /\ s \in Seq(Todos) /\ n \in Nat /\ d.work \in Seq(Paths) /\ Len(d.work) \in Nat
      /\ \A i \in 1..n : s[i] \in Todos
  BY LenProperties, ElementOfSeq DEF Dels
<1>2. n # 0
  BY <1>1, EmptySeq
<1>3. k \in 0..n /\ (\A i \in 1..k : s[i].listed) /\ (k < n => ~s[k + 1].listed)
  BY <1>1, KnownIs
<1>4. /\ \A i \in 1..k : s[i].path \in Dirs \/ Len(d.work) + i - 1 < MaxItems
      /\ k < n => Len(d.work) + k < MaxItems /\ s[k + 1].depth < MaxDepth
  <2>1. ~\E i \in 1..k : s[i].path \notin Dirs /\ Len(d.work) + i - 1 >= MaxItems
    BY DEF Exceeds
  <2>2. ASSUME NEW i \in 1..k, s[i].path \notin Dirs PROVE Len(d.work) + i - 1 < MaxItems
    BY <1>1, <1>3, <2>1, <2>2, FtpNumbers
  <2>3. ASSUME k < n PROVE Len(d.work) + k < MaxItems /\ s[k + 1].depth < MaxDepth
    <3>1. ~(Len(d.work) + k >= MaxItems) /\ ~(s[k + 1].depth >= MaxDepth)
      BY <2>3 DEF Exceeds
    <3>2. s[k + 1].depth \in Nat
      <4>1. k + 1 \in 1..n
        BY <1>1, <1>3, <2>3
      <4>2. s[k + 1] \in Todos
        BY <1>1, <4>1
      <4> QED BY <4>2 DEF Todos
    <3>3. Len(d.work) \in Nat /\ k \in Nat /\ MaxItems \in Nat /\ MaxDepth \in Nat
      BY <1>1, <1>3, FtpNumbers
    <3> QED BY ONLY <3>1, <3>2, <3>3, SMTT(30)
  <2> QED BY <2>2, <2>3
<1>5. e = [d EXCEPT !.work = w, !.todo = t]
  BY DEF Collected, Dels
<1>6. v \in Seq(Paths) /\ Len(v) = k
  <2>1. k \in Nat /\ \A i \in 1..k : s[i].path \in Paths
    BY <1>1, <1>3 DEF Todos
  <2>2. v \in [1..k -> Paths]
    BY <2>1
  <2> HIDE DEF v
  <2> QED BY <2>1, <2>2, Mapped
<1>7. w \in Seq(Paths) /\ Len(w) = Len(d.work) + k
  <2>1. d.work \in Seq(Paths) /\ v \in Seq(Paths) /\ Len(v) = k
    BY <1>1, <1>6
  <2> HIDE DEF v
  <2>2. d.work \o v \in Seq(Paths) /\ Len(d.work \o v) = Len(d.work) + Len(v)
    BY ONLY <2>1, ConcatProperties
  <2> QED BY <2>1, <2>2
<1>8. ASSUME k < n PROVE TodoOk(t) /\ t # <<>> /\ t[1].path \in Dirs
  <2>1. k \in Nat /\ ~s[k + 1].listed /\ s[k + 1].depth < MaxDepth
    BY <1>3, <1>4, <1>8
  <2>2. t = <<[s[k + 1] EXCEPT !.listed = TRUE]>> \o SubSeq(s, k + 2, Len(s))
    <3>1. k # n
      BY <1>1, <1>3, <1>8
    <3> QED BY <3>1
  <2> HIDE DEF t
  <2> QED BY <1>8, <2>1, <2>2, RestToVisit
<1>9. ASSUME ~(k < n) PROVE k = n /\ t = <<>> /\ TodoOk(t) /\ Len(w) <= MaxItems + MaxDepth
  <2>1. k = n
    BY <1>1, <1>3, <1>9
  <2>2. t = <<>> /\ TodoOk(t)
    <3>1. /\ <<>> \in Seq(Todos) /\ Len(<<>>) = 0 /\ \A i \in 1..0 : FALSE
      BY EmptySeq
    <3>2. TodoOk(<<>>)
      BY <3>1 DEF TodoOk
    <3> QED BY <2>1, <3>2
  <2> DEFINE T == {i \in 1..n : s[i].path \notin Dirs}
  <2>3. CASE T = {}
    <3>1. \A i \in 0 + 1..n : s[i].path \in Dirs
      BY <2>3
    <3>2. n - 0 <= MaxDepth
      BY <1>1, <1>3, <2>1, <3>1, DepthsBound
    <3>3. Len(w) <= MaxItems + MaxDepth
      <4> HIDE DEF n, w, s
      <4> QED BY <1>1, <1>7, <2>1, <3>2, FtpNumbers
    <3> QED BY <2>1, <2>2, <3>3
  <2>4. CASE T # {}
    <3>1. T \in SUBSET (0..n)
      BY <1>1
    <3> HIDE DEF T
    <3>2. PICK m \in T : \A i \in T : i <= m
      BY <1>1, <2>4, <3>1, GreatestNumber
    <3>3. m \in 1..n /\ s[m].path \notin Dirs
      BY <3>2 DEF T
    <3>4. \A i \in m + 1..n : i \in 1..n /\ ~(i <= m)
      BY <1>1, <3>3
    <3>5. \A i \in m + 1..n : s[i].path \in Dirs
      BY <3>2, <3>4 DEF T
    <3>6. n - m <= MaxDepth
      <4>1. m \in Nat /\ m <= Len(s)
        BY <1>1, <3>3
      <4> QED BY <1>3, <2>1, <3>5, <4>1, DepthsBound
    <3>7. Len(d.work) + m - 1 < MaxItems
      BY <1>4, <2>1, <3>3
    <3>8. Len(w) <= MaxItems + MaxDepth
      <4> HIDE DEF n, w, s
      <4> QED BY <1>1, <1>7, <2>1, <3>3, <3>6, <3>7, FtpNumbers, SMTT(30)
    <3> QED BY <2>1, <2>2, <3>8
  <2> QED BY <2>3, <2>4
<1>10. ASSUME k < n PROVE Len(w) <= MaxItems /\ Len(w) <= MaxItems + MaxDepth
  <2>1. Len(d.work) + k < MaxItems
    BY <1>4, <1>10
  <2> HIDE DEF n, w, s
  <2> QED BY <1>1, <1>3, <1>7, <2>1, FtpNumbers
<1>11. ASSUME ~(k < n) PROVE 0 < Len(w)
  <2>1. k = n
    BY <1>9, <1>11, SMTT(30)
  <2> HIDE DEF n, w, s
  <2> QED BY <1>1, <1>2, <1>7, <2>1
<1>12. t \in Seq(Todos) /\ TodoOk(t)
  BY <1>8, <1>9 DEF TodoOk
<1> HIDE DEF t, w, s, n
<1>13. /\ e \in Dels /\ e.wanted = d.wanted /\ e.done = d.done /\ e.todo = t /\ e.work = w
  BY <1>5, <1>7, <1>12 DEF Dels
<1> QED BY <1>8, <1>9, <1>10, <1>11, <1>12, <1>13

LEMMA AskRemoveOk ==
    ASSUME ServerInv, AirInv, NEW f \in Ftps, f.op = "delete", NEW d \in Dels,
           d.done < Len(d.work), Len(d.work) <= MaxItems + MaxDepth, TodoOk(d.todo),
           d.todo # <<>> => Len(d.work) <= MaxItems, AskRemove(f, d)
    PROVE  /\ FtpShape' /\ AskInv' /\ ServerInv' /\ AirInv' /\ DelInv'
           /\ ftp'.op = "delete" /\ ftp'.step \in {"removeFile", "removeDir"}
<1> DEFINE p == d.work[d.done + 1]
           o == IF p \in Dirs THEN "removeDir" ELSE "removeFile"
<1>1. p \in Paths
  <2>1. d.work \in Seq(Paths) /\ Len(d.work) \in Nat /\ d.done \in Nat
    BY LenProperties DEF Dels
  <2>2. d.done + 1 \in 1..Len(d.work)
    BY <2>1
  <2> QED BY <2>1, <2>2, ElementOfSeq
<1>2. Request(f, o, <<p>>, Tries) /\ del' = d
  BY DEF AskRemove
<1> HIDE DEF p
<1>3. o \in {"removeFile", "removeDir"}
  OBVIOUS
<1> HIDE DEF o
<1>4. o \in Opcodes /\ o \in FtpSteps[f.op] /\ <<p>> \in Args /\ ArgOk(o, <<p>>)
  BY <1>1, <1>3 DEF Opcodes, FtpSteps, Args, ArgOk
<1>5. FtpShape' /\ AskInv' /\ ServerInv' /\ AirInv' /\ ftp'.op = "delete" /\ ftp'.step = o
  BY <1>2, <1>4, RequestOk
<1>6. DelInv'
  BY <1>2, <1>3, <1>5 DEF DelInv
<1> QED BY <1>3, <1>5, <1>6

LEMMA ExpandsKeeps ==
    ASSUME FtpInv, NEW f \in Ftps, f.op = "delete", NEW d \in Dels, TodoOk(d.todo),
           d.todo # <<>>, Len(d.work) <= MaxItems, d.done = 0, Expands(f, d)
    PROVE  FtpInv'
<1> DEFINE k == Known(d.todo)
           e == Collected(d, k)
<1>1. CASE Exceeds(d, k)
  <2>1. Fails
    BY <1>1 DEF Expands
  <2> QED BY <2>1, FailsOk
<1>2. CASE ~Exceeds(d, k)
  <2>1. /\ e \in Dels /\ e.wanted = d.wanted /\ e.done = d.done /\ TodoOk(e.todo)
        /\ Len(e.work) <= MaxItems + MaxDepth
        /\ e.todo # <<>> => Len(e.work) <= MaxItems /\ e.todo[1].path \in Dirs
        /\ e.todo = <<>> => 0 < Len(e.work)
    BY <1>2, CollectedOk
  <2>2. /\ \/ e.todo = <<>> /\ AskRemove(f, e) /\ scan' = NoScan
           \/ e.todo # <<>> /\ AskPage(f, [NoScan EXCEPT !.dir = e.todo[1].path]) /\ del' = e
        /\ UNCHANGED <<get, downloads>>
    BY <1>2 DEF Expands
  <2> HIDE DEF e
  <2>3. CASE e.todo = <<>> /\ AskRemove(f, e) /\ scan' = NoScan
    <3>1. e.done < Len(e.work)
      BY <2>1, <2>3
    <3>2. /\ FtpShape' /\ AskInv' /\ ServerInv' /\ AirInv' /\ DelInv'
          /\ ftp'.op = "delete" /\ ftp'.step \in {"removeFile", "removeDir"}
      BY <2>1, <2>3, <3>1, AskRemoveOk DEF FtpInv
    <3>3. ScanInv'
      BY <2>3, <3>2, NothingListed DEF ScanInv
    <3>4. GetInv'
      BY <2>2, <3>2, GetElsewhere DEF FtpInv
    <3>5. DownloadsInv'
      BY <2>2 DEF FtpInv, DownloadsInv
    <3> QED BY <3>2, <3>3, <3>4, <3>5 DEF FtpInv
  <2>4. CASE e.todo # <<>> /\ AskPage(f, [NoScan EXCEPT !.dir = e.todo[1].path]) /\ del' = e
    <3> DEFINE s == [NoScan EXCEPT !.dir = e.todo[1].path]
    <3>1. s \in Scans /\ s.dir \in Dirs /\ Len(s.found) < MaxEntries
      BY <2>1, <2>4, NothingListed
    <3>2. AskPage(f, s)
      BY <2>4
    <3> HIDE DEF s
    <3>3. /\ FtpShape' /\ AskInv' /\ ServerInv' /\ AirInv' /\ ScanInv'
          /\ ftp'.op = "delete" /\ ftp'.step = "list"
      BY <3>1, <3>2, AskPageOk DEF FtpInv
    <3>4. DelInv'
      BY <2>1, <2>4, <3>3 DEF DelInv
    <3>5. GetInv'
      BY <2>2, <3>3, GetElsewhere DEF FtpInv
    <3>6. DownloadsInv'
      BY <2>2 DEF FtpInv, DownloadsInv
    <3> QED BY <3>3, <3>4, <3>5, <3>6 DEF FtpInv
  <2> QED BY <2>2, <2>3, <2>4
<1> QED BY <1>1, <1>2

(* What is new in todo has not been listed.                                  *)
LEMMA Entries ==
    ASSUME NEW s \in Seq(Paths), NEW h \in Nat, NEW t, t = [i \in 1..Len(s) |-> Entry(s[i], h)]
    PROVE  /\ t \in Seq(Todos) /\ Len(t) = Len(s)
           /\ \A i \in 1..Len(s) :
                 /\ t[i].depth = h /\ ~ListedDir(t[i])
                 /\ ~t[i].listed => t[i].path \in Dirs
<1>1. Len(s) \in Nat /\ \A i \in 1..Len(s) : s[i] \in Paths
  BY LenProperties, ElementOfSeq
<1>2. \A p \in Paths : /\ Entry(p, h) \in Todos /\ Entry(p, h).depth = h
                       /\ ~ListedDir(Entry(p, h))
                       /\ ~Entry(p, h).listed => Entry(p, h).path \in Dirs
  BY DEF Entry, Todos, ListedDir
<1>3. t \in [1..Len(s) -> Todos]
  BY <1>1, <1>2
<1>4. t \in Seq(Todos) /\ Len(t) = Len(s)
  BY <1>1, <1>3, Mapped
<1> QED BY <1>1, <1>2, <1>4

LEMMA StartDeleteKeeps ==
    ASSUME FtpInv, target \in Vehicles \cup {Nobody}, NEW selection \in Selections,
           StartDelete(selection)
    PROVE  FtpInv'
<1> DEFINE f == Claimed("delete", Idle)
           t == [i \in DOMAIN selection |-> Entry(selection[i], 0)]
           d == [NoDelete EXCEPT !.wanted = ToSet(selection), !.todo = t]
<1>0. "idle" \in FtpWaits /\ Claimable
  <2>1. "idle" \in FtpWaits
    BY DEF FtpWaits, Idle
  <2> QED BY <2>1 DEF StartDelete
<1>1. f \in Ftps /\ f.op = "delete"
  BY <1>0, ClaimedOk DEF Idle
<1>2. selection \in Seq(Paths) /\ selection # <<>>
  BY SelectionAssumption DEF Paths
<1>3. /\ Len(selection) \in Nat /\ DOMAIN selection = 1..Len(selection) /\ Len(selection) # 0
      /\ \A i \in 1..Len(selection) : selection[i] \in Paths
  BY <1>2, LenProperties, ElementOfSeq, EmptySeq
<1>4. /\ t \in Seq(Todos) /\ Len(t) = Len(selection)
      /\ \A i \in 1..Len(selection) :
            ~ListedDir(t[i]) /\ (~t[i].listed => t[i].path \in Dirs)
  <2>1. t = [i \in 1..Len(selection) |-> Entry(selection[i], 0)] /\ 0 \in Nat
    BY <1>3
  <2> HIDE DEF t
  <2> QED BY ONLY <1>2, <2>1, Entries, ZenonT(40)
<1>5. Expands(f, d)
  BY DEF StartDelete
<1>6. ToSet(selection) \in SUBSET Paths
  BY <1>3 DEF ToSet
<1> HIDE DEF t, f
<1>7. TodoOk(t) /\ t # <<>>
  BY <1>3, <1>4, EmptySeq DEF TodoOk
<1>8. <<>> \in Seq(Paths) /\ Len(<<>>) = 0
  BY EmptySeq
<1>9. d \in Dels /\ d.todo = t /\ d.work = <<>> /\ d.done = 0
  BY <1>4, <1>6, <1>8 DEF NoDelete, Dels
<1> HIDE DEF d
<1>10. Len(d.work) <= MaxItems
  BY <1>8, <1>9, FtpNumbers
<1> QED BY <1>1, <1>5, <1>7, <1>9, <1>10, ExpandsKeeps

LEMMA ChildrenOk ==
    ASSUME NEW s, TodoOk(s), s # <<>>, NEW c \in Seq(Todos),
           \A i \in 1..Len(c) :
              /\ c[i].depth = s[1].depth + 1 /\ ~ListedDir(c[i])
              /\ ~c[i].listed => c[i].path \in Dirs,
           NEW t, t = c \o s
    PROVE  TodoOk(t) /\ t # <<>>
<1> DEFINE m == Len(c)
           n == Len(s)
<1>1. /\ s \in Seq(Todos) /\ n \in Nat /\ m \in Nat /\ n # 0
      /\ \A i \in 1..n : s[i] \in Todos
  BY LenProperties, ElementOfSeq, EmptySeq DEF TodoOk
<1>2. /\ t \in Seq(Todos) /\ Len(t) = m + n
      /\ \A i \in 1..m + n : t[i] = IF i <= m THEN c[i] ELSE s[i - m]
  <2>1. s \in Seq(Todos) /\ c \in Seq(Todos) /\ t = c \o s
    BY <1>1
  <2>2. /\ t \in Seq(Todos) /\ Len(t) = Len(c) + Len(s)
        /\ \A i \in 1..Len(c) + Len(s) : t[i] = IF i <= Len(c) THEN c[i] ELSE s[i - Len(c)]
    BY ONLY <2>1, ConcatProperties
  <2> QED BY <2>2
<1>3. 1 \in 1..n /\ s[1].depth \in Nat /\ \A i \in 1..n : s[i].depth \in Nat
  <2>1. 1 \in 1..n
    BY <1>1
  <2> QED BY <1>1, <2>1 DEF Todos
<1>4. /\ \A i \in 1..n : ListedDir(s[i]) => s[i].depth < MaxDepth
      /\ \A i \in 1..n : ~s[i].listed => s[i].path \in Dirs
      /\ \A i, j \in 1..n : i < j /\ ListedDir(s[j]) => s[i].depth > s[j].depth
  BY DEF TodoOk
<1>5. /\ \A i \in 1..m : /\ c[i].depth = s[1].depth + 1 /\ ~ListedDir(c[i])
                         /\ ~c[i].listed => c[i].path \in Dirs
  OBVIOUS
<1> HIDE DEF m, n
<1>6. \A i \in 1..m + n : (i \in 1..m /\ t[i] = c[i]) \/ (i - m \in 1..n /\ t[i] = s[i - m])
  BY <1>1, <1>2
<1>7. ASSUME NEW i \in 1..m + n
      PROVE  (ListedDir(t[i]) => t[i].depth < MaxDepth) /\ (~t[i].listed => t[i].path \in Dirs)
  <2>1. CASE i \in 1..m /\ t[i] = c[i]
    BY <1>5, <2>1
  <2>2. CASE i - m \in 1..n /\ t[i] = s[i - m]
    BY <1>4, <2>2
  <2> QED BY <1>6, <2>1, <2>2
<1>8. ASSUME NEW i \in 1..m + n, NEW j \in 1..m + n, i < j, ListedDir(t[j])
      PROVE  t[i].depth > t[j].depth
  <2>1. j - m \in 1..n /\ t[j] = s[j - m]
    BY <1>5, <1>6, <1>8
  <2>2. s[j - m].depth \in Nat /\ ListedDir(s[j - m])
    BY <1>3, <1>8, <2>1
  <2>3. CASE i \in 1..m /\ t[i] = c[i]
    <3>1. t[i].depth = s[1].depth + 1
      BY <1>5, <2>3
    <3>2. CASE j - m = 1
      <4>1. t[j].depth = s[1].depth
        BY <2>1, <3>2
      <4> QED BY <1>3, <3>1, <4>1
    <3>3. CASE j - m # 1
      <4>1. 1 < j - m
        BY <1>1, <2>1, <3>3
      <4>2. s[1].depth > s[j - m].depth
        BY <1>3, <1>4, <2>1, <2>2, <4>1
      <4> QED BY <1>3, <2>1, <2>2, <3>1, <4>2
    <3> QED BY <3>2, <3>3
  <2>4. CASE i - m \in 1..n /\ t[i] = s[i - m]
    <3>1. i - m < j - m
      BY <1>1, <1>8
    <3> QED BY <1>4, <2>1, <2>2, <2>4, <3>1
  <2> QED BY <1>6, <2>3, <2>4
<1>9. t # <<>>
  <2>1. Len(t) # 0
    BY <1>1, <1>2
  <2> QED BY <2>1, EmptySeq
<1>10. Len(t) = m + n
  BY <1>2
<1> QED BY <1>2, <1>7, <1>8, <1>9, <1>10 DEF TodoOk

LEMMA ChildrenListedKeeps ==
    ASSUME FtpInv, ChildrenListed
    PROVE  FtpInv'
<1> DEFINE children == Listed.found
           h == del.todo[1].depth + 1
           c == [i \in DOMAIN children |-> Entry(children[i], h)]
           t == c \o del.todo
           d == [del EXCEPT !.todo = t]
<1>1. ftp.op = "delete" /\ Settled("list") /\ ftp.step = "list"
  BY DEF ChildrenListed, DirectoryEnds, Settled
<1>2. /\ del \in Dels /\ TodoOk(del.todo) /\ del.todo # <<>> /\ del.done = 0
      /\ Len(del.work) <= MaxItems
  BY <1>1 DEF FtpInv, DelInv
<1>3. children \in Seq(Paths)
  BY <1>1, ListedOk
<1>4. DOMAIN children = 1..Len(children)
  BY <1>3, LenProperties
<1>5. h \in Nat
  <2>1. del.todo \in Seq(Todos) /\ del.todo[1] \in Todos
    BY <1>2, Popped DEF TodoOk
  <2> QED BY <2>1 DEF Todos
<1>6. Expands(ftp, d)
  <2>1. d = [del EXCEPT !.todo = [i \in DOMAIN children |-> Entry(children[i], h)] \o @]
    BY <1>2 DEF Dels
  <2> HIDE DEF d
  <2> QED BY <2>1 DEF ChildrenListed
<1> HIDE DEF children, h
<1>7. /\ c \in Seq(Todos) /\ Len(c) = Len(children)
      /\ \A i \in 1..Len(children) :
            /\ c[i].depth = h /\ ~ListedDir(c[i])
            /\ ~c[i].listed => c[i].path \in Dirs
  <2>1. c = [i \in 1..Len(children) |-> Entry(children[i], h)]
    BY <1>4
  <2> HIDE DEF c
  <2> QED BY ONLY <1>3, <1>5, <2>1, Entries, SMTT(30)
<1> HIDE DEF c
<1>8. TodoOk(t) /\ t # <<>>
  <2>1. \A i \in 1..Len(c) : /\ c[i].depth = del.todo[1].depth + 1 /\ ~ListedDir(c[i])
                             /\ ~c[i].listed => c[i].path \in Dirs
    BY <1>7 DEF h
  <2> QED BY <1>2, <1>7, <2>1, ChildrenOk
<1> HIDE DEF t
<1>9. d \in Dels /\ d.todo = t /\ d.work = del.work /\ d.done = 0
  BY <1>2, <1>8 DEF Dels, TodoOk
<1> HIDE DEF d
<1>10. ftp \in Ftps
  BY FtpOpSteps DEF FtpInv
<1> QED BY <1>1, <1>2, <1>6, <1>8, <1>9, <1>10, ExpandsKeeps

LEMMA RemoveNextKeeps ==
    ASSUME FtpInv, RemoveNext
    PROVE  FtpInv'
<1> DEFINE d == [del EXCEPT !.done = @ + 1]
<1>1. /\ ftp.step \in {"removeFile", "removeDir"} /\ del.done + 1 < Len(del.work)
      /\ AskRemove(ftp, d) /\ UNCHANGED <<get, scan, downloads>>
  BY DEF RemoveNext, Removing, Settled
<1>2. /\ del \in Dels /\ TodoOk(del.todo) /\ Len(del.work) <= MaxItems + MaxDepth
      /\ del.todo # <<>> => Len(del.work) <= MaxItems
  BY DEF FtpInv, DelInv
<1>3. /\ d \in Dels /\ d.todo = del.todo /\ d.work = del.work /\ d.done = del.done + 1
  BY <1>2 DEF Dels
<1> HIDE DEF d
<1>4. ftp \in Ftps /\ ftp.op = "delete"
  BY <1>1, FtpOpSteps DEF FtpInv
<1>5. d.done < Len(d.work)
  BY <1>1, <1>3
<1>6. /\ FtpShape' /\ AskInv' /\ ServerInv' /\ AirInv' /\ DelInv'
      /\ ftp'.op = "delete" /\ ftp'.step \in {"removeFile", "removeDir"}
  BY <1>1, <1>2, <1>3, <1>4, <1>5, AskRemoveOk DEF FtpInv
<1>7. GetInv'
  BY <1>1, <1>6, GetElsewhere DEF FtpInv
<1>8. ScanInv'
  BY <1>1, <1>6, ScanElsewhere DEF FtpInv
<1>9. DownloadsInv'
  BY <1>1 DEF FtpInv, DownloadsInv
<1> QED BY <1>6, <1>7, <1>8, <1>9 DEF FtpInv

LEMMA DeleteDoneKeeps ==
    ASSUME FtpInv, DeleteDone
    PROVE  FtpInv'
<1>1. Release /\ del' = NoDelete /\ UNCHANGED <<get, scan, downloads, server, air>>
  BY DEF DeleteDone
<1>2. FtpShape' /\ AskInv' /\ ftp'.op = Idle /\ ftp'.step = Idle
  BY <1>1, ReleaseOk DEF FtpInv
<1>3. GetInv'
  BY <1>1, <1>2, GetElsewhere DEF FtpInv, Idle
<1>4. ScanInv'
  BY <1>1, <1>2, ScanElsewhere DEF FtpInv, Idle
<1>5. DelInv'
  BY <1>1, <1>2, NothingToDelete DEF Idle
<1>6. DownloadsInv' /\ ServerInv' /\ AirInv'
  BY <1>1 DEF FtpInv, DownloadsInv, ServerInv, AirInv
<1> QED BY <1>2, <1>3, <1>4, <1>5, <1>6 DEF FtpInv
-----------------------------------------------------------------------------
(* Download.                                                                 *)
LEMMA RestKept ==
    ASSUME FtpInv, UNCHANGED <<scan, del>>, FtpShape', ftp'.op \in {Idle, "download"}
    PROVE  ScanInv' /\ DelInv'
<1>1. ftp'.step # "list" /\ ftp'.op # "delete"
  BY DEF FtpShape, FtpSteps, Idle
<1> QED BY <1>1, ScanElsewhere, DelElsewhere DEF FtpInv

LEMMA DownloadsKept ==
    ASSUME FtpInv, UNCHANGED downloads
    PROVE  DownloadsInv'
BY DEF FtpInv, DownloadsInv

LEMMA DownloadStep ==
    ASSUME FtpInv, DownloadRest, FtpShape', AskInv', GetInv', ServerInv', AirInv',
           ftp'.op \in {Idle, "download"}
    PROVE  FtpInv'
<1>1. UNCHANGED <<scan, del, downloads>>
  BY DEF DownloadRest
<1> QED BY <1>1, RestKept, DownloadsKept DEF FtpInv

LEMMA StepTo ==
    ASSUME FtpInv, ftp.op = "download", NEW step \in FtpSteps["download"],
           ftp' = [ftp EXCEPT !.step = step], ask' = NoAsk
    PROVE  FtpShape' /\ AskInv' /\ ftp'.op = "download" /\ ftp'.step = step
<1>1. step \in FtpWaits
  BY DEF FtpSteps, FtpWaits
<1> QED BY <1>1 DEF FtpInv, FtpShape, AskInv, FtpSteps

LEMMA CatchOk ==
    ASSUME FtpInv, ftp.op = "download", Catch
    PROVE  /\ FtpShape' /\ AskInv' /\ GetInv' /\ ServerInv' /\ AirInv'
           /\ ftp'.op = "download" /\ ftp'.step = "cleanup" /\ sent' = NoFrame
<1>1. /\ ftp' = [ftp EXCEPT !.step = "cleanup"] /\ ask' = NoAsk /\ sent' = NoFrame
      /\ UNCHANGED <<get, server, air>>
  BY DEF Catch
<1>2. "cleanup" \in FtpSteps["download"]
  BY DEF FtpSteps
<1>3. FtpShape' /\ AskInv' /\ ftp'.op = "download" /\ ftp'.step = "cleanup"
  BY <1>1, <1>2, StepTo
<1>4. GetInv'
  BY <1>1, <1>3 DEF FtpInv, GetInv
<1>5. ServerInv' /\ AirInv'
  BY <1>1 DEF FtpInv, ServerInv, AirInv
<1> QED BY <1>1, <1>3, <1>4, <1>5

LEMMA GoesOk ==
    ASSUME FtpInv, ftp.op = "download", NEW step \in {"flush", "verify"}, NEW g, GetOk(g),
           Goes(step, g)
    PROVE  /\ FtpShape' /\ AskInv' /\ GetInv' /\ ServerInv' /\ AirInv' /\ ftp'.op = "download"
<1>1. ftp' = [ftp EXCEPT !.step = step] /\ ask' = NoAsk /\ get' = g /\ UNCHANGED <<server, air>>
  BY DEF Goes
<1>2. step \in FtpSteps["download"]
  BY DEF FtpSteps
<1>3. FtpShape' /\ AskInv' /\ ftp'.op = "download" /\ ftp'.step = step
  BY <1>1, <1>2, StepTo
<1>4. GetInv'
  BY <1>1, <1>3 DEF GetInv, GetOk
<1>5. ServerInv' /\ AirInv'
  BY <1>1 DEF FtpInv, ServerInv, AirInv
<1> QED BY <1>3, <1>4, <1>5

LEMMA GapsOk ==
    ASSUME NEW g, GetOk(g), NEW G \in SUBSET Gaps, \A i \in G : i[1] < i[2], G # {}
    PROVE  FirstGap(G) \in G /\ FirstGap(G)[1] \in Units
<1>1. \A i \in G : i[1] \in Nat /\ i[2] \in 0..FileLen /\ i[1] \in Units
  BY FtpNumbers DEF Gaps, Units
<1>2. FirstGap(G) \in G
  BY <1>1, FirstGapIn
<1> QED BY <1>1, <1>2

LEMMA ReadNextOk ==
    ASSUME FtpInv, ftp.op = "download", NEW g, GetOk(g), ReadNext(g)
    PROVE  /\ FtpShape' /\ AskInv' /\ GetInv' /\ ServerInv' /\ AirInv' /\ ftp'.op = "download"
<1>1. CASE g.gaps = {} \/ ftp.cancelRequested
  <2>1. Goes("flush", g)
    BY <1>1 DEF ReadNext
  <2> QED BY <2>1, GoesOk
<1>2. CASE ~(g.gaps = {} \/ ftp.cancelRequested)
  <2> DEFINE a == <<g.path, FirstGap(g.gaps)[1]>>
  <2>1. Request(ftp, "read", a, Tries) /\ get' = g
    BY <1>2 DEF ReadNext
  <2>2. g.gaps \in SUBSET Gaps /\ (\A i \in g.gaps : i[1] < i[2]) /\ g.gaps # {} /\ g.path \in Files
    BY <1>2 DEF GetOk, Gets
  <2>3. FirstGap(g.gaps)[1] \in Units
    BY <2>2, GapsOk
  <2>4. a \in Args /\ ArgOk("read", a)
    BY <2>2, <2>3, FtpNumbers DEF Args, ArgOk, Paths, Units
  <2> HIDE DEF a
  <2>5. "read" \in Opcodes /\ "read" \in FtpSteps[ftp.op] /\ ftp \in Ftps
    BY FtpOpSteps DEF Opcodes, FtpSteps, FtpInv
  <2>6. FtpShape' /\ AskInv' /\ ServerInv' /\ AirInv' /\ ftp'.op = "download" /\ ftp'.step = "read"
    BY <2>1, <2>4, <2>5, RequestOk DEF FtpInv
  <2>7. GetInv'
    BY <2>1, <2>2, <2>6 DEF GetInv, GetOk
  <2> QED BY <2>6, <2>7
<1> QED BY <1>1, <1>2

LEMMA BurstOk ==
    ASSUME FtpInv, ftp.op = "download", NEW g, GetOk(g), g.missing # {}, Burst(g)
    PROVE  /\ FtpShape' /\ AskInv' /\ GetInv' /\ ServerInv' /\ AirInv' /\ ftp'.op = "download"
<1> DEFINE f == [ftp EXCEPT !.seq = Allocated(@)]
           x == [opcode |-> "burst", arg |-> <<g.path>>, seq |-> Succ(ftp.seq), kind |-> "nak",
                 body |-> <<>>]
           z == [Forgetful(f) EXCEPT !.stream = FirstGap(g.missing)[1], !.bseq = ftp.seq]
<1>1. /\ get' = g /\ ask' = NoAsk
      /\ \E step \in {"flush", "burst"} : ftp' = [f EXCEPT !.step = step]
      /\ \/ air' = Aged(f) /\ server' = Forgetful(f)
         \/ Sends(Aged(f), x) /\ server' = Forgetful(f)
         \/ server.open # Nobody /\ air' = Aged(f) /\ server' = z
  BY DEF Burst
<1>2. ftp \in Ftps /\ Allocated(ftp.seq) \in Numbers /\ Succ(ftp.seq) \in Numbers
  BY FtpOpSteps, NumberNext DEF FtpInv, Ftps, Allocated
<1>3. g.path \in Files /\ g.missing \in SUBSET Gaps /\ \A i \in g.missing : i[1] < i[2]
  BY DEF GetOk, Gets
<1>4. x \in Replies /\ ReplyOk(x)
  BY <1>2, <1>3 DEF Replies, ReplyOk, BodyOk, Args, Kinds, Bodies, Paths
<1>5. f \in Ftps /\ f.op = "download"
  BY <1>2 DEF Ftps
<1>6. z \in Servers /\ z.last = NoReply /\ z.open = server.open
  <2>1. FirstGap(g.missing)[1] \in Units
    BY <1>3, GapsOk
  <2> DEFINE t == Forgetful(f)
  <2>2. t \in Servers /\ t.last = NoReply /\ t.open = server.open
    BY ServerForgets DEF FtpInv
  <2> HIDE DEF t
  <2>3. z = [t EXCEPT !.stream = FirstGap(g.missing)[1], !.bseq = ftp.seq]
    BY DEF t
  <2> QED BY <1>2, <2>1, <2>2, <2>3 DEF Servers, Ftps
<1> HIDE DEF f, x, z
<1>7. FtpShape' /\ ftp'.op = "download" /\ ftp'.step \in {"flush", "burst"}
  <2>1. PICK step \in {"flush", "burst"} : ftp' = [f EXCEPT !.step = step]
    BY <1>1
  <2>2. step \in FtpWaits /\ step \in FtpSteps["download"]
    BY DEF FtpWaits, FtpSteps
  <2> QED BY <1>5, <2>1, <2>2 DEF FtpShape, Ftps, FtpSteps
<1>8. AskInv'
  BY <1>1 DEF AskInv
<1>9. GetInv'
  BY <1>1, <1>7 DEF GetInv, GetOk
<1>10. AirOk(Aged(f))
  BY AirAged DEF FtpInv
<1>11. AirInv'
  <2>1. CASE air' = Aged(f)
    BY <1>10, <2>1 DEF AirOk, AirInv
  <2>2. CASE Sends(Aged(f), x)
    BY <1>4, <1>10, <2>2, AirSent
  <2> QED BY <1>1, <2>1, <2>2
<1>12. ServerInv'
  <2>1. CASE server' = Forgetful(f)
    BY <2>1, ServerForgets, NoReplyOk DEF FtpInv, ServerInv, Servers
  <2>2. CASE server.open # Nobody /\ server' = z
    BY <1>6, <2>2, NoReplyOk DEF ServerInv, Servers
  <2> QED BY <1>1, <2>1, <2>2
<1> QED BY <1>7, <1>8, <1>9, <1>11, <1>12

LEMMA NextPassOk ==
    ASSUME FtpInv, ftp.op = "download", NEW g, GetOk(g), NextPass(g)
    PROVE  /\ FtpShape' /\ AskInv' /\ GetInv' /\ ServerInv' /\ AirInv' /\ ftp'.op = "download"
<1> DEFINE left == remainingBytes(g.missing)
           gap  == g.fallback \/ left <= GapFill
           h    == [g EXCEPT !.before = left, !.bursting = ~gap,
                             !.gaps = IF gap THEN g.missing ELSE {}]
<1>1. CASE ftp.cancelRequested
  <2>1. Catch
    BY <1>1 DEF NextPass
  <2> QED BY <2>1, CatchOk
<1>2. CASE ~ftp.cancelRequested /\ g.missing = {}
  <2>1. Request(ftp, "crc", <<g.path>>, Tries) /\ get' = g
    BY <1>2 DEF NextPass
  <2>2. <<g.path>> \in Args /\ ArgOk("crc", <<g.path>>)
    BY DEF Args, ArgOk, Paths, GetOk
  <2>3. "crc" \in Opcodes /\ "crc" \in FtpSteps[ftp.op] /\ ftp \in Ftps
    BY FtpOpSteps DEF Opcodes, FtpSteps, FtpInv
  <2>4. FtpShape' /\ AskInv' /\ ServerInv' /\ AirInv' /\ ftp'.op = "download" /\ ftp'.step = "crc"
    BY <2>1, <2>2, <2>3, RequestOk DEF FtpInv
  <2>5. GetInv'
    BY <2>1, <2>4 DEF GetInv, GetOk
  <2> QED BY <2>4, <2>5
<1>3. CASE ~ftp.cancelRequested /\ g.missing # {}
  <2>1. IF gap THEN ReadNext(h) ELSE Burst(h)
    BY <1>3 DEF NextPass
  <2>2. left \in 0..FileLen
    <3>1. Covered(g.missing) \in SUBSET (0..(FileLen - 1)) /\ FileLen \in Nat
      BY FtpNumbers DEF GetOk, Units
    <3> QED BY <3>1, Remaining
  <2> DEFINE G == IF gap THEN g.missing ELSE {}
             b == ~gap
  <2>3. G \in SUBSET Gaps /\ G \in SUBSET g.missing /\ b \in BOOLEAN
    BY DEF GetOk, Gets
  <2>4. h = [g EXCEPT !.before = left, !.bursting = b, !.gaps = G]
    OBVIOUS
  <2> HIDE DEF left, G, b
  <2>5. h \in Gets /\ h.path = g.path /\ h.missing = g.missing /\ h.part = g.part /\ h.gaps = G
    BY <2>2, <2>3, <2>4 DEF GetOk, Gets
  <2> HIDE DEF h
  <2>6. GetOk(h) /\ h.missing # {}
    BY <1>3, <2>3, <2>5 DEF GetOk
  <2> QED BY <2>1, <2>6, ReadNextOk, BurstOk
<1> QED BY <1>1, <1>2, <1>3

LEMMA WrittenOk ==
    ASSUME NEW g, GetOk(g), NEW off \in Units, NEW data \in Files \cup {Junk},
           NEW h, h = Written(g, off, data)
    PROVE  GetOk(h)
<1> DEFINE J == subtractInterval(g.missing, off, off + 1)
           q == [g.part EXCEPT ![off] = data]
<1>1. /\ g \in Gets /\ g.missing \in SUBSET Gaps /\ g.part \in Parts /\ off \in Nat /\ off + 1 \in Nat
      /\ off < off + 1
      /\ \A i \in g.missing : i[1] \in Int /\ i[2] \in Int /\ i[1] < i[2] /\ i \in Gaps
  BY FtpNumbers DEF GetOk, Gets, Gaps, Units
<1>2. Covered(J) = Covered(g.missing) \ (off..(off + 1 - 1))
  BY <1>1, CoveredCut
<1>3. off..(off + 1 - 1) = {off}
  BY <1>1
<1>4. q \in Parts /\ q[off] = data /\ \A u \in Units : u # off => q[u] = g.part[u]
  BY <1>1 DEF Parts
<1>5. data # Hole
  BY FtpNames
<1>6. Covered(J) = {u \in Units : q[u] = Hole}
  <2>1. Covered(g.missing) = {u \in Units : g.part[u] = Hole}
    BY DEF GetOk
  <2> HIDE DEF J, q
  <2> QED BY <1>2, <1>3, <1>4, <1>5, <2>1
<1>7. ASSUME NEW j \in J PROVE j \in Gaps /\ j[1] < j[2]
  <2>1. \/ j \in g.missing
        \/ \E i \in g.missing : i[1] < off /\ off < i[2] /\ j = <<i[1], off>>
        \/ \E i \in g.missing : i[1] < off + 1 /\ off + 1 < i[2] /\ j = <<off + 1, i[2]>>
    BY <1>1, <1>7, CutPairs
  <2>2. CASE j \in g.missing
    BY <1>1, <2>2
  <2>3. CASE \E i \in g.missing : i[1] < off /\ off < i[2] /\ j = <<i[1], off>>
    <3>1. PICK i \in g.missing : i[1] < off /\ off < i[2] /\ j = <<i[1], off>>
      BY <2>3
    <3>2. i \in Gaps
      BY <1>1
    <3> QED BY <1>1, <3>1, <3>2, FtpNumbers DEF Gaps
  <2>4. CASE \E i \in g.missing : i[1] < off + 1 /\ off + 1 < i[2] /\ j = <<off + 1, i[2]>>
    <3>1. PICK i \in g.missing : i[1] < off + 1 /\ off + 1 < i[2] /\ j = <<off + 1, i[2]>>
      BY <2>4
    <3>2. i \in Gaps
      BY <1>1
    <3> QED BY <1>1, <3>1, <3>2, FtpNumbers DEF Gaps
  <2> QED BY <2>1, <2>2, <2>3, <2>4
<1>8. h = [g EXCEPT !.missing = J, !.part = q]
  BY <1>1 DEF Written, Gets
<1> HIDE DEF J, q
<1>9. /\ h \in Gets /\ h.path = g.path /\ h.missing = J /\ h.part = q /\ h.gaps = g.gaps
  BY <1>1, <1>4, <1>7, <1>8 DEF Gets
<1> QED BY <1>6, <1>7, <1>9 DEF GetOk

LEMMA Downloading ==
    ASSUME FtpInv, ftp.step \in {"dir", "reset", "open", "allocate", "read", "burst", "flush",
                                 "crc", "verify", "terminate", "cleanup"}
    PROVE  /\ ftp \in Ftps /\ ftp.op = "download" /\ get \in Gets /\ get.path \in Files
           /\ ftp.step \in {"burst", "read", "flush", "crc", "verify"} => GetOk(get)
           /\ ftp.step \in {"dir", "reset", "open", "allocate"} =>
                 get = [NoDownload EXCEPT !.path = get.path, !.opened = get.opened]
<1>1. ftp \in Ftps /\ ftp.op = "download"
  BY FtpOpSteps DEF FtpInv
<1> QED BY <1>1 DEF FtpInv, GetInv

LEMMA NothingFetched ==
    /\ NoDownload \in Gets
    /\ \A p \in Files \cup {Nobody} : \A b \in BOOLEAN :
          [NoDownload EXCEPT !.path = p, !.opened = b] \in Gets
    /\ \A p \in Files : \A b \in BOOLEAN :
          GetOk([NoDownload EXCEPT !.path = p, !.opened = b, !.missing = {<<0, FileLen>>}])
<1>1. /\ [u \in Units |-> Hole] \in Parts /\ 0 \in 0..FileLen /\ 0 \in 0..MaxPasses
      /\ {} \in SUBSET Gaps
  BY FtpNumbers DEF Parts
<1>2. NoDownload \in Gets
  BY <1>1 DEF NoDownload, Gets
<1>3. ASSUME NEW p \in Files \cup {Nobody}, NEW b \in BOOLEAN
      PROVE  [NoDownload EXCEPT !.path = p, !.opened = b] \in Gets
  BY <1>2 DEF Gets
<1>4. ASSUME NEW p \in Files, NEW b \in BOOLEAN
      PROVE  GetOk([NoDownload EXCEPT !.path = p, !.opened = b, !.missing = {<<0, FileLen>>}])
  <2> DEFINE w == {<<0, FileLen>>}
             g == [NoDownload EXCEPT !.path = p, !.opened = b, !.missing = w]
  <2>1. w \in SUBSET Gaps /\ \A i \in w : i[1] < i[2]
    BY FtpNumbers DEF Gaps
  <2>2. Covered(w) = Units
    BY FtpNumbers, WholeCovered DEF Units
  <2> HIDE DEF w
  <2>3. /\ g \in Gets /\ g.path = p /\ g.missing = w /\ g.part = [u \in Units |-> Hole]
        /\ g.gaps = {}
    BY <1>2, <2>1 DEF NoDownload, Gets
  <2> HIDE DEF g
  <2>4. {u \in Units : g.part[u] = Hole} = Units
    BY <2>3
  <2>5. GetOk(g)
    BY <2>1, <2>2, <2>3, <2>4 DEF GetOk
  <2> QED BY <2>5 DEF g, w
<1> QED BY <1>2, <1>3, <1>4

LEMMA StartDownloadKeeps ==
    ASSUME FtpInv, target \in Vehicles \cup {Nobody}, NEW p \in Files, StartDownload(p)
    PROVE  FtpInv'
<1> DEFINE f == Claimed("download", "dir")
           g == [NoDownload EXCEPT !.path = p]
<1>0. "dir" \in FtpWaits /\ Claimable
  BY DEF FtpWaits, StartDownload
<1>1. f \in Ftps /\ f.op = "download" /\ f.step = "dir" /\ ftp.op = Idle /\ ftp.step = Idle
  BY <1>0, ClaimedOk
<1>2. ftp' = f /\ get' = g /\ DownloadRest /\ UNCHANGED <<ask, server, air>>
  BY DEF StartDownload
<1> HIDE DEF f
<1>3. FtpShape' /\ ftp'.op = "download" /\ ftp'.step = "dir"
  BY <1>1, <1>2 DEF FtpShape, Ftps, FtpSteps
<1>4. ask = NoAsk
  <2> SUFFICES ASSUME ask # NoAsk PROVE FALSE
    OBVIOUS
  <2>1. ask \in Asks /\ ask.opcode = Idle
    BY <1>1 DEF FtpInv, AskInv
  <2> QED BY <2>1 DEF Asks, Opcodes, Idle
<1>5. AskInv'
  BY <1>2, <1>4 DEF AskInv
<1>6. /\ g = [NoDownload EXCEPT !.path = p, !.opened = FALSE]
      /\ g \in Gets /\ g.path = p /\ g.opened = FALSE
  <2>1. g = [NoDownload EXCEPT !.path = p, !.opened = FALSE]
    <3>1. NoDownload \in Gets /\ NoDownload.opened = FALSE
      BY NothingFetched DEF NoDownload
    <3> QED BY <3>1 DEF Gets
  <2>2. [NoDownload EXCEPT !.path = p, !.opened = FALSE] \in Gets
    BY NothingFetched
  <2>3. g.path = p /\ g.opened = FALSE
    BY DEF NoDownload
  <2> QED BY <2>1, <2>2, <2>3
<1> HIDE DEF g
<1>7. GetInv'
  BY <1>2, <1>3, <1>6 DEF GetInv
<1>8. ServerInv' /\ AirInv'
  BY <1>2 DEF FtpInv, ServerInv, AirInv
<1> QED BY <1>2, <1>3, <1>5, <1>7, <1>8, DownloadStep

LEMMA DirReadyKeeps ==
    ASSUME FtpInv, NEW ok \in BOOLEAN, DirReady(ok)
    PROVE  FtpInv'
<1>1. /\ ftp.step = "dir" /\ DownloadRest
      /\ (Request(ftp, "reset", <<>>, 2) /\ UNCHANGED get) \/ Catch
  BY DEF DirReady
<1>2. ftp \in Ftps /\ ftp.op = "download" /\ get \in Gets
  BY <1>1, Downloading
<1>3. CASE Catch
  BY <1>1, <1>2, <1>3, CatchOk, DownloadStep
<1>4. CASE Request(ftp, "reset", <<>>, 2) /\ UNCHANGED get
  <2>1. "reset" \in Opcodes /\ "reset" \in FtpSteps[ftp.op] /\ <<>> \in Args /\ ArgOk("reset", <<>>)
    BY <1>2 DEF Opcodes, FtpSteps, Args, ArgOk
  <2>2. FtpShape' /\ AskInv' /\ ServerInv' /\ AirInv' /\ ftp'.op = "download" /\ ftp'.step = "reset"
    BY <1>2, <1>4, <2>1, RequestOk DEF FtpInv
  <2>3. GetInv'
    BY <1>1, <1>2, <1>4, <2>2 DEF GetInv, FtpInv
  <2> QED BY <1>1, <2>2, <2>3, DownloadStep
<1> QED BY <1>1, <1>3, <1>4

LEMMA ResetDoneKeeps ==
    ASSUME FtpInv, ResetDone
    PROVE  FtpInv'
<1>1. /\ ftp.step = "reset" /\ DownloadRest
      /\ Request(ftp, "open", <<get.path>>, Tries) /\ UNCHANGED get
  BY DEF ResetDone, Settled
<1>2. ftp \in Ftps /\ ftp.op = "download" /\ get \in Gets /\ get.path \in Files
  BY <1>1, Downloading
<1>3. /\ "open" \in Opcodes /\ "open" \in FtpSteps[ftp.op] /\ <<get.path>> \in Args
      /\ ArgOk("open", <<get.path>>)
  BY <1>2 DEF Opcodes, FtpSteps, Args, ArgOk, Paths
<1>4. FtpShape' /\ AskInv' /\ ServerInv' /\ AirInv' /\ ftp'.op = "download" /\ ftp'.step = "open"
  BY <1>1, <1>2, <1>3, RequestOk DEF FtpInv
<1>5. GetInv'
  BY <1>1, <1>2, <1>4 DEF GetInv, FtpInv
<1> QED BY <1>1, <1>4, <1>5, DownloadStep

LEMMA OpenDoneKeeps ==
    ASSUME FtpInv, OpenDone
    PROVE  FtpInv'
<1>1. ftp.step = "open" /\ DownloadRest
  BY DEF OpenDone, Settled
<1>2. /\ ftp \in Ftps /\ ftp.op = "download" /\ get \in Gets /\ get.path \in Files
      /\ get = [NoDownload EXCEPT !.path = get.path, !.opened = get.opened]
  BY <1>1, Downloading
<1>3. CASE Catch
  BY <1>1, <1>2, <1>3, CatchOk, DownloadStep
<1>4. CASE Goes("allocate", [get EXCEPT !.opened = TRUE])
  <2> DEFINE g == [get EXCEPT !.opened = TRUE]
  <2>1. /\ ftp' = [ftp EXCEPT !.step = "allocate"] /\ ask' = NoAsk /\ get' = g
        /\ UNCHANGED <<server, air>>
    BY <1>4 DEF Goes
  <2>2. g \in Gets /\ g.path = get.path /\ g.opened = TRUE
    BY <1>2 DEF Gets
  <2>3. g = [NoDownload EXCEPT !.path = g.path, !.opened = g.opened]
    <3>1. g = [[NoDownload EXCEPT !.path = get.path, !.opened = get.opened] EXCEPT !.opened = TRUE]
      BY <1>2
    <3> HIDE DEF g
    <3>2. g = [NoDownload EXCEPT !.path = get.path, !.opened = TRUE]
      BY <3>1 DEF NoDownload
    <3> QED BY <2>2, <3>2
  <2> HIDE DEF g
  <2>4. "allocate" \in FtpSteps["download"]
    BY DEF FtpSteps
  <2>5. FtpShape' /\ AskInv' /\ ftp'.op = "download" /\ ftp'.step = "allocate"
    BY <1>2, <2>1, <2>4, StepTo
  <2>6. GetInv'
    BY <1>2, <2>1, <2>2, <2>3, <2>5 DEF GetInv
  <2>7. ServerInv' /\ AirInv'
    BY <2>1 DEF FtpInv, ServerInv, AirInv
  <2> QED BY <1>1, <2>5, <2>6, <2>7, DownloadStep
<1> QED BY <1>3, <1>4 DEF OpenDone

LEMMA AllocateKeeps ==
    ASSUME FtpInv, NEW ok \in BOOLEAN, Allocate(ok)
    PROVE  FtpInv'
<1> DEFINE g == [get EXCEPT !.missing = {<<0, FileLen>>}]
<1>1. ftp.step = "allocate" /\ DownloadRest /\ (NextPass(g) \/ Catch)
  BY DEF Allocate
<1>2. /\ ftp.op = "download" /\ get \in Gets /\ get.path \in Files /\ get.opened \in BOOLEAN
      /\ get = [NoDownload EXCEPT !.path = get.path, !.opened = get.opened]
  BY <1>1, Downloading DEF Gets
<1>3. GetOk(g)
  <2> DEFINE p == get.path
             b == get.opened
             w == {<<0, FileLen>>}
  <2>1. g = [[NoDownload EXCEPT !.path = p, !.opened = b] EXCEPT !.missing = w]
    BY <1>2
  <2>2. p \in Files /\ b \in BOOLEAN
    BY <1>2
  <2> HIDE DEF g, p, b, w
  <2>3. g = [NoDownload EXCEPT !.path = p, !.opened = b, !.missing = w]
    BY <2>1 DEF NoDownload
  <2> QED BY <2>2, <2>3, NothingFetched DEF w
<1> HIDE DEF g
<1>4. CASE Catch
  BY <1>1, <1>2, <1>4, CatchOk, DownloadStep
<1>5. CASE NextPass(g)
  BY <1>1, <1>2, <1>3, <1>5, NextPassOk, DownloadStep
<1> QED BY <1>1, <1>4, <1>5

LEMMA ReadDoneKeeps ==
    ASSUME FtpInv, ReadDone
    PROVE  FtpInv'
<1> DEFINE gap == FirstGap(get.gaps)
           rest == (get.gaps \ {gap})
                   \cup (IF gap[1] + 1 < gap[2] THEN {<<gap[1] + 1, gap[2]>>} ELSE {})
           w == Written(get, ask.got.body[1], ask.got.body[2])
           h == [w EXCEPT !.gaps = rest]
<1>1. ftp.step = "read" /\ ask # NoAsk /\ DownloadRest
  BY DEF ReadDone, Settled
<1>2. ftp.op = "download" /\ GetOk(get) /\ get.gaps # {}
  BY <1>1, Downloading DEF FtpInv, GetInv
<1>3. \/ ask.got.kind = "ack" /\ ReadNext(h)
      \/ Goes("flush", get)
      \/ Catch
  BY DEF ReadDone
<1>4. CASE Goes("flush", get)
  BY <1>1, <1>2, <1>4, GoesOk, DownloadStep
<1>5. CASE Catch
  BY <1>1, <1>2, <1>5, CatchOk, DownloadStep
<1>6. CASE ask.got.kind = "ack" /\ ReadNext(h)
  <2>1. ask.got.body \in Pieces
    <3>1. ask.opcode = "read" /\ BodyOk(ask.opcode, ask.got.kind, ask.got.body)
      BY <1>1 DEF FtpInv, AskInv
    <3> QED BY <1>6, <3>1 DEF BodyOk
  <2>2. ask.got.body[1] \in Units /\ ask.got.body[2] \in Files \cup {Junk}
    BY <2>1 DEF Pieces
  <2>3. GetOk(w)
    BY <1>2, <2>2, WrittenOk
  <2>4. get.gaps \in SUBSET Gaps /\ \A i \in get.gaps : i[1] < i[2]
    BY <1>2 DEF GetOk, Gets
  <2>5. gap \in get.gaps /\ gap[1] \in Units
    BY <1>2, <2>4, GapsOk
  <2>6. gap \in Gaps /\ gap[1] < gap[2] /\ gap[1] \in Nat /\ gap[2] \in Nat /\ gap[2] <= FileLen
    BY <2>4, <2>5, FtpNumbers DEF Gaps
  <2> HIDE DEF gap
  <2>7. rest \in SUBSET Gaps /\ \A i \in rest : i[1] < i[2]
    <3>1. CASE gap[1] + 1 < gap[2]
      <4>1. <<gap[1] + 1, gap[2]>> \in Gaps
        BY <2>6, <3>1, FtpNumbers DEF Gaps
      <4>2. \A i \in rest : i \in get.gaps \/ i = <<gap[1] + 1, gap[2]>>
        BY <3>1
      <4> HIDE DEF rest
      <4> QED BY <2>4, <3>1, <4>1, <4>2
    <3>2. CASE ~(gap[1] + 1 < gap[2])
      BY <2>4, <3>2
    <3> QED BY <3>1, <3>2
  <2> HIDE DEF rest, w
  <2>8. h \in Gets /\ h.path = w.path /\ h.missing = w.missing /\ h.part = w.part /\ h.gaps = rest
    BY <2>3, <2>7 DEF GetOk, Gets
  <2> HIDE DEF h
  <2>9. GetOk(h)
    BY <2>3, <2>7, <2>8 DEF GetOk
  <2> QED BY <1>1, <1>2, <1>6, <2>9, ReadNextOk, DownloadStep
<1> QED BY <1>3, <1>4, <1>5, <1>6

LEMMA BurstEndsKeeps ==
    ASSUME FtpInv, BurstEnds
    PROVE  FtpInv'
<1>1. ftp.step = "burst" /\ DownloadRest /\ Goes("flush", get)
  BY DEF BurstEnds
<1>2. ftp.op = "download" /\ GetOk(get)
  BY <1>1, Downloading
<1> QED BY <1>1, <1>2, GoesOk, DownloadStep

LEMMA FlushKeeps ==
    ASSUME FtpInv, NEW ok \in BOOLEAN, Flush(ok)
    PROVE  FtpInv'
<1> DEFINE g == AfterPass(get)
<1>1. /\ ftp.step = "flush" /\ DownloadRest
      /\ Catch \/ (~(g.passes >= MaxPasses) /\ NextPass(g))
  BY DEF Flush
<1>2. ftp.op = "download" /\ GetOk(get)
  BY <1>1, Downloading
<1>3. CASE Catch
  BY <1>1, <1>2, <1>3, CatchOk, DownloadStep
<1>4. CASE ~(g.passes >= MaxPasses) /\ NextPass(g)
  <2>1. get \in Gets /\ get.passes \in Nat /\ 0 \in 0..MaxPasses
    BY <1>2, FtpNumbers DEF GetOk, Gets
  <2>2. \/ g = [get EXCEPT !.passes = 0]
        \/ g = [get EXCEPT !.fallback = TRUE, !.passes = 0]
        \/ g = [get EXCEPT !.passes = get.passes + 1]
    BY <2>1 DEF AfterPass, Gets
  <2> HIDE DEF g
  <2>3. /\ g \in Gets /\ g.path = get.path /\ g.missing = get.missing /\ g.part = get.part
        /\ g.gaps = get.gaps
    <3>1. CASE g = [get EXCEPT !.passes = 0]
      BY <2>1, <3>1 DEF Gets
    <3>2. CASE g = [get EXCEPT !.fallback = TRUE, !.passes = 0]
      BY <2>1, <3>2 DEF Gets
    <3>3. CASE g = [get EXCEPT !.passes = get.passes + 1]
      <4>1. g.passes = get.passes + 1
        BY <2>1, <3>3 DEF Gets
      <4>2. get.passes + 1 \in 0..MaxPasses
        BY <1>4, <2>1, <4>1, FtpNumbers
      <4> QED BY <2>1, <3>3, <4>2 DEF Gets
    <3> QED BY <2>2, <3>1, <3>2, <3>3
  <2>4. GetOk(g)
    BY <1>2, <2>3 DEF GetOk
  <2> QED BY <1>1, <1>2, <1>4, <2>4, NextPassOk, DownloadStep
<1> QED BY <1>1, <1>3, <1>4

LEMMA CrcDoneKeeps ==
    ASSUME FtpInv, CrcDone
    PROVE  FtpInv'
<1>1. ftp.step = "crc" /\ DownloadRest /\ (Goes("verify", get) \/ Catch)
  BY DEF CrcDone, Settled
<1>2. ftp.op = "download" /\ GetOk(get)
  BY <1>1, Downloading
<1>3. CASE Catch
  BY <1>1, <1>2, <1>3, CatchOk, DownloadStep
<1>4. CASE Goes("verify", get)
  BY <1>1, <1>2, <1>4, GoesOk, DownloadStep
<1> QED BY <1>1, <1>3, <1>4

(* However the download came out, the sessions of the server are closed.     *)
LEMMA TerminateOk ==
    ASSUME FtpInv, ftp.op = "download", NEW g \in Gets, g.path \in Files, Terminate(g)
    PROVE  /\ FtpShape' /\ AskInv' /\ GetInv' /\ ServerInv' /\ AirInv'
           /\ ftp'.op \in {Idle, "download"}
<1> DEFINE f == [ftp EXCEPT !.cancelRequested = FALSE]
<1>1. CASE g.opened
  <2>1. Request(f, "terminate", <<>>, 1) /\ get' = g
    BY <1>1 DEF Terminate
  <2>2. f \in Ftps /\ f.op = "download"
    BY FtpOpSteps DEF FtpInv, Ftps
  <2> HIDE DEF f
  <2>3. /\ "terminate" \in Opcodes /\ "terminate" \in FtpSteps[f.op] /\ <<>> \in Args
        /\ ArgOk("terminate", <<>>)
    BY <2>2 DEF Opcodes, FtpSteps, Args, ArgOk
  <2>4. FtpShape' /\ AskInv' /\ ServerInv' /\ AirInv' /\ ftp'.op = "download" /\ ftp'.step = "terminate"
    BY <2>1, <2>2, <2>3, RequestOk DEF FtpInv
  <2>5. GetInv'
    BY <2>1, <2>4 DEF GetInv
  <2> QED BY <2>4, <2>5
<1>2. CASE ~g.opened
  <2>1. Release /\ get' = NoDownload /\ UNCHANGED <<server, air>>
    BY <1>2 DEF Terminate
  <2>2. FtpShape' /\ AskInv' /\ ftp'.op = Idle /\ ftp'.step = Idle
    BY <2>1, ReleaseOk DEF FtpInv
  <2>3. GetInv'
    BY <2>1, <2>2, NothingFetched DEF GetInv, Idle
  <2>4. ServerInv' /\ AirInv'
    BY <2>1 DEF FtpInv, ServerInv, AirInv
  <2> QED BY <2>2, <2>3, <2>4
<1> QED BY <1>1, <1>2

LEMMA VerifyKeeps ==
    ASSUME FtpInv, NEW ok \in BOOLEAN, Verify(ok)
    PROVE  FtpInv'
<1> DEFINE g == [get EXCEPT !.complete = TRUE]
           e == [path |-> get.path, part |-> get.part]
<1>1. /\ ftp.step = "verify" /\ UNCHANGED <<scan, del>>
      /\ \/ SameCrc(get) /\ downloads' = Registered(e) /\ Terminate(g)
         \/ Catch /\ UNCHANGED downloads
  BY DEF Verify
<1>2. ftp.op = "download" /\ GetOk(get) /\ get \in Gets /\ get.path \in Files
  BY <1>1, Downloading
<1>3. CASE Catch /\ UNCHANGED downloads
  <2>1. FtpShape' /\ AskInv' /\ GetInv' /\ ServerInv' /\ AirInv' /\ ftp'.op = "download"
    BY <1>2, <1>3, CatchOk
  <2> QED BY <1>1, <1>3, <2>1, RestKept, DownloadsKept DEF FtpInv
<1>4. CASE SameCrc(get) /\ downloads' = Registered(e) /\ Terminate(g)
  <2>1. g \in Gets /\ g.path \in Files
    BY <1>2 DEF Gets
  <2> HIDE DEF g
  <2>2. FtpShape' /\ AskInv' /\ GetInv' /\ ServerInv' /\ AirInv' /\ ftp'.op \in {Idle, "download"}
    BY <1>2, <1>4, <2>1, TerminateOk
  <2>3. e \in KeptFiles
    BY <1>2, <1>4 DEF KeptFiles, SameCrc
  <2> HIDE DEF e
  <2>4. DownloadsInv'
    <3> DEFINE all == Append(downloads, e)
               n == Len(all)
    <3>1. downloads \in Seq(KeptFiles) /\ MaxRetained \in Nat \ {0}
      BY FtpNumbers DEF FtpInv, DownloadsInv
    <3>2. all \in Seq(KeptFiles) /\ n \in Nat
      BY <2>3, <3>1, AppendProperties, LenProperties
    <3>3. downloads' = IF n > MaxRetained THEN SubSeq(all, n - MaxRetained + 1, n) ELSE all
      BY <1>4 DEF Registered
    <3> HIDE DEF all
    <3>4. CASE n > MaxRetained
      BY <3>1, <3>2, <3>3, <3>4, Newest DEF DownloadsInv
    <3>5. CASE ~(n > MaxRetained)
      BY <3>1, <3>2, <3>3, <3>5 DEF DownloadsInv
    <3> QED BY <3>4, <3>5
  <2> QED BY <1>1, <2>2, <2>4, RestKept DEF FtpInv
<1> QED BY <1>1, <1>3, <1>4

LEMMA CleanupKeeps ==
    ASSUME FtpInv, Cleanup
    PROVE  FtpInv'
<1>1. ftp.step = "cleanup" /\ Terminate(get) /\ UNCHANGED <<scan, del, downloads>>
  BY DEF Cleanup
<1>2. ftp.op = "download" /\ get \in Gets /\ get.path \in Files
  BY <1>1, Downloading
<1>3. FtpShape' /\ AskInv' /\ GetInv' /\ ServerInv' /\ AirInv' /\ ftp'.op \in {Idle, "download"}
  BY <1>1, <1>2, TerminateOk
<1> QED BY <1>1, <1>3, RestKept, DownloadsKept DEF FtpInv

LEMMA TerminateDoneKeeps ==
    ASSUME FtpInv, TerminateDone
    PROVE  FtpInv'
<1>1. Release /\ get' = NoDownload /\ UNCHANGED <<scan, del, downloads, server, air>>
  BY DEF TerminateDone
<1>2. FtpShape' /\ AskInv' /\ ftp'.op = Idle /\ ftp'.step = Idle
  BY <1>1, ReleaseOk DEF FtpInv
<1>3. GetInv'
  BY <1>1, <1>2, NothingFetched DEF GetInv, Idle
<1>4. ServerInv' /\ AirInv'
  BY <1>1 DEF FtpInv, ServerInv, AirInv
<1> QED BY <1>1, <1>2, <1>3, <1>4, RestKept, DownloadsKept DEF FtpInv
-----------------------------------------------------------------------------
(* Frames that come and frames that do not.                                  *)
LEMMA HandlesKeeps ==
    ASSUME FtpInv, HandleFtpPayload
    PROVE  FtpInv'
<1> DEFINE x == air[1]
           seq == Advanced(ftp.seq, x.seq)
<1>1. /\ air # <<>> /\ air' = Tail(air) /\ UNCHANGED <<scan, del, downloads, server>>
      /\ \/ /\ Matches(x) /\ ask' = [ask EXCEPT !.got = [kind |-> x.kind, arg |-> x.arg, body |-> x.body]]
            /\ ftp' = [ftp EXCEPT !.seq = Advanced(@, x.seq)] /\ UNCHANGED get
         \/ /\ ftp.step = "burst" /\ x.opcode = "burst"
            /\ ftp' = [ftp EXCEPT !.seq = Advanced(@, x.seq),
                                  !.step = IF x.kind = "ack" THEN "burst" ELSE "flush"]
            /\ get' = IF x.kind = "nak" THEN get ELSE Written(get, x.body[1], x.body[2])
            /\ UNCHANGED ask
         \/ UNCHANGED <<ask, ftp, get>>
  BY DEF HandleFtpPayload
<1>2. air \in Seq(Replies) /\ Len(air) <= AirLimit /\ \A i \in 1..Len(air) : ReplyOk(air[i])
  BY DEF FtpInv, AirInv
<1>3. x \in Replies /\ ReplyOk(x)
  BY <1>1, <1>2, Popped
<1>4. AirInv'
  <2> DEFINE t == Tail(air)
  <2>1. /\ t \in Seq(Replies) /\ Len(t) <= Len(air)
        /\ \A i \in 1..Len(t) : \E k \in 1..Len(air) : t[i] = air[k]
    BY <1>1, <1>2, PoppedFrom
  <2> HIDE DEF t
  <2>2. Len(t) \in Nat /\ Len(air) \in Nat
    BY <1>2, <2>1, LenProperties
  <2>3. Len(t) <= AirLimit
    BY <1>2, <2>1, <2>2, FtpNumbers
  <2>4. air' = t
    BY <1>1 DEF t
  <2> QED BY <1>2, <2>1, <2>3, <2>4 DEF AirInv
<1>5. ServerInv' /\ DownloadsInv'
  BY <1>1 DEF FtpInv, ServerInv, DownloadsInv
<1>6. ftp \in Ftps /\ ftp.seq \in Numbers /\ x.seq \in Numbers
  BY <1>3, FtpOpSteps DEF FtpInv, Ftps, Replies
<1>7. seq \in Numbers
  BY <1>6, NumberNext
<1> HIDE DEF x, seq
<1>8. CASE UNCHANGED <<ask, ftp, get>>
  BY <1>1, <1>4, <1>5, <1>8
     DEF FtpInv, FtpShape, AskInv, GetInv, ScanInv, DelInv
<1>9. CASE /\ Matches(x)
           /\ ask' = [ask EXCEPT !.got = [kind |-> x.kind, arg |-> x.arg, body |-> x.body]]
           /\ ftp' = [ftp EXCEPT !.seq = Advanced(@, x.seq)] /\ UNCHANGED get
  <2>1. ftp' = [ftp EXCEPT !.seq = seq]
    BY <1>6, <1>9 DEF seq, Ftps
  <2>2. FtpShape' /\ ftp'.op = ftp.op /\ ftp'.step = ftp.step
    BY <1>6, <1>7, <2>1 DEF FtpInv, FtpShape, Ftps
  <2> DEFINE q == [kind |-> x.kind, arg |-> x.arg, body |-> x.body]
  <2>3. /\ q \in [kind : Kinds, arg : Args, body : Bodies] /\ q.kind = x.kind /\ q.body = x.body
    BY <1>3 DEF Replies
  <2>4. ask # NoAsk /\ x.opcode = ask.opcode /\ ask' = [ask EXCEPT !.got = q]
    BY <1>9 DEF Matches
  <2>5. ask \in Asks /\ ask.opcode = ftp.step /\ ArgOk(ask.opcode, ask.arg)
    BY <2>4 DEF FtpInv, AskInv
  <2> HIDE DEF q
  <2>6. /\ ask' \in Asks /\ ask'.opcode = ask.opcode /\ ask'.arg = ask.arg /\ ask'.got = q
    BY <2>3, <2>4, <2>5 DEF Asks
  <2>7. AskInv'
    BY <1>3, <2>2, <2>3, <2>4, <2>5, <2>6 DEF AskInv, ReplyOk
  <2>8. GetInv' /\ ScanInv' /\ DelInv'
    BY <1>1, <1>9, <2>2 DEF FtpInv, GetInv, ScanInv, DelInv
  <2> QED BY <1>4, <1>5, <2>2, <2>7, <2>8 DEF FtpInv
<1>10. CASE /\ ftp.step = "burst" /\ x.opcode = "burst"
            /\ ftp' = [ftp EXCEPT !.seq = Advanced(@, x.seq),
                                  !.step = IF x.kind = "ack" THEN "burst" ELSE "flush"]
            /\ get' = IF x.kind = "nak" THEN get ELSE Written(get, x.body[1], x.body[2])
            /\ UNCHANGED ask
  <2> PICK step \in {"burst", "flush"} : ftp' = [ftp EXCEPT !.seq = Advanced(@, x.seq), !.step = step]
    BY <1>10
  <2>1. ftp' = [ftp EXCEPT !.seq = seq, !.step = step] /\ step \in FtpWaits
    BY <1>6 DEF seq, Ftps, FtpWaits
  <2>2. ftp.op = "download" /\ GetOk(get)
    BY <1>10, Downloading
  <2>3. FtpShape' /\ ftp'.op = "download" /\ ftp'.step = step
    <3>1. step \in FtpSteps["download"]
      BY DEF FtpSteps
    <3>2. ftp' \in Ftps /\ ftp'.op = "download" /\ ftp'.step = step
      BY <1>6, <1>7, <2>1, <2>2 DEF Ftps
    <3> QED BY <3>1, <3>2 DEF FtpShape, Ftps
  <2>4. ask = NoAsk
    <3> SUFFICES ASSUME ask # NoAsk PROVE FALSE
      OBVIOUS
    <3>1. ask \in Asks /\ ask.opcode = "burst"
      BY <1>10 DEF FtpInv, AskInv
    <3> QED BY <3>1 DEF Asks, Opcodes
  <2>5. AskInv'
    BY <1>10, <2>4 DEF AskInv
  <2>6. GetOk(get')
    <3>1. CASE x.kind = "nak"
      BY <1>10, <2>2, <3>1
    <3>2. CASE x.kind # "nak"
      <4>1. x.body \in Pieces
        BY <1>3, <1>10, <3>2 DEF ReplyOk, BodyOk
      <4>2. x.body[1] \in Units /\ x.body[2] \in Files \cup {Junk}
        BY <4>1 DEF Pieces
      <4>3. get' = Written(get, x.body[1], x.body[2])
        BY <1>10, <3>2
      <4> QED BY <2>2, <4>2, <4>3, WrittenOk
    <3> QED BY <3>1, <3>2
  <2>7. GetInv'
    BY <2>3, <2>6 DEF GetInv, GetOk
  <2>8. ScanInv' /\ DelInv'
    BY <1>1, <2>3, RestKept
  <2> QED BY <1>4, <1>5, <2>3, <2>5, <2>7, <2>8 DEF FtpInv
<1> QED BY <1>1, <1>8, <1>9, <1>10 DEF x

LEMMA RequestTimeoutKeeps ==
    ASSUME FtpInv, RequestTimeout
    PROVE  FtpInv'
<1> DEFINE r == Again(ask.seq)
<1>1. /\ ask # NoAsk /\ UNCHANGED transferVars
      /\ \/ Settle(r, "failed") /\ UNCHANGED <<ftp, server, air>>
         \/ ask.left > 1 /\ UNCHANGED ftp /\ Serve(ftp, r, FALSE)
  BY DEF RequestTimeout, Retransmit
<1>2. ask \in Asks /\ ask.opcode = ftp.step /\ ArgOk(ask.opcode, ask.arg) /\ ask.ran \in Nat
  BY <1>1 DEF FtpInv, AskInv, Asks
<1>3. /\ r.opcode = ask.opcode /\ r.arg = ask.arg /\ r.seq = ask.seq /\ r.left = ask.left - 1
      /\ r.opcode \in Opcodes /\ r.arg \in Args /\ r.seq \in Numbers
  BY <1>2 DEF Again, Asks
<1>4. UNCHANGED <<ftp, get, scan, del, downloads>>
  BY <1>1 DEF transferVars
<1>5. FtpShape' /\ GetInv' /\ ScanInv' /\ DelInv' /\ DownloadsInv'
  BY <1>4 DEF FtpInv, FtpShape, GetInv, ScanInv, DelInv, DownloadsInv
<1>6. CASE Settle(r, "failed") /\ UNCHANGED <<ftp, server, air>>
  <2> HIDE DEF r
  <2>1. /\ ask' \in Asks /\ ask'.opcode = r.opcode /\ ask'.arg = r.arg /\ ask'.got.kind = "failed"
    BY <1>3, <1>6, SettleOk
  <2>2. AskInv'
    BY <1>2, <1>3, <1>6, <2>1 DEF AskInv, BodyOk, Opcodes
  <2>3. ServerInv' /\ AirInv'
    BY <1>6 DEF FtpInv, ServerInv, AirInv
  <2> QED BY <1>5, <2>2, <2>3 DEF FtpInv
<1>7. CASE ask.left > 1 /\ UNCHANGED ftp /\ Serve(ftp, r, FALSE)
  <2>1. r \in Writings
    <3>1. ask.left - 1 \in 0..Tries \cup {1, 2}
      <4>1. ask.left \in 0..Tries \cup {1, 2}
        BY <1>2 DEF Asks
      <4> QED BY <1>7, <4>1, FtpNumbers
    <3> QED BY <1>3, <3>1 DEF Writings, Again
  <2> HIDE DEF r
  <2>2. /\ ServerInv' /\ AirInv'
        /\ ask' \in Asks /\ ask'.opcode = r.opcode /\ ask'.arg = r.arg /\ ask'.got = Waiting
    BY <1>2, <1>3, <1>7, <2>1, ServeOk DEF FtpInv
  <2>3. AskInv'
    BY <1>2, <1>3, <1>7, <2>2 DEF AskInv, BodyOk, Waiting, Opcodes
  <2> QED BY <1>5, <2>2, <2>3 DEF FtpInv
<1> QED BY <1>1, <1>6, <1>7

LEMMA ServerStreamsKeeps ==
    ASSUME FtpInv, ServerStreams
    PROVE  FtpInv'
<1>1. /\ server.stream # NoStream
      /\ UNCHANGED <<ftp, ask, get, scan, del, downloads>>
  BY DEF ServerStreams, transferVars
<1>2. FtpShape' /\ AskInv' /\ GetInv' /\ ScanInv' /\ DelInv' /\ DownloadsInv'
  BY <1>1 DEF FtpInv, FtpShape, AskInv, GetInv, ScanInv, DelInv, DownloadsInv
<1>3. /\ server \in Servers /\ server.stream \in Units /\ server.open \in Files
      /\ server.bseq \in Numbers /\ ReplyOk(server.last)
  BY <1>1 DEF FtpInv, ServerInv, Servers
<1> DEFINE final == server.stream = FileLen - 1
           z == [server EXCEPT !.stream = IF final THEN NoStream ELSE server.stream + 1,
                               !.bseq = Succ(server.bseq)]
<1> PICK data \in {server.open, Junk} :
      LET frame == [opcode |-> "burst", arg |-> <<server.open>>, seq |-> Succ(server.bseq),
                    kind |-> IF final THEN "done" ELSE "ack", body |-> <<server.stream, data>>]
      IN Sends(air, frame) /\ server' = z
  <2>1. z = [server EXCEPT !.stream = IF final THEN NoStream ELSE @ + 1, !.bseq = Succ(@)]
    BY <1>3 DEF Servers
  <2> HIDE DEF z
  <2> QED BY <2>1 DEF ServerStreams
<1> DEFINE frame == [opcode |-> "burst", arg |-> <<server.open>>, seq |-> Succ(server.bseq),
                     kind |-> IF final THEN "done" ELSE "ack", body |-> <<server.stream, data>>]
<1>4. Sends(air, frame) /\ server' = z
  OBVIOUS
<1>5. Succ(server.bseq) \in Numbers
  BY <1>3, NumberNext
<1>6. frame \in Replies /\ ReplyOk(frame)
  <2>1. <<server.stream, data>> \in Pieces /\ <<server.open>> \in Args
    BY <1>3 DEF Pieces, Args, Paths
  <2> DEFINE k == IF final THEN "done" ELSE "ack"
  <2>2. k \in Kinds
    BY DEF Kinds
  <2> HIDE DEF final
  <2> QED BY <1>5, <2>1, <2>2 DEF Replies, Bodies, ReplyOk, BodyOk
<1>7. z \in Servers /\ z.open = server.open /\ z.last = server.last
  <2> DEFINE n == IF final THEN NoStream ELSE server.stream + 1
  <2>1. n \in Units \cup {NoStream}
    <3>1. CASE final
      BY <3>1
    <3>2. CASE ~final
      <4>1. server.stream + 1 \in Units
        <5>1. FileLen \in Nat \ {0} /\ server.stream \in 0..(FileLen - 1) /\ server.stream # FileLen - 1
          BY <1>3, <3>2, FtpNumbers DEF Units
        <5> QED BY ONLY <5>1 DEF Units
      <4> QED BY <3>2, <4>1
    <3> QED BY <3>1, <3>2
  <2> HIDE DEF n
  <2> QED BY <1>3, <1>5, <2>1 DEF Servers, n
<1> HIDE DEF frame, z
<1>8. ServerInv'
  BY <1>3, <1>4, <1>7, FtpNames DEF ServerInv, Servers
<1>9. AirInv'
  <2>1. AirOk(air)
    BY AirAged DEF FtpInv
  <2> QED BY <1>4, <1>6, <2>1, AirSent
<1> QED BY <1>2, <1>8, <1>9 DEF FtpInv

LEMMA ConsumeDownloadKeeps ==
    ASSUME FtpInv, ConsumeDownload
    PROVE  FtpInv'
<1>1. /\ \E i \in DOMAIN downloads : downloads' = RemoveAt(downloads, i)
      /\ UNCHANGED <<ftp, ask, get, scan, del, server, air>>
  BY DEF ConsumeDownload
<1>2. downloads \in Seq(KeptFiles) /\ Len(downloads) <= MaxRetained
  BY DEF FtpInv, DownloadsInv
<1>3. DOMAIN downloads = 1..Len(downloads) /\ Len(downloads) \in Nat
  BY <1>2, LenProperties
<1> PICK i \in 1..Len(downloads) : downloads' = RemoveAt(downloads, i)
  BY <1>1, <1>3
<1>4. RemoveAt(downloads, i) \in Seq(KeptFiles) /\ Len(RemoveAt(downloads, i)) <= Len(downloads)
  BY <1>2, RemovedFrom
<1>5. Len(downloads') \in Nat /\ downloads' \in Seq(KeptFiles)
  BY <1>4, LenProperties
<1>6. DownloadsInv'
  BY <1>2, <1>3, <1>4, <1>5, FtpNumbers DEF DownloadsInv
<1>7. FtpShape' /\ AskInv' /\ GetInv' /\ ScanInv' /\ DelInv' /\ ServerInv' /\ AirInv'
  BY <1>1 DEF FtpInv, FtpShape, AskInv, GetInv, ScanInv, DelInv, ServerInv, AirInv
<1> QED BY <1>6, <1>7 DEF FtpInv

(* cancelAll() and what a lost link or the end of the bridge takes away.     *)
LEMMA FtpCancelKeeps ==
    ASSUME FtpInv, FtpCancel, UNCHANGED <<get, scan, del, server>>,
           air' \in {air, <<>>}, downloads' \in {downloads, <<>>}
    PROVE  FtpInv'
<1>1. ftp' = [ftp EXCEPT !.cancelRequested = TRUE]
  BY DEF FtpCancel
<1>2. FtpShape' /\ ftp'.op = ftp.op /\ ftp'.step = ftp.step
  BY <1>1 DEF FtpInv, FtpShape
<1>3. AskInv'
  <2>1. CASE ~(ask # NoAsk /\ ask.got = Waiting)
    <3>1. ask' = ask
      BY <2>1 DEF FtpCancel
    <3> QED BY <1>2, <3>1 DEF FtpInv, AskInv
  <2>2. CASE ask # NoAsk /\ ask.got = Waiting
    <3> DEFINE q == [Waiting EXCEPT !.kind = "cancelled"]
    <3>1. q \in [kind : Kinds, arg : Args, body : Bodies] /\ q.kind = "cancelled"
      BY DEF Waiting, Kinds, Args, Bodies
    <3>2. ask' = [ask EXCEPT !.got = q]
      BY <2>2 DEF FtpCancel
    <3>3. ask \in Asks /\ ask.opcode = ftp.step /\ ArgOk(ask.opcode, ask.arg)
      BY <2>2 DEF FtpInv, AskInv
    <3> HIDE DEF q
    <3>4. ask' \in Asks /\ ask'.opcode = ask.opcode /\ ask'.arg = ask.arg /\ ask'.got = q
      BY <3>1, <3>2, <3>3 DEF Asks
    <3> QED BY <1>2, <3>1, <3>3, <3>4 DEF AskInv, BodyOk, Asks, Opcodes
  <2> QED BY <2>1, <2>2
<1>4. GetInv' /\ ScanInv' /\ DelInv' /\ ServerInv'
  BY <1>2 DEF FtpInv, GetInv, ScanInv, DelInv, ServerInv
<1>e. /\ <<>> \in Seq(Replies) /\ <<>> \in Seq(KeptFiles) /\ Len(<<>>) = 0
      /\ \A i \in 1..0 : FALSE
  BY EmptySeq
<1>5. AirInv'
  <2>1. CASE air' = <<>>
    BY <1>e, <2>1, FtpNumbers DEF AirInv
  <2>2. CASE air' = air
    BY <2>2 DEF FtpInv, AirInv
  <2> QED BY <2>1, <2>2
<1>6. DownloadsInv'
  <2>1. CASE downloads' = <<>>
    BY <1>e, <2>1, FtpNumbers DEF DownloadsInv
  <2>2. CASE downloads' = downloads
    BY <2>2 DEF FtpInv, DownloadsInv
  <2> QED BY <2>1, <2>2
<1> QED BY <1>2, <1>3, <1>4, <1>5, <1>6 DEF FtpInv

LEMMA FtpBegins == FtpInit => FtpInv
<1> SUFFICES ASSUME FtpInit PROVE FtpInv
  OBVIOUS
<1>e. /\ <<>> \in Seq(Replies) /\ <<>> \in Seq(KeptFiles) /\ <<>> \in Seq(Todos)
      /\ <<>> \in Seq(Paths) /\ Len(<<>>) = 0 /\ \A i \in 1..0 : FALSE
  BY EmptySeq
<1>1. FtpShape
  BY FtpNumbers DEF FtpInit, FtpShape, FtpSteps, FtpWaits, Idle
<1>2. ftp.step = Idle /\ ftp.op = Idle
  BY DEF FtpInit
<1>3. AskInv
  BY DEF FtpInit, AskInv
<1>4. GetInv
  BY <1>2, NothingFetched DEF FtpInit, GetInv, Idle
<1>5. ScanInv
  BY <1>2, NothingListed DEF FtpInit, ScanInv, Idle
<1>6. DelInv
  <2>1. del = NoDelete
    BY DEF FtpInit
  <2>2. del \in Dels /\ del.todo = <<>> /\ del.work = <<>> /\ del.done = 0
    BY <1>e, <2>1 DEF NoDelete, Dels
  <2>3. TodoOk(del.todo)
    BY <1>e, <2>2 DEF TodoOk
  <2>4. Len(del.work) <= MaxItems + MaxDepth
    BY <1>e, <2>2, FtpNumbers
  <2> QED BY <1>2, <2>2, <2>3, <2>4 DEF DelInv, Idle
<1>7. DownloadsInv /\ AirInv
  BY <1>e, FtpNumbers DEF FtpInit, DownloadsInv, AirInv
<1>8. ServerInv
  BY NoReplyOk, FtpNumbers DEF FtpInit, ServerInv
<1> QED BY <1>1, <1>3, <1>4, <1>5, <1>6, <1>7, <1>8 DEF FtpInv

LEMMA FtpStepKeeps ==
    ASSUME FtpInv, FtpStep
    PROVE  FtpInv'
<1>1. ASSUME NEW ok \in BOOLEAN, DirReady(ok) \/ Allocate(ok) \/ Flush(ok) \/ Verify(ok)
      PROVE  FtpInv'
  BY <1>1, DirReadyKeeps, AllocateKeeps, FlushKeeps, VerifyKeeps
<1>2. CASE FtpResumes
  <2>1. CASE ListFails \/ RemoveFails
    BY <2>1, FailsOk DEF ListFails, RemoveFails
  <2> QED BY <1>1, <1>2, <2>1, PageListedKeeps, ListDoneKeeps, ChildrenListedKeeps,
             RemoveNextKeeps, DeleteDoneKeeps, ResetDoneKeeps, OpenDoneKeeps, ReadDoneKeeps,
             CrcDoneKeeps, CleanupKeeps, TerminateDoneKeeps
          DEF FtpResumes
<1> QED BY <1>2, RequestTimeoutKeeps, BurstEndsKeeps, HandlesKeeps, ServerStreamsKeeps,
           ConsumeDownloadKeeps DEF FtpStep
-----------------------------------------------------------------------------
(* What a step writes, and for whom.  f is the operation that goes on: the   *)
(* running one or the one that starts.                                       *)
FtpMove(f) ==
    /\ ftp'.op \in {f.op, Idle}
    /\ ftp'.op # Idle =>
         /\ ftp'.step # "terminate" =>
              ftp'.home = f.home /\ ftp'.cancelRequested = f.cancelRequested
         /\ f.step = "terminate" => ftp'.step = "terminate"
    /\ sent'.kind \in Strays \/ (f.op # Idle /\ ~f.cancelRequested /\ f.step # "terminate"
                                  /\ sent'.to = target /\ sent'.on = link /\ sent'.home = f.home)
    /\ ask' # NoAsk /\ ask'.got = Waiting /\ ftp'.step # "terminate" => ~ftp'.cancelRequested

LEMMA NothingSent == NoFrame.kind \in Strays
BY DEF NoFrame, Strays

LEMMA MoveRequest ==
    ASSUME NEW f \in Ftps, f.op # Idle, NEW opcode, NEW arg, NEW n, Request(f, opcode, arg, n),
           (f.step # "terminate" /\ opcode # "terminate")
           \/ (opcode = "terminate" /\ f.cancelRequested = FALSE)
    PROVE  FtpMove(f)
<1> DEFINE g == [f EXCEPT !.seq = Allocated(@), !.step = opcode]
           r == [opcode |-> opcode, arg |-> arg, seq |-> f.seq, left |-> n]
<1>1. /\ ftp' = g
      /\ \/ Settle(r, IF f.cancelRequested THEN "cancelled" ELSE "failed")
         \/ /\ ~f.cancelRequested /\ Serve(g, r, TRUE) /\ sent' = Frame(opcode, f.home)
  BY DEF Request
<1>2. /\ ftp'.op = f.op /\ ftp'.step = opcode /\ ftp'.home = f.home
      /\ ftp'.cancelRequested = f.cancelRequested
  BY <1>1 DEF Ftps
<1> HIDE DEF g, r
<1>3. CASE Settle(r, IF f.cancelRequested THEN "cancelled" ELSE "failed")
  <2>1. sent' = NoFrame /\ ask'.got # Waiting
    <3>1. PICK k \in {"cancelled", "failed"} : Settle(r, k)
      BY <1>3
    <3>2. sent' = NoFrame /\ ask'.got = [Waiting EXCEPT !.kind = k]
      BY <3>1 DEF Settle
    <3> QED BY <3>2 DEF Waiting
  <2> QED BY <1>2, <2>1, NothingSent DEF FtpMove
<1>4. CASE ~f.cancelRequested /\ sent' = Frame(opcode, f.home)
  <2>1. /\ sent'.kind = opcode /\ sent'.to = target /\ sent'.on = link /\ sent'.home = f.home
    BY <1>4 DEF Frame
  <2> QED BY <1>2, <1>4, <2>1 DEF FtpMove, Strays
<1> QED BY <1>1, <1>3, <1>4

LEMMA MoveOn ==
    ASSUME FtpShape, NEW s, s # "terminate", ftp.step # "terminate",
           ftp' = [ftp EXCEPT !.step = s], ask' = NoAsk, sent' = NoFrame
    PROVE  FtpMove(ftp)
BY NothingSent DEF FtpMove, FtpShape

LEMMA MoveEnds ==
    ASSUME NEW f, FtpShape, Release, sent' = NoFrame
    PROVE  FtpMove(f)
BY NothingSent DEF FtpMove, Release, FtpShape

LEMMA MoveCatches ==
    ASSUME FtpShape, ftp.step # "terminate", Catch
    PROVE  FtpMove(ftp)
BY MoveOn DEF Catch

LEMMA MoveGoes ==
    ASSUME FtpShape, ftp.step # "terminate", NEW s, s # "terminate", NEW g, Goes(s, g)
    PROVE  FtpMove(ftp)
BY MoveOn DEF Goes

LEMMA MoveReads ==
    ASSUME FtpShape, ftp.op # Idle, ftp.step # "terminate", NEW g, ReadNext(g)
    PROVE  FtpMove(ftp)
<1>1. ftp \in Ftps
  BY FtpOpSteps
<1>2. Goes("flush", g) \/ Request(ftp, "read", <<g.path, FirstGap(g.gaps)[1]>>, Tries)
  BY DEF ReadNext
<1> QED BY <1>1, <1>2, MoveGoes, MoveRequest

LEMMA MoveBursts ==
    ASSUME FtpShape, ftp.op # Idle, ftp.step # "terminate", ~ftp.cancelRequested, NEW g, Burst(g)
    PROVE  FtpMove(ftp)
<1> DEFINE f == [ftp EXCEPT !.seq = Allocated(@)]
<1>1. /\ ask' = NoAsk
      /\ \/ ftp' = [f EXCEPT !.step = "flush"] /\ sent' = NoFrame
         \/ ftp' = [f EXCEPT !.step = "burst"] /\ sent' = Frame("burst", ftp.home)
  BY DEF Burst
<1>2. ftp \in Ftps
  BY FtpOpSteps
<1>4. /\ ftp'.op = ftp.op /\ ftp'.home = ftp.home /\ ftp'.cancelRequested = ftp.cancelRequested
      /\ ftp'.step \in {"flush", "burst"}
  BY <1>1, <1>2 DEF Ftps
<1>5. sent' = NoFrame \/ sent' = Frame("burst", ftp.home)
  BY <1>1
<1>6. \/ sent'.kind \in Strays
      \/ sent'.to = target /\ sent'.on = link /\ sent'.home = ftp.home
  BY <1>5, NothingSent DEF Frame
<1> QED BY <1>1, <1>4, <1>6 DEF FtpMove

LEMMA MovePasses ==
    ASSUME FtpShape, ftp.op # Idle, ftp.step # "terminate", NEW g, NextPass(g)
    PROVE  FtpMove(ftp)
<1>1. ftp \in Ftps
  BY FtpOpSteps
<1>2. \/ Catch
      \/ Request(ftp, "crc", <<g.path>>, Tries)
      \/ \E h : ReadNext(h)
      \/ ~ftp.cancelRequested /\ \E h : Burst(h)
  BY DEF NextPass
<1>3. CASE Request(ftp, "crc", <<g.path>>, Tries)
  BY <1>1, <1>3, MoveRequest
<1>4. CASE \E h : ReadNext(h)
  BY <1>4, MoveReads
<1>5. CASE ~ftp.cancelRequested /\ \E h : Burst(h)
  BY <1>5, MoveBursts
<1> QED BY <1>2, <1>3, <1>4, <1>5, MoveCatches

LEMMA MoveTerminates ==
    ASSUME FtpShape, ftp.op # Idle, ftp.step # "terminate", NEW g, Terminate(g)
    PROVE  FtpMove(ftp)
<1> DEFINE f == [ftp EXCEPT !.cancelRequested = FALSE]
<1>1. CASE Release /\ sent' = NoFrame
  BY <1>1, MoveEnds
<1>2. CASE Request(f, "terminate", <<>>, 1)
  <2>1. f \in Ftps /\ f.op = ftp.op /\ f.cancelRequested = FALSE
    BY FtpOpSteps DEF Ftps
  <2> HIDE DEF f
  <2>2. FtpMove(f)
    BY <1>2, <2>1, MoveRequest
  <2>3. ftp'.step = "terminate" /\ ftp'.op = f.op
    BY <1>2, <2>1 DEF Request, Ftps
  <2>4. sent'.kind \in Strays
    <3>1. sent' = NoFrame \/ sent' = Frame("terminate", f.home)
      BY <1>2 DEF Request, Settle
    <3>2. CASE sent' = NoFrame
      BY <3>2, NothingSent
    <3>3. CASE sent' = Frame("terminate", f.home)
      BY <3>3 DEF Frame, Strays
    <3> QED BY <3>1, <3>2, <3>3
  <2> QED BY <2>1, <2>3, <2>4 DEF FtpMove
<1> QED BY <1>1, <1>2 DEF Terminate

LEMMA MoveExpands ==
    ASSUME FtpShape, NEW f \in Ftps, f.op # Idle, f.step # "terminate", NEW d, Expands(f, d)
    PROVE  FtpMove(f)
<1>1. \/ Release /\ sent' = NoFrame
      \/ \E e : AskRemove(f, e)
      \/ \E s : AskPage(f, s)
  BY DEF Expands, Fails
<1>2. CASE \E e : AskRemove(f, e)
  <2> PICK e : AskRemove(f, e)
    BY <1>2
  <2> DEFINE p == e.work[e.done + 1]
             o == IF p \in Dirs THEN "removeDir" ELSE "removeFile"
  <2>1. Request(f, o, <<p>>, Tries)
    BY DEF AskRemove
  <2>2. o # "terminate"
    OBVIOUS
  <2> HIDE DEF o, p
  <2> QED BY <2>1, <2>2, MoveRequest
<1>3. CASE \E s : AskPage(f, s)
  BY <1>3, MoveRequest DEF AskPage
<1> QED BY <1>1, <1>2, <1>3, MoveEnds

(* The part of the state that decides where a request may go.                *)
FtpHome ==
    /\ ftp.op # Idle /\ ~ftp.cancelRequested /\ ftp.step # "terminate" =>
         ftp.home = target /\ link = "up"
    /\ ask # NoAsk /\ ask.got = Waiting /\ ftp.step # "terminate" => ~ftp.cancelRequested
LogHome ==
    logOp.op # "idle" /\ ~logOp.cancelRequested => logOp.home = target /\ link = "up"

LEMMA FtpMoves ==
    ASSUME FtpInv, FtpHome, FtpStep
    PROVE  FtpMove(ftp)
<1>0. FtpShape /\ ftp \in Ftps
  BY FtpOpSteps DEF FtpInv
<1>1. CASE PageListed
  <2>1. Request(ftp, "list", <<Listed.dir, Listed.offset>>, Tries) /\ ftp.step = "list"
    BY <1>1 DEF PageListed, AskPage, Acked, Settled
  <2> QED BY <1>0, <2>1, FtpOpSteps, MoveRequest DEF Idle
<1>2. CASE ListFails \/ RemoveFails
  BY <1>0, <1>2, MoveEnds DEF ListFails, RemoveFails, Fails
<1>3. CASE ListDone \/ DeleteDone \/ TerminateDone
  BY <1>0, <1>3, MoveEnds DEF ListDone, DeleteDone, TerminateDone
<1>4. CASE ChildrenListed
  <2>1. ftp.op = "delete" /\ ftp.step = "list" /\ \E d : Expands(ftp, d)
    BY <1>4 DEF ChildrenListed, DirectoryEnds, Settled
  <2> QED BY <1>0, <2>1, MoveExpands DEF Idle
<1>5. CASE RemoveNext
  <2>1. ftp.step \in {"removeFile", "removeDir"} /\ \E d : AskRemove(ftp, d)
    BY <1>5 DEF RemoveNext, Removing, Settled
  <2>2. PICK d : AskRemove(ftp, d)
    BY <2>1
  <2> DEFINE p == d.work[d.done + 1]
             o == IF p \in Dirs THEN "removeDir" ELSE "removeFile"
  <2>3. Request(ftp, o, <<p>>, Tries)
    BY <2>2 DEF AskRemove
  <2>4. o # "terminate"
    OBVIOUS
  <2> HIDE DEF o, p
  <2> QED BY <1>0, <2>1, <2>3, <2>4, FtpOpSteps, MoveRequest DEF Idle
<1>6. CASE ResetDone
  <2>1. ftp.step = "reset" /\ Request(ftp, "open", <<get.path>>, Tries)
    BY <1>6 DEF ResetDone, Settled
  <2> QED BY <1>0, <2>1, FtpOpSteps, MoveRequest DEF Idle
<1>7. CASE OpenDone \/ CrcDone
  <2>1. ftp.step \in {"open", "crc"} /\ (Catch \/ \E s \in {"allocate", "verify"} : \E g : Goes(s, g))
    BY <1>7 DEF OpenDone, CrcDone, Settled
  <2> QED BY <1>0, <2>1, MoveCatches, MoveGoes
<1>8. CASE ReadDone
  <2>1. ftp.step = "read" /\ (Catch \/ (\E g : Goes("flush", g)) \/ (\E g : ReadNext(g)))
    BY <1>8 DEF ReadDone, Settled
  <2>2. ftp.op # Idle
    BY <1>0, <2>1, FtpOpSteps DEF Idle
  <2> QED BY <1>0, <2>1, <2>2, MoveCatches, MoveGoes, MoveReads
<1>9. CASE Cleanup
  BY <1>0, <1>9, FtpOpSteps, MoveTerminates DEF Cleanup, Idle
<1>10. ASSUME NEW ok \in BOOLEAN, DirReady(ok) \/ Allocate(ok) \/ Flush(ok) \/ Verify(ok)
       PROVE  FtpMove(ftp)
  <2>1. /\ ftp.step \in {"dir", "allocate", "flush", "verify"}
        /\ \/ Catch
           \/ Request(ftp, "reset", <<>>, 2)
           \/ \E g : NextPass(g)
           \/ \E g : Terminate(g)
    BY <1>10 DEF DirReady, Allocate, Flush, Verify
  <2>2. ftp.op # Idle
    BY <1>0, <2>1, FtpOpSteps DEF Idle
  <2>3. CASE Request(ftp, "reset", <<>>, 2)
    BY <1>0, <2>1, <2>2, <2>3, MoveRequest
  <2>4. CASE \E g : NextPass(g)
    BY <1>0, <2>1, <2>2, <2>4, MovePasses
  <2>5. CASE \E g : Terminate(g)
    BY <1>0, <2>1, <2>2, <2>5, MoveTerminates
  <2> QED BY <1>0, <2>1, <2>3, <2>4, <2>5, MoveCatches
<1>11. CASE BurstEnds
  BY <1>0, <1>11, MoveGoes DEF BurstEnds
<1>12. CASE RequestTimeout
  <2>1. /\ ask # NoAsk /\ ask.got = Waiting /\ UNCHANGED ftp
        /\ sent' = NoFrame \/ sent' = Frame(ask.opcode, ftp.home)
    BY <1>12 DEF RequestTimeout, Settle, Retransmit
  <2>2. ask \in Asks /\ ask.opcode = ftp.step
    BY <2>1 DEF FtpInv, AskInv
  <2>3. ftp.op # Idle
    BY <1>0, <2>2, FtpOpSteps DEF Asks, Opcodes, Idle
  <2>4. ftp.step # "terminate" => ~ftp.cancelRequested
    BY <2>1 DEF FtpHome
  <2>5. \/ sent'.kind \in Strays
        \/ /\ ftp.step # "terminate" /\ sent'.to = target /\ sent'.on = link
           /\ sent'.home = ftp.home
    <3>1. CASE sent' = NoFrame
      BY <3>1, NothingSent
    <3>2. CASE sent' = Frame(ask.opcode, ftp.home)
      <4>1. sent'.kind = ftp.step /\ sent'.to = target /\ sent'.on = link /\ sent'.home = ftp.home
        BY <2>2, <3>2 DEF Frame
      <4> QED BY <4>1 DEF Strays
    <3> QED BY <2>1, <3>1, <3>2
  <2> QED BY <2>1, <2>3, <2>4, <2>5 DEF FtpMove
<1>13. CASE HandleFtpPayload
  <2>1. sent' = NoFrame
    BY <1>13 DEF HandleFtpPayload
  <2>2. /\ \/ \E n : ftp' = [ftp EXCEPT !.seq = n]
           \/ ftp.step = "burst" /\ \E n, s : s # "terminate" /\ ftp' = [ftp EXCEPT !.seq = n, !.step = s]
           \/ UNCHANGED ftp
        /\ ask' = ask \/ (ask # NoAsk /\ ask.got = Waiting)
    BY <1>13 DEF HandleFtpPayload, Matches
  <2>3. /\ ftp'.op = ftp.op /\ ftp'.home = ftp.home /\ ftp'.cancelRequested = ftp.cancelRequested
        /\ ftp'.step = ftp.step \/ (ftp.step # "terminate" /\ ftp'.step # "terminate")
    BY <1>0, <2>2 DEF Ftps
  <2>4. ask' # NoAsk /\ ask'.got = Waiting => ask # NoAsk /\ ask.got = Waiting
    BY <2>2
  <2> QED BY <2>1, <2>3, <2>4, NothingSent DEF FtpMove, FtpHome
<1>14. CASE ServerStreams \/ ConsumeDownload
  <2>1. sent' = NoFrame /\ UNCHANGED <<ftp, ask>>
    BY <1>14 DEF ServerStreams, ConsumeDownload
  <2> QED BY <2>1, NothingSent DEF FtpMove, FtpHome
<1> QED BY <1>1, <1>2, <1>3, <1>4, <1>5, <1>6, <1>7, <1>8, <1>9, <1>10, <1>11, <1>12, <1>13, <1>14
        DEF FtpStep, FtpResumes

LogMove ==
    /\ logOp'.op \in {logOp.op, "idle"}
    /\ logOp'.op # "idle" =>
         logOp'.home = logOp.home /\ logOp'.cancelRequested = logOp.cancelRequested
    /\ sent'.kind \in Strays \/ (logOp.op # "idle" /\ ~logOp.cancelRequested
                                  /\ sent'.to = target /\ sent'.on = link /\ sent'.home = logOp.home)

LEMMA LogStays ==
    ASSUME LogShape, logOp' = logOp \/ \E s : LogGoes(s),
           sent' = NoFrame \/ \E k \in {"log end", "log list"} : \E h : sent' = Frame(k, h)
    PROVE  LogMove
<1>1. logOp'.op = logOp.op /\ logOp'.home = logOp.home /\ logOp'.cancelRequested = logOp.cancelRequested
  BY DEF LogShape, LogGoes
<1>2. sent'.kind \in Strays
  <2>1. CASE sent' = NoFrame
    BY <2>1, NothingSent
  <2>2. CASE \E k \in {"log end", "log list"} : \E h : sent' = Frame(k, h)
    <3>1. PICK k \in {"log end", "log list"} : \E h : sent' = Frame(k, h)
      BY <2>2
    <3>2. PICK h : sent' = Frame(k, h)
      BY <3>1
    <3>3. sent'.kind = k
      BY <3>2 DEF Frame
    <3> QED BY <3>3 DEF Strays
  <2> QED BY <2>1, <2>2
<1> QED BY <1>1, <1>2 DEF LogMove

LEMMA LogLeaves ==
    ASSUME LogShape, NEW t, NEW entries, LogReleases(t, entries),
           sent' = NoFrame \/ \E k \in {"log end", "log list"} : \E h : sent' = Frame(k, h)
    PROVE  LogMove
<1>1. logOp'.op = "idle"
  BY DEF LogShape, LogReleases
<1>2. sent'.kind \in Strays
  <2>1. CASE sent' = NoFrame
    BY <2>1, NothingSent
  <2>2. CASE \E k \in {"log end", "log list"} : \E h : sent' = Frame(k, h)
    <3>1. PICK k \in {"log end", "log list"} : \E h : sent' = Frame(k, h)
      BY <2>2
    <3>2. PICK h : sent' = Frame(k, h)
      BY <3>1
    <3>3. sent'.kind = k
      BY <3>2 DEF Frame
    <3> QED BY <3>3 DEF Strays
  <2> QED BY <2>1, <2>2
<1> QED BY <1>1, <1>2 DEF LogMove

LEMMA LogPasses1 ==
    ASSUME LogShape, logOp.op # "idle", NEW g, DataPass(g)
    PROVE  LogMove
<1>1. \/ sent' = NoFrame /\ \E s : LogGoes(s)
      \/ ~logOp.cancelRequested /\ sent' = Frame("log data", logOp.home) /\ LogGoes("stream")
  BY DEF DataPass, LogCatch
<1>2. CASE ~logOp.cancelRequested /\ sent' = Frame("log data", logOp.home) /\ LogGoes("stream")
  <2>1. logOp'.op = logOp.op /\ logOp'.home = logOp.home /\ logOp'.cancelRequested = logOp.cancelRequested
    BY <1>2 DEF LogShape, LogGoes
  <2>2. sent'.to = target /\ sent'.on = link /\ sent'.home = logOp.home
    BY <1>2 DEF Frame
  <2> QED BY <1>2, <2>1, <2>2 DEF LogMove
<1> QED BY <1>1, <1>2, LogStays

LEMMA LogMoved ==
    ASSUME LogInv, LogStep
    PROVE  LogMove
<1>0. LogShape
  BY DEF LogInv
<1>1. CASE LogListed \/ LogListFails \/ EraseDone \/ EraseFails
  BY <1>0, <1>1, LogLeaves DEF LogListed, LogListFails, EraseDone, EraseFails
<1>2. CASE LogCleanup
  BY <1>0, <1>2, LogLeaves DEF LogCleanup, LogEnd
<1>3. CASE LogSized \/ EraseAgain
  BY <1>0, <1>3, LogStays DEF LogSized, LogCatch, EraseAgain
<1>4. CASE EraseDelayEnds
  BY <1>0, <1>4, LogStays DEF EraseDelayEnds, CollectList, RequestWindow
<1>5. ASSUME NEW ok \in BOOLEAN, LogDirReady(ok)
      PROVE  LogMove
  BY <1>0, <1>5, LogStays DEF LogDirReady, LogCatch, CollectList, RequestWindow
<1>6. ASSUME NEW ok \in BOOLEAN, LogAllocate(ok) \/ LogFlush(ok)
      PROVE  LogMove
  <2>1. /\ logOp.step \in {"allocate", "flush"}
        /\ LogCatch \/ \E g : DataPass(g)
    BY <1>6 DEF LogAllocate, LogFlush
  <2>2. logOp.op # "idle"
    BY <1>0, <2>1, LogOpSteps
  <2> QED BY <1>0, <2>1, <2>2, LogStays, LogPasses1 DEF LogCatch
<1>7. ASSUME NEW ok \in BOOLEAN, LogRename(ok)
      PROVE  LogMove
  <2>1. \/ LogReleases("log_download_complete", <<>>) /\ LogEnd
        \/ LogCatch
    BY <1>7 DEF LogRename
  <2>2. CASE LogCatch
    BY <1>0, <2>2, LogStays DEF LogCatch
  <2> QED BY <1>0, <2>1, <2>2, LogLeaves DEF LogEnd
<1>8. CASE ListQuiet
  BY <1>0, <1>8, LogStays DEF ListQuiet, RequestWindow
<1>9. CASE HandleLogEntry \/ HandleLogData \/ DataPassEnds
  BY <1>0, <1>9, LogStays DEF HandleLogEntry, HandleLogData, DataPassEnds
<1>10. CASE VehicleStreams \/ VehicleBabbles \/ VehicleErases \/ ConsumeLog
  BY <1>0, <1>10, LogStays DEF VehicleStreams, VehicleBabbles, VehicleErases, ConsumeLog
<1> QED BY <1>1, <1>2, <1>3, <1>4, <1>5, <1>6, <1>7, <1>8, <1>9, <1>10 DEF LogStep, LogResumes

(* Nothing is reported of logs by a file transfer.                           *)
LEMMA FtpSays ==
    ASSUME FtpStep
    PROVE  said'.type \notin {"log_list", "log_erase_done"}
<1>1. ASSUME NEW ok \in BOOLEAN, DirReady(ok) \/ Allocate(ok) \/ Flush(ok) \/ Verify(ok)
      PROVE  said' = Quiet
  BY <1>1 DEF DirReady, Allocate, Flush, Verify, DownloadRest
<1>2. CASE ListFails \/ RemoveFails \/ ListDone \/ DeleteDone \/ Cleanup \/ TerminateDone
  <2>1. CASE ListFails \/ RemoveFails
    BY <2>1 DEF ListFails, RemoveFails, Fails, Quiet
  <2>2. CASE ListDone
    BY <2>2 DEF ListDone
  <2>3. CASE DeleteDone
    BY <2>3 DEF DeleteDone, Quiet
  <2>4. CASE Cleanup
    BY <2>4 DEF Cleanup, Quiet
  <2>5. CASE TerminateDone
    BY <2>5 DEF TerminateDone, Quiet
  <2> QED BY <1>2, <2>1, <2>2, <2>3, <2>4, <2>5
<1>3. CASE ChildrenListed
  <2>1. \E d : Expands(ftp, d)
    BY <1>3 DEF ChildrenListed
  <2>2. said' = Quiet \/ said' = [Quiet EXCEPT !.type = "fs_op_error"]
    BY <2>1 DEF Expands, Fails
  <2> QED BY <2>2 DEF Quiet
<1>4. CASE PageListed \/ RemoveNext \/ ResetDone \/ OpenDone \/ ReadDone \/ CrcDone
  BY <1>4 DEF PageListed, RemoveNext, ResetDone, OpenDone, ReadDone, CrcDone, DownloadRest, Quiet
<1>5. CASE RequestTimeout \/ BurstEnds \/ HandleFtpPayload \/ ServerStreams \/ ConsumeDownload
  BY <1>5 DEF RequestTimeout, BurstEnds, HandleFtpPayload, ServerStreams, ConsumeDownload,
              DownloadRest, Quiet
<1> QED BY <1>1, <1>2, <1>3, <1>4, <1>5 DEF FtpStep, FtpResumes, Quiet

(* A step of one transfer does not touch the bridge.                         *)
LEMMA LinkKept ==
    ASSUME FtpStep \/ LogStep
    PROVE  UNCHANGED linkVars
<1>1. ASSUME NEW ok \in BOOLEAN, DirReady(ok) \/ Allocate(ok) \/ Flush(ok) \/ Verify(ok)
      PROVE  UNCHANGED linkVars
  BY <1>1 DEF DirReady, Allocate, Flush, Verify, DownloadRest
<1>2. CASE ListFails \/ RemoveFails \/ ListDone \/ DeleteDone \/ Cleanup \/ TerminateDone
  BY <1>2 DEF ListFails, RemoveFails, Fails, ListDone, DeleteDone, Cleanup, TerminateDone
<1>3. CASE ChildrenListed
  <2>1. \E d : Expands(ftp, d)
    BY <1>3 DEF ChildrenListed
  <2> QED BY <2>1 DEF Expands, Fails
<1>4. CASE PageListed \/ RemoveNext \/ ResetDone \/ OpenDone \/ ReadDone \/ CrcDone
  BY <1>4 DEF PageListed, RemoveNext, ResetDone, OpenDone, ReadDone, CrcDone, DownloadRest
<1>5. CASE RequestTimeout \/ BurstEnds \/ HandleFtpPayload \/ ServerStreams \/ ConsumeDownload
  BY <1>5 DEF RequestTimeout, BurstEnds, HandleFtpPayload, ServerStreams, ConsumeDownload,
              DownloadRest
<1>6. ASSUME NEW ok \in BOOLEAN, LogDirReady(ok) \/ LogAllocate(ok) \/ LogFlush(ok) \/ LogRename(ok)
      PROVE  UNCHANGED linkVars
  BY <1>6 DEF LogDirReady, LogAllocate, LogFlush, LogRename, LogRest
<1>7. CASE LogListed \/ LogListFails \/ LogSized \/ LogCleanup \/ EraseDone \/ EraseAgain \/ EraseFails
  BY <1>7 DEF LogListed, LogListFails, LogSized, LogCleanup, EraseDone, EraseAgain, EraseFails, LogRest
<1>8. CASE ListQuiet \/ HandleLogEntry \/ HandleLogData \/ DataPassEnds \/ EraseDelayEnds
           \/ VehicleStreams \/ VehicleBabbles \/ VehicleErases \/ ConsumeLog
  BY <1>8 DEF ListQuiet, HandleLogEntry, HandleLogData, DataPassEnds, EraseDelayEnds,
              VehicleStreams, VehicleBabbles, VehicleErases, ConsumeLog, LogRest
<1> QED BY <1>1, <1>2, <1>3, <1>4, <1>5, <1>6, <1>7, <1>8
        DEF FtpStep, FtpResumes, LogStep, LogResumes
-----------------------------------------------------------------------------
(* The whole: both transfers behind their gates.                             *)
BridgeShape ==
    /\ link \in {"up", "down", "raw"} /\ target \in Homes /\ destroyed \in BOOLEAN
    /\ loading \in BOOLEAN /\ page \in Offers

WholeInv ==
    /\ BridgeShape /\ FtpInv /\ LogInv /\ FtpHome /\ LogHome
    /\ OneTransfer /\ OwnVehicleOnly /\ LogsReportedTrue

LEMMA NothingWritten == ASSUME sent' = NoFrame PROVE OwnVehicleOnly'
BY NothingSent DEF OwnVehicleOnly

LEMMA NothingReported ==
    ASSUME said'.type \notin {"log_list", "log_erase_done"}
    PROVE  LogsReportedTrue'
BY DEF LogsReportedTrue

LEMMA QuietReports == ASSUME said' = Quiet PROVE LogsReportedTrue'
BY NothingReported DEF Quiet

LEMMA WholeBegins == TransferInit => WholeInv
<1> SUFFICES ASSUME TransferInit PROVE WholeInv
  OBVIOUS
<1>1. FtpInv /\ LogInv
  BY FtpBegins, LogBegins DEF TransferInit
<1>2. BridgeShape
  BY LinkAssumption DEF TransferInit, BridgeShape, Homes
<1>3. ftp.op = Idle /\ logOp.op = "idle" /\ loading = FALSE /\ ask = NoAsk
  BY DEF TransferInit, FtpInit, LogInit
<1>4. FtpHome /\ LogHome /\ OneTransfer
  BY <1>3 DEF FtpHome, LogHome, OneTransfer, ftpBusy, logBusy
<1>5. OwnVehicleOnly /\ LogsReportedTrue
  BY NothingSent DEF TransferInit, OwnVehicleOnly, LogsReportedTrue, Quiet
<1> QED BY <1>1, <1>2, <1>4, <1>5 DEF WholeInv

LEMMA WholeFtpStep ==
    ASSUME WholeInv, FtpStep, UNCHANGED <<page, loading, logVars>>
    PROVE  WholeInv'
<1>1. FtpInv' /\ FtpMove(ftp) /\ UNCHANGED linkVars
  BY FtpStepKeeps, FtpMoves, LinkKept DEF WholeInv
<1>2. BridgeShape'
  BY <1>1 DEF WholeInv, BridgeShape, linkVars
<1>3. LogInv'
  BY DEF WholeInv, LogInv, LogShape, RollInv, FetchInv, VehicleInv, LogAirInv, LogFilesInv, logVars
<1>4. FtpHome'
  BY <1>1 DEF WholeInv, FtpHome, FtpMove, linkVars
<1>5. LogHome'
  BY <1>1 DEF WholeInv, LogHome, linkVars, logVars
<1>6. OneTransfer'
  BY <1>1 DEF WholeInv, OneTransfer, FtpMove, ftpBusy, logBusy, logVars
<1>7. OwnVehicleOnly'
  BY <1>1 DEF WholeInv, FtpHome, FtpMove, OwnVehicleOnly
<1>8. LogsReportedTrue'
  BY FtpSays, NothingReported
<1> QED BY <1>1, <1>2, <1>3, <1>4, <1>5, <1>6, <1>7, <1>8 DEF WholeInv

LEMMA WholeLogStep ==
    ASSUME WholeInv, LogStep, UNCHANGED <<page, loading, ftpVars>>
    PROVE  WholeInv'
<1>1. LogInv' /\ LogMove /\ UNCHANGED linkVars /\ LogsReportedTrue'
  BY LogStepKeeps, LogMoved, LogReports, LinkKept DEF WholeInv
<1>2. BridgeShape'
  BY <1>1 DEF WholeInv, BridgeShape, linkVars
<1>3. FtpInv'
  BY DEF WholeInv, FtpInv, FtpShape, AskInv, GetInv, ScanInv, DelInv, DownloadsInv, ServerInv,
         AirInv, ftpVars
<1>4. LogHome'
  BY <1>1 DEF WholeInv, LogHome, LogMove, linkVars
<1>5. FtpHome'
  BY <1>1 DEF WholeInv, FtpHome, linkVars, ftpVars
<1>6. OneTransfer'
  BY <1>1 DEF WholeInv, OneTransfer, LogMove, ftpBusy, logBusy, ftpVars
<1>7. OwnVehicleOnly'
  BY <1>1 DEF WholeInv, LogHome, LogMove, OwnVehicleOnly
<1> QED BY <1>1, <1>2, <1>3, <1>4, <1>5, <1>6, <1>7 DEF WholeInv

(* A request of the page: an operation starts on the selected vehicle.       *)
FtpStarts(f) ==
    /\ f \in Ftps /\ f.op # Idle /\ f.step # "terminate" /\ f.cancelRequested = FALSE
    /\ f.home = target

LEMMA ClaimStarts ==
    ASSUME FtpInv, target \in Homes, Claimable,
           NEW op \in {"list", "download", "delete"}, NEW step \in {Idle, "dir"}
    PROVE  FtpStarts(Claimed(op, step)) /\ ftp.op = Idle
<1> DEFINE f == Claimed(op, step)
<1>1. step \in FtpWaits /\ step # "terminate" /\ op # Idle
  BY DEF FtpWaits, Idle
<1>2. ftp \in Ftps /\ ftp.op = Idle
  BY FtpOpSteps DEF FtpInv, Claimable, ftpBusy
<1>3. f \in Ftps /\ f.op = op /\ f.step = step /\ f.cancelRequested = FALSE /\ f.home = target
  BY <1>1, <1>2 DEF Claimed, Ftps, Homes
<1> HIDE DEF f
<1>4. FtpStarts(f)
  BY <1>1, <1>3 DEF FtpStarts
<1> QED BY <1>2, <1>4 DEF f

LEMMA FtpStartMoves ==
    ASSUME FtpInv, target \in Homes,
           \/ \E d \in Dirs : StartList(d)
           \/ \E p \in Files : StartDownload(p)
           \/ \E s \in Selections : StartDelete(s)
    PROVE  \E f : FtpStarts(f) /\ FtpMove(f)
<1>0. FtpShape
  BY DEF FtpInv
<1>1. ASSUME NEW d \in Dirs, StartList(d)
      PROVE  \E f : FtpStarts(f) /\ FtpMove(f)
  <2> DEFINE f == Claimed("list", Idle)
             s == [NoScan EXCEPT !.dir = d]
  <2>1. FtpStarts(f)
    BY <1>1, ClaimStarts DEF StartList
  <2>2. Request(f, "list", <<s.dir, s.offset>>, Tries)
    BY <1>1 DEF StartList, AskPage
  <2> HIDE DEF f, s
  <2>3. FtpMove(f)
    BY <2>1, <2>2, MoveRequest DEF FtpStarts
  <2> QED BY <2>1, <2>3
<1>2. ASSUME NEW p \in Files, StartDownload(p)
      PROVE  \E f : FtpStarts(f) /\ FtpMove(f)
  <2> DEFINE f == Claimed("download", "dir")
  <2>1. FtpStarts(f) /\ ftp.op = Idle
    BY <1>2, ClaimStarts DEF StartDownload
  <2>2. ftp' = f /\ ask' = ask /\ sent' = NoFrame
    BY <1>2 DEF StartDownload
  <2> HIDE DEF f
  <2>3. ask' = NoAsk
    BY <2>1, <2>2, <1>0, FtpOpSteps DEF FtpInv, AskInv, Asks, Opcodes, Idle
  <2>4. FtpMove(f)
    BY <2>1, <2>2, <2>3, NothingSent DEF FtpMove, FtpStarts
  <2> QED BY <2>1, <2>4
<1>3. ASSUME NEW selection \in Selections, StartDelete(selection)
      PROVE  \E f : FtpStarts(f) /\ FtpMove(f)
  <2> DEFINE f == Claimed("delete", Idle)
  <2>1. FtpStarts(f)
    BY <1>3, ClaimStarts DEF StartDelete
  <2>2. \E d : Expands(f, d)
    BY <1>3 DEF StartDelete
  <2> HIDE DEF f
  <2>3. FtpMove(f)
    BY <1>0, <2>1, <2>2, MoveExpands DEF FtpStarts
  <2> QED BY <2>1, <2>3
<1> QED BY <1>1, <1>2, <1>3

LEMMA WholeStarts ==
    ASSUME WholeInv, PageStarts, UNCHANGED page
    PROVE  WholeInv'
<1>0. /\ FtpInv /\ LogInv /\ FtpShape /\ LogShape /\ target \in Homes
      /\ link = "up" /\ target # Nobody /\ loading' = loading
  BY DEF WholeInv, BridgeShape, FtpInv, LogInv, PageStarts, ReadyTarget
<1>1. CASE /\ FtpAvailable /\ UNCHANGED logVars
           /\ \/ \E d \in Dirs : StartList(d)
              \/ \E p \in Files : StartDownload(p)
              \/ \E s \in Selections : StartDelete(s)
  <2>1. FtpInv' /\ said'.type \notin {"log_list", "log_erase_done"} /\ UNCHANGED linkVars
    <3>1. ASSUME NEW d \in Dirs, StartList(d)
          PROVE  FtpInv' /\ said' = Quiet /\ UNCHANGED linkVars
      BY <1>0, <3>1, StartListKeeps DEF StartList, Homes
    <3>2. ASSUME NEW p \in Files, StartDownload(p)
          PROVE  FtpInv' /\ said' = Quiet /\ UNCHANGED linkVars
      BY <1>0, <3>2, StartDownloadKeeps DEF StartDownload, DownloadRest, Homes
    <3>3. ASSUME NEW selection \in Selections, StartDelete(selection)
          PROVE  /\ FtpInv' /\ said' \in {Quiet, [Quiet EXCEPT !.type = "fs_op_error"]}
                 /\ UNCHANGED linkVars
      <4>1. FtpInv'
        BY <1>0, <3>3, StartDeleteKeeps DEF Homes
      <4>2. PICK f : \E d : Expands(f, d)
        BY <3>3 DEF StartDelete
      <4>3. PICK d : Expands(f, d)
        BY <4>2
      <4> QED BY <4>1, <4>3 DEF Expands, Fails
    <3>4. /\ Quiet.type \notin {"log_list", "log_erase_done"}
          /\ [Quiet EXCEPT !.type = "fs_op_error"].type \notin {"log_list", "log_erase_done"}
      BY DEF Quiet
    <3> QED BY <1>1, <3>1, <3>2, <3>3, <3>4
  <2>2. PICK f : FtpStarts(f) /\ FtpMove(f)
    BY <1>0, <1>1, FtpStartMoves
  <2>3. BridgeShape' /\ LogHome'
    BY <1>0, <1>1, <2>1 DEF WholeInv, BridgeShape, LogHome, linkVars, logVars
  <2>4. LogInv'
    BY <1>1 DEF WholeInv, LogInv, LogShape, RollInv, FetchInv, VehicleInv, LogAirInv, LogFilesInv, logVars
  <2>5. FtpHome'
    BY <1>0, <2>1, <2>2 DEF FtpHome, FtpMove, FtpStarts, linkVars
  <2>6. OneTransfer'
    BY <1>0, <1>1 DEF OneTransfer, FtpAvailable, logBusy, logVars
  <2>7. OwnVehicleOnly'
    BY <1>0, <2>2 DEF FtpMove, FtpStarts, OwnVehicleOnly
  <2>8. LogsReportedTrue'
    BY <2>1, NothingReported
  <2> QED BY <2>1, <2>3, <2>4, <2>5, <2>6, <2>7, <2>8 DEF WholeInv
<1>2. CASE /\ LogAvailable /\ UNCHANGED ftpVars
           /\ \/ StartLogList \/ StartErase
              \/ \E id \in Ids : StartLogDownload(id)
  <2>1. LogInv'
    BY <1>0, <1>2, LogStartsKeep
  <2>2. /\ said' \in {Quiet, [Quiet EXCEPT !.type = "log_op_error"]} /\ UNCHANGED linkVars
        /\ \/ logOp' = logOp /\ sent' = NoFrame
           \/ /\ logOp'.home = target
              /\ \/ sent' = NoFrame
                 \/ sent' = Frame("log list", target)
                 \/ sent' = Frame("log erase", target)
    <3>1. CASE StartLogList
      BY <3>1 DEF StartLogList, LogRest, LogClaimed, CollectList, RequestWindow
    <3>2. CASE StartErase
      <4>1. UNCHANGED linkVars
        BY <3>2 DEF StartErase
      <4>2. \/ /\ sent' = NoFrame /\ said' = [Quiet EXCEPT !.type = "log_op_error"]
               /\ logOp' = logOp
            \/ /\ LogClaimed("erase", "delay") /\ said' = Quiet
               /\ sent' = Frame("log erase", target)
        BY <3>2 DEF StartErase
      <4>3. LogClaimed("erase", "delay") => logOp'.home = target
        BY DEF LogClaimed
      <4> QED BY <4>1, <4>2, <4>3
    <3>3. ASSUME NEW id \in Ids, StartLogDownload(id)
          PROVE  said' = Quiet /\ UNCHANGED linkVars /\ logOp'.home = target /\ sent' = NoFrame
      BY <3>3 DEF StartLogDownload, LogRest, LogClaimed
    <3> QED BY <1>2, <3>1, <3>2, <3>3
  <2>3. LogsReportedTrue'
    <3>1. CASE said' = Quiet
      BY <3>1, QuietReports
    <3>2. CASE said' = [Quiet EXCEPT !.type = "log_op_error"]
      BY <3>2, NothingReported DEF Quiet
    <3> QED BY <2>2, <3>1, <3>2
  <2>4. OwnVehicleOnly'
    <3>1. CASE sent' = NoFrame
      BY <3>1, NothingWritten
    <3>2. CASE sent' = Frame("log list", target)
      BY <3>2 DEF Frame, OwnVehicleOnly, Strays
    <3>3. CASE sent' = Frame("log erase", target)
      BY <1>0, <3>3 DEF Frame, OwnVehicleOnly
    <3> QED BY <2>2, <3>1, <3>2, <3>3
  <2>5. BridgeShape' /\ FtpHome'
    BY <1>0, <1>2, <2>2 DEF WholeInv, BridgeShape, FtpHome, linkVars, ftpVars
  <2>6. FtpInv'
    BY <1>2 DEF WholeInv, FtpInv, FtpShape, AskInv, GetInv, ScanInv, DelInv, DownloadsInv, ServerInv,
           AirInv, ftpVars
  <2>7. LogHome'
    BY <1>0, <2>2 DEF WholeInv, LogHome, linkVars
  <2>8. OneTransfer'
    BY <1>0, <1>2 DEF OneTransfer, LogAvailable, ftpBusy, ftpVars
  <2> QED BY <2>1, <2>3, <2>4, <2>5, <2>6, <2>7, <2>8 DEF WholeInv
<1> QED BY <1>1, <1>2 DEF PageStarts

(* Cancelled from outside: what runs keeps its home but not its right to     *)
(* write, and at most the end of a log is announced.                         *)
LEMMA CancelMoves ==
    ASSUME FtpShape, FtpCancel
    PROVE  /\ ftp'.op = ftp.op /\ ftp'.cancelRequested = TRUE
           /\ ~(ask' # NoAsk /\ ask'.got = Waiting)
<1>1. [Waiting EXCEPT !.kind = "cancelled"] # Waiting
  BY DEF Waiting
<1>2. ftp' = [ftp EXCEPT !.cancelRequested = TRUE]
  BY DEF FtpCancel
<1>3. ftp'.op = ftp.op /\ ftp'.cancelRequested = TRUE
  BY <1>2 DEF FtpShape
<1>4. CASE ask # NoAsk /\ ask.got = Waiting
  <2>1. ask' = [ask EXCEPT !.got = [Waiting EXCEPT !.kind = "cancelled"]]
    BY <1>4 DEF FtpCancel
  <2> QED BY <1>1, <1>3, <1>4, <2>1
<1>5. CASE ~(ask # NoAsk /\ ask.got = Waiting)
  BY <1>3, <1>5 DEF FtpCancel
<1> QED BY <1>4, <1>5

LEMMA LogCancelMoves ==
    ASSUME LogShape, LogCancel
    PROVE  /\ logOp'.op = logOp.op /\ (logOp'.op # "idle" => logOp'.cancelRequested = TRUE)
           /\ OwnVehicleOnly'
<1>1. CASE ~logBusy
  <2>1. logOp' = logOp /\ sent' = NoFrame
    BY <1>1 DEF LogCancel
  <2> QED BY <1>1, <2>1, NothingWritten DEF logBusy
<1>2. CASE logBusy
  <2>1. /\ logOp' = [logOp EXCEPT !.cancelRequested = TRUE]
        /\ sent' \in {NoFrame, Frame("log end", logOp.home)}
    BY <1>2 DEF LogCancel
  <2>2. OwnVehicleOnly'
    <3>1. CASE sent' = NoFrame
      BY <3>1, NothingWritten
    <3>2. CASE sent' = Frame("log end", logOp.home)
      BY <3>2 DEF Frame, OwnVehicleOnly, Strays
    <3> QED BY <2>1, <3>1, <3>2
  <2> QED BY <2>1, <2>2 DEF LogShape
<1> QED BY <1>1, <1>2

LEMMA WholeCancelled ==
    ASSUME WholeInv, FtpCancel, LogCancel, UNCHANGED <<get, scan, del, server, roll, fetch, rounds>>,
           air' \in {air, <<>>}, logAir' \in {logAir, <<>>},
           downloads' \in {downloads, <<>>}, logFiles' \in {logFiles, <<>>},
           BridgeShape', loading' = FALSE, said' = Quiet
    PROVE  WholeInv'
<1>1. FtpInv' /\ LogInv'
  BY FtpCancelKeeps, LogCancelKeeps DEF WholeInv
<1>2. /\ ftp'.op = ftp.op /\ ftp'.cancelRequested = TRUE
      /\ ~(ask' # NoAsk /\ ask'.got = Waiting)
      /\ logOp'.op = logOp.op /\ (logOp'.op # "idle" => logOp'.cancelRequested = TRUE)
      /\ OwnVehicleOnly'
  BY CancelMoves, LogCancelMoves DEF WholeInv, FtpInv, LogInv
<1>3. FtpHome' /\ LogHome'
  BY <1>2 DEF FtpHome, LogHome
<1>4. OneTransfer'
  BY <1>2 DEF WholeInv, OneTransfer, ftpBusy, logBusy
<1> QED BY <1>1, <1>2, <1>3, <1>4, QuietReports DEF WholeInv

LEMMA WholeEnds ==
    ASSUME WholeInv, UNCHANGED page,
           ActivateTarget \/ LinkChanges \/ PauseProtocol \/ Destroy
    PROVE  WholeInv'
<1>1. Found \subseteq Homes
  BY LinkAssumption DEF Found, Homes
<1>2. BridgeShape'
  <2>1. CASE ActivateTarget
    BY <1>1, <2>1 DEF WholeInv, BridgeShape, ActivateTarget, CancelProtocolOperations
  <2>2. CASE LinkChanges \/ PauseProtocol \/ Destroy
    BY <2>2 DEF WholeInv, BridgeShape, LinkChanges, PauseProtocol, Destroy,
                CancelProtocolOperations, Homes
  <2> QED BY <2>1, <2>2
<1>3. /\ FtpCancel /\ LogCancel /\ UNCHANGED <<get, scan, del, server, roll, fetch, rounds>>
      /\ air' \in {air, <<>>} /\ logAir' \in {logAir, <<>>}
      /\ downloads' \in {downloads, <<>>} /\ logFiles' \in {logFiles, <<>>}
      /\ loading' = FALSE /\ said' = Quiet
  BY DEF ActivateTarget, LinkChanges, PauseProtocol, Destroy, CancelProtocolOperations, transferVars
<1> QED BY <1>2, <1>3, WholeCancelled

(* The parameter download and the return of the link start nothing.          *)
LEMMA WholeRests ==
    ASSUME WholeInv, UNCHANGED page, ParamStarts \/ ParamEnds \/ ResumeProtocol
    PROVE  WholeInv'
<1>1. UNCHANGED <<ftpVars, logVars>> /\ sent' = NoFrame /\ said' = Quiet
  BY DEF ParamStarts, ParamEnds, ResumeProtocol
<1>2. FtpInv'
  BY <1>1 DEF WholeInv, FtpInv, FtpShape, AskInv, GetInv, ScanInv, DelInv, DownloadsInv, ServerInv,
         AirInv, ftpVars
<1>3. LogInv'
  BY <1>1 DEF WholeInv, LogInv, LogShape, RollInv, FetchInv, VehicleInv, LogAirInv, LogFilesInv, logVars
<1>4. BridgeShape'
  BY DEF WholeInv, BridgeShape, ParamStarts, ParamEnds, ResumeProtocol, linkVars, Homes
<1>5. FtpHome' /\ LogHome'
  BY <1>1 DEF WholeInv, FtpHome, LogHome, ParamStarts, ParamEnds, ResumeProtocol, linkVars,
              ftpVars, logVars
<1>6. OneTransfer'
  BY <1>1 DEF WholeInv, OneTransfer, ParamStarts, ParamEnds, ResumeProtocol, ftpBusy, logBusy,
              ftpVars, logVars
<1> QED BY <1>1, <1>2, <1>3, <1>4, <1>5, <1>6, NothingWritten, QuietReports DEF WholeInv

LEMMA WholePageCancels ==
    ASSUME WholeInv, UNCHANGED page, PageCancels
    PROVE  WholeInv'
<1>0. FtpShape /\ LogShape
  BY DEF WholeInv, FtpInv, LogInv
<1>1. said' = Quiet /\ UNCHANGED bridgeVars
  BY DEF PageCancels
<1>2. BridgeShape'
  BY <1>1 DEF WholeInv, BridgeShape, bridgeVars, linkVars
<1>3. CASE /\ FtpCancel /\ sent' = NoFrame
           /\ UNCHANGED <<transferVars, server, air, logVars>>
  <2>1. FtpInv'
    BY <1>3, FtpCancelKeeps DEF WholeInv, transferVars
  <2>2. ftp'.op = ftp.op /\ ftp'.cancelRequested = TRUE /\ ~(ask' # NoAsk /\ ask'.got = Waiting)
    BY <1>0, <1>3, CancelMoves
  <2>3. FtpHome' /\ LogHome'
    BY <1>1, <1>3, <2>2 DEF WholeInv, FtpHome, LogHome, bridgeVars, linkVars, logVars
  <2>4. OneTransfer'
    BY <1>1, <1>3, <2>2 DEF WholeInv, OneTransfer, ftpBusy, logBusy, bridgeVars, logVars
  <2>5. LogInv'
    BY <1>3 DEF WholeInv, LogInv, LogShape, RollInv, FetchInv, VehicleInv, LogAirInv, LogFilesInv, logVars
  <2> QED BY <1>1, <1>2, <1>3, <2>1, <2>3, <2>4, <2>5, NothingWritten, QuietReports DEF WholeInv
<1>4. CASE LogCancel /\ UNCHANGED <<ftpVars, roll, fetch, rounds, logFiles, logAir>>
  <2>1. LogInv'
    BY <1>4, LogCancelKeeps DEF WholeInv
  <2>2. /\ logOp'.op = logOp.op /\ (logOp'.op # "idle" => logOp'.cancelRequested = TRUE)
        /\ OwnVehicleOnly'
    BY <1>0, <1>4, LogCancelMoves
  <2>3. FtpHome' /\ LogHome'
    BY <1>1, <1>4, <2>2 DEF WholeInv, FtpHome, LogHome, bridgeVars, linkVars, ftpVars
  <2>4. OneTransfer'
    BY <1>1, <1>4, <2>2 DEF WholeInv, OneTransfer, ftpBusy, logBusy, bridgeVars, ftpVars
  <2>5. FtpInv'
    BY <1>4 DEF WholeInv, FtpInv, FtpShape, AskInv, GetInv, ScanInv, DelInv, DownloadsInv, ServerInv,
           AirInv, ftpVars
  <2> QED BY <1>1, <1>2, <2>1, <2>2, <2>3, <2>4, <2>5, QuietReports DEF WholeInv
<1> QED BY <1>3, <1>4 DEF PageCancels

LEMMA WholeStep == WholeInv /\ [Next]_vars => WholeInv'
<1> SUFFICES ASSUME WholeInv, [Next]_vars PROVE WholeInv'
  OBVIOUS
<1>1. CASE UNCHANGED vars
  BY <1>1 DEF vars, bridgeVars, linkVars, ftpVars, logVars, WholeInv, BridgeShape, FtpHome, LogHome,
     OneTransfer, OwnVehicleOnly, LogsReportedTrue, ftpBusy, logBusy,
     FtpInv, FtpShape, AskInv, GetInv, ScanInv, DelInv, DownloadsInv, ServerInv, AirInv,
     LogInv, LogShape, RollInv, FetchInv, VehicleInv, LogAirInv, LogFilesInv
<1>2. CASE BridgeStep /\ UNCHANGED page
  BY <1>2, WholeStarts, WholePageCancels, WholeRests, WholeEnds DEF BridgeStep
<1> QED BY <1>1, <1>2, WholeFtpStep, WholeLogStep DEF Next
-----------------------------------------------------------------------------
(* What the invariant says.                                                  *)
LEMMA FtpTypes == FtpInv => FtpTypeOK
<1> SUFFICES ASSUME FtpInv PROVE FtpTypeOK
  OBVIOUS
<1>0. FtpShape /\ AskInv /\ GetInv /\ ScanInv /\ DelInv /\ DownloadsInv /\ ServerInv /\ AirInv
  BY DEF FtpInv
<1>1. ftp \in [op : {Idle, "list", "download", "delete"}, step : FtpWaits,
               cancelRequested : BOOLEAN, seq : Numbers, home : Vehicles \cup {Nobody}]
  BY <1>0 DEF FtpShape
<1>2. ask.seq \in Numbers /\ ask.left \in 0..Tries \cup {1, 2} /\ ask.ran \in Nat
  <2>1. CASE ask = NoAsk
    BY <2>1, FtpNumbers DEF NoAsk
  <2>2. CASE ask # NoAsk
    BY <1>0, <2>2 DEF AskInv, Asks
  <2> QED BY <2>1, <2>2
<1>3. /\ get.path \in Files \cup {Nobody} /\ get.missing \subseteq Gaps /\ get.gaps \subseteq Gaps
      /\ get.passes \in 0..MaxPasses /\ get.before \in 0..FileLen
      /\ get.part \in [Units -> Files \cup {Hole, Junk}]
  BY <1>0 DEF GetInv, Gets, Parts
<1>4. /\ scan.dir \in Dirs \cup {Nobody} /\ scan.pages < MaxPages /\ Len(scan.found) < MaxEntries
  BY <1>0, FtpNumbers DEF ScanInv, Scans
<1>5. /\ Len(del.work) <= MaxItems + MaxDepth /\ del.work \in Seq(Paths)
      /\ (del.done < Len(del.work) \/ del.done = 0)
  BY <1>0 DEF DelInv, Dels
<1>6. Len(downloads) <= MaxRetained /\ Len(air) <= AirLimit
  BY <1>0 DEF DownloadsInv, AirInv
<1>7. /\ server.gone \subseteq Paths /\ server.open \in Files \cup {Nobody}
      /\ server.stream \in Units \cup {NoStream} /\ server.bseq \in Numbers
  BY <1>0 DEF ServerInv
<1> QED BY <1>1, <1>2, <1>3, <1>4, <1>5, <1>6, <1>7 DEF FtpTypeOK

LEMMA LogTypes == LogInv => LogTypeOK
<1> SUFFICES ASSUME LogInv PROVE LogTypeOK
  OBVIOUS
<1>1. /\ logOp \in [op : {"idle", "list", "download", "erase"}, step : LogWaits,
                    cancelRequested : BOOLEAN, home : Vehicles \cup {Nobody}]
      /\ rounds \in 0..MaxRounds
  BY DEF LogInv, LogShape
<1>2. roll.found \subseteq Ids /\ roll.attempts \in 0..Attempts /\ roll.frames \in 0..MaxFrames
  BY DEF LogInv, RollInv, Rolls
<1>3. /\ fetch.total \in 0..Size /\ fetch.got \subseteq 0..(Size - 1)
      /\ fetch.missing \subseteq (0..Size) \X (0..Size) /\ fetch.passes \in 0..LogPasses
  BY DEF LogInv, FetchInv, Fetches
<1>4. vehicle.logs \in 0..Logs /\ vehicle.erasing \in BOOLEAN
  <2>1. vehicle \in [logs : Counts, erasing : BOOLEAN, stream : LogStreams]
    BY DEF LogInv, VehicleInv
  <2>2. vehicle.logs \in Counts /\ vehicle.erasing \in BOOLEAN
    BY <2>1
  <2> QED BY <2>2, LogNumbers DEF Counts
<1>5. Len(logFiles) <= LogRetained /\ Len(logAir) <= LogAirLimit
  BY DEF LogInv, LogFilesInv, LogAirInv
<1> QED BY <1>1, <1>2, <1>3, <1>4, <1>5 DEF LogTypeOK

LEMMA WholeIsConsistent == WholeInv => TransfersConsistent
BY FtpTypes, LogTypes DEF WholeInv, BridgeShape, Homes, TransfersConsistent, TransferTypeOK

LEMMA WholeIsKept == WholeInv => KeptIsWhole
<1> SUFFICES ASSUME WholeInv PROVE KeptIsWhole
  OBVIOUS
<1>1. downloads \in Seq(KeptFiles) /\ logFiles \in Seq(KeptLogs)
  BY DEF WholeInv, FtpInv, LogInv, DownloadsInv, LogFilesInv
<1>2. ASSUME NEW i \in DOMAIN downloads
      PROVE  downloads[i].part = [u \in Units |-> downloads[i].path]
  <2>1. downloads[i] \in KeptFiles
    BY <1>1, ElementOfSeq, LenProperties
  <2>2. PICK p \in Files : downloads[i] = [path |-> p, part |-> [u \in Units |-> p]]
    BY <2>1 DEF KeptFiles
  <2> QED BY <2>2
<1>3. ASSUME NEW i \in DOMAIN logFiles
      PROVE  /\ logFiles[i].total = Lesser(Size, RealLen)
             /\ logFiles[i].got = 0..(logFiles[i].total - 1)
  <2>1. logFiles[i] \in KeptLogs
    BY <1>1, ElementOfSeq, LenProperties
  <2>2. logFiles[i].total = TrueLen /\ logFiles[i].got = 0..(TrueLen - 1)
    BY <2>1 DEF KeptLogs
  <2> QED BY <2>2 DEF TrueLen
<1> QED BY <1>2, <1>3 DEF KeptIsWhole

LEMMA WholeIsExact == WholeInv => GapsExact
<1> SUFFICES ASSUME WholeInv PROVE GapsExact
  OBVIOUS
<1>1. ftp.step \in {"burst", "read", "flush", "crc", "verify"} => GetOk(get)
  BY DEF WholeInv, FtpInv, GetInv
<1>2. Covered(fetch.missing) \cap fetch.got = {}
  BY DEF WholeInv, LogInv, FetchInv
<1> QED BY <1>1, <1>2 DEF GapsExact, GetOk

(* At every moment the state has its types, the numbers of entries, pages,   *)
(* passes, rounds, items, kept downloads and frames are within their limits, *)
(* and of a file transfer, a log transfer and the parameter download at most *)
(* one has the link, however the page, the timers, the vehicle, a target     *)
(* change, a lost link and an ESC session come together (claim, release,     *)
(* requireFtpAvailable, requireLogTransferAvailable).                        *)
THEOREM TransfersAreConsistent == Spec => []TransfersConsistent
<1>1. TransferInit => WholeInv
  BY WholeBegins
<1>2. WholeInv /\ [Next]_vars => WholeInv'
  BY WholeStep
<1>3. WholeInv => TransfersConsistent
  BY WholeIsConsistent
<1> QED BY <1>1, <1>2, <1>3, PTL DEF Spec

(* What is registered as a download is the file, byte for byte, or the log   *)
(* up to its true or its advertised end: whatever number of frames was lost, *)
(* repeated or damaged, after any number of passes (runDownload, writeChunk, *)
(* CalcFileCRC32, dataPass, truncateTo).                                     *)
THEOREM KeptAreWhole == Spec => []KeptIsWhole
<1>1. TransferInit => WholeInv
  BY WholeBegins
<1>2. WholeInv /\ [Next]_vars => WholeInv'
  BY WholeStep
<1>3. WholeInv => KeptIsWhole
  BY WholeIsKept
<1> QED BY <1>1, <1>2, <1>3, PTL DEF Spec

(* The tracker of missing ranges is exact in every pass of every transfer    *)
(* (subtractInterval, truncateTo).                                           *)
THEOREM GapsAreExact == Spec => []GapsExact
<1>1. TransferInit => WholeInv
  BY WholeBegins
<1>2. WholeInv /\ [Next]_vars => WholeInv'
  BY WholeStep
<1>3. WholeInv => GapsExact
  BY WholeIsExact
<1> QED BY <1>1, <1>2, <1>3, PTL DEF Spec

(* A list of logs that is reported lacks none, and an erasure that is        *)
(* reported has left none, however late, often or stale the vehicle's        *)
(* entries come (collectList, isComplete, runErase).                         *)
THEOREM LogReportsTrue == Spec => []LogsReportedTrue
<1>1. TransferInit => WholeInv
  BY WholeBegins
<1>2. WholeInv /\ [Next]_vars => WholeInv'
  BY WholeStep
<1>3. WholeInv => LogsReportedTrue
  BY DEF WholeInv
<1> QED BY <1>1, <1>2, <1>3, PTL DEF Spec

(* No request that reads or changes anything reaches a vehicle other than    *)
(* the one its operation was started on, or a borrowed link: an operation    *)
(* that outlives its target has lost its right to write (cancelAll,          *)
(* cancelProtocolOperations, transact).                                      *)
THEOREM RequestsGoHome == Spec => []OwnVehicleOnly
<1>1. TransferInit => WholeInv
  BY WholeBegins
<1>2. WholeInv /\ [Next]_vars => WholeInv'
  BY WholeStep
<1>3. WholeInv => OwnVehicleOnly
  BY DEF WholeInv
<1> QED BY <1>1, <1>2, <1>3, PTL DEF Spec
-----------------------------------------------------------------------------
(* Numbers in their cycle.  The place of a number is how far it is from low; *)
(* everything that is in use stands in a window of places far shorter than   *)
(* the cycle, and there the places are ordered as the numbers were taken.    *)
Width == MaxAge + FileLen + 1

LEMMA Lengths ==
    /\ FileLen \in Nat \ {0} /\ MaxAge \in Nat \ {0} /\ SeqCycle \in Nat /\ Width \in Nat
    /\ Width = MaxAge + FileLen + 1 /\ 2 * Width <= SeqCycle /\ SeqCycle \div 2 \in Nat
    /\ Width <= SeqCycle \div 2 /\ 2 * (SeqCycle \div 2) <= SeqCycle
    /\ Numbers = 0..(SeqCycle - 1)
BY FtpAssumption DEF Width, Numbers

LEMMA Remainder ==
    ASSUME NEW c \in Nat, c > 0, NEW x \in Int, -c < x, x < c
    PROVE  x % c = IF x < 0 THEN x + c ELSE x
<1>1. x % c \in 0..(c - 1) /\ x = c * (x \div c) + (x % c) /\ x \div c \in Int
  OBVIOUS
<1> DEFINE q == x \div c
           r == x % c
<1>2. q \in Int /\ r \in 0..(c - 1) /\ x = c * q + r
  BY <1>1
<1> HIDE DEF q, r
<1>3. q < 1
  <2> SUFFICES ASSUME q >= 1 PROVE FALSE
    BY <1>2
  <2>1. c * q >= c
    BY <1>2
  <2> QED BY <1>2, <2>1
<1>4. q > -2
  <2> SUFFICES ASSUME q <= -2 PROVE FALSE
    BY <1>2
  <2>1. c * q <= -(2 * c)
    BY <1>2
  <2> QED BY <1>2, <2>1
<1>5. q = 0 \/ q = -1
  BY <1>2, <1>3, <1>4
<1>6. CASE q = 0
  BY <1>2, <1>6 DEF r
<1>7. CASE q = -1
  BY <1>2, <1>7 DEF r
<1> QED BY <1>5, <1>6, <1>7

LEMMA CycleIs ==
    /\ \A a, b \in Numbers : Forward(a, b) = IF b <= a THEN a - b ELSE a - b + SeqCycle
    /\ \A a \in Numbers : Succ(a) = IF a + 1 = SeqCycle THEN 0 ELSE a + 1
<1>1. ASSUME NEW a \in Numbers, NEW b \in Numbers
      PROVE  Forward(a, b) = IF b <= a THEN a - b ELSE a - b + SeqCycle
  <2>1. a - b \in Int /\ -SeqCycle < a - b /\ a - b < SeqCycle /\ SeqCycle > 0 /\ a \in Int /\ b \in Int
    BY Lengths
  <2>2. (a - b) % SeqCycle = IF a - b < 0 THEN a - b + SeqCycle ELSE a - b
    BY <2>1, Remainder, Lengths
  <2> QED BY <2>1, <2>2 DEF Forward
<1>2. ASSUME NEW a \in Numbers
      PROVE  Succ(a) = IF a + 1 = SeqCycle THEN 0 ELSE a + 1
  <2>1. a \in Int /\ 0 <= a /\ a < SeqCycle /\ SeqCycle > 0
    BY Lengths
  <2>2. CASE a + 1 < SeqCycle
    <3>1. (a + 1) % SeqCycle = a + 1
      BY <2>1, <2>2, Remainder, Lengths
    <3> QED BY <2>1, <2>2, <3>1 DEF Succ
  <2>3. CASE a + 1 = SeqCycle
    <3>1. SeqCycle % SeqCycle = 0
      <4> DEFINE q == SeqCycle \div SeqCycle
                 r == SeqCycle % SeqCycle
      <4>1. q \in Int /\ r \in 0..(SeqCycle - 1) /\ SeqCycle = SeqCycle * q + r
        BY <2>1, Lengths
      <4> HIDE DEF q, r
      <4>2. q <= 1
        <5> SUFFICES ASSUME q >= 2 PROVE FALSE
          BY <4>1
        <5>1. SeqCycle * q >= 2 * SeqCycle
          BY <4>1, Lengths
        <5> QED BY <2>1, <4>1, <5>1, Lengths
      <4>3. q >= 1
        <5> SUFFICES ASSUME q <= 0 PROVE FALSE
          BY <4>1
        <5>1. SeqCycle * q <= 0
          BY <4>1, Lengths
        <5> QED BY <4>1, <5>1, Lengths
      <4>4. q = 1
        BY <4>1, <4>2, <4>3
      <4>5. r = 0
        BY <4>1, <4>4, Lengths
      <4> QED BY <4>5 DEF r
    <3> QED BY <2>3, <3>1 DEF Succ
  <2> QED BY <2>1, <2>2, <2>3, Lengths
<1> QED BY <1>1, <1>2

LEMMA Places ==
    /\ \A n, low \in Numbers : Forward(n, low) \in 0..(SeqCycle - 1) /\ Forward(n, n) = 0
    /\ \A n, low \in Numbers : Forward(n, low) <= Width =>
          Succ(n) \in Numbers /\ Forward(Succ(n), low) = Forward(n, low) + 1
    /\ \A n, m, low \in Numbers : Forward(n, m) =
          IF Forward(m, low) <= Forward(n, low) THEN Forward(n, low) - Forward(m, low)
          ELSE Forward(n, low) - Forward(m, low) + SeqCycle
    /\ \A n, m, low \in Numbers : Forward(n, low) = Forward(m, low) => n = m
    /\ \A n \in Numbers : \E low \in Numbers : Forward(n, low) = MaxAge
<1>1. ASSUME NEW n \in Numbers, NEW low \in Numbers
      PROVE  /\ Forward(n, low) \in 0..(SeqCycle - 1) /\ Forward(n, n) = 0
             /\ Forward(n, low) <= Width =>
                  Succ(n) \in Numbers /\ Forward(Succ(n), low) = Forward(n, low) + 1
  <2> DEFINE p == Forward(n, low)
             q == Forward(n, n)
             k == Succ(n)
             r == Forward(k, low)
  <2>1. /\ p = IF low <= n THEN n - low ELSE n - low + SeqCycle
        /\ q = n - n /\ k \in Numbers /\ k = IF n + 1 = SeqCycle THEN 0 ELSE n + 1
    <3>1. p = IF low <= n THEN n - low ELSE n - low + SeqCycle
      BY CycleIs
    <3>2. q = IF n <= n THEN n - n ELSE n - n + SeqCycle
      BY CycleIs
    <3>3. k \in Numbers
      BY NumberNext
    <3>4. k = IF n + 1 = SeqCycle THEN 0 ELSE n + 1
      BY CycleIs
    <3>5. n <= n
      BY Lengths
    <3> HIDE DEF p, q, k
    <3> QED BY <3>1, <3>2, <3>3, <3>4, <3>5
  <2>2. r = IF low <= k THEN k - low ELSE k - low + SeqCycle
    BY <2>1, CycleIs
  <2> HIDE DEF p, q, k, r
  <2>3. p \in 0..(SeqCycle - 1) /\ q = 0 /\ (p <= Width => r = p + 1)
    BY <2>1, <2>2, Lengths
  <2> QED BY <2>1, <2>3 DEF p, q, k, r
<1>2. ASSUME NEW n \in Numbers, NEW m \in Numbers, NEW low \in Numbers
      PROVE  /\ Forward(n, m) =
                IF Forward(m, low) <= Forward(n, low) THEN Forward(n, low) - Forward(m, low)
                ELSE Forward(n, low) - Forward(m, low) + SeqCycle
             /\ Forward(n, low) = Forward(m, low) => n = m
  <2> DEFINE p == Forward(n, low)
             q == Forward(m, low)
             r == Forward(n, m)
  <2>1. /\ p = IF low <= n THEN n - low ELSE n - low + SeqCycle
        /\ q = IF low <= m THEN m - low ELSE m - low + SeqCycle
        /\ r = IF m <= n THEN n - m ELSE n - m + SeqCycle
    BY CycleIs
  <2> HIDE DEF p, q, r
  <2>2. /\ r = IF q <= p THEN p - q ELSE p - q + SeqCycle
        /\ p = q => n = m
    BY <2>1, Lengths
  <2> QED BY <2>2 DEF p, q, r
<1>3. ASSUME NEW n \in Numbers
      PROVE  \E low \in Numbers : Forward(n, low) = MaxAge
  <2> DEFINE low == IF MaxAge <= n THEN n - MaxAge ELSE n - MaxAge + SeqCycle
  <2>1. low \in Numbers
    BY Lengths
  <2>2. Forward(n, low) = IF low <= n THEN n - low ELSE n - low + SeqCycle
    BY <2>1, CycleIs
  <2>3. Forward(n, low) = MaxAge
    BY <2>2, Lengths
  <2> QED BY <2>1, <2>3
<1> QED BY <1>1, <1>2, <1>3

(* advanceSeqFromReply moves past the number of the frame, and never back.   *)
LEMMA AdvancedPlace ==
    ASSUME NEW n \in Numbers, NEW m \in Numbers, NEW low \in Numbers,
           Forward(n, low) \in MaxAge..Width, Forward(m, low) < Width
    PROVE  /\ Advanced(n, m) \in Numbers
           /\ Forward(Advanced(n, m), low) \in MaxAge..Width
           /\ Forward(Advanced(n, m), low) >= Forward(n, low)
           /\ Forward(n, low) <= Forward(m, low) => Advanced(n, m) = Succ(m)
<1> DEFINE p == Forward(n, low)
           k == Forward(m, low)
           j == Forward(Succ(m), n)
<1>1. Succ(m) \in Numbers /\ Forward(Succ(m), low) = k + 1 /\ k \in 0..(SeqCycle - 1)
  <2>1. k \in 0..(SeqCycle - 1) /\ k < Width
    BY Places
  <2>2. k <= Width
    <3> HIDE DEF k
    <3> QED BY <2>1, Lengths
  <2> QED BY <2>1, <2>2, Places
<1>2. j = IF p <= k + 1 THEN k + 1 - p ELSE k + 1 - p + SeqCycle
  <2> DEFINE h == Succ(m)
             a == Forward(h, low)
             b == Forward(h, n)
  <2>1. h \in Numbers /\ a = k + 1 /\ j = b
    BY <1>1
  <2> HIDE DEF h
  <2>2. b = IF p <= a THEN a - p ELSE a - p + SeqCycle
    BY <2>1, Places
  <2>3. k \in Int /\ p \in Int /\ a \in Int /\ SeqCycle \in Int
    BY <1>1, <2>1, Places, Lengths
  <2> HIDE DEF a, b, p, k, j
  <2> QED BY ONLY <2>1, <2>2, <2>3
<1>3. p \in MaxAge..Width /\ k < Width
  OBVIOUS
<1>4. Advanced(n, m) = IF j \in 1..(SeqCycle \div 2 - 1) THEN Succ(m) ELSE n
  BY DEF Advanced
<1> HIDE DEF j
<1>5. j \in 1..(SeqCycle \div 2 - 1) <=> p <= k
  <2> HIDE DEF p, k
  <2> QED BY <1>1, <1>2, <1>3, Lengths
<1>6. CASE p <= k
  <2>1. Advanced(n, m) = Succ(m)
    BY <1>4, <1>5, <1>6
  <2>2. k + 1 \in MaxAge..Width /\ k + 1 >= p
    <3> HIDE DEF p, k
    <3> QED BY <1>1, <1>3, <1>6, Lengths
  <2> QED BY <1>1, <2>1, <2>2
<1>7. CASE ~(p <= k)
  BY <1>3, <1>4, <1>5, <1>7
<1> QED BY <1>6, <1>7

(* What is still on its way when a new number is taken, seen from there.     *)
LEMMA StillFresh ==
    ASSUME NEW n \in Numbers, NEW m \in Numbers, NEW low \in Numbers, NEW rest \in 0..(FileLen - 1),
           Forward(n, low) \in MaxAge..Width, Forward(m, low) + rest < Width,
           NEW f, f.seq = Succ(n), Fresh(f, m),
           NEW base \in Numbers, Forward(Succ(n), base) = MaxAge
    PROVE  /\ Forward(m, base) + rest < Width
           /\ Forward(m, low) <= Forward(n, low) => Forward(m, base) < MaxAge
<1> DEFINE s == Forward(n, low)
           h == Succ(n)
           t == Forward(h, low)
           p == Forward(m, low)
           q == Forward(m, base)
           d == Forward(h, m)
           b == Forward(h, base)
<1>1. h \in Numbers /\ t = s + 1 /\ s \in 0..(SeqCycle - 1) /\ p \in 0..(SeqCycle - 1)
      /\ q \in 0..(SeqCycle - 1)
  BY Places, NumberNext
<1>2. d \notin MaxAge + 1..(SeqCycle - FileLen - 1)
  BY DEF Fresh
<1>3. b = MaxAge /\ s \in MaxAge..Width /\ p + rest < Width
  OBVIOUS
<1> HIDE DEF h
<1>4. d = IF p <= t THEN t - p ELSE t - p + SeqCycle
  BY <1>1, Places
<1>5. d = IF q <= b THEN b - q ELSE b - q + SeqCycle
  BY <1>1, Places
<1> HIDE DEF s, t, p, q, d, b
<1>6. q + rest < Width /\ (p <= s => q < MaxAge)
  BY <1>1, <1>2, <1>3, <1>4, <1>5, Lengths
<1> QED BY <1>6 DEF s, p, q
-----------------------------------------------------------------------------
(* Answers.  Frames and the rest of the burst stand in a window of numbers,  *)
(* only those of a burst may be ahead of the next request, and one with the  *)
(* number that is awaited answers the request that waits; so does what the   *)
(* server remembers.                                                         *)
Pends == ask # NoAsk /\ ask.got = Waiting

InWindow(x, n, low) ==
    /\ Forward(x.seq, low) < Width
    /\ x.opcode # "burst" => Forward(x.seq, low) <= Forward(n, low)
Window(low) ==
    /\ Forward(ftp.seq, low) \in MaxAge..Width
    /\ Pends => Forward(ftp.seq, low) < Width
    /\ \A i \in 1..Len(air) : InWindow(air[i], ftp.seq, low)
    /\ server.stream # NoStream =>
         Forward(Succ(server.bseq), low) + (FileLen - 1 - server.stream) < Width

PageAt(names, k) ==
    SubSeq(names, k + 1, IF k + PageLen < Len(names) THEN k + PageLen ELSE Len(names))
Truth(gone, opcode, arg, kind, body) ==
    /\ opcode = "list" /\ kind = "ack" => body = PageAt(Alive(arg[1], gone), arg[2])
    /\ opcode = "list" /\ kind = "eof" => arg[2] >= Len(Alive(arg[1], gone))
    /\ opcode \in {"removeFile", "removeDir"} /\ kind \in {"ack", "absent"} => arg[1] \in gone
Replying(x) ==
    /\ x.opcode = ask.opcode /\ x.arg = ask.arg /\ x.kind # "waiting"
    /\ Truth(server.gone, x.opcode, x.arg, x.kind, x.body)

LastInv ==
    /\ server.last # NoReply =>
         /\ server.last.opcode \in Opcodes
         /\ server.last.seq = ftp.seq \/ Succ(server.last.seq) = ftp.seq
         /\ Pends => server.last.seq = ftp.seq /\ Replying(server.last)
    /\ ftp.step = "burst" => server.last = NoReply
AskTrue ==
    /\ ask.ran <= 1
    /\ ask # NoAsk =>
         /\ ask.got.arg = <<>> \/ ask.got.arg = ask.arg
         /\ Truth(server.gone, ask.opcode, ask.arg, ask.got.kind, ask.got.body)
    /\ Pends =>
         /\ ftp.seq = Succ(ask.seq)
         /\ ask.ran = 1 => server.last # NoReply
         /\ \A i \in 1..Len(air) :
              air[i].opcode # "burst" /\ air[i].seq = ftp.seq => Replying(air[i])
Answers == (\E low \in Numbers : Window(low)) /\ LastInv /\ AskTrue

LEMMA TypedAnswers ==
    ASSUME FtpInv
    PROVE  /\ ftp \in Ftps /\ ftp.seq \in Numbers /\ server \in Servers /\ server.bseq \in Numbers
           /\ server.stream # NoStream => server.stream \in 0..(FileLen - 1)
           /\ server.last.seq \in Numbers
           /\ \A i \in 1..Len(air) : air[i] \in Replies /\ air[i].seq \in Numbers
           /\ air \in Seq(Replies) /\ Len(air) \in Nat
           /\ ask # NoAsk => ask \in Asks /\ ask.seq \in Numbers /\ ask.opcode = ftp.step
                             /\ ask.opcode \in Opcodes /\ ArgOk(ask.opcode, ask.arg)
<1>1. ftp \in Ftps /\ ftp.seq \in Numbers
  BY DEF FtpInv, FtpShape, Ftps
<1>2. /\ server \in Servers /\ server.bseq \in Numbers /\ server.last.seq \in Numbers
      /\ server.stream # NoStream => server.stream \in 0..(FileLen - 1)
  BY DEF FtpInv, ServerInv, Servers, Replies, Units
<1>3. air \in Seq(Replies) /\ Len(air) \in Nat
  BY LenProperties DEF FtpInv, AirInv
<1>4. \A i \in 1..Len(air) : air[i] \in Replies /\ air[i].seq \in Numbers
  <2> TAKE i \in 1..Len(air)
  <2>1. air[i] \in Replies
    BY <1>3, ElementOfSeq
  <2> QED BY <2>1 DEF Replies
<1>5. ask # NoAsk => ask \in Asks /\ ask.seq \in Numbers /\ ask.opcode = ftp.step
                     /\ ask.opcode \in Opcodes /\ ArgOk(ask.opcode, ask.arg)
  BY DEF FtpInv, AskInv, Asks
<1> QED BY <1>1, <1>2, <1>3, <1>4, <1>5

LEMMA AgedWindow ==
    ASSUME FtpInv, NEW low \in Numbers, Window(low), NEW f, f.seq = Succ(ftp.seq),
           NEW base \in Numbers, Forward(f.seq, base) = MaxAge
    PROVE  /\ \A i \in 1..Len(Aged(f)) :
                 /\ Forward(Aged(f)[i].seq, base) < Width
                 /\ Aged(f)[i].opcode # "burst" => Forward(Aged(f)[i].seq, base) < MaxAge
           /\ server.stream # NoStream /\ Fresh(f, Succ(server.bseq)) =>
                 Forward(Succ(server.bseq), base) + (FileLen - 1 - server.stream) < Width
<1> DEFINE P == {i \in DOMAIN air : Fresh(f, air[i].seq)}
           a == Aged(f)
<1>0. ftp.seq \in Numbers /\ Forward(ftp.seq, low) \in MaxAge..Width
  BY TypedAnswers DEF Window
<1>1. \A i \in 1..Len(a) : \E k \in 1..Len(air) : a[i] = air[k] /\ Fresh(f, air[k].seq)
  <2>1. a = Drawn(air, P) /\ air \in Seq(Replies)
    BY TypedAnswers DEF Aged
  <2>2. DrawnOk(a, Replies, air, P, Len(air))
    BY <2>1, DrawnFrom
  <2> HIDE DEF a
  <2> QED BY <2>2 DEF DrawnOk
<1> HIDE DEF a
<1>2. ASSUME NEW i \in 1..Len(a)
      PROVE  /\ Forward(a[i].seq, base) < Width
             /\ a[i].opcode # "burst" => Forward(a[i].seq, base) < MaxAge
  <2> PICK k \in 1..Len(air) : a[i] = air[k] /\ Fresh(f, air[k].seq)
    BY <1>1
  <2> DEFINE x == air[k]
  <2>1. x.seq \in Numbers /\ Fresh(f, x.seq)
    BY TypedAnswers
  <2>2. /\ Forward(x.seq, low) < Width
        /\ x.opcode # "burst" => Forward(x.seq, low) <= Forward(ftp.seq, low)
    BY DEF Window, InWindow
  <2> HIDE DEF x
  <2>3. 0 \in 0..(FileLen - 1) /\ Forward(x.seq, low) + 0 < Width
    <3> DEFINE q == Forward(x.seq, low)
    <3>1. q \in 0..(SeqCycle - 1) /\ q < Width
      BY <2>1, <2>2, Places
    <3> HIDE DEF q
    <3>2. 0 \in 0..(FileLen - 1) /\ q + 0 < Width
      BY ONLY <3>1, Lengths
    <3> QED BY <3>2 DEF q
  <2>4. /\ Forward(x.seq, base) + 0 < Width
        /\ Forward(x.seq, low) <= Forward(ftp.seq, low) => Forward(x.seq, base) < MaxAge
    BY <1>0, <2>1, <2>3, StillFresh
  <2>5. Forward(x.seq, base) \in Int
    <3>1. Forward(x.seq, base) \in 0..(SeqCycle - 1)
      BY <2>1, Places
    <3> QED BY <3>1
  <2> QED BY <2>2, <2>4, <2>5, Lengths DEF x
<1>3. ASSUME server.stream # NoStream, Fresh(f, Succ(server.bseq))
      PROVE  Forward(Succ(server.bseq), base) + (FileLen - 1 - server.stream) < Width
  <2>1. Succ(server.bseq) \in Numbers /\ server.stream \in 0..(FileLen - 1)
    BY <1>3, TypedAnswers, NumberNext
  <2> DEFINE rest == FileLen - 1 - server.stream
  <2>2. rest \in 0..(FileLen - 1)
    BY ONLY <2>1, Lengths
  <2>3. Forward(Succ(server.bseq), low) + rest < Width
    BY <1>3 DEF Window
  <2> HIDE DEF rest
  <2>4. Forward(Succ(server.bseq), base) + rest < Width
    BY <1>0, <1>3, <2>1, <2>2, <2>3, StillFresh
  <2> QED BY <2>4 DEF rest
<1> QED BY <1>2, <1>3 DEF a

LEMMA EffectTrue ==
    ASSUME ServerInv, NEW opcode \in Opcodes, NEW arg \in Args, ArgOk(opcode, arg),
           NEW e, e = Effect(opcode, arg)
    PROVE  /\ Truth(e.state.gone, opcode, arg, e.kind, e.body)
           /\ e.state.stream \in {server.stream, NoStream}
<1>0. server \in Servers
  BY DEF ServerInv, Servers
<1>1. CASE e = [state |-> server, kind |-> "nak", body |-> <<>>]
  BY <1>1 DEF Truth
<1>2. CASE opcode \in {"reset", "terminate"}
  <2>1. e = [state |-> [server EXCEPT !.open = Nobody, !.stream = NoStream], kind |-> "ack",
             body |-> <<>>]
    BY <1>2 DEF Effect
  <2> DEFINE z == [server EXCEPT !.open = Nobody, !.stream = NoStream]
  <2>2. z.stream = NoStream
    BY <1>0 DEF Servers
  <2> HIDE DEF z
  <2>3. e.state = z
    BY <2>1 DEF z
  <2> QED BY <1>2, <2>2, <2>3 DEF Truth
<1>3. CASE opcode = "open"
  <2>1. \/ e = [state |-> server, kind |-> "nak", body |-> <<>>]
        \/ e = [state |-> [server EXCEPT !.open = arg[1]], kind |-> "ack", body |-> <<>>]
    BY <1>3 DEF Effect
  <2>2. e.state.stream = server.stream
    BY <1>0, <2>1 DEF Servers
  <2> QED BY <1>3, <2>2 DEF Truth
<1>4. CASE opcode \in {"read", "crc"}
  <2>1. e.state = server
    BY <1>4 DEF Effect
  <2> QED BY <1>4, <2>1 DEF Truth
<1>5. CASE opcode = "list"
  <2> DEFINE names == Alive(arg[1], server.gone)
             final == IF arg[2] + PageLen < Len(names) THEN arg[2] + PageLen ELSE Len(names)
             b == SubSeq(names, arg[2] + 1, final)
  <2>1. arg[1] \in Dirs /\ arg[2] \in Nat
    BY <1>5 DEF ArgOk
  <2>2. names \in Seq(Names) /\ Len(names) \in Nat
    BY <2>1, AliveSome, LenProperties
  <2>3. \/ e = [state |-> server, kind |-> "nak", body |-> <<>>]
        \/ b = <<>> /\ e = [state |-> server, kind |-> "eof", body |-> <<>>]
        \/ e = [state |-> server, kind |-> "ack", body |-> b]
    BY <1>5 DEF Effect
  <2>4. b = PageAt(names, arg[2])
    BY DEF PageAt
  <2> HIDE DEF names
  <2>5. final \in Nat /\ final <= Len(names) /\ (arg[2] < Len(names) => arg[2] < final)
    BY <2>1, <2>2, FtpNumbers
  <2> HIDE DEF final
  <2>6. Len(b) = IF arg[2] < final THEN final - arg[2] ELSE 0
    BY <2>1, <2>2, <2>5, PieceOf
  <2>7. b = <<>> => arg[2] >= Len(names)
    <3> SUFFICES ASSUME b = <<>>, arg[2] < Len(names) PROVE FALSE
      BY <2>1, <2>2
    <3>0. b = <<>>
      OBVIOUS
    <3> HIDE DEF b
    <3>1. Len(b) = 0
      BY ONLY <3>0, EmptySeq
    <3> QED BY <2>1, <2>5, <2>6, <3>1
  <2> HIDE DEF b
  <2>8. CASE b = <<>> /\ e = [state |-> server, kind |-> "eof", body |-> <<>>]
    BY <1>5, <2>7, <2>8 DEF Truth, names
  <2>9. CASE e = [state |-> server, kind |-> "ack", body |-> b]
    BY <1>5, <2>4, <2>9 DEF Truth, names
  <2> QED BY <1>1, <2>3, <2>8, <2>9
<1>6. CASE opcode \in {"removeFile", "removeDir"}
  <2>1. \/ e = [state |-> server, kind |-> "nak", body |-> <<>>]
        \/ arg[1] \in server.gone /\ e = [state |-> server, kind |-> "absent", body |-> <<>>]
        \/ e = [state |-> [server EXCEPT !.gone = @ \cup {arg[1]}], kind |-> "ack", body |-> <<>>]
    BY <1>6 DEF Effect
  <2>2. CASE arg[1] \in server.gone /\ e = [state |-> server, kind |-> "absent", body |-> <<>>]
    BY <1>6, <2>2 DEF Truth
  <2>3. CASE e = [state |-> [server EXCEPT !.gone = @ \cup {arg[1]}], kind |-> "ack", body |-> <<>>]
    <3>1. e.state.gone = server.gone \cup {arg[1]} /\ e.state.stream = server.stream
      BY <1>0, <2>3 DEF Servers
    <3> QED BY <1>6, <2>3, <3>1 DEF Truth
  <2> QED BY <1>1, <2>1, <2>2, <2>3
<1> QED BY <1>2, <1>3, <1>4, <1>5, <1>6 DEF Opcodes

Removals == {"removeFile", "removeDir"}

(* What is found gone stays gone, and only a removal removes.                *)
LEMMA TruthStays ==
    ASSUME NEW gone, NEW more, gone \subseteq more, NEW opcode, more = gone \/ opcode \in Removals,
           NEW arg, NEW kind, NEW body, Truth(gone, opcode, arg, kind, body)
    PROVE  Truth(more, opcode, arg, kind, body)
BY DEF Truth, Removals

(* The server executes the request r, or refuses it.                         *)
LEMMA ExecutedTrue ==
    ASSUME ServerInv, NEW f, NEW r \in Writings, ArgOk(r.opcode, r.arg),
           NEW e \in {Effect(r.opcode, r.arg), Refusal}, NEW b \in Damaged(r, e),
           NEW x, x = Answer(r, e, b),
           NEW s, s = Outlasts(f, [e.state EXCEPT !.last = x])
    PROVE  /\ s \in Servers /\ s.last = x /\ x # NoReply /\ x \in Replies
           /\ x.opcode = r.opcode /\ x.arg = r.arg /\ x.seq = Succ(r.seq) /\ x.kind # "waiting"
           /\ Truth(s.gone, x.opcode, x.arg, x.kind, x.body)
           /\ server.gone \subseteq s.gone /\ (s.gone = server.gone \/ r.opcode \in Removals)
           /\ s.bseq = server.bseq
           /\ s.stream # NoStream => s.stream = server.stream /\ Fresh(f, Succ(server.bseq))
<1>0. r.opcode \in Opcodes /\ r.arg \in Args
  BY DEF Writings
<1>1. /\ e.state \in Servers /\ e.state.bseq = server.bseq
      /\ e.state.stream \in {server.stream, NoStream}
      /\ e.kind \in {"ack", "nak", "eof", "absent"}
      /\ Truth(e.state.gone, r.opcode, r.arg, e.kind, e.body)
      /\ server.gone \subseteq e.state.gone
      /\ e.state.gone = server.gone \/ r.opcode \in Removals
  <2>1. CASE e = Refusal
    BY <2>1 DEF Refusal, ServerInv, Servers, Truth
  <2>2. CASE e = Effect(r.opcode, r.arg)
    <3>1. /\ e.state \in Servers /\ e.state.bseq = server.bseq
          /\ e.state.gone = server.gone \/ \E p \in Paths :
                /\ r.opcode \in {"removeFile", "removeDir"}
                /\ e.state.gone = server.gone \cup {p}
          /\ e.kind \in {"ack", "nak", "eof", "absent"}
      BY <1>0, <2>2, EffectOk
    <3>2. /\ Truth(e.state.gone, r.opcode, r.arg, e.kind, e.body)
          /\ e.state.stream \in {server.stream, NoStream}
      BY <1>0, <2>2, EffectTrue
    <3> QED BY <3>1, <3>2 DEF Removals
  <2> QED BY <2>1, <2>2
<1>2. x \in Replies /\ [e.state EXCEPT !.last = x] \in Servers
  BY AnswerOk
<1>3. /\ x.opcode = r.opcode /\ x.arg = r.arg /\ x.seq = Succ(r.seq) /\ x.kind = e.kind
      /\ x.body = b
  BY DEF Answer
<1>4. Truth(e.state.gone, x.opcode, x.arg, x.kind, x.body)
  <2>1. CASE r.opcode = "read"
    BY <1>3, <2>1 DEF Truth
  <2>2. CASE r.opcode # "read"
    <3>1. b = e.body
      BY <2>2 DEF Damaged
    <3> QED BY <1>1, <1>3, <3>1
  <2> QED BY <2>1, <2>2
<1>5. x # NoReply
  BY <1>0, <1>3 DEF NoReply, Opcodes
<1> DEFINE t == [e.state EXCEPT !.last = x]
<1>6. /\ t \in Servers /\ t.last = x /\ t.gone = e.state.gone /\ t.bseq = e.state.bseq
      /\ t.stream = e.state.stream
  BY <1>1, <1>2 DEF Servers
<1>7. s = Outlasts(f, t)
  OBVIOUS
<1> HIDE DEF t
<1>8. /\ s \in Servers /\ s.last = x /\ s.gone = e.state.gone /\ s.bseq = server.bseq
      /\ s.stream \in {e.state.stream, NoStream}
      /\ s.stream # NoStream => Fresh(f, Succ(server.bseq))
  BY <1>1, <1>6, <1>7, OutlastsOk
<1> QED BY <1>1, <1>2, <1>3, <1>4, <1>5, <1>8

(* The server and its answer after a request that reached it.                *)
Executed(s, x, f, r) ==
    \E e \in {Effect(r.opcode, r.arg), Refusal} : \E b \in Damaged(r, e) :
        x = Answer(r, e, b) /\ s = Outlasts(f, [e.state EXCEPT !.last = Answer(r, e, b)])

LEMMA ExecutedAnswer ==
    ASSUME ServerInv, NEW f, NEW r \in Writings, ArgOk(r.opcode, r.arg),
           NEW s, NEW x, Executed(s, x, f, r)
    PROVE  /\ s.last = x /\ x # NoReply
           /\ x.opcode = r.opcode /\ x.arg = r.arg /\ x.seq = Succ(r.seq) /\ x.kind # "waiting"
           /\ Truth(s.gone, x.opcode, x.arg, x.kind, x.body)
<1>1. PICK e \in {Effect(r.opcode, r.arg), Refusal} : \E b \in Damaged(r, e) :
        x = Answer(r, e, b) /\ s = Outlasts(f, [e.state EXCEPT !.last = Answer(r, e, b)])
  BY DEF Executed
<1>2. PICK b \in Damaged(r, e) :
        x = Answer(r, e, b) /\ s = Outlasts(f, [e.state EXCEPT !.last = Answer(r, e, b)])
  BY <1>1
<1> QED BY <1>2, ExecutedTrue, SMTT(30)

LEMMA ExecutedServer ==
    ASSUME ServerInv, NEW f, NEW r \in Writings, ArgOk(r.opcode, r.arg),
           NEW s, NEW x, Executed(s, x, f, r)
    PROVE  /\ server.gone \subseteq s.gone /\ (s.gone = server.gone \/ r.opcode \in Removals)
           /\ s.bseq = server.bseq
           /\ s.stream # NoStream => s.stream = server.stream
<1>1. PICK e \in {Effect(r.opcode, r.arg), Refusal} : \E b \in Damaged(r, e) :
        x = Answer(r, e, b) /\ s = Outlasts(f, [e.state EXCEPT !.last = Answer(r, e, b)])
  BY DEF Executed
<1>2. PICK b \in Damaged(r, e) :
        x = Answer(r, e, b) /\ s = Outlasts(f, [e.state EXCEPT !.last = Answer(r, e, b)])
  BY <1>1
<1> QED BY <1>2, ExecutedTrue, SMTT(30)

(* The window after a new number, around what is left and an answer to it.   *)
LEMMA NewWindow ==
    ASSUME FtpInv, NEW low \in Numbers, Window(low), NEW f, f.seq = Succ(ftp.seq),
           NEW base \in Numbers, Forward(f.seq, base) = MaxAge, ftp'.seq = f.seq,
           NEW x, x.seq = f.seq, air' = Aged(f) \/ Sends(Aged(f), x),
           server'.stream # NoStream =>
               Forward(Succ(server'.bseq), base) + (FileLen - 1 - server'.stream) < Width
    PROVE  /\ Window(base)'
           /\ \A i \in 1..Len(air') : air'[i].opcode # "burst" /\ air'[i].seq = ftp'.seq => air'[i] = x
<1> DEFINE a == Aged(f)
<1>1. \A i \in 1..Len(a) : /\ Forward(a[i].seq, base) < Width
                           /\ a[i].opcode # "burst" => Forward(a[i].seq, base) < MaxAge
  BY AgedWindow
<1>2. a \in Seq(Replies)
  BY AirAged DEF AirOk, FtpInv
<1>3. air' = a \/ air' = Append(a, x)
  BY DEF Sends
<1> HIDE DEF a
<1>4. /\ Len(Append(a, x)) = Len(a) + 1 /\ Len(a) \in Nat
      /\ \A i \in 1..Len(a) : Append(a, x)[i] = a[i]
      /\ Append(a, x)[Len(a) + 1] = x
  BY <1>2, AppendProperties, LenProperties
<1>5. \A i \in 1..Len(air') : air'[i] = x \/ \E k \in 1..Len(a) : air'[i] = a[k]
  <2>1. CASE air' = a
    BY <2>1
  <2>2. CASE air' = Append(a, x)
    <3> DEFINE t == Append(a, x)
    <3>1. air' = t /\ \A i \in 1..Len(t) : i = Len(a) + 1 \/ i \in 1..Len(a)
      BY <1>4, <2>2
    <3>2. \A i \in 1..Len(t) : t[i] = x \/ \E k \in 1..Len(a) : t[i] = a[k]
      BY <1>4, <3>1
    <3> HIDE DEF t
    <3> QED BY <3>1, <3>2
  <2> QED BY <1>3, <2>1, <2>2
<1>6. MaxAge < Width /\ MaxAge \in MaxAge..Width
  BY Lengths
<1>7. ASSUME NEW i \in 1..Len(air')
      PROVE  /\ InWindow(air'[i], ftp'.seq, base)
             /\ air'[i].opcode # "burst" /\ air'[i].seq = ftp'.seq => air'[i] = x
  <2>1. CASE air'[i] = x
    BY <1>6, <2>1, Lengths DEF InWindow
  <2>2. CASE \E k \in 1..Len(a) : air'[i] = a[k]
    <3> PICK k \in 1..Len(a) : air'[i] = a[k]
      BY <2>2
    <3>1. /\ Forward(a[k].seq, base) < Width
          /\ a[k].opcode # "burst" => Forward(a[k].seq, base) < MaxAge
      BY <1>1
    <3>2. a[k].seq \in Numbers
      <4>1. a[k] \in Replies
        BY <1>2, ElementOfSeq
      <4> QED BY <4>1 DEF Replies
    <3>3. Forward(a[k].seq, base) \in 0..(SeqCycle - 1)
      BY <3>2, Places
    <3>4. a[k].opcode # "burst" => Forward(a[k].seq, base) <= MaxAge
      BY <3>1, <3>3, Lengths
    <3>5. a[k].seq = ftp'.seq => Forward(a[k].seq, base) = MaxAge
      OBVIOUS
    <3>6. MaxAge \in Int
      BY Lengths
    <3> QED BY <3>1, <3>3, <3>4, <3>5, <3>6 DEF InWindow
  <2> QED BY <1>5, <2>1, <2>2
<1>8. Window(base)'
  BY <1>6, <1>7 DEF Window
<1> QED BY <1>7, <1>8

LEMMA NumbersDiffer ==
    \A n \in Numbers : Succ(n) \in Numbers /\ Succ(n) # n /\ Succ(Succ(n)) # n
<1> TAKE n \in Numbers
<1> DEFINE k == Succ(n)
           m == Succ(k)
<1>1. k \in Numbers /\ k = IF n + 1 = SeqCycle THEN 0 ELSE n + 1
  BY NumberNext, CycleIs
<1> HIDE DEF k
<1>2. m = IF k + 1 = SeqCycle THEN 0 ELSE k + 1
  BY <1>1, CycleIs
<1> HIDE DEF m
<1>3. SeqCycle > 2
  BY Lengths
<1>4. k # n /\ m # n
  BY <1>1, <1>2, <1>3, Lengths
<1> QED BY <1>1, <1>4 DEF k, m

(* The requests of the operations keep it so.                                *)
GoneGrows(opcode) ==
    server.gone \subseteq server'.gone /\ (server'.gone = server.gone \/ opcode \in Removals)

LEMMA RequestAnswers ==
    ASSUME FtpInv, Answers, NEW f \in Ftps, f.seq = ftp.seq, NEW opcode \in Opcodes,
           NEW arg \in Args, ArgOk(opcode, arg), NEW n \in {1, 2, Tries},
           Request(f, opcode, arg, n)
    PROVE  /\ Answers' /\ GoneGrows(opcode)
           /\ ask' # NoAsk /\ ask'.opcode = opcode /\ ask'.arg = arg
           /\ ftp'.op = f.op /\ ftp'.step = opcode
<1> DEFINE g == [f EXCEPT !.seq = Allocated(@), !.step = opcode]
           r == [opcode |-> opcode, arg |-> arg, seq |-> f.seq, left |-> n]
<1>1. /\ ftp' = g
      /\ \/ /\ Settle(r, IF f.cancelRequested THEN "cancelled" ELSE "failed")
            /\ server' = Forgetful(g) /\ air' = Aged(g)
         \/ Serve(g, r, TRUE)
  BY DEF Request
<1>2. /\ g.seq = Succ(ftp.seq) /\ g.op = f.op /\ g.step = opcode
      /\ r.opcode = opcode /\ r.arg = arg /\ r.seq = ftp.seq /\ opcode # "burst"
  BY DEF Ftps, Allocated, Opcodes
<1>3. r \in Writings
  <2>1. n \in 0..Tries \cup {1, 2}
    BY FtpNumbers
  <2> QED BY <2>1 DEF Writings, Ftps
<1> HIDE DEF g, r
<1>4. ServerInv /\ ftp.seq \in Numbers /\ g.seq \in Numbers
  BY <1>2, TypedAnswers, NumberNext DEF FtpInv
<1> PICK low \in Numbers : Window(low)
  BY DEF Answers
<1> PICK base \in Numbers : Forward(g.seq, base) = MaxAge
  BY <1>4, Places
<1>5. ftp'.seq = g.seq /\ ftp'.op = f.op /\ ftp'.step = opcode
  BY <1>1, <1>2
<1>6. ASSUME server'.bseq = server.bseq,
             server'.stream # NoStream =>
                 server'.stream = server.stream /\ Fresh(g, Succ(server.bseq)),
             NEW x, x.seq = g.seq, air' = Aged(g) \/ Sends(Aged(g), x)
      PROVE  /\ Window(base)'
             /\ \A i \in 1..Len(air') :
                  air'[i].opcode # "burst" /\ air'[i].seq = ftp'.seq => air'[i] = x
  <2>1. server'.stream # NoStream =>
            Forward(Succ(server'.bseq), base) + (FileLen - 1 - server'.stream) < Width
    BY <1>2, <1>6, AgedWindow
  <2> QED BY <1>2, <1>5, <1>6, <2>1, NewWindow
<1>7. ASSUME server' = Forgetful(g), air' = Aged(g), ask' # NoAsk, ask'.opcode = opcode,
             ask'.arg = arg, ask'.seq = ftp.seq, ask'.ran = 0, ask'.got.arg = <<>>,
             ask'.got.kind \in {"waiting", "cancelled", "failed"}
      PROVE  Answers' /\ GoneGrows(opcode)
  <2> DEFINE x == [opcode |-> "burst", seq |-> g.seq]
  <2>1. /\ server'.last = NoReply /\ server'.gone = server.gone /\ server'.bseq = server.bseq
        /\ server'.stream # NoStream =>
              server'.stream = server.stream /\ Fresh(g, Succ(server.bseq))
    BY <1>4, <1>7, ServerForgets
  <2>2. x.seq = g.seq /\ x.opcode = "burst"
    OBVIOUS
  <2> HIDE DEF x
  <2>3. /\ Window(base)'
        /\ \A i \in 1..Len(air') :
              air'[i].opcode # "burst" /\ air'[i].seq = ftp'.seq => air'[i] = x
    BY <1>6, <1>7, <2>1, <2>2
  <2>4. LastInv'
    BY <1>2, <1>5, <2>1 DEF LastInv
  <2>5. AskTrue'
    <3>1. Truth(server'.gone, ask'.opcode, ask'.arg, ask'.got.kind, ask'.got.body)
      BY <1>7 DEF Truth
    <3>2. ftp'.seq = Succ(ask'.seq)
      BY <1>2, <1>5, <1>7
    <3>3. 0 <= 1 /\ 0 # 1
      OBVIOUS
    <3> QED BY <1>7, <2>2, <2>3, <3>1, <3>2, <3>3 DEF AskTrue
  <2> QED BY <2>1, <2>3, <2>4, <2>5 DEF Answers, GoneGrows
<1>8. CASE /\ Settle(r, IF f.cancelRequested THEN "cancelled" ELSE "failed")
           /\ server' = Forgetful(g) /\ air' = Aged(g)
  <2>1. PICK k \in {"cancelled", "failed"} : Settle(r, k)
    BY <1>8
  <2>2. r.opcode \in Opcodes /\ r.arg \in Args /\ r.seq \in Numbers
    BY <1>3 DEF Writings
  <2>3. /\ ask' # NoAsk /\ ask'.opcode = opcode /\ ask'.arg = arg
        /\ ask'.got.kind = k /\ ask'.seq = ftp.seq /\ ask'.ran = 0 /\ ask'.got.arg = <<>>
    BY <1>2, <2>1, <2>2, SettleOk
  <2> QED BY <1>5, <1>7, <1>8, <2>3
<1>9. CASE Serve(g, r, TRUE)
  <2>1. \/ /\ ask' = Pending(r, 0) /\ air' = Aged(g) /\ server' = Forgetful(g)
        \/ Repeats(r)
        \/ /\ ask' = Pending(r, 0 + 1)
           /\ \E e \in {Effect(r.opcode, r.arg), Refusal} : \E b \in Damaged(r, e) :
                    /\ server' = Outlasts(g, [e.state EXCEPT !.last = Answer(r, e, b)])
                    /\ Sends(Aged(g), Answer(r, e, b))
    BY <1>9, Serves
  <2>2. \A m \in Nat : /\ Pending(r, m) # NoAsk /\ Pending(r, m).opcode = opcode
                       /\ Pending(r, m).arg = arg /\ Pending(r, m).seq = ftp.seq
                       /\ Pending(r, m).got = Waiting /\ Pending(r, m).ran = m
    BY <1>2, <1>3, PendingOk DEF Pending
  <2>w. Waiting.arg = <<>> /\ Waiting.kind = "waiting"
    BY DEF Waiting
  <2>3. CASE ask' = Pending(r, 0) /\ air' = Aged(g) /\ server' = Forgetful(g)
    <3>1. /\ ask' # NoAsk /\ ask'.opcode = opcode /\ ask'.arg = arg /\ ask'.seq = ftp.seq
          /\ ask'.ran = 0 /\ ask'.got.arg = <<>> /\ ask'.got.kind = "waiting"
      BY <2>2, <2>3, <2>w
    <3> QED BY <1>5, <1>7, <2>3, <3>1
  <2>4. ~Repeats(r)
    <3> SUFFICES ASSUME Repeats(r) PROVE FALSE
      OBVIOUS
    <3>1. server.last # NoReply /\ server.last.seq = Succ(ftp.seq)
      BY <1>2 DEF Repeats
    <3>2. server.last.seq = ftp.seq \/ Succ(server.last.seq) = ftp.seq
      BY <3>1 DEF Answers, LastInv
    <3> QED BY <1>4, <3>1, <3>2, NumbersDiffer
  <2>5. CASE /\ ask' = Pending(r, 0 + 1)
             /\ \E e \in {Effect(r.opcode, r.arg), Refusal} : \E b \in Damaged(r, e) :
                    /\ server' = Outlasts(g, [e.state EXCEPT !.last = Answer(r, e, b)])
                    /\ Sends(Aged(g), Answer(r, e, b))
    <3> PICK e \in {Effect(r.opcode, r.arg), Refusal} : \E b \in Damaged(r, e) :
                    /\ server' = Outlasts(g, [e.state EXCEPT !.last = Answer(r, e, b)])
                    /\ Sends(Aged(g), Answer(r, e, b))
      BY <2>5
    <3>1. PICK b \in Damaged(r, e) :
                    /\ server' = Outlasts(g, [e.state EXCEPT !.last = Answer(r, e, b)])
                    /\ Sends(Aged(g), Answer(r, e, b))
      OBVIOUS
    <3> DEFINE x == Answer(r, e, b)
    <3>2. ArgOk(r.opcode, r.arg) /\ server' = Outlasts(g, [e.state EXCEPT !.last = x])
          /\ Sends(Aged(g), x)
      BY <1>2, <3>1
    <3>3. /\ server'.last = x /\ x # NoReply
          /\ x.opcode = r.opcode /\ x.arg = r.arg /\ x.seq = Succ(r.seq) /\ x.kind # "waiting"
          /\ Truth(server'.gone, x.opcode, x.arg, x.kind, x.body)
          /\ server.gone \subseteq server'.gone
          /\ server'.gone = server.gone \/ r.opcode \in Removals
          /\ server'.bseq = server.bseq
          /\ server'.stream # NoStream =>
                server'.stream = server.stream /\ Fresh(g, Succ(server.bseq))
      BY <1>3, <1>4, <3>2, ExecutedTrue, SMTT(30)
    <3> HIDE DEF x
    <3>4. x.seq = g.seq /\ x.opcode = opcode /\ x.arg = arg
      BY <1>2, <3>3
    <3>5. /\ Window(base)'
          /\ \A i \in 1..Len(air') :
              air'[i].opcode # "burst" /\ air'[i].seq = ftp'.seq => air'[i] = x
      BY <1>6, <3>2, <3>3, <3>4
    <3>6. /\ ask' # NoAsk /\ ask'.opcode = opcode /\ ask'.arg = arg /\ ask'.seq = ftp.seq
          /\ ask'.ran = 1 /\ ask'.got.arg = <<>> /\ ask'.got.kind = "waiting"
      <4>1. 0 + 1 = 1 /\ 1 \in Nat
        OBVIOUS
      <4> QED BY <2>2, <2>5, <2>w, <4>1
    <3>7. Replying(x)'
      BY <3>3, <3>4, <3>6 DEF Replying
    <3>8. LastInv'
      BY <1>2, <1>5, <3>3, <3>4, <3>7 DEF LastInv
    <3>9. AskTrue'
      <4>1. Truth(server'.gone, ask'.opcode, ask'.arg, ask'.got.kind, ask'.got.body)
        BY <3>6 DEF Truth
      <4>2. ftp'.seq = Succ(ask'.seq) /\ server'.last # NoReply /\ 1 <= 1
        BY <1>2, <1>5, <3>3, <3>6
      <4>3. \A i \in 1..Len(air') :
              air'[i].opcode # "burst" /\ air'[i].seq = ftp'.seq => Replying(air[i])'
        BY <3>5, <3>7 DEF Replying
      <4> QED BY <3>6, <4>1, <4>2, <4>3 DEF AskTrue
    <3>10. GoneGrows(opcode)
      BY <1>2, <3>3 DEF GoneGrows
    <3> QED BY <1>5, <3>5, <3>6, <3>8, <3>9, <3>10 DEF Answers
  <2> QED BY <2>1, <2>3, <2>4, <2>5
<1> QED BY <1>1, <1>8, <1>9

(* Nothing is asked, or what was asked is given up.                          *)
LEMMA AnswersStay ==
    ASSUME FtpInv, Answers, server' = server, air' = air \/ air' = <<>>, ftp'.seq = ftp.seq,
           ftp'.step = "burst" => ftp.step = "burst",
           \/ ask' = NoAsk \/ ask' = ask
           \/ /\ ask # NoAsk /\ ask'.got.arg = <<>> /\ ask'.got.kind \in {"cancelled", "failed"}
              /\ ask'.ran <= 1
    PROVE  Answers'
<1> PICK low \in Numbers : Window(low)
  BY DEF Answers
<1>1. LastInv /\ AskTrue
  BY DEF Answers
<1>2. Pends' => Pends /\ ask' = ask
  BY DEF Pends, Waiting
<1>3. \A i \in 1..Len(air') : i \in 1..Len(air) /\ air'[i] = air[i]
  BY EmptySeq
<1>4. Window(low)'
  BY <1>2, <1>3 DEF Window
<1>5. LastInv'
  <2>1. Pends' /\ server.last # NoReply => Replying(server.last)'
    BY <1>1, <1>2 DEF LastInv, Replying
  <2> QED BY <1>1, <1>2, <2>1 DEF LastInv
<1>6. AskTrue'
  <2>1. ask'.ran <= 1
    BY <1>1 DEF AskTrue, NoAsk
  <2>2. ask' # NoAsk => /\ ask'.got.arg = <<>> \/ ask'.got.arg = ask'.arg
                        /\ Truth(server'.gone, ask'.opcode, ask'.arg, ask'.got.kind, ask'.got.body)
    BY <1>1 DEF AskTrue, Truth
  <2>3. Pends' => /\ ftp'.seq = Succ(ask'.seq)
                  /\ ask'.ran = 1 => server'.last # NoReply
                  /\ \A i \in 1..Len(air') :
                       air'[i].opcode # "burst" /\ air'[i].seq = ftp'.seq => Replying(air[i])'
    BY <1>1, <1>2, <1>3 DEF AskTrue, Replying
  <2> QED BY <2>1, <2>2, <2>3 DEF AskTrue
<1> QED BY <1>4, <1>5, <1>6 DEF Answers

(* A burst begins: what it refuses and what it streams is ahead of the rest. *)
LEMMA BurstAnswers ==
    ASSUME FtpInv, Answers, FtpInv', NEW g, Burst(g)
    PROVE  Answers' /\ server'.gone = server.gone
<1> DEFINE f == [ftp EXCEPT !.seq = Allocated(@)]
           x == [opcode |-> "burst", arg |-> <<g.path>>, seq |-> Succ(ftp.seq), kind |-> "nak",
                 body |-> <<>>]
           t == Forgetful(f)
           z == [t EXCEPT !.stream = FirstGap(g.missing)[1], !.bseq = ftp.seq]
<1>1. /\ ask' = NoAsk
      /\ \E step \in {"flush", "burst"} : ftp' = [f EXCEPT !.step = step]
      /\ \/ air' = Aged(f) /\ server' = t
         \/ Sends(Aged(f), x) /\ server' = t
         \/ air' = Aged(f) /\ server' = z
  BY DEF Burst
<1>2. /\ ftp \in Ftps /\ ftp.seq \in Numbers /\ Succ(ftp.seq) \in Numbers /\ server \in Servers
      /\ ServerInv
  BY TypedAnswers, NumberNext DEF FtpInv
<1>3. f.seq = Succ(ftp.seq) /\ ftp'.seq = f.seq
  BY <1>1, <1>2 DEF Ftps, Allocated
<1>4. x.seq = f.seq /\ x.opcode = "burst"
  BY <1>3
<1>5. /\ t \in Servers /\ t.last = NoReply /\ t.gone = server.gone /\ t.bseq = server.bseq
      /\ t.stream \in {server.stream, NoStream}
      /\ t.stream # NoStream => Fresh(f, Succ(server.bseq))
  BY <1>2, ServerForgets
<1> HIDE DEF t
<1>6. z.last = NoReply /\ z.gone = server.gone /\ z.bseq = ftp.seq
  BY <1>5 DEF Servers
<1> HIDE DEF f, x, z
<1> PICK low \in Numbers : Window(low)
  BY DEF Answers
<1> PICK base \in Numbers : Forward(f.seq, base) = MaxAge
  BY <1>2, <1>3, Places
<1>7. server'.stream # NoStream =>
          Forward(Succ(server'.bseq), base) + (FileLen - 1 - server'.stream) < Width
  <2>1. CASE server' = t
    BY <1>3, <1>5, <2>1, AgedWindow
  <2>2. CASE server' = z
    <3>1. server'.stream # NoStream => server'.stream \in 0..(FileLen - 1)
      BY DEF FtpInv, ServerInv, Units
    <3>2. Forward(Succ(server'.bseq), base) = MaxAge
      BY <1>3, <1>6, <2>2
    <3> DEFINE s == server'.stream
    <3> HIDE DEF s
    <3>3. s \in 0..(FileLen - 1) => MaxAge + (FileLen - 1 - s) < Width
      BY Lengths
    <3> QED BY <3>1, <3>2, <3>3 DEF s
  <2> QED BY <1>1, <2>1, <2>2
<1>8. air' = Aged(f) \/ Sends(Aged(f), x)
  BY <1>1
<1>9. Window(base)'
  BY <1>3, <1>4, <1>7, <1>8, NewWindow
<1>10. server'.last = NoReply /\ server'.gone = server.gone
  BY <1>1, <1>5, <1>6
<1>11. ~Pends'
  BY <1>1 DEF Pends
<1>12. LastInv' /\ AskTrue'
  BY <1>1, <1>10, <1>11 DEF LastInv, AskTrue, NoAsk
<1> QED BY <1>9, <1>10, <1>12 DEF Answers

(* A frame is handled: its number is passed, and an answer is the right one. *)
LEMMA HandleAnswers ==
    ASSUME FtpInv, Answers, HandleFtpPayload
    PROVE  Answers'
<1> DEFINE x == air[1]
           n == Advanced(ftp.seq, x.seq)
<1>1. /\ air # <<>> /\ air' = Tail(air) /\ UNCHANGED server
      /\ \/ /\ Matches(x) /\ ask' = [ask EXCEPT !.got = [kind |-> x.kind, arg |-> x.arg, body |-> x.body]]
            /\ ftp' = [ftp EXCEPT !.seq = Advanced(@, x.seq)]
         \/ /\ ftp.step = "burst" /\ x.opcode = "burst"
            /\ ftp' = [ftp EXCEPT !.seq = Advanced(@, x.seq),
                                  !.step = IF x.kind = "ack" THEN "burst" ELSE "flush"]
            /\ UNCHANGED ask
         \/ UNCHANGED <<ask, ftp>>
  BY DEF HandleFtpPayload
<1>2. /\ ftp \in Ftps /\ ftp.seq \in Numbers /\ air \in Seq(Replies) /\ LastInv /\ AskTrue
      /\ \A i \in 1..Len(air) : air[i].seq \in Numbers
  BY TypedAnswers DEF Answers
<1>3. /\ 1 \in 1..Len(air) /\ x.seq \in Numbers
      /\ \A i \in 1..Len(air') : \E k \in 1..Len(air) : air'[i] = air[k]
  <2>1. 1 \in 1..Len(air)
    BY <1>1, <1>2, Popped
  <2>2. \A i \in 1..Len(Tail(air)) : \E k \in 1..Len(air) : Tail(air)[i] = air[k]
    BY <1>1, <1>2, PoppedFrom
  <2> QED BY <1>1, <1>2, <2>1, <2>2
<1> PICK low \in Numbers : Window(low)
  BY DEF Answers
<1>4. Forward(ftp.seq, low) \in MaxAge..Width /\ Forward(x.seq, low) < Width
  BY <1>3 DEF Window, InWindow
<1>5. /\ n \in Numbers /\ Forward(n, low) \in MaxAge..Width
      /\ Forward(n, low) >= Forward(ftp.seq, low)
      /\ Forward(ftp.seq, low) <= Forward(x.seq, low) => n = Succ(x.seq)
  BY <1>2, <1>3, <1>4, AdvancedPlace
<1> HIDE DEF n, x
<1>6. ASSUME ftp'.seq = n, ~Pends'
      PROVE  Window(low)'
  <2>1. ASSUME NEW i \in 1..Len(air') PROVE InWindow(air'[i], n, low)
    <3> PICK k \in 1..Len(air) : air'[i] = air[k]
      BY <1>3
    <3>1. InWindow(air[k], ftp.seq, low) /\ air[k].seq \in Numbers
      BY <1>2 DEF Window
    <3>2. /\ Forward(air[k].seq, low) \in 0..(SeqCycle - 1)
          /\ Forward(n, low) \in 0..(SeqCycle - 1) /\ Forward(ftp.seq, low) \in 0..(SeqCycle - 1)
      BY <1>2, <1>5, <3>1, Places
    <3> QED BY <1>5, <3>1, <3>2, Lengths DEF InWindow
  <2>2. server.stream # NoStream =>
          Forward(Succ(server.bseq), low) + (FileLen - 1 - server.stream) < Width
    BY DEF Window
  <2> QED BY <1>1, <1>5, <1>6, <2>1, <2>2 DEF Window
<1>7. CASE UNCHANGED <<ask, ftp>>
  <2>1. Window(low)'
    BY <1>1, <1>3, <1>7 DEF Window, Pends
  <2>2. LastInv'
    BY <1>1, <1>2, <1>7 DEF LastInv, Pends, Replying
  <2>3. AskTrue'
    <3>1. Pends' <=> Pends
      BY <1>7 DEF Pends
    <3>2. ASSUME Pends, NEW i \in 1..Len(air'), air'[i].opcode # "burst", air'[i].seq = ftp'.seq
          PROVE  Replying(air[i])'
      <4> PICK k \in 1..Len(air) : air'[i] = air[k]
        BY <1>3
      <4>1. Replying(air[k])
        BY <1>2, <1>7, <3>2 DEF AskTrue
      <4> QED BY <1>1, <1>7, <4>1 DEF Replying
    <3> QED BY <1>1, <1>2, <1>7, <3>1, <3>2 DEF AskTrue
  <2> QED BY <2>1, <2>2, <2>3 DEF Answers
<1>8. CASE /\ Matches(x)
           /\ ask' = [ask EXCEPT !.got = [kind |-> x.kind, arg |-> x.arg, body |-> x.body]]
           /\ ftp' = [ftp EXCEPT !.seq = Advanced(@, x.seq)]
  <2>1. Pends /\ x.opcode = ask.opcode /\ x.seq = Succ(ask.seq)
    BY <1>8 DEF Matches, Pends
  <2>2. /\ ask \in Asks /\ ask.opcode \in Opcodes /\ ask.opcode = ftp.step
    BY <2>1, TypedAnswers DEF Pends
  <2>3. ftp'.seq = n /\ ftp'.step = ftp.step
    BY <1>2, <1>8 DEF Ftps, n
  <2>4. x.seq = ftp.seq /\ x.opcode # "burst"
    BY <1>2, <2>1, <2>2 DEF AskTrue, Opcodes
  <2>5. Replying(x)
    BY <1>2, <1>3, <2>1, <2>4 DEF AskTrue, x
  <2>6. n = Succ(ftp.seq)
    BY <1>4, <1>5, <2>4, Lengths
  <2> DEFINE q == [kind |-> x.kind, arg |-> x.arg, body |-> x.body]
  <2>7. q.kind # "waiting" /\ q.arg = ask.arg /\ q # Waiting
        /\ q.kind = x.kind /\ q.body = x.body
    BY <2>5 DEF Replying, Waiting
  <2> HIDE DEF q
  <2>8. /\ ask'.opcode = ask.opcode /\ ask'.arg = ask.arg /\ ask'.got = q /\ ask'.ran = ask.ran
    BY <1>8, <2>2 DEF Asks, q
  <2>9. ~Pends'
    BY <2>7, <2>8 DEF Pends
  <2>10. Window(low)'
    BY <1>6, <2>3, <2>9
  <2>11. LastInv'
    <3>1. server.last # NoReply =>
            server.last.opcode \in Opcodes /\ Succ(server.last.seq) = ftp'.seq
      BY <1>2, <2>1, <2>3, <2>6 DEF LastInv
    <3>2. ftp'.step # "burst"
      BY <2>2, <2>3 DEF Opcodes
    <3> QED BY <1>1, <2>9, <3>1, <3>2 DEF LastInv
  <2>12. AskTrue'
    <3>1. Truth(server.gone, ask.opcode, ask.arg, q.kind, q.body)
      BY <2>5, <2>7 DEF Replying
    <3> QED BY <1>1, <1>2, <2>7, <2>8, <2>9, <3>1 DEF AskTrue
  <2> QED BY <2>10, <2>11, <2>12 DEF Answers
<1>9. CASE /\ ftp.step = "burst" /\ x.opcode = "burst"
           /\ ftp' = [ftp EXCEPT !.seq = Advanced(@, x.seq),
                                 !.step = IF x.kind = "ack" THEN "burst" ELSE "flush"]
           /\ UNCHANGED ask
  <2>1. ask = NoAsk
    <3> SUFFICES ASSUME ask # NoAsk PROVE FALSE
      OBVIOUS
    <3>1. ask.opcode \in Opcodes /\ ask.opcode = "burst"
      BY <1>9, TypedAnswers
    <3> QED BY <3>1 DEF Opcodes
  <2>2. ftp'.seq = n
    <3> PICK s : ftp' = [ftp EXCEPT !.seq = Advanced(@, x.seq), !.step = s]
      BY <1>9
    <3> QED BY <1>2 DEF Ftps, n
  <2>3. ~Pends' /\ ask' = NoAsk
    BY <1>9, <2>1 DEF Pends
  <2>4. Window(low)'
    BY <1>6, <2>2, <2>3
  <2>5. server'.last = NoReply
    BY <1>1, <1>2, <1>9 DEF LastInv
  <2>6. LastInv' /\ AskTrue'
    BY <2>3, <2>5 DEF LastInv, AskTrue, NoAsk
  <2> QED BY <2>4, <2>6 DEF Answers
<1> QED BY <1>1, <1>7, <1>8, <1>9

(* The request is written again or given up.                                 *)
LEMMA TimeoutAnswers ==
    ASSUME FtpInv, Answers, RequestTimeout
    PROVE  /\ Answers' /\ Pends /\ GoneGrows(ask.opcode) /\ UNCHANGED <<ftp, transferVars>>
           /\ ask' # NoAsk /\ ask'.opcode = ask.opcode /\ ask'.arg = ask.arg
<1> DEFINE r == Again(ask.seq)
<1>1. /\ Pends /\ UNCHANGED <<ftp, transferVars>>
      /\ \/ Settle(r, "failed") /\ UNCHANGED <<server, air>>
         \/ ask.left > 1 /\ Serve(ftp, r, FALSE)
  BY DEF RequestTimeout, Retransmit, Pends
<1>2. /\ ask \in Asks /\ ask.opcode \in Opcodes /\ ArgOk(ask.opcode, ask.arg) /\ ask.ran \in Nat
      /\ ftp.seq \in Numbers /\ ask.opcode # "burst" /\ LastInv /\ AskTrue /\ ServerInv
      /\ air \in Seq(Replies)
  BY <1>1, TypedAnswers DEF Pends, Asks, Opcodes, Answers, FtpInv
<1>3. /\ r.opcode = ask.opcode /\ r.arg = ask.arg /\ r.seq = ask.seq /\ r.left = ask.left - 1
      /\ r.opcode \in Opcodes /\ r.arg \in Args /\ r.seq \in Numbers
  BY <1>2 DEF Again, Asks
<1>4. /\ ftp.seq = Succ(r.seq) /\ (ask.ran = 1 => server.last # NoReply)
      /\ ask.ran \in {0, 1}
      /\ \A i \in 1..Len(air) :
           air[i].opcode # "burst" /\ air[i].seq = ftp.seq => Replying(air[i])
      /\ server.last # NoReply => server.last.seq = ftp.seq /\ Replying(server.last)
                                  /\ server.last.opcode \in Opcodes
  BY <1>1, <1>2, <1>3 DEF AskTrue, LastInv
<1> PICK low \in Numbers : Window(low)
  BY DEF Answers
<1>5. CASE Settle(r, "failed") /\ UNCHANGED <<server, air>>
  <2> HIDE DEF r
  <2>1. /\ ask' # NoAsk /\ ask'.opcode = r.opcode /\ ask'.arg = r.arg /\ ask'.got.kind = "failed"
        /\ ask'.ran = 0 /\ ask'.got.arg = <<>>
    BY <1>3, <1>5, SettleOk
  <2>2. Answers'
    BY <1>1, <1>5, <2>1, AnswersStay DEF Pends
  <2> QED BY <1>1, <1>3, <1>5, <2>1, <2>2 DEF GoneGrows
<1>6. CASE ask.left > 1 /\ Serve(ftp, r, FALSE)
  <2>1. r \in Writings
    <3>1. ask.left - 1 \in 0..Tries \cup {1, 2}
      <4>1. ask.left \in 0..Tries \cup {1, 2}
        BY <1>2 DEF Asks
      <4> QED BY <1>6, <4>1, FtpNumbers
    <3> QED BY <1>3, <3>1 DEF Writings, Again
  <2> HIDE DEF r
  <2>2. \/ ask' = Pending(r, ask.ran) /\ air' = air /\ server' = server
        \/ Repeats(r) /\ ask' = Pending(r, ask.ran) /\ server' = server /\ Sends(air, server.last)
        \/ /\ ~Repeats(r) /\ ask' = Pending(r, ask.ran + 1)
           /\ \E e \in {Effect(r.opcode, r.arg), Refusal} : \E b \in Damaged(r, e) :
                    /\ server' = Outlasts(ftp, [e.state EXCEPT !.last = Answer(r, e, b)])
                    /\ Sends(air, Answer(r, e, b))
    BY <1>6, Serves
  <2>3. \A m \in Nat : /\ Pending(r, m) # NoAsk /\ Pending(r, m).opcode = ask.opcode
                       /\ Pending(r, m).arg = ask.arg /\ Pending(r, m).seq = ask.seq
                       /\ Pending(r, m).got = Waiting /\ Pending(r, m).ran = m
    BY <1>3, <2>1, PendingOk DEF Pending
  <2>w. Waiting.arg = <<>> /\ Waiting.kind = "waiting"
    BY DEF Waiting
  (* What has come about in either case.                                     *)
  <2>4. ASSUME NEW m \in {0, 1}, ask' = Pending(r, m), GoneGrows(ask.opcode),
               server'.bseq = server.bseq, server'.stream \in {server.stream, NoStream},
               NEW x, air' = air \/ Sends(air, x), x.seq = ftp.seq, x.opcode = ask.opcode,
               x.arg = ask.arg, x.kind # "waiting",
               Truth(server'.gone, x.opcode, x.arg, x.kind, x.body),
               server'.last = x \/ (server' = server /\ (m = 1 => ask.ran = 1))
        PROVE  /\ Answers' /\ GoneGrows(ask.opcode)
               /\ ask' # NoAsk /\ ask'.opcode = ask.opcode /\ ask'.arg = ask.arg
    <3>1. /\ ask' # NoAsk /\ ask'.opcode = ask.opcode /\ ask'.arg = ask.arg /\ ask'.seq = ask.seq
          /\ ask'.ran = m /\ ask'.got = Waiting
      BY <2>3, <2>4
    <3>2. \A y : Replying(y) => /\ y.opcode = ask'.opcode /\ y.arg = ask'.arg /\ y.kind # "waiting"
                                /\ Truth(server'.gone, y.opcode, y.arg, y.kind, y.body)
      <4> TAKE y
      <4> HAVE Replying(y)
      <4>1. /\ y.opcode = ask.opcode /\ y.arg = ask.arg /\ y.kind # "waiting"
            /\ Truth(server.gone, y.opcode, y.arg, y.kind, y.body)
        BY DEF Replying
      <4>2. server.gone \subseteq server'.gone /\ (server'.gone = server.gone \/ y.opcode \in Removals)
        BY <2>4, <4>1 DEF GoneGrows
      <4>3. Truth(server'.gone, y.opcode, y.arg, y.kind, y.body)
        BY <4>1, <4>2, TruthStays
      <4> QED BY <3>1, <4>1, <4>3
    <3>3. \A i \in 1..Len(air') : air'[i] = x \/ \E k \in 1..Len(air) : air'[i] = air[k]
      <4>1. CASE air' = air
        BY <4>1
      <4>2. CASE Sends(air, x)
        <5> DEFINE t == Append(air, x)
        <5>1. /\ Len(t) = Len(air) + 1 /\ Len(air) \in Nat /\ t[Len(air) + 1] = x
              /\ \A i \in 1..Len(air) : t[i] = air[i]
          BY <1>2, AppendProperties, LenProperties
        <5>2. air' = air \/ air' = t
          BY <4>2 DEF Sends
        <5> HIDE DEF t
        <5>3. \A i \in 1..Len(t) : i = Len(air) + 1 \/ i \in 1..Len(air)
          BY <5>1
        <5> QED BY <5>1, <5>2, <5>3
      <4> QED BY <2>4, <4>1, <4>2
    <3>4. Window(low)'
      <4>1. Forward(ftp.seq, low) < Width /\ Forward(ftp.seq, low) \in Int
        BY <1>1, <1>2, Lengths DEF Window
      <4>2. InWindow(x, ftp.seq, low)
        BY <2>4, <4>1 DEF InWindow
      <4>3. \A i \in 1..Len(air') : InWindow(air'[i], ftp.seq, low)
        BY <3>3, <4>2 DEF Window
      <4>4. server'.stream # NoStream =>
               Forward(Succ(server'.bseq), low) + (FileLen - 1 - server'.stream) < Width
        BY <2>4 DEF Window
      <4> QED BY <1>1, <4>1, <4>3, <4>4 DEF Window
    <3>5. LastInv'
      <4>1. CASE server'.last = x
        <5>1. x.opcode \in Opcodes /\ ftp'.seq = x.seq /\ ftp'.step = ask.opcode
          BY <1>1, <1>2, <2>4, TypedAnswers DEF Pends
        <5>2. Replying(server.last)'
          BY <2>4, <3>1, <4>1 DEF Replying
        <5>3. server'.last.opcode \in Opcodes /\ server'.last.seq = ftp'.seq /\ ftp'.step # "burst"
          BY <1>2, <4>1, <5>1
        <5> QED BY <5>2, <5>3 DEF LastInv
      <4>2. CASE server' = server
        <5>1. server.last # NoReply => Replying(server.last)'
          BY <1>4, <3>2, <4>2 DEF Replying
        <5> QED BY <1>1, <1>2, <1>4, <4>2, <5>1 DEF LastInv
      <4> QED BY <2>4, <4>1, <4>2
    <3>6. AskTrue'
      <4>1. x # NoReply
        BY <1>2, <2>4 DEF NoReply, Opcodes
      <4>2. ask'.ran = 1 => server'.last # NoReply
        BY <1>4, <2>4, <3>1, <4>1
      <4>3. ASSUME NEW i \in 1..Len(air'), air'[i].opcode # "burst", air'[i].seq = ftp'.seq
            PROVE  Replying(air[i])'
        <5>1. CASE air'[i] = x
          BY <2>4, <3>1, <5>1 DEF Replying
        <5>2. CASE \E k \in 1..Len(air) : air'[i] = air[k]
          <6> PICK k \in 1..Len(air) : air'[i] = air[k]
            BY <5>2
          <6>1. Replying(air[k])
            BY <1>1, <1>4, <4>3
          <6> QED BY <3>2, <6>1 DEF Replying
        <5> QED BY <3>3, <5>1, <5>2
      <4>4. Truth(server'.gone, ask'.opcode, ask'.arg, ask'.got.kind, ask'.got.body)
        BY <2>w, <3>1 DEF Truth
      <4>5. ask'.ran <= 1 /\ ask'.got.arg = <<>> /\ ftp'.seq = Succ(ask'.seq)
        BY <1>1, <1>3, <1>4, <2>w, <3>1
      <4> QED BY <4>2, <4>3, <4>4, <4>5 DEF AskTrue
    <3> QED BY <2>4, <3>1, <3>4, <3>5, <3>6 DEF Answers
  <2>5. CASE ask' = Pending(r, ask.ran) /\ air' = air /\ server' = server
    <3> DEFINE x == [opcode |-> ask.opcode, arg |-> ask.arg, seq |-> ftp.seq, kind |-> "nak",
                     body |-> <<>>]
    <3>1. /\ x.seq = ftp.seq /\ x.opcode = ask.opcode /\ x.arg = ask.arg /\ x.kind = "nak"
          /\ GoneGrows(ask.opcode)
      BY <2>5 DEF GoneGrows
    <3> HIDE DEF x
    <3>2. Truth(server'.gone, x.opcode, x.arg, x.kind, x.body)
      BY <3>1 DEF Truth
    <3> QED BY <1>1, <1>4, <2>4, <2>5, <3>1, <3>2
  <2>6. CASE /\ Repeats(r) /\ ask' = Pending(r, ask.ran) /\ server' = server
             /\ Sends(air, server.last)
    <3>1. /\ server.last.seq = ftp.seq /\ Replying(server.last) /\ GoneGrows(ask.opcode)
      BY <1>4, <2>6 DEF Repeats, GoneGrows
    <3> QED BY <1>1, <1>4, <2>4, <2>6, <3>1 DEF Replying
  <2>7. CASE /\ ~Repeats(r) /\ ask' = Pending(r, ask.ran + 1)
             /\ \E e \in {Effect(r.opcode, r.arg), Refusal} : \E b \in Damaged(r, e) :
                    /\ server' = Outlasts(ftp, [e.state EXCEPT !.last = Answer(r, e, b)])
                    /\ Sends(air, Answer(r, e, b))
    <3>1. ask.ran + 1 = 1
      <4>1. server.last = NoReply
        BY <1>4, <2>7 DEF Repeats
      <4>2. ask.ran = 0
        BY <1>4, <4>1
      <4> QED BY <4>2
    <3> PICK e \in {Effect(r.opcode, r.arg), Refusal} : \E b \in Damaged(r, e) :
                    /\ server' = Outlasts(ftp, [e.state EXCEPT !.last = Answer(r, e, b)])
                    /\ Sends(air, Answer(r, e, b))
      BY <2>7
    <3>2. PICK b \in Damaged(r, e) :
                    /\ server' = Outlasts(ftp, [e.state EXCEPT !.last = Answer(r, e, b)])
                    /\ Sends(air, Answer(r, e, b))
      OBVIOUS
    <3> DEFINE x == Answer(r, e, b)
    <3>3. ArgOk(r.opcode, r.arg) /\ server' = Outlasts(ftp, [e.state EXCEPT !.last = x])
          /\ Sends(air, x)
      BY <1>2, <1>3, <3>2
    <3>h. ServerInv /\ r \in Writings /\ ArgOk(r.opcode, r.arg)
      BY <1>2, <1>3, <2>1
    <3>j. Executed(server', x, ftp, r)
      BY <3>2 DEF Executed
    <3> HIDE DEF x
    <3>k. /\ server'.last = x /\ x # NoReply
          /\ x.opcode = r.opcode /\ x.arg = r.arg /\ x.seq = Succ(r.seq) /\ x.kind # "waiting"
          /\ Truth(server'.gone, x.opcode, x.arg, x.kind, x.body)
      BY ONLY <3>h, <3>j, ExecutedAnswer
    <3>l. /\ server.gone \subseteq server'.gone
          /\ server'.gone = server.gone \/ r.opcode \in Removals
          /\ server'.bseq = server.bseq
          /\ server'.stream # NoStream => server'.stream = server.stream
      BY ONLY <3>h, <3>j, ExecutedServer
    <3>5. /\ x.seq = ftp.seq /\ x.opcode = ask.opcode /\ x.arg = ask.arg /\ GoneGrows(ask.opcode)
          /\ server'.stream \in {server.stream, NoStream} /\ 1 \in {0, 1}
      BY <1>3, <1>4, <3>k, <3>l DEF GoneGrows
    <3>6. ask' = Pending(r, 1)
      BY <2>7, <3>1
    <3>7. /\ air' = air \/ Sends(air, x)
          /\ server'.bseq = server.bseq /\ x.kind # "waiting" /\ server'.last = x
          /\ Truth(server'.gone, x.opcode, x.arg, x.kind, x.body)
      BY <3>3, <3>k, <3>l
    <3>8. /\ Answers' /\ GoneGrows(ask.opcode)
          /\ ask' # NoAsk /\ ask'.opcode = ask.opcode /\ ask'.arg = ask.arg
      BY ONLY <2>4, <3>5, <3>6, <3>7
    <3> QED BY <1>1, <3>8
  <2> QED BY <1>1, <2>2, <2>5, <2>6, <2>7
<1> QED BY <1>1, <1>5, <1>6

(* The burst goes on, and what is left of it gets shorter.                   *)
LEMMA StreamAnswers ==
    ASSUME FtpInv, Answers, ServerStreams
    PROVE  Answers' /\ server'.gone = server.gone
<1> DEFINE final == server.stream = FileLen - 1
           k == Succ(server.bseq)
<1>1. /\ server.stream # NoStream /\ UNCHANGED <<ftp, ask>>
      /\ \E x : /\ x.opcode = "burst" /\ x.seq = k /\ Sends(air, x)
                /\ server' = [server EXCEPT !.stream = IF final THEN NoStream ELSE @ + 1,
                                            !.bseq = Succ(@)]
  BY DEF ServerStreams
<1>2. /\ server \in Servers /\ server.stream \in 0..(FileLen - 1) /\ k \in Numbers
      /\ air \in Seq(Replies) /\ LastInv /\ AskTrue
  BY <1>1, TypedAnswers, NumberNext DEF Answers
<1> HIDE DEF k
<1>3. PICK x : x.opcode = "burst" /\ x.seq = k /\ Sends(air, x)
  BY <1>1
<1>4. /\ server'.last = server.last /\ server'.gone = server.gone /\ server'.bseq = k
      /\ server'.stream = IF final THEN NoStream ELSE server.stream + 1
  BY <1>1, <1>2 DEF Servers, k
<1> PICK low \in Numbers : Window(low)
  BY DEF Answers
<1> DEFINE q == Forward(k, low)
<1>5. q + (FileLen - 1 - server.stream) < Width /\ q \in 0..(SeqCycle - 1)
  BY <1>1, <1>2, Places DEF Window, k
<1>6. q < Width /\ q <= Width
  <2> HIDE DEF q
  <2> QED BY <1>2, <1>5, Lengths
<1>7. Forward(Succ(k), low) = q + 1
  BY <1>2, <1>6, Places
<1> HIDE DEF q
<1>8. server'.stream # NoStream =>
          Forward(Succ(server'.bseq), low) + (FileLen - 1 - server'.stream) < Width
  BY <1>2, <1>4, <1>5, <1>7, Lengths, SMTT(30)
<1>9. \A i \in 1..Len(air') : air'[i] = x \/ (i \in 1..Len(air) /\ air'[i] = air[i])
  <2> DEFINE t == Append(air, x)
  <2>1. /\ Len(t) = Len(air) + 1 /\ Len(air) \in Nat /\ t[Len(air) + 1] = x
        /\ \A i \in 1..Len(air) : t[i] = air[i]
    BY <1>2, AppendProperties, LenProperties
  <2>2. air' = air \/ air' = t
    BY <1>3 DEF Sends
  <2> HIDE DEF t
  <2>3. \A i \in 1..Len(t) : i = Len(air) + 1 \/ i \in 1..Len(air)
    BY <2>1
  <2> QED BY <2>1, <2>2, <2>3
<1>10. InWindow(x, ftp.seq, low)
  BY <1>3, <1>6 DEF InWindow, q
<1>11. Pends' <=> Pends
  BY <1>1 DEF Pends
<1>12. Window(low)'
  BY <1>1, <1>8, <1>9, <1>10, <1>11 DEF Window
<1>13. LastInv'
  BY <1>1, <1>2, <1>4, <1>11 DEF LastInv, Replying
<1>14. AskTrue'
  <2>1. ASSUME Pends, NEW i \in 1..Len(air'), air'[i].opcode # "burst", air'[i].seq = ftp'.seq
        PROVE  Replying(air[i])'
    <3>1. i \in 1..Len(air) /\ air'[i] = air[i]
      BY <1>3, <1>9, <2>1
    <3>2. Replying(air[i])
      BY <1>1, <1>2, <2>1, <3>1 DEF AskTrue
    <3> QED BY <1>1, <1>4, <3>1, <3>2 DEF Replying
  <2> QED BY <1>1, <1>2, <1>4, <1>11, <2>1 DEF AskTrue
<1> QED BY <1>4, <1>12, <1>13, <1>14 DEF Answers
-----------------------------------------------------------------------------
(* Records of a directory, page by page.                                     *)
LEMMA NoneIs ==
    ASSUME NEW n \in Nat, NEW Bad \in SUBSET (0..n), 0 \notin Bad,
           \A k \in 1..n : k - 1 \notin Bad => k \notin Bad
    PROVE  Bad = {}
<1> SUFFICES ASSUME Bad # {} PROVE FALSE
  OBVIOUS
<1>1. PICK m \in Bad : \A k \in Bad : m <= k
  BY LeastNumber
<1>2. m \in 1..n /\ m - 1 \in Nat /\ ~(m <= m - 1)
  OBVIOUS
<1> QED BY <1>1, <1>2

(* Drawing from a joined sequence is drawing from its parts.                 *)
LEMMA UsableJoins ==
    ASSUME NEW s \in Seq(Names), NEW t \in Seq(Names)
    PROVE  Usable(s \o t) = Usable(s) \o Usable(t)
<1> DEFINE u == s \o t
           m == Len(s)
           n == Len(t)
           P == {i \in DOMAIN s : s[i] # Skip}
           Q == {i \in DOMAIN t : t[i] # Skip}
           R == {i \in DOMAIN u : u[i] # Skip}
<1>1. /\ m \in Nat /\ n \in Nat /\ u \in Seq(Names) /\ Len(u) = m + n
      /\ \A i \in 1..m + n : u[i] = IF i <= m THEN s[i] ELSE t[i - m]
      /\ DOMAIN s = 1..m /\ DOMAIN t = 1..n /\ DOMAIN u = 1..Len(u)
      /\ \A i \in 1..m : s[i] \in Names
      /\ \A i \in 1..n : t[i] \in Names
  BY ConcatProperties, LenProperties, ElementOfSeq
<1>2. PICK a : Recurs(a, s, P, m) /\ Usable(s) = a[m]
  BY DrawnIs DEF Usable
<1>3. PICK b : Recurs(b, t, Q, n) /\ Usable(t) = b[n]
  BY DrawnIs DEF Usable
<1>4. PICK c : Recurs(c, u, R, m + n) /\ Usable(u) = c[m + n]
  <2> HIDE DEF u
  <2> QED BY <1>1, DrawnIs DEF Usable
<1>5. /\ \A i \in 0..m : a[i] = NextDrawn(a, s, P, i)
      /\ \A i \in 0..n : b[i] = NextDrawn(b, t, Q, i)
      /\ \A i \in 0..m + n : c[i] = NextDrawn(c, u, R, i)
  BY <1>2, <1>3, <1>4 DEF Recurs
<1>6. /\ \A i \in 1..m : i \in R <=> i \in P
      /\ \A i \in 1..n : m + i \in R <=> i \in Q
      /\ \A i \in 1..m : u[i] = s[i]
      /\ \A i \in 1..n : u[m + i] = t[i]
  <2>1. \A i \in 1..m : i \in 1..m + n /\ i <= m
    BY <1>1
  <2>2. \A i \in 1..n : m + i \in 1..m + n /\ ~(m + i <= m) /\ m + i - m = i
    BY <1>1
  <2>3. (\A i \in 1..m : u[i] = s[i]) /\ (\A i \in 1..n : u[m + i] = t[i])
    BY <1>1, <2>1, <2>2
  <2> HIDE DEF u
  <2> QED BY <1>1, <2>1, <2>2, <2>3
<1> HIDE DEF u, m, n, P, Q, R
<1>7. \A i \in 0..m : a[i] \in Seq(Names) /\ c[i] = a[i]
  <2> DEFINE Bad == {i \in 0..m : ~(a[i] \in Seq(Names) /\ c[i] = a[i])}
  <2>1. 0 \notin Bad
    <3>1. a[0] = <<>> /\ c[0] = <<>>
      BY <1>1, <1>5 DEF NextDrawn
    <3> QED BY <3>1, EmptySeq
  <2>2. ASSUME NEW k \in 1..m, k - 1 \notin Bad PROVE k \notin Bad
    <3>1. k \in 0..m /\ k \in 0..m + n /\ k # 0 /\ k - 1 \in 0..m
      BY <1>1
    <3>2. a[k - 1] \in Seq(Names) /\ c[k - 1] = a[k - 1]
      BY <2>2, <3>1
    <3>3. /\ a[k] = IF k \in P THEN Append(a[k - 1], s[k]) ELSE a[k - 1]
          /\ c[k] = IF k \in R THEN Append(c[k - 1], u[k]) ELSE c[k - 1]
      BY <1>5, <3>1 DEF NextDrawn
    <3>4. c[k] = a[k]
      BY <1>6, <3>2, <3>3
    <3>5. Append(a[k - 1], s[k]) \in Seq(Names)
      BY <1>1, <3>2, Pushed
    <3> QED BY <3>2, <3>3, <3>4, <3>5
  <2>3. Bad \in SUBSET (0..m)
    OBVIOUS
  <2>4. Bad = {}
    <3> HIDE DEF Bad
    <3> QED BY <1>1, <2>1, <2>2, <2>3, NoneIs
  <2> QED BY <2>4
<1>8. \A i \in 0..n : b[i] \in Seq(Names) /\ c[m + i] = a[m] \o b[i]
  <2> DEFINE Bad == {i \in 0..n : ~(b[i] \in Seq(Names) /\ c[m + i] = a[m] \o b[i])}
  <2>0. m \in 0..m /\ a[m] \in Seq(Names) /\ c[m] = a[m]
    BY <1>1, <1>7
  <2>1. 0 \notin Bad
    <3>1. b[0] = <<>> /\ m + 0 = m
      BY <1>1, <1>5 DEF NextDrawn
    <3>2. a[m] \o <<>> = a[m] /\ <<>> \in Seq(Names)
      BY <2>0, ConcatEmptySeq, EmptySeq
    <3> QED BY <2>0, <3>1, <3>2
  <2>2. ASSUME NEW k \in 1..n, k - 1 \notin Bad PROVE k \notin Bad
    <3>1. k \in 0..n /\ m + k \in 0..m + n /\ k # 0 /\ m + k # 0 /\ k - 1 \in 0..n
          /\ m + k - 1 = m + (k - 1)
      BY <1>1
    <3>2. b[k - 1] \in Seq(Names) /\ c[m + (k - 1)] = a[m] \o b[k - 1]
      BY <2>2, <3>1
    <3>3. /\ b[k] = IF k \in Q THEN Append(b[k - 1], t[k]) ELSE b[k - 1]
          /\ c[m + k] = IF m + k \in R THEN Append(c[m + (k - 1)], u[m + k]) ELSE c[m + (k - 1)]
      <4>1. b[k] = NextDrawn(b, t, Q, k) /\ c[m + k] = NextDrawn(c, u, R, m + k)
        BY <1>5, <3>1
      <4>2. NextDrawn(c, u, R, m + k) =
              IF m + k \in R THEN Append(c[(m + k) - 1], u[m + k]) ELSE c[(m + k) - 1]
        BY <3>1 DEF NextDrawn
      <4>3. c[(m + k) - 1] = c[m + (k - 1)]
        <5>1. (m + k) - 1 = m + (k - 1)
          BY <1>1
        <5> QED BY <5>1
      <4>4. NextDrawn(b, t, Q, k) = IF k \in Q THEN Append(b[k - 1], t[k]) ELSE b[k - 1]
        BY <3>1 DEF NextDrawn
      <4> QED BY <4>1, <4>2, <4>3, <4>4
    <3>4. t[k] \in Names /\ u[m + k] = t[k] /\ (m + k \in R <=> k \in Q)
      BY <1>1, <1>6
    <3> DEFINE p == a[m]
               q == b[k - 1]
               x == t[k]
    <3> HIDE DEF p, q, x
    <3>5. Append(p \o q, x) = p \o Append(q, x) /\ Append(q, x) \in Seq(Names)
      <4>1. p \in Seq(Names) /\ q \in Seq(Names) /\ x \in Names
        BY <2>0, <3>2, <3>4 DEF p, q, x
      <4>2. p \o q \in Seq(Names) /\ <<x>> \in Seq(Names)
        BY <4>1, ConcatProperties
      <4>3. Append(p \o q, x) = (p \o q) \o <<x>> /\ Append(q, x) = q \o <<x>>
        BY <4>1, <4>2, AppendIsConcat
      <4>4. (p \o q) \o <<x>> = p \o (q \o <<x>>)
        BY <4>1, <4>2, ConcatAssociative, SMTT(30)
      <4> QED BY <4>1, <4>3, <4>4, Pushed
    <3> QED BY <3>2, <3>3, <3>4, <3>5 DEF p, q, x
  <2>3. Bad \in SUBSET (0..n)
    OBVIOUS
  <2>4. Bad = {}
    <3> HIDE DEF Bad
    <3> QED BY <1>1, <2>1, <2>2, <2>3, NoneIs
  <2> QED BY <2>4
<1>9. c[m + n] = a[m] \o b[n]
  <2>1. n \in 0..n
    BY <1>1
  <2> QED BY <1>8, <2>1
<1> QED BY <1>2, <1>3, <1>4, <1>9 DEF u

LEMMA NothingUsable == Usable(<<>>) = <<>>
<1> DEFINE s == <<>>
           P == {i \in DOMAIN s : s[i] # Skip}
<1>1. s \in Seq(Names) /\ Len(s) = 0
  BY EmptySeq
<1>2. Usable(s) = Drawn(s, P)
  BY DEF Usable
<1> HIDE DEF s, P
<1>3. PICK g : Recurs(g, s, P, Len(s)) /\ Drawn(s, P) = g[Len(s)]
  BY <1>1, DrawnIs
<1>4. g[0] = NextDrawn(g, s, P, 0)
  BY <1>1, <1>3 DEF Recurs
<1>5. g[0] = <<>>
  BY <1>4 DEF NextDrawn
<1> QED BY <1>1, <1>2, <1>3, <1>5 DEF s

LEMMA NextRead ==
    ASSUME NEW s \in Seq(Names), NEW o \in Nat, o <= Len(s), NEW b, b = PageAt(s, o)
    PROVE  /\ o + Len(b) \in Nat /\ o + Len(b) <= Len(s)
           /\ Usable(SubSeq(s, 1, o)) \o Usable(b) = Usable(SubSeq(s, 1, o + Len(b)))
<1> DEFINE e == IF o + PageLen < Len(s) THEN o + PageLen ELSE Len(s)
<1>1. Len(s) \in Nat /\ PageLen \in Nat \ {0}
  BY LenProperties, FtpAssumption
<1>2. e \in Nat /\ o <= e /\ e <= Len(s)
  BY <1>1
<1>3. b = SubSeq(s, o + 1, e)
  BY DEF PageAt
<1> HIDE DEF e
<1>4. b \in Seq(Names) /\ Len(b) = IF o < e THEN e - o ELSE 0
  BY <1>2, <1>3, PieceOf
<1>5. o + Len(b) = e
  BY <1>2, <1>4
<1>6. SubSeq(s, 1, o) \in Seq(Names)
  <2>1. 0 \in Nat /\ 0 + 1 = 1
    OBVIOUS
  <2>2. SubSeq(s, 0 + 1, o) \in Seq(Names)
    BY <2>1, PieceOf
  <2> QED BY <2>1, <2>2
<1>7. SubSeq(s, 1, o) \o b = SubSeq(s, 1, e)
  <2>1. 1 \in 1..Len(s) + 1 /\ o \in 1 - 1..Len(s) /\ e \in o..Len(s)
    BY <1>1, <1>2
  <2> QED BY <1>3, <2>1, ConcatAdjacentSubSeq
<1> QED BY <1>2, <1>4, <1>5, <1>6, <1>7, UsableJoins

(* What a listing has collected are the usable ones of the records so far.   *)
ReadTo(s, gone) ==
    /\ s.offset <= Len(Alive(s.dir, gone))
    /\ s.found = Usable(SubSeq(Alive(s.dir, gone), 1, s.offset))
ScanTrue ==
    ftp.step = "list" =>
      ask # NoAsk /\ ask.arg = <<scan.dir, scan.offset>> /\ ReadTo(scan, server.gone)

LEMMA BeginsRead ==
    ASSUME NEW d \in Dirs, NEW gone
    PROVE  ReadTo([NoScan EXCEPT !.dir = d], gone)
<1> DEFINE s == [NoScan EXCEPT !.dir = d]
           names == Alive(d, gone)
<1>1. s.dir = d /\ s.offset = 0 /\ s.found = <<>>
  BY DEF NoScan
<1>2. names \in Seq(Names) /\ Len(names) \in Nat
  BY AliveSome, LenProperties
<1> HIDE DEF s, names
<1>3. SubSeq(names, 1, 0) = <<>>
  BY SubSeqEmpty
<1>4. 0 <= Len(names)
  BY <1>2
<1> QED BY <1>1, <1>3, <1>4, NothingUsable DEF ReadTo, s, names

LEMMA ListedTrue ==
    ASSUME FtpInv, Answers, ScanTrue, Settled("list")
    PROVE  /\ ReadTo(Listed, server.gone)
           /\ ask.got.kind = "eof" => Listed.found = Usable(Alive(scan.dir, server.gone))
<1> DEFINE names == Alive(scan.dir, server.gone)
           o == scan.offset
           b == ask.got.body
<1>1. ask # NoAsk /\ ftp.step = "list"
  BY DEF Settled
<1>2. ask.opcode = "list" /\ ask.arg = <<scan.dir, o>> /\ ReadTo(scan, server.gone)
  BY <1>1 DEF FtpInv, AskInv, ScanTrue
<1>3. scan \in Scans /\ scan.dir \in Dirs /\ o \in Nat
  BY <1>1 DEF FtpInv, ScanInv, Scans
<1>4. names \in Seq(Names) /\ Len(names) \in Nat
  BY <1>3, AliveSome, LenProperties
<1>5. /\ ask.got.kind = "ack" => b = PageAt(names, o)
      /\ ask.got.kind = "eof" => o >= Len(names)
  <2>1. Truth(server.gone, ask.opcode, ask.arg, ask.got.kind, ask.got.body)
    BY <1>1 DEF Answers, AskTrue
  <2>2. ask.arg[1] = scan.dir /\ ask.arg[2] = o
    BY <1>2
  <2> QED BY <1>2, <2>1, <2>2 DEF Truth
<1>6. o <= Len(names) /\ scan.found = Usable(SubSeq(names, 1, o))
  BY <1>2 DEF ReadTo
<1> HIDE DEF names, o, b
<1>7. CASE ask.got.kind = "ack"
  <2>1. /\ o + Len(b) <= Len(names)
        /\ Usable(SubSeq(names, 1, o)) \o Usable(b) = Usable(SubSeq(names, 1, o + Len(b)))
    BY <1>3, <1>4, <1>5, <1>6, <1>7, NextRead
  <2>2. /\ Listed.dir = scan.dir /\ Listed.offset = o + Len(b)
        /\ Listed.found = scan.found \o Usable(b)
    BY <1>3, <1>7 DEF Listed, NextPage, Scans, b, o
  <2> QED BY <1>6, <1>7, <2>1, <2>2 DEF ReadTo, names
<1>8. CASE ask.got.kind # "ack"
  <2>1. Listed = scan
    BY <1>8 DEF Listed
  <2>2. ask.got.kind = "eof" => scan.found = Usable(names)
    <3>1. ASSUME ask.got.kind = "eof" PROVE o = Len(names)
      BY <1>3, <1>4, <1>5, <1>6, <3>1
    <3>2. SubSeq(names, 1, Len(names)) = names
      BY <1>4, SubSeqFull
    <3> QED BY <1>6, <3>1, <3>2
  <2> QED BY <1>2, <2>1, <2>2 DEF names
<1> QED BY <1>7, <1>8
-----------------------------------------------------------------------------
(* What was selected is gone, on the list of what to remove, or yet to be    *)
(* visited.                                                                  *)
Visited(d) ==
    {d.todo[i].path : i \in 1..Len(d.todo)} \cup {d.work[i] : i \in d.done + 1..Len(d.work)}
Left(d, gone) == IsFiniteSet(d.wanted) /\ d.wanted \subseteq gone \cup Visited(d)
DelTrue ==
    ftp.op = "delete" =>
      /\ Left(del, server.gone)
      /\ ftp.step \in Removals =>
           del.todo = <<>> /\ ask # NoAsk /\ ask.arg = <<del.work[del.done + 1]>>

LEMMA CollectedVisits ==
    ASSUME NEW d \in Dels, NEW k, k = Known(d.todo), d.done = 0, NEW e, e = Collected(d, k)
    PROVE  Visited(d) \subseteq Visited(e)
<1> DEFINE s == d.todo
           n == Len(s)
           l == Len(d.work)
           v == [i \in 1..k |-> s[i].path]
           w == d.work \o v
           h == [s[k + 1] EXCEPT !.listed = TRUE]
           r == SubSeq(s, k + 2, n)
           t == IF k = n THEN <<>> ELSE <<h>> \o r
<1>1. /\ s \in Seq(Todos) /\ n \in Nat /\ d.work \in Seq(Paths) /\ l \in Nat
      /\ \A i \in 1..n : s[i] \in Todos
  BY LenProperties, ElementOfSeq DEF Dels
<1>2. k \in 0..n
  BY <1>1, KnownIs
<1>n. n \in Nat /\ l \in Nat /\ k \in Nat /\ k <= n
  BY <1>1, <1>2
<1>3. e.work = w /\ e.todo = t /\ e.done = 0
  BY DEF Collected, Dels
<1>4. v \in Seq(Paths) /\ Len(v) = k /\ \A i \in 1..k : v[i] = s[i].path
  <2>1. k \in Nat /\ \A i \in 1..k : s[i].path \in Paths
    BY <1>1, <1>2 DEF Todos
  <2>2. v \in [1..k -> Paths] /\ \A i \in 1..k : v[i] = s[i].path
    BY <2>1
  <2> HIDE DEF v
  <2> QED BY <2>1, <2>2, Mapped
<1> HIDE DEF v
<1>5. /\ Len(w) = l + k
      /\ \A i \in 1..l + k : w[i] = IF i <= l THEN d.work[i] ELSE v[i - l]
  <2>1. d.work \in Seq(Paths) /\ v \in Seq(Paths) /\ l = Len(d.work) /\ k = Len(v)
    BY <1>1, <1>4
  <2>2. /\ Len(w) = Len(d.work) + Len(v)
        /\ \A i \in 1..Len(d.work) + Len(v) :
              w[i] = IF i <= Len(d.work) THEN d.work[i] ELSE v[i - Len(d.work)]
    BY <2>1, ConcatProperties
  <2> QED BY <2>1, <2>2
<1>6. ASSUME k # n
      PROVE  /\ Len(t) = n - k /\ t[1].path = s[k + 1].path
             /\ \A i \in 2..n - k : t[i] = s[k + i]
  <2>1. k + 1 \in 1..n
    BY <1>1, <1>2, <1>6
  <2>2. h \in Todos /\ h.path = s[k + 1].path
    <3>1. s[k + 1] \in Todos
      BY <1>1, <2>1
    <3> QED BY <3>1 DEF Todos
  <2>3. /\ r \in Seq(Todos) /\ Len(r) = n - (k + 1)
        /\ \A i \in 1..n - (k + 1) : r[i] = s[(k + 1) + i]
    <3>1. k + 2 \in Int /\ n \in Int /\ \A i \in k + 2..n : s[i] \in Todos
      BY <1>1, <1>2
    <3>2. /\ r \in Seq(Todos) /\ Len(r) = IF k + 2 <= n THEN n - (k + 2) + 1 ELSE 0
          /\ \A i \in 1..n - (k + 2) + 1 : r[i] = s[(k + 2) + i - 1]
      BY <3>1, SubSeqProperties
    <3> HIDE DEF r
    <3>3. \A i \in 1..n - (k + 1) : i \in 1..n - (k + 2) + 1 /\ (k + 2) + i - 1 = (k + 1) + i
      <4> HIDE DEF n
      <4> QED BY ONLY <1>n
    <3>4. \A i \in 1..n - (k + 1) : r[i] = s[(k + 1) + i]
      BY <3>2, <3>3
    <3>5. Len(r) = n - (k + 1)
      BY <1>1, <1>2, <2>1, <3>2
    <3> QED BY <3>2, <3>4, <3>5
  <2> HIDE DEF h, r
  <2>4. t = <<h>> \o r
    BY <1>6
  <2> HIDE DEF t
  <2>5. Len(t) = Len(r) + 1 /\ t[1] = h /\ \A i \in 2..Len(r) + 1 : t[i] = r[i - 1]
    BY <2>2, <2>3, <2>4, Preceded
  <2>6. \A i \in 2..n - k : i \in 2..Len(r) + 1 /\ i - 1 \in 1..n - (k + 1) /\ (k + 1) + (i - 1) = k + i
    <3>1. Len(r) = n - (k + 1)
      BY <2>3
    <3> HIDE DEF n
    <3> QED BY ONLY <1>n, <3>1
  <2>7. Len(t) = n - k
    BY <1>1, <1>2, <2>3, <2>5
  <2> QED BY <2>2, <2>3, <2>5, <2>6, <2>7
<1> HIDE DEF w, t, s, n, l
<1>7. ASSUME NEW i \in 1..n PROVE s[i].path \in Visited(e)
  <2>1. CASE i <= k
    <3>1. l + i \in 1..l + k /\ ~(l + i <= l) /\ (l + i) - l = i /\ i \in 1..k /\ l + i \in e.done + 1..Len(e.work)
      BY <1>1, <1>2, <1>3, <1>5, <2>1
    <3>2. e.work[l + i] = s[i].path
      <4>1. w[l + i] = v[(l + i) - l]
        BY <1>5, <3>1
      <4>2. w[l + i] = v[i]
        BY <3>1, <4>1
      <4> QED BY <1>3, <1>4, <3>1, <4>2
    <3> QED BY <3>1, <3>2 DEF Visited
  <2>2. CASE ~(i <= k)
    <3>1. k # n /\ i - k \in 1..n - k /\ k + (i - k) = i
      BY <1>1, <1>2, <2>2
    <3>2. e.todo[i - k].path = s[i].path
      <4>1. CASE i - k = 1
        <5>1. i = k + 1
          BY <3>1, <4>1
        <5> QED BY <1>3, <1>6, <3>1, <4>1, <5>1
      <4>2. CASE i - k # 1
        <5>1. i - k \in 2..n - k
          BY <3>1, <4>2
        <5>2. t[i - k] = s[k + (i - k)]
          BY <1>6, <3>1, <5>1
        <5> QED BY <1>3, <3>1, <5>2
      <4> QED BY <4>1, <4>2
    <3>3. i - k \in 1..Len(e.todo)
      BY <1>3, <1>6, <3>1
    <3> QED BY <3>2, <3>3 DEF Visited
  <2> QED BY <2>1, <2>2
<1>8. ASSUME NEW i \in d.done + 1..l PROVE d.work[i] \in Visited(e)
  <2>1. i \in 1..l + k /\ i <= l /\ i \in e.done + 1..Len(e.work)
    BY <1>1, <1>2, <1>3, <1>5
  <2>2. e.work[i] = d.work[i]
    BY <1>3, <1>5, <2>1
  <2> QED BY <2>1, <2>2 DEF Visited
<1> DEFINE V == Visited(e)
<1> HIDE DEF V
<1>9. (\A i \in 1..n : s[i].path \in V) /\ (\A i \in d.done + 1..l : d.work[i] \in V)
  BY <1>7, <1>8 DEF V
<1>10. Visited(d) \subseteq V
  BY <1>9 DEF Visited, s, n, l
<1> QED BY <1>10 DEF V

(* The requests of a listing and of a deletion.                              *)
LEMMA AskPageTrue ==
    ASSUME FtpInv, Answers, NEW f \in Ftps, f.seq = ftp.seq, NEW s \in Scans, s.dir \in Dirs,
           ReadTo(s, server.gone), AskPage(f, s)
    PROVE  /\ Answers' /\ ScanTrue' /\ server'.gone = server.gone
           /\ ftp'.op = f.op /\ ftp'.step = "list"
<1> DEFINE a == <<s.dir, s.offset>>
<1>1. a \in Args /\ ArgOk("list", a) /\ "list" \in Opcodes /\ Tries \in {1, 2, Tries}
  BY DEF Scans, Args, ArgOk, Paths, Opcodes
<1>2. Request(f, "list", a, Tries) /\ scan' = s
  BY DEF AskPage
<1> HIDE DEF a
<1>3. /\ Answers' /\ GoneGrows("list") /\ ask' # NoAsk /\ ask'.arg = a
      /\ ftp'.op = f.op /\ ftp'.step = "list"
  BY <1>1, <1>2, RequestAnswers
<1>4. server'.gone = server.gone
  BY <1>3 DEF GoneGrows, Removals
<1>5. ScanTrue'
  BY <1>2, <1>3, <1>4 DEF ScanTrue, a
<1> QED BY <1>3, <1>4, <1>5

LEMMA AskRemoveTrue ==
    ASSUME FtpInv, Answers, NEW f \in Ftps, f.seq = ftp.seq, NEW d \in Dels,
           d.done < Len(d.work), d.todo = <<>>, Left(d, server.gone), AskRemove(f, d)
    PROVE  Answers' /\ ScanTrue' /\ DelTrue'
<1> DEFINE p == d.work[d.done + 1]
           o == IF p \in Dirs THEN "removeDir" ELSE "removeFile"
<1>1. p \in Paths
  <2>1. d.work \in Seq(Paths) /\ Len(d.work) \in Nat /\ d.done \in Nat
    BY LenProperties DEF Dels
  <2>2. d.done + 1 \in 1..Len(d.work)
    BY <2>1
  <2> QED BY <2>1, <2>2, ElementOfSeq
<1>2. Request(f, o, <<p>>, Tries) /\ del' = d /\ o \in Removals
  BY DEF AskRemove, Removals
<1> HIDE DEF p, o
<1>3. o \in Opcodes /\ <<p>> \in Args /\ ArgOk(o, <<p>>) /\ Tries \in {1, 2, Tries}
  BY <1>1, <1>2 DEF Opcodes, Args, ArgOk, Removals
<1>4. /\ Answers' /\ GoneGrows(o) /\ ask' # NoAsk /\ ask'.arg = <<p>> /\ ftp'.step = o
  BY <1>2, <1>3, RequestAnswers
<1>5. ScanTrue'
  BY <1>2, <1>4 DEF ScanTrue, Removals
<1>6. Left(d, server'.gone)
  BY <1>4 DEF Left, GoneGrows
<1>7. DelTrue'
  BY <1>2, <1>4, <1>6 DEF DelTrue, p
<1> QED BY <1>4, <1>5, <1>7

(* Nothing is listed or deleted any more.                                    *)
LEMMA NothingOnFiles ==
    ASSUME FtpShape', ftp'.op \notin {"list", "delete"}
    PROVE  ScanTrue' /\ DelTrue'
BY DEF FtpShape, FtpSteps, ScanTrue, DelTrue, Idle

LEMMA FailsTrue ==
    ASSUME FtpInv, Answers, Fails
    PROVE  Answers' /\ ScanTrue' /\ DelTrue'
<1>1. Release /\ UNCHANGED <<server, air>>
  BY DEF Fails
<1>2. ask' = NoAsk /\ ftp'.op = Idle /\ ftp'.step = Idle /\ ftp'.seq = ftp.seq
  BY <1>1 DEF Release, FtpInv, FtpShape
<1>3. Answers'
  BY <1>1, <1>2, AnswersStay DEF Idle
<1>4. ScanTrue' /\ DelTrue'
  BY <1>2 DEF ScanTrue, DelTrue, Idle
<1> QED BY <1>3, <1>4

LEMMA ExpandsTrue ==
    ASSUME FtpInv, Answers, NEW f \in Ftps, f.seq = ftp.seq, f.op = "delete", NEW d \in Dels,
           TodoOk(d.todo), d.todo # <<>>, Len(d.work) <= MaxItems, d.done = 0,
           Left(d, server.gone), Expands(f, d)
    PROVE  Answers' /\ ScanTrue' /\ DelTrue'
<1> DEFINE k == Known(d.todo)
           e == Collected(d, k)
<1>1. CASE Exceeds(d, k)
  <2>1. Fails
    BY <1>1 DEF Expands
  <2> QED BY <2>1, FailsTrue
<1>2. CASE ~Exceeds(d, k)
  <2>1. /\ e \in Dels /\ e.wanted = d.wanted /\ e.done = 0
        /\ e.todo # <<>> => e.todo[1].path \in Dirs
        /\ e.todo = <<>> => 0 < Len(e.work)
    BY <1>2, CollectedOk
  <2>2. Visited(d) \subseteq Visited(e)
    BY CollectedVisits
  <2>3. /\ \/ e.todo = <<>> /\ AskRemove(f, e)
           \/ e.todo # <<>> /\ AskPage(f, [NoScan EXCEPT !.dir = e.todo[1].path]) /\ del' = e
    BY <1>2 DEF Expands
  <2> HIDE DEF e
  <2>4. Left(e, server.gone)
    BY <2>1, <2>2 DEF Left
  <2>5. CASE e.todo = <<>> /\ AskRemove(f, e)
    BY <2>1, <2>4, <2>5, AskRemoveTrue
  <2>6. CASE e.todo # <<>> /\ AskPage(f, [NoScan EXCEPT !.dir = e.todo[1].path]) /\ del' = e
    <3> DEFINE s == [NoScan EXCEPT !.dir = e.todo[1].path]
    <3>1. s \in Scans /\ s.dir \in Dirs
      BY <2>1, <2>6, NothingListed
    <3>2. ReadTo(s, server.gone) /\ AskPage(f, s)
      BY <2>1, <2>6, BeginsRead
    <3> HIDE DEF s
    <3>3. Answers' /\ ScanTrue' /\ server'.gone = server.gone /\ ftp'.step = "list"
      BY <3>1, <3>2, AskPageTrue
    <3>4. DelTrue'
      BY <2>4, <2>6, <3>3 DEF DelTrue, Removals
    <3> QED BY <3>3, <3>4
  <2> QED BY <2>3, <2>5, <2>6
<1> QED BY <1>1, <1>2

(* The steps of a download.                                                  *)
FilesInv == Answers /\ ScanTrue /\ DelTrue

Asking ==
    \E f \in Ftps : \E n \in {1, 2, Tries} : \E opcode, arg :
        f.seq = ftp.seq /\ opcode # "none" /\ Request(f, opcode, arg, n)
AsksNothing ==
    ask' = NoAsk /\ ftp'.seq = ftp.seq /\ ftp'.step # "burst" /\ UNCHANGED <<server, air>>
Fetching == AsksNothing \/ Asking \/ \E g : Burst(g)

LEMMA AskingAnswers ==
    ASSUME FtpInv, Answers, FtpInv', Asking
    PROVE  Answers'
<1>1. PICK f \in Ftps, n \in {1, 2, Tries} : \E opcode, arg :
        f.seq = ftp.seq /\ opcode # "none" /\ Request(f, opcode, arg, n)
  BY DEF Asking
<1>2. PICK opcode, arg : f.seq = ftp.seq /\ opcode # "none" /\ Request(f, opcode, arg, n)
  BY <1>1
<1>3. ask'.opcode = opcode /\ ask'.arg = arg
  <2> DEFINE g == [f EXCEPT !.seq = Allocated(@), !.step = opcode]
             r == [opcode |-> opcode, arg |-> arg, seq |-> f.seq, left |-> n]
  <2>1. (\E k : Settle(r, k)) \/ Serve(g, r, TRUE)
    BY <1>2 DEF Request
  <2>2. r.opcode = opcode /\ r.arg = arg
    OBVIOUS
  <2> HIDE DEF g, r
  <2>3. CASE \E k : Settle(r, k)
    <3>1. PICK k : Settle(r, k)
      BY <2>3
    <3> QED BY <2>2, <3>1 DEF Settle
  <2>4. CASE Serve(g, r, TRUE)
    BY <2>2, <2>4 DEF Serve
  <2> QED BY <2>1, <2>3, <2>4
<1>4. ask' # NoAsk
  BY <1>2, <1>3 DEF NoAsk
<1>5. opcode \in Opcodes /\ arg \in Args /\ ArgOk(opcode, arg)
  BY <1>3, <1>4 DEF FtpInv, AskInv, Asks
<1> QED BY <1>2, <1>5, RequestAnswers

LEMMA FetchingTrue ==
    ASSUME FtpInv, Answers, FtpInv', ftp.op = "download", FtpMove(ftp), Fetching
    PROVE  FilesInv'
<1>1. CASE AsksNothing
  <2>1. Answers'
    BY <1>1, AnswersStay DEF AsksNothing
  <2> QED BY <2>1, NothingOnFiles DEF FilesInv, FtpInv, FtpMove, Idle
<1>2. Answers'
  BY <1>1, AskingAnswers, BurstAnswers DEF Fetching, FilesInv
<1> QED BY <1>2, NothingOnFiles DEF FilesInv, FtpInv, FtpMove, Idle

LEMMA EndsAsking ==
    ASSUME FtpShape, Catch \/ (Release /\ UNCHANGED <<server, air>>)
           \/ \E s \in {"flush", "allocate", "verify"} : \E g : Goes(s, g)
    PROVE  AsksNothing
<1>1. CASE Catch
  BY <1>1 DEF Catch, AsksNothing, FtpShape
<1>2. CASE Release /\ UNCHANGED <<server, air>>
  BY <1>2 DEF Release, AsksNothing, FtpShape, Idle
<1>3. CASE \E s \in {"flush", "allocate", "verify"} : \E g : Goes(s, g)
  BY <1>3 DEF Goes, AsksNothing, FtpShape
<1> QED BY <1>1, <1>2, <1>3

LEMMA AsksOn ==
    ASSUME ftp \in Ftps, NEW opcode, opcode # "none", NEW arg, NEW n \in {1, 2, Tries},
           Request(ftp, opcode, arg, n)
    PROVE  Asking
BY DEF Asking

LEMMA ReadNextFetches ==
    ASSUME FtpShape, NEW g, ReadNext(g)
    PROVE  Fetching
<1>1. ftp \in Ftps
  BY FtpOpSteps
<1>2. CASE Goes("flush", g)
  BY <1>2, EndsAsking DEF Fetching
<1>3. CASE Request(ftp, "read", <<g.path, FirstGap(g.gaps)[1]>>, Tries)
  BY <1>1, <1>3, AsksOn DEF Fetching
<1> QED BY <1>2, <1>3 DEF ReadNext

LEMMA NextPassFetches ==
    ASSUME FtpShape, NEW g, NextPass(g)
    PROVE  Fetching
<1>1. ftp \in Ftps
  BY FtpOpSteps
<1>2. \/ Catch
      \/ Request(ftp, "crc", <<g.path>>, Tries)
      \/ \E h : ReadNext(h)
      \/ \E h : Burst(h)
  BY DEF NextPass
<1>3. CASE Catch
  BY <1>3, EndsAsking DEF Fetching
<1>4. CASE Request(ftp, "crc", <<g.path>>, Tries)
  BY <1>1, <1>4, AsksOn DEF Fetching
<1>5. CASE \E h : ReadNext(h)
  BY <1>5, ReadNextFetches
<1>6. CASE \E h : Burst(h)
  BY <1>6 DEF Fetching
<1> QED BY <1>2, <1>3, <1>4, <1>5, <1>6

LEMMA TerminateFetches ==
    ASSUME FtpShape, NEW g, Terminate(g)
    PROVE  Fetching
<1> DEFINE f == [ftp EXCEPT !.cancelRequested = FALSE]
<1>1. CASE Release /\ UNCHANGED <<server, air>>
  BY <1>1, EndsAsking DEF Fetching
<1>2. CASE Request(f, "terminate", <<>>, 1)
  <2>1. f \in Ftps /\ f.seq = ftp.seq
    BY FtpOpSteps DEF Ftps
  <2> HIDE DEF f
  <2>2. Asking
    BY <1>2, <2>1 DEF Asking
  <2> QED BY <2>2 DEF Fetching
<1> QED BY <1>1, <1>2 DEF Terminate

LEMMA DownloadFetches ==
    ASSUME FtpInv,
           \/ ResetDone \/ OpenDone \/ ReadDone \/ CrcDone \/ Cleanup \/ TerminateDone \/ BurstEnds
           \/ \E ok \in BOOLEAN : DirReady(ok) \/ Allocate(ok) \/ Flush(ok) \/ Verify(ok)
    PROVE  ftp.op = "download" /\ Fetching
<1>0. FtpShape /\ ftp \in Ftps
  BY FtpOpSteps DEF FtpInv
<1>1. /\ ftp.step \in {"dir", "reset", "open", "allocate", "read", "burst", "flush", "crc",
                       "verify", "terminate", "cleanup"}
      /\ \/ Catch \/ (Release /\ UNCHANGED <<server, air>>)
         \/ \E s \in {"flush", "allocate", "verify"} : \E g : Goes(s, g)
         \/ \E g : ReadNext(g) \/ NextPass(g) \/ Terminate(g)
         \/ Request(ftp, "reset", <<>>, 2)
         \/ Request(ftp, "open", <<get.path>>, Tries)
  <2>1. CASE ResetDone
    BY <2>1 DEF ResetDone, Settled
  <2>2. CASE OpenDone \/ CrcDone \/ BurstEnds
    BY <2>2 DEF OpenDone, CrcDone, BurstEnds, Settled
  <2>3. CASE ReadDone
    BY <2>3 DEF ReadDone, Settled
  <2>4. CASE Cleanup \/ TerminateDone
    BY <2>4 DEF Cleanup, TerminateDone, Settled
  <2>5. CASE \E ok \in BOOLEAN : DirReady(ok) \/ Allocate(ok) \/ Flush(ok) \/ Verify(ok)
    BY <2>5 DEF DirReady, Allocate, Flush, Verify
  <2> QED BY <2>1, <2>2, <2>3, <2>4, <2>5
<1>2. ftp.op = "download"
  BY <1>0, <1>1, FtpOpSteps
<1>3. CASE \/ Catch \/ (Release /\ UNCHANGED <<server, air>>)
           \/ \E s \in {"flush", "allocate", "verify"} : \E g : Goes(s, g)
  BY <1>0, <1>2, <1>3, EndsAsking DEF Fetching
<1>4. CASE \E g : ReadNext(g) \/ NextPass(g) \/ Terminate(g)
  BY <1>0, <1>2, <1>4, ReadNextFetches, NextPassFetches, TerminateFetches
<1>5. CASE Request(ftp, "reset", <<>>, 2) \/ Request(ftp, "open", <<get.path>>, Tries)
  BY <1>0, <1>2, <1>5, AsksOn DEF Fetching
<1> QED BY <1>1, <1>3, <1>4, <1>5

(* The steps of a listing and of a deletion.                                 *)
LEMMA PageListedTrue ==
    ASSUME FtpInv, FilesInv, PageListed
    PROVE  FilesInv'
<1>1. /\ Acked("list") /\ ~DirectoryEnds /\ Listed.pages < MaxPages /\ AskPage(ftp, Listed)
      /\ UNCHANGED del
  BY DEF PageListed
<1>2. Settled("list") /\ ftp.step = "list"
  BY <1>1 DEF Acked, Settled
<1> DEFINE s == Listed
<1>3. /\ s \in [dir : Dirs, offset : Nat, pages : Nat, found : Seq(Paths)]
      /\ ReadTo(s, server.gone) /\ AskPage(ftp, s) /\ s.pages < MaxPages
  BY <1>1, <1>2, ListedOk, ListedTrue DEF FilesInv
<1> HIDE DEF s
<1>4. s \in Scans /\ s.dir \in Dirs
  <2>1. s.pages \in 0..(MaxPages - 1)
    BY <1>3, FtpNumbers
  <2> QED BY <1>3, <2>1 DEF Scans
<1>5. ftp \in Ftps
  BY FtpOpSteps DEF FtpInv
<1>6. /\ Answers' /\ ScanTrue' /\ server'.gone = server.gone
      /\ ftp'.op = ftp.op /\ ftp'.step = "list"
  BY <1>3, <1>4, <1>5, AskPageTrue DEF FilesInv
<1>7. DelTrue'
  BY <1>1, <1>6 DEF FilesInv, DelTrue, Removals
<1> QED BY <1>6, <1>7 DEF FilesInv

LEMMA ReleaseTrue ==
    ASSUME FtpInv, FilesInv, Release, UNCHANGED <<server, air>>
    PROVE  FilesInv'
<1>1. ask' = NoAsk /\ ftp'.op = Idle /\ ftp'.step = Idle /\ ftp'.seq = ftp.seq
  BY DEF Release, FtpInv, FtpShape
<1>2. Answers'
  BY <1>1, AnswersStay DEF FilesInv, Idle
<1>3. ScanTrue' /\ DelTrue'
  BY <1>1 DEF ScanTrue, DelTrue, Idle
<1> QED BY <1>2, <1>3 DEF FilesInv

LEMMA ChildrenListedTrue ==
    ASSUME FtpInv, FilesInv, ChildrenListed
    PROVE  FilesInv'
<1> DEFINE children == Listed.found
           h == del.todo[1].depth + 1
           c == [i \in DOMAIN children |-> Entry(children[i], h)]
           t == c \o del.todo
           d == [del EXCEPT !.todo = t]
<1>1. ftp.op = "delete" /\ Settled("list") /\ ftp.step = "list"
  BY DEF ChildrenListed, DirectoryEnds, Settled
<1>2. /\ del \in Dels /\ TodoOk(del.todo) /\ del.todo # <<>> /\ del.done = 0
      /\ Len(del.work) <= MaxItems
  BY <1>1 DEF FtpInv, DelInv
<1>3. children \in Seq(Paths)
  BY <1>1, ListedOk
<1>4. DOMAIN children = 1..Len(children)
  BY <1>3, LenProperties
<1>5. h \in Nat
  <2>1. del.todo \in Seq(Todos) /\ del.todo[1] \in Todos
    BY <1>2, Popped DEF TodoOk
  <2> QED BY <2>1 DEF Todos
<1>6. Expands(ftp, d)
  <2>1. d = [del EXCEPT !.todo = [i \in DOMAIN children |-> Entry(children[i], h)] \o @]
    BY <1>2 DEF Dels
  <2> HIDE DEF d
  <2> QED BY <2>1 DEF ChildrenListed
<1> HIDE DEF children, h
<1>7. /\ c \in Seq(Todos) /\ Len(c) = Len(children)
      /\ \A i \in 1..Len(children) :
            /\ c[i].depth = h /\ ~ListedDir(c[i])
            /\ ~c[i].listed => c[i].path \in Dirs
  <2>1. c = [i \in 1..Len(children) |-> Entry(children[i], h)]
    BY <1>4
  <2> HIDE DEF c
  <2> QED BY ONLY <1>3, <1>5, <2>1, Entries, SMTT(30)
<1> HIDE DEF c
<1>8. TodoOk(t) /\ t # <<>>
  <2>1. \A i \in 1..Len(c) : /\ c[i].depth = del.todo[1].depth + 1 /\ ~ListedDir(c[i])
                             /\ ~c[i].listed => c[i].path \in Dirs
    BY <1>7 DEF h
  <2> QED BY <1>2, <1>7, <2>1, ChildrenOk
<1>9. \A i \in 1..Len(del.todo) : Len(c) + i \in 1..Len(t) /\ t[Len(c) + i] = del.todo[i]
  <2>1. del.todo \in Seq(Todos) /\ Len(del.todo) \in Nat /\ Len(c) \in Nat
    BY <1>2, <1>7, LenProperties DEF TodoOk
  <2>2. /\ Len(t) = Len(c) + Len(del.todo)
        /\ \A i \in 1..Len(c) + Len(del.todo) :
              t[i] = IF i <= Len(c) THEN c[i] ELSE del.todo[i - Len(c)]
    BY <1>7, <2>1, ConcatProperties, ZenonT(60)
  <2> HIDE DEF t
  <2> TAKE i \in 1..Len(del.todo)
  <2>3. /\ Len(c) + i \in 1..Len(c) + Len(del.todo) /\ ~(Len(c) + i <= Len(c))
        /\ (Len(c) + i) - Len(c) = i
    BY <2>1
  <2>4. t[Len(c) + i] = del.todo[(Len(c) + i) - Len(c)]
    BY <2>2, <2>3
  <2> QED BY <2>2, <2>3, <2>4
<1> HIDE DEF t
<1>10. d \in Dels /\ d.todo = t /\ d.work = del.work /\ d.done = del.done /\ d.wanted = del.wanted
  BY <1>2, <1>8 DEF Dels, TodoOk
<1> HIDE DEF d
<1>11. Visited(del) \subseteq Visited(d)
  <2>1. \A i \in 1..Len(del.todo) : \E k \in 1..Len(d.todo) : d.todo[k].path = del.todo[i].path
    BY <1>9, <1>10
  <2> QED BY <1>10, <2>1 DEF Visited
<1>12. Left(d, server.gone)
  BY <1>1, <1>10, <1>11 DEF FilesInv, DelTrue, Left
<1>13. ftp \in Ftps
  BY FtpOpSteps DEF FtpInv
<1>14. Len(d.work) <= MaxItems /\ d.done = 0
  BY <1>2, <1>10
<1> QED BY <1>1, <1>6, <1>8, <1>10, <1>12, <1>13, <1>14, ExpandsTrue DEF FilesInv

(* What has been removed, or was not there, is gone.                         *)
LEMMA RemovedTrue ==
    ASSUME FtpInv, FilesInv, Removing, Removed
    PROVE  /\ ftp.op = "delete" /\ ftp.step \in Removals /\ del.todo = <<>>
           /\ del.work[del.done + 1] \in server.gone /\ Left(del, server.gone)
<1>1. ask # NoAsk /\ ftp.step \in Removals /\ ask.opcode = ftp.step
  BY DEF Removing, Settled, Removals, FtpInv, AskInv
<1>2. ftp.op = "delete"
  BY <1>1, FtpOpSteps DEF FtpInv, Removals
<1>3. del.todo = <<>> /\ ask.arg = <<del.work[del.done + 1]>> /\ Left(del, server.gone)
  BY <1>1, <1>2 DEF FilesInv, DelTrue
<1>4. ask.arg[1] \in server.gone
  BY <1>1 DEF FilesInv, Answers, AskTrue, Truth, Removed, Removals
<1> QED BY <1>1, <1>2, <1>3, <1>4

LEMMA RemoveNextTrue ==
    ASSUME FtpInv, FilesInv, RemoveNext
    PROVE  FilesInv'
<1> DEFINE d == [del EXCEPT !.done = @ + 1]
<1>1. Removing /\ Removed /\ del.done + 1 < Len(del.work) /\ AskRemove(ftp, d)
  BY DEF RemoveNext
<1>2. /\ del.todo = <<>> /\ del.work[del.done + 1] \in server.gone /\ Left(del, server.gone)
  BY <1>1, RemovedTrue
<1>3. del \in Dels /\ del.done \in Nat /\ Len(del.work) \in Nat
  BY LenProperties DEF FtpInv, DelInv, Dels
<1>4. /\ d \in Dels /\ d.todo = del.todo /\ d.work = del.work /\ d.done = del.done + 1
      /\ d.wanted = del.wanted
  BY <1>3 DEF Dels
<1> HIDE DEF d
<1>5. Visited(del) \subseteq server.gone \cup Visited(d)
  <2>1. \A i \in del.done + 1..Len(del.work) :
            i = del.done + 1 \/ i \in (del.done + 1) + 1..Len(del.work)
    BY <1>3
  <2>2. \A i \in del.done + 1..Len(del.work) :
            del.work[i] \in server.gone \/ (i \in d.done + 1..Len(d.work) /\ d.work[i] = del.work[i])
    BY <1>2, <1>4, <2>1
  <2> QED BY <1>4, <2>2 DEF Visited
<1>6. Left(d, server.gone) /\ d.todo = <<>>
  BY <1>2, <1>4, <1>5 DEF Left
<1>7. ftp \in Ftps /\ d.done < Len(d.work)
  BY <1>1, <1>4, FtpOpSteps DEF FtpInv
<1> QED BY <1>1, <1>4, <1>6, <1>7, AskRemoveTrue DEF FilesInv

(* What does not belong to an operation.                                     *)
LEMMA AroundTrue ==
    ASSUME FtpInv, FilesInv,
           RequestTimeout \/ HandleFtpPayload \/ ServerStreams \/ ConsumeDownload
    PROVE  FilesInv'
<1>1. CASE RequestTimeout
  <2>1. /\ Answers' /\ Pends /\ GoneGrows(ask.opcode) /\ UNCHANGED <<ftp, scan, del>>
        /\ ask' # NoAsk /\ ask'.arg = ask.arg
    BY <1>1, TimeoutAnswers DEF FilesInv, transferVars
  <2>2. ask.opcode = ftp.step
    BY <2>1 DEF Pends, FtpInv, AskInv
  <2>3. ScanTrue'
    <3>1. ASSUME ftp.step = "list" PROVE server'.gone = server.gone
      BY <2>1, <2>2, <3>1 DEF GoneGrows, Removals
    <3> QED BY <2>1, <3>1 DEF FilesInv, ScanTrue
  <2>4. DelTrue'
    BY <2>1 DEF FilesInv, DelTrue, Left, GoneGrows
  <2> QED BY <2>1, <2>3, <2>4 DEF FilesInv
<1>2. CASE HandleFtpPayload
  <2>1. Answers' /\ UNCHANGED <<scan, del, server>>
    BY <1>2, HandleAnswers DEF FilesInv, HandleFtpPayload
  <2>2. /\ \/ \E n : ftp' = [ftp EXCEPT !.seq = n]
           \/ ftp.step = "burst" /\ \E n, s : s \in {"burst", "flush"} /\ ftp' = [ftp EXCEPT !.seq = n, !.step = s]
           \/ UNCHANGED ftp
        /\ ask' = ask \/ (ask # NoAsk /\ \E g : ask' = [ask EXCEPT !.got = g])
    BY <1>2 DEF HandleFtpPayload, Matches
  <2>3. /\ ftp'.op = ftp.op
        /\ ftp'.step = ftp.step \/ ftp'.step \in {"burst", "flush"}
    BY <2>2 DEF FtpInv, FtpShape
  <2>4. ask # NoAsk => ask' # NoAsk /\ ask'.arg = ask.arg
    <3> SUFFICES ASSUME ask # NoAsk PROVE ask' # NoAsk /\ ask'.arg = ask.arg
      OBVIOUS
    <3>1. ask \in Asks /\ ask.opcode # "none"
      BY DEF FtpInv, AskInv, Asks, Opcodes
    <3>2. ask'.opcode = ask.opcode /\ ask'.arg = ask.arg
      BY <2>2, <3>1 DEF Asks
    <3> QED BY <3>1, <3>2 DEF NoAsk
  <2>5. ScanTrue'
    BY <2>1, <2>3, <2>4 DEF FilesInv, ScanTrue
  <2>6. DelTrue'
    BY <2>1, <2>3, <2>4 DEF FilesInv, DelTrue, Removals
  <2> QED BY <2>1, <2>5, <2>6 DEF FilesInv
<1>3. CASE ServerStreams
  <2>1. Answers' /\ server'.gone = server.gone
    BY <1>3, StreamAnswers DEF FilesInv
  <2>2. UNCHANGED <<ftp, ask, scan, del>>
    BY <1>3 DEF ServerStreams, transferVars
  <2> QED BY <2>1, <2>2 DEF FilesInv, ScanTrue, DelTrue
<1>4. CASE ConsumeDownload
  <2>1. UNCHANGED <<ftp, ask, scan, del, server, air>>
    BY <1>4 DEF ConsumeDownload
  <2>2. Answers'
    BY <2>1, AnswersStay DEF FilesInv
  <2> QED BY <2>1, <2>2 DEF FilesInv, ScanTrue, DelTrue
<1> QED BY <1>1, <1>2, <1>3, <1>4

LEMMA FilesStep ==
    ASSUME FtpInv, FtpHome, FilesInv, FtpStep
    PROVE  FilesInv'
<1>0. FtpInv' /\ FtpMove(ftp)
  BY FtpStepKeeps, FtpMoves
<1>1. CASE \/ ResetDone \/ OpenDone \/ ReadDone \/ CrcDone \/ Cleanup \/ TerminateDone \/ BurstEnds
           \/ \E ok \in BOOLEAN : DirReady(ok) \/ Allocate(ok) \/ Flush(ok) \/ Verify(ok)
  <2>1. ftp.op = "download" /\ Fetching
    BY <1>1, DownloadFetches
  <2> QED BY <1>0, <2>1, FetchingTrue DEF FilesInv
<1>2. CASE ListFails \/ RemoveFails
  BY <1>2, FailsTrue DEF ListFails, RemoveFails, FilesInv
<1>3. CASE ListDone \/ DeleteDone
  BY <1>3, ReleaseTrue DEF ListDone, DeleteDone
<1> QED BY <1>1, <1>2, <1>3, PageListedTrue, ChildrenListedTrue, RemoveNextTrue, AroundTrue
        DEF FtpStep, FtpResumes
-----------------------------------------------------------------------------
(* What is reported of files.                                                *)
SaysNothing == said'.type \notin {"fs_list", "fs_delete_done"}

LEMMA NothingSaid == ASSUME SaysNothing PROVE FilesReportedTrue'
BY DEF SaysNothing, FilesReportedTrue

LEMMA QuietSays == ASSUME said' = Quiet PROVE SaysNothing
BY DEF Quiet, SaysNothing

LEMMA ListReports ==
    ASSUME FtpInv, FilesInv, ListDone
    PROVE  FilesReportedTrue'
<1>1. /\ Settled("list") /\ server' = server
      /\ ask.got.kind = "eof" \/ (ask.got.kind = "ack" /\ Len(Listed.found) >= MaxEntries)
      /\ said'.type = "fs_list" /\ said'.path = scan.dir /\ said'.entries = Listed.found
      /\ said'.clean => Len(Listed.found) < MaxEntries
  BY DEF ListDone, DirectoryEnds
<1>2. ask.got.kind = "eof" => Listed.found = Usable(Alive(scan.dir, server.gone))
  BY <1>1, ListedTrue DEF FilesInv
<1>3. Len(Listed.found) \in Nat /\ MaxEntries \in Nat
  BY <1>1, ListedOk, LenProperties, FtpAssumption
<1>4. said'.clean => ask.got.kind = "eof"
  BY <1>1, <1>3
<1> QED BY <1>1, <1>2, <1>4 DEF FilesReportedTrue

LEMMA DeleteReports ==
    ASSUME FtpInv, FilesInv, DeleteDone
    PROVE  FilesReportedTrue'
<1>1. /\ Removing /\ Removed /\ del.done + 1 = Len(del.work) /\ server' = server
      /\ said' = [Quiet EXCEPT !.type = "fs_delete_done", !.entries = SetToSeq(del.wanted)]
  BY DEF DeleteDone
<1>2. said'.type = "fs_delete_done" /\ said'.entries = SetToSeq(del.wanted)
  BY <1>1 DEF Quiet
<1>3. del.todo = <<>> /\ del.work[del.done + 1] \in server.gone /\ Left(del, server.gone)
  BY <1>1, RemovedTrue
<1>4. del.done \in Nat
  BY DEF FtpInv, DelInv, Dels
<1>5. Visited(del) \subseteq server.gone
  <2>1. \A i \in del.done + 1..Len(del.work) : i = del.done + 1
    BY <1>1, <1>4
  <2>2. Len(del.todo) = 0
    BY <1>3, EmptySeq
  <2>3. 1..Len(del.todo) = {}
    BY <2>2
  <2> QED BY <1>3, <2>1, <2>3 DEF Visited
<1>6. ToSet(SetToSeq(del.wanted)) = del.wanted /\ del.wanted \subseteq server.gone
  BY <1>3, <1>5, SetListed DEF Left
<1> QED BY <1>1, <1>2, <1>6 DEF FilesReportedTrue

LEMMA FilesReport ==
    ASSUME FtpInv, FilesInv, FtpStep
    PROVE  FilesReportedTrue'
<1>1. ASSUME NEW ok \in BOOLEAN, DirReady(ok) \/ Allocate(ok) \/ Flush(ok) \/ Verify(ok)
      PROVE  said' = Quiet
  BY <1>1 DEF DirReady, Allocate, Flush, Verify, DownloadRest
<1>2. CASE ListFails \/ RemoveFails \/ Cleanup \/ TerminateDone
  <2>1. CASE ListFails \/ RemoveFails
    BY <2>1, NothingSaid DEF ListFails, RemoveFails, Fails, Quiet, SaysNothing
  <2>2. CASE Cleanup
    BY <2>2, NothingSaid DEF Cleanup, Quiet, SaysNothing
  <2>3. CASE TerminateDone
    BY <2>3, NothingSaid DEF TerminateDone, Quiet, SaysNothing
  <2> QED BY <1>2, <2>1, <2>2, <2>3, NothingSaid
<1>3. CASE ChildrenListed
  <2>1. \E d : Expands(ftp, d)
    BY <1>3 DEF ChildrenListed
  <2>2. said' = Quiet \/ said' = [Quiet EXCEPT !.type = "fs_op_error"]
    BY <2>1 DEF Expands, Fails
  <2> QED BY <2>2, NothingSaid DEF Quiet, SaysNothing
<1>4. CASE PageListed \/ RemoveNext \/ ResetDone \/ OpenDone \/ ReadDone \/ CrcDone
  <2>1. said' = Quiet
    BY <1>4 DEF PageListed, RemoveNext, ResetDone, OpenDone, ReadDone, CrcDone, DownloadRest
  <2> QED BY <2>1, QuietSays, NothingSaid
<1>5. CASE RequestTimeout \/ BurstEnds \/ HandleFtpPayload \/ ServerStreams \/ ConsumeDownload
  <2>1. said' = Quiet
    BY <1>5 DEF RequestTimeout, BurstEnds, HandleFtpPayload, ServerStreams, ConsumeDownload,
                DownloadRest
  <2> QED BY <2>1, QuietSays, NothingSaid
<1> QED BY <1>1, <1>2, <1>3, <1>4, <1>5, ListReports, DeleteReports, QuietSays, NothingSaid
        DEF FtpStep, FtpResumes

(* A log transfer reports nothing of files.                                  *)
LEMMA LogSaysNothing ==
    ASSUME LogStep
    PROVE  SaysNothing
<1> DEFINE Says(type, entries) == said' = [Quiet EXCEPT !.type = type, !.entries = entries]
           types == {"log_list", "log_op_error", "log_download_complete", "log_erase_done"}
<1>1. said' = Quiet \/ \E type \in types : \E entries : Says(type, entries)
  BY DEF LogStep, LogResumes, LogListed, LogListFails, LogSized, LogCleanup, EraseDone, EraseAgain,
         EraseFails, LogDirReady, LogAllocate, LogFlush, LogRename, LogReleases, LogRest, ListQuiet,
         HandleLogEntry, HandleLogData, DataPassEnds, EraseDelayEnds, VehicleStreams,
         VehicleBabbles, VehicleErases, ConsumeLog
<1>2. ASSUME NEW type \in types, NEW entries, Says(type, entries)
      PROVE  SaysNothing
  <2>1. said'.type = type
    BY <1>2 DEF Quiet
  <2> QED BY <2>1 DEF SaysNothing
<1> HIDE DEF Says, types
<1> QED BY <1>1, <1>2, QuietSays, SMTT(30)

(* An operation starts.                                                      *)
LEMMA StartListTrue ==
    ASSUME FtpInv, FilesInv, target \in Homes, NEW d \in Dirs, StartList(d)
    PROVE  FilesInv' /\ SaysNothing
<1> DEFINE f == Claimed("list", Idle)
           s == [NoScan EXCEPT !.dir = d]
<1>1. Idle \in FtpWaits /\ Claimable /\ AskPage(f, s) /\ said' = Quiet
  BY DEF FtpWaits, Idle, StartList
<1>2. f \in Ftps /\ f.op = "list" /\ f.seq = ftp.seq
  BY <1>1, ClaimedOk DEF Homes
<1>3. s \in Scans /\ s.dir \in Dirs /\ ReadTo(s, server.gone)
  BY NothingListed, BeginsRead
<1> HIDE DEF f, s
<1>4. Answers' /\ ScanTrue' /\ ftp'.op = "list"
  BY <1>1, <1>2, <1>3, AskPageTrue DEF FilesInv
<1>5. DelTrue'
  BY <1>4 DEF DelTrue
<1> QED BY <1>1, <1>4, <1>5, QuietSays DEF FilesInv

LEMMA StartDownloadTrue ==
    ASSUME FtpInv, FilesInv, target \in Homes, NEW p \in Files, StartDownload(p)
    PROVE  FilesInv' /\ SaysNothing
<1>1. /\ "dir" \in FtpWaits /\ Claimable /\ ftp' = Claimed("download", "dir") /\ said' = Quiet
      /\ UNCHANGED <<ask, server, air>>
  BY DEF FtpWaits, StartDownload, DownloadRest
<1>2. FtpInv'
  BY StartDownloadKeeps DEF Homes
<1>3. ftp'.op = "download" /\ ftp'.step = "dir" /\ ftp'.seq = ftp.seq
  BY <1>1, ClaimedOk DEF Homes
<1>4. Answers'
  BY <1>1, <1>3, AnswersStay DEF FilesInv
<1> QED BY <1>1, <1>2, <1>3, <1>4, NothingOnFiles, QuietSays DEF FilesInv, FtpInv

LEMMA StartDeleteTrue ==
    ASSUME FtpInv, FilesInv, target \in Homes, NEW selection \in Selections, StartDelete(selection)
    PROVE  FilesInv' /\ SaysNothing
<1> DEFINE f == Claimed("delete", Idle)
           t == [i \in DOMAIN selection |-> Entry(selection[i], 0)]
           d == [NoDelete EXCEPT !.wanted = ToSet(selection), !.todo = t]
<1>0. Idle \in FtpWaits /\ Claimable
  BY DEF FtpWaits, Idle, StartDelete
<1>1. f \in Ftps /\ f.op = "delete" /\ f.seq = ftp.seq
  BY <1>0, ClaimedOk DEF Homes
<1>2. selection \in Seq(Paths) /\ selection # <<>>
  BY SelectionAssumption DEF Paths
<1>3. /\ Len(selection) \in Nat /\ DOMAIN selection = 1..Len(selection) /\ Len(selection) # 0
      /\ \A i \in 1..Len(selection) : selection[i] \in Paths
  BY <1>2, LenProperties, ElementOfSeq, EmptySeq
<1>4. /\ t \in Seq(Todos) /\ Len(t) = Len(selection)
      /\ \A i \in 1..Len(selection) :
            /\ ~ListedDir(t[i]) /\ (~t[i].listed => t[i].path \in Dirs)
            /\ t[i].path = selection[i]
  <2>1. t = [i \in 1..Len(selection) |-> Entry(selection[i], 0)] /\ 0 \in Nat
    BY <1>3
  <2>2. \A i \in 1..Len(selection) : t[i].path = selection[i]
    BY <1>3 DEF Entry
  <2> HIDE DEF t
  <2>3. /\ t \in Seq(Todos) /\ Len(t) = Len(selection)
        /\ \A i \in 1..Len(selection) :
              ~ListedDir(t[i]) /\ (~t[i].listed => t[i].path \in Dirs)
    BY ONLY <1>2, <2>1, Entries, ZenonT(40)
  <2> QED BY <2>2, <2>3
<1>5. Expands(f, d)
  BY DEF StartDelete
<1>6. ToSet(selection) = {selection[i] : i \in 1..Len(selection)}
  BY <1>3 DEF ToSet
<1>7. ToSet(selection) \in SUBSET Paths /\ IsFiniteSet(ToSet(selection))
  <2>1. selection \in Surjection(1..Len(selection), ToSet(selection))
    <3>1. selection \in [1..Len(selection) -> ToSet(selection)]
      BY <1>2, <1>3, <1>6, LenProperties
    <3> QED BY <1>6, <3>1 DEF Surjection
  <2>2. IsFiniteSet(1..Len(selection))
    BY <1>3, FS_Interval
  <2> QED BY <1>3, <1>6, <2>1, <2>2, FS_Surjection
<1> HIDE DEF t, f
<1>8. TodoOk(t) /\ t # <<>>
  BY <1>3, <1>4, EmptySeq DEF TodoOk
<1>9. <<>> \in Seq(Paths) /\ Len(<<>>) = 0
  BY EmptySeq
<1>10. d \in Dels /\ d.todo = t /\ d.work = <<>> /\ d.done = 0 /\ d.wanted = ToSet(selection)
  BY <1>4, <1>7, <1>9 DEF NoDelete, Dels
<1> HIDE DEF d
<1>11. Len(d.work) <= MaxItems
  BY <1>9, <1>10, FtpNumbers
<1>12. Left(d, server.gone)
  <2>1. \A i \in 1..Len(selection) : i \in 1..Len(d.todo) /\ selection[i] = d.todo[i].path
    BY <1>4, <1>10
  <2> QED BY <1>6, <1>7, <1>10, <2>1 DEF Left, Visited
<1>13. FilesInv'
  BY <1>1, <1>5, <1>8, <1>10, <1>11, <1>12, ExpandsTrue DEF FilesInv
<1>14. said' = Quiet \/ said' = [Quiet EXCEPT !.type = "fs_op_error"]
  BY <1>5 DEF Expands, Fails
<1> QED BY <1>13, <1>14 DEF SaysNothing, Quiet

(* Cancelled from outside, or left alone.                                    *)
LEMMA CancelTrue ==
    ASSUME FtpInv, FilesInv, FtpCancel, UNCHANGED <<scan, del, server>>, air' \in {air, <<>>}
    PROVE  FilesInv'
<1>1. ftp' = [ftp EXCEPT !.cancelRequested = TRUE]
  BY DEF FtpCancel
<1>2. ftp'.op = ftp.op /\ ftp'.step = ftp.step /\ ftp'.seq = ftp.seq
  BY <1>1 DEF FtpInv, FtpShape
<1>3. \/ ask' = ask
      \/ /\ ask # NoAsk /\ ask' # NoAsk /\ ask'.arg = ask.arg /\ ask'.got.arg = <<>>
         /\ ask'.got.kind = "cancelled" /\ ask'.ran = ask.ran
  <2>1. CASE ask # NoAsk /\ ask.got = Waiting
    <3>1. ask' = [ask EXCEPT !.got = [Waiting EXCEPT !.kind = "cancelled"]]
      BY <2>1 DEF FtpCancel
    <3>2. ask \in Asks /\ ask.opcode # "none"
      BY <2>1 DEF FtpInv, AskInv, Asks, Opcodes
    <3>3. /\ ask'.opcode = ask.opcode /\ ask'.arg = ask.arg /\ ask'.ran = ask.ran
          /\ ask'.got = [Waiting EXCEPT !.kind = "cancelled"]
      BY <3>1, <3>2 DEF Asks
    <3> QED BY <2>1, <3>2, <3>3 DEF NoAsk, Waiting
  <2> QED BY <2>1 DEF FtpCancel
<1>4. Answers'
  <2>1. ask.ran <= 1
    BY DEF FilesInv, Answers, AskTrue
  <2> QED BY <1>2, <1>3, <2>1, AnswersStay DEF FilesInv
<1>5. ScanTrue'
  BY <1>2, <1>3 DEF FilesInv, ScanTrue
<1>6. DelTrue'
  BY <1>2, <1>3 DEF FilesInv, DelTrue
<1> QED BY <1>4, <1>5, <1>6 DEF FilesInv

LEMMA FilesRest ==
    ASSUME FilesInv, UNCHANGED ftpVars
    PROVE  FilesInv'
BY DEF FilesInv, ftpVars, Answers, Window, InWindow, Pends, LastInv, AskTrue, Replying,
       ScanTrue, DelTrue

LEMMA FilesBegin == TransferInit => FilesInv /\ FilesReportedTrue
<1> SUFFICES ASSUME TransferInit PROVE FilesInv /\ FilesReportedTrue
  OBVIOUS
<1>1. /\ ask = NoAsk /\ air = <<>> /\ ftp.seq = 0 /\ ftp.op = Idle /\ ftp.step = Idle
      /\ server.last = NoReply /\ server.stream = NoStream /\ said = Quiet
  BY DEF TransferInit, FtpInit
<1>2. ~Pends /\ ask.ran = 0 /\ ask.got.arg = <<>> /\ ask.got.kind = "waiting"
  BY <1>1 DEF Pends, NoAsk, Waiting
<1>3. 0 \in Numbers
  BY FtpNumbers
<1>4. PICK low \in Numbers : Forward(0, low) = MaxAge
  BY <1>3, Places
<1>5. Forward(ftp.seq, low) \in MaxAge..Width
  BY <1>1, <1>4, Lengths DEF Width
<1>6. Window(low)
  <2>1. \A i \in 1..Len(air) : InWindow(air[i], ftp.seq, low)
    BY <1>1, EmptySeq
  <2> QED BY <1>1, <1>2, <1>5, <2>1 DEF Window
<1>7. LastInv /\ AskTrue
  BY <1>1, <1>2 DEF LastInv, AskTrue, Idle
<1>8. ScanTrue /\ DelTrue
  BY <1>1 DEF ScanTrue, DelTrue, Idle
<1>9. FilesReportedTrue
  BY <1>1 DEF FilesReportedTrue, Quiet
<1> QED BY <1>6, <1>7, <1>8, <1>9 DEF FilesInv, Answers

(* The whole, with what was asked, read and reported of files.               *)
SoundInv == WholeInv /\ FilesInv /\ FilesReportedTrue

LEMMA SoundBegins == TransferInit => SoundInv
BY WholeBegins, FilesBegin DEF SoundInv

LEMMA SoundStarts ==
    ASSUME SoundInv, PageStarts
    PROVE  FilesInv' /\ FilesReportedTrue'
<1>0. FtpInv /\ target \in Homes /\ FilesInv
  BY DEF SoundInv, WholeInv, BridgeShape
<1>1. CASE \/ \E d \in Dirs : StartList(d)
           \/ \E p \in Files : StartDownload(p)
           \/ \E s \in Selections : StartDelete(s)
  <2>1. FilesInv' /\ SaysNothing
    BY <1>0, <1>1, StartListTrue, StartDownloadTrue, StartDeleteTrue
  <2> QED BY <2>1, NothingSaid
<1>2. CASE /\ UNCHANGED ftpVars
           /\ \/ StartLogList \/ StartErase
              \/ \E id \in Ids : StartLogDownload(id)
  <2>1. said' = Quiet \/ said' = [Quiet EXCEPT !.type = "log_op_error"]
    BY <1>2 DEF StartLogList, StartErase, StartLogDownload, LogRest
  <2>2. SaysNothing
    BY <2>1 DEF SaysNothing, Quiet
  <2> QED BY <1>0, <1>2, <2>2, FilesRest, NothingSaid
<1> QED BY <1>1, <1>2 DEF PageStarts

LEMMA SoundBridge ==
    ASSUME SoundInv, BridgeStep
    PROVE  FilesInv' /\ FilesReportedTrue'
<1>0. FtpInv /\ FilesInv
  BY DEF SoundInv, WholeInv
<1>1. CASE PageCancels
  <2>1. \/ FtpCancel /\ UNCHANGED <<scan, del, server>> /\ air' \in {air, <<>>}
        \/ UNCHANGED ftpVars
    BY <1>1 DEF PageCancels, transferVars
  <2>2. said' = Quiet
    BY <1>1 DEF PageCancels
  <2> QED BY <1>0, <2>1, <2>2, CancelTrue, FilesRest, QuietSays, NothingSaid
<1>2. CASE ParamStarts \/ ParamEnds \/ ResumeProtocol
  <2>1. UNCHANGED ftpVars /\ said' = Quiet
    BY <1>2 DEF ParamStarts, ParamEnds, ResumeProtocol
  <2> QED BY <1>0, <2>1, FilesRest, QuietSays, NothingSaid
<1>3. CASE ActivateTarget \/ LinkChanges \/ PauseProtocol \/ Destroy
  <2>1. /\ FtpCancel /\ UNCHANGED <<scan, del, server>> /\ air' \in {air, <<>>} /\ said' = Quiet
    BY <1>3 DEF ActivateTarget, LinkChanges, PauseProtocol, Destroy, CancelProtocolOperations,
                transferVars
  <2> QED BY <1>0, <2>1, CancelTrue, QuietSays, NothingSaid
<1> QED BY <1>1, <1>2, <1>3, SoundStarts DEF BridgeStep

LEMMA SoundStep == SoundInv /\ [Next]_vars => SoundInv'
<1> SUFFICES ASSUME SoundInv, [Next]_vars PROVE SoundInv'
  OBVIOUS
<1>0. WholeInv /\ FtpInv /\ FtpHome /\ FilesInv /\ FilesReportedTrue
  BY DEF SoundInv, WholeInv
<1>1. WholeInv'
  BY <1>0, WholeStep
<1>2. CASE UNCHANGED vars
  <2>1. UNCHANGED ftpVars /\ UNCHANGED said
    BY <1>2 DEF vars
  <2>2. FilesReportedTrue'
    BY <1>0, <2>1 DEF FilesReportedTrue, ftpVars
  <2> QED BY <1>0, <1>1, <2>1, <2>2, FilesRest DEF SoundInv
<1>3. CASE BridgeStep
  BY <1>1, <1>3, SoundBridge DEF SoundInv
<1>4. CASE FtpStep
  BY <1>0, <1>1, <1>4, FilesStep, FilesReport DEF SoundInv
<1>5. CASE LogStep /\ UNCHANGED ftpVars
  BY <1>0, <1>1, <1>5, FilesRest, LogSaysNothing, NothingSaid DEF SoundInv
<1> QED BY <1>2, <1>3, <1>4, <1>5 DEF Next

(* Whatever is asked, of the page, of a file or of a log: one transfer has   *)
(* the link, within its limits; its requests go to the vehicle it was        *)
(* started on; and the answer that is taken is the answer to the request     *)
(* that waits, which the server has executed at most once, although numbers  *)
(* run around, frames are late, lost and repeated, and a burst is ahead of   *)
(* the next request (transact, expectedSeq, advanceSeqFromReply, allocSeq).  *)
THEOREM RequestsAreSound == Spec => []RequestsSound
<1>1. TransferInit => SoundInv
  BY SoundBegins
<1>2. SoundInv /\ [Next]_vars => SoundInv'
  BY SoundStep
<1>3. SoundInv => RequestsSound
  BY WholeIsConsistent DEF SoundInv, WholeInv, FilesInv, Answers, AskTrue, AnswersMatch, RequestsSound
<1> QED BY <1>1, <1>2, <1>3, PTL DEF Spec

(* What a transfer leaves behind and what it says is true: a kept file is    *)
(* the file of the server, the tracker of a download is exact, a listing has *)
(* every usable record of the directory once and in order, a deletion that   *)
(* is done has removed all that was selected, a list of logs lacks none and  *)
(* an erasure has left none (collectDirectory, expandDeleteTarget,           *)
(* runDelete, runDownload, collectList, runErase).                           *)
THEOREM OutcomesAreTrue == Spec => []OutcomesTrue
<1>1. TransferInit => SoundInv
  BY SoundBegins
<1>2. SoundInv /\ [Next]_vars => SoundInv'
  BY SoundStep
<1>3. SoundInv => OutcomesTrue
  BY WholeIsKept, WholeIsExact DEF SoundInv, WholeInv, OutcomesTrue, ReportedTrue
<1> QED BY <1>1, <1>2, <1>3, PTL DEF Spec
=============================================================================
