--------------------------- MODULE BridgeLink_proofs ---------------------------
(***************************************************************************)
(* Proofs about BridgeLink: what MavlinkBridge concludes from answers that *)
(* name no request, from values that name no write, and from a queue that  *)
(* a stop overtakes, for every number of requests, motors, parameters and  *)
(* frames on their way.                                                    *)
(***************************************************************************)
EXTENDS BridgeLink, SequenceTheorems, FiniteSetTheorems, NaturalsInduction, TLAPS

(* What is drawn from the first n entries of a sequence keeps their order.   *)
Places(t, s, n, f) ==
    /\ f \in [1..Len(t) -> 1..n]
    /\ \A k \in 1..Len(t) : t[k] = s[f[k]]
    /\ \A j, k \in 1..Len(t) : j < k => f[j] < f[k]

Draws(t, S, s, at, n) ==
    /\ t \in Seq(S)
    /\ \E f : /\ Places(t, s, n, f)
              /\ \A k \in 1..Len(t) : f[k] \in at
              /\ \A i \in at : i \in 1..n => \E k \in 1..Len(t) : f[k] = i

LEMMA DrawsMore ==
    ASSUME NEW S, NEW s \in Seq(S), NEW at, NEW n \in 1..Len(s), NEW t, Draws(t, S, s, at, n - 1)
    PROVE  Draws(IF n \in at THEN Append(t, s[n]) ELSE t, S, s, at, n)
<1> PICK f : /\ Places(t, s, n - 1, f)
             /\ \A k \in 1..Len(t) : f[k] \in at
             /\ \A i \in at : i \in 1..n - 1 => \E k \in 1..Len(t) : f[k] = i
  BY DEF Draws
<1>1. Len(t) \in Nat /\ s[n] \in S /\ n \in Nat /\ Len(s) \in Nat
  BY LenProperties, ElementOfSeq DEF Draws
<1>2. \A k \in 1..Len(t) : f[k] \in 1..n - 1
  BY DEF Places
<1>0. \A i \in 1..n : i = n \/ i \in 1..n - 1
  OBVIOUS
<1>3. ASSUME n \notin at PROVE Draws(t, S, s, at, n)
  <2>1. f \in [1..Len(t) -> 1..n]
    BY <1>1, <1>2 DEF Places
  <2>2. \A i \in at : i \in 1..n => \E k \in 1..Len(t) : f[k] = i
    BY <1>0, <1>3
  <2> QED BY <2>1, <2>2 DEF Places, Draws
<1>4. ASSUME n \in at PROVE Draws(Append(t, s[n]), S, s, at, n)
  <2> DEFINE u == Append(t, s[n])
             m == Len(t)
             g == [k \in 1..m + 1 |-> IF k = m + 1 THEN n ELSE f[k]]
  <2>1. /\ u \in Seq(S) /\ Len(u) = m + 1
        /\ \A k \in 1..m : u[k] = t[k]
        /\ u[m + 1] = s[n]
    BY <1>1, AppendProperties DEF Draws
  <2>2. \A k \in 1..m + 1 : k = m + 1 \/ k \in 1..m
    BY <1>1
  <2>3. m + 1 \notin 1..m /\ m + 1 \in 1..m + 1 /\ \A k \in 1..m : k \in 1..m + 1
    BY <1>1
  <2>4. g[m + 1] = n /\ \A k \in 1..m : g[k] = f[k]
    BY <2>3
  <2>5. \A k \in 1..m + 1 : g[k] \in 1..n
    BY <1>1, <1>2, <2>2, <2>4
  <2>6. g \in [1..m + 1 -> 1..n]
    BY <2>5
  <2> HIDE DEF u, g
  <2>7. \A k \in 1..m + 1 : u[k] = s[g[k]] /\ g[k] \in at
    BY <1>4, <2>1, <2>2, <2>4 DEF Places
  <2>8. \A j, k \in 1..m + 1 : j < k => g[j] < g[k]
    <3> TAKE j, k \in 1..m + 1
    <3> HAVE j < k
    <3>1. j \in 1..m
      BY <1>1, <2>2
    <3>2. CASE k = m + 1
      BY <1>1, <1>2, <2>4, <3>1, <3>2
    <3>3. CASE k \in 1..m
      BY <2>4, <3>1, <3>3 DEF Places
    <3> QED BY <2>2, <3>2, <3>3
  <2>9. Places(u, s, n, g)
    BY <2>1, <2>6, <2>7, <2>8 DEF Places
  <2>10. \A i \in at : i \in 1..n => \E k \in 1..m + 1 : g[k] = i
    BY <1>0, <2>3, <2>4
  <2> QED BY <2>1, <2>7, <2>9, <2>10 DEF Draws, u
<1> QED BY <1>3, <1>4

LEMMA DrawsNothing == ASSUME NEW S, NEW s \in Seq(S), NEW at PROVE Draws(<<>>, S, s, at, 0)
<1> DEFINE f == [k \in 1..0 |-> k]
<1>1. <<>> \in Seq(S) /\ Len(<<>>) = 0 /\ 1..0 = {}
  BY EmptySeq
<1>2. f \in [1..0 -> 1..0]
  OBVIOUS
<1> HIDE DEF f
<1>3. Places(<<>>, s, 0, f)
  BY <1>1, <1>2 DEF Places
<1>4. \A i \in at : i \in 1..0 => \E k \in 1..0 : f[k] = i
  BY <1>1
<1> QED BY <1>1, <1>3, <1>4 DEF Draws

LEMMA LeastNumber ==
    ASSUME NEW T \in SUBSET Nat, T # {}
    PROVE  \E m \in T : \A k \in T : m <= k
<1>1. PICK m \in T : \A k \in T : ~(<<k, m>> \in OpToRel(<, Nat))
  BY NatLessThanWellFounded, WFMin
<1>2. \A k \in T : ~(k < m)
  BY <1>1 DEF OpToRel
<1> QED BY <1>2

(* The recursion of EntriesAt, as far as n; there is a function that         *)
(* satisfies it, by the least number for which there is none.                *)
NextDrawn(g, s, at, n) ==
    IF n = 0 THEN <<>> ELSE IF n \in at THEN Append(g[n - 1], s[n]) ELSE g[n - 1]
Recurs(g, s, at, n) == g = [i \in 0..n |-> NextDrawn(g, s, at, i)]

LEMMA DrawnRecursively ==
    ASSUME NEW S, NEW s \in Seq(S), NEW at
    PROVE  \E g : Recurs(g, s, at, Len(s))
<1> DEFINE Bad == {n \in 0..Len(s) : ~\E g : Recurs(g, s, at, n)}
<1>0. Len(s) \in Nat
  BY LenProperties
<1>1. 0 \notin Bad
  <2> DEFINE g == [i \in 0..0 |-> <<>>]
  <2>1. \A i \in 0..0 : i = 0 /\ g[i] = <<>>
    OBVIOUS
  <2>2. g = [i \in 0..0 |-> NextDrawn(g, s, at, i)]
    BY <2>1 DEF NextDrawn
  <2> HIDE DEF g
  <2> QED BY <2>2 DEF Recurs
<1>2. ASSUME NEW n \in Bad, \A k \in Bad : n <= k PROVE FALSE
  <2>1. n \in 1..Len(s) /\ n - 1 \in 0..Len(s) /\ n - 1 \in Nat
    BY <1>0, <1>1
  <2>2. n - 1 \notin Bad
    BY <1>2, <2>1
  <2> PICK g : Recurs(g, s, at, n - 1)
    BY <2>1, <2>2
  <2> DEFINE h == [i \in 0..n |-> IF i = n THEN NextDrawn(g, s, at, n) ELSE g[i]]
  <2>3. /\ \A i \in 0..n : i = n \/ i \in 0..n - 1
        /\ n \in 0..n /\ n # 0 /\ n - 1 # n /\ n - 1 \in 0..n - 1
        /\ \A i \in 0..n - 1 : i # n /\ i \in 0..n /\ (i # 0 => i - 1 \in 0..n - 1)
    BY <2>1
  <2>4. h[n] = NextDrawn(g, s, at, n) /\ \A i \in 0..n - 1 : h[i] = g[i]
    BY <2>3
  <2>5. \A i \in 0..n - 1 : g[i] = NextDrawn(g, s, at, i)
    BY DEF Recurs
  <2>6. DOMAIN h = 0..n /\ h = [i \in 0..n |-> h[i]]
    OBVIOUS
  <2> HIDE DEF h
  <2>7. \A i \in 0..n - 1 : NextDrawn(h, s, at, i) = NextDrawn(g, s, at, i)
    BY <2>3, <2>4 DEF NextDrawn
  <2>8. NextDrawn(h, s, at, n) = NextDrawn(g, s, at, n)
    BY <2>3, <2>4 DEF NextDrawn
  <2>9. \A i \in 0..n : h[i] = NextDrawn(h, s, at, i)
    BY <2>3, <2>4, <2>5, <2>7, <2>8
  <2>10. h = [i \in 0..n |-> NextDrawn(h, s, at, i)]
    BY <2>6, <2>9
  <2> QED BY <2>10 DEF Recurs
<1>3. Bad = {}
  <2> SUFFICES ASSUME NEW n \in Bad PROVE FALSE
    OBVIOUS
  <2>1. Bad \in SUBSET Nat
    BY <1>0
  <2> HIDE DEF Bad
  <2>2. \E m \in Bad : \A k \in Bad : m <= k
    BY <2>1, LeastNumber
  <2> QED BY <1>2, <2>2
<1> QED BY <1>0, <1>3

(* The entries of a sequence at some positions are entries of it, in order.  *)
LEMMA EntriesDrawn ==
    ASSUME NEW S, NEW s \in Seq(S), NEW at
    PROVE  Draws(EntriesAt(s, at), S, s, at, Len(s))
<1> DEFINE kept == CHOOSE g : g = [n \in 0..Len(s) |-> NextDrawn(g, s, at, n)]
       Bad == {n \in 0..Len(s) : ~Draws(kept[n], S, s, at, n)}
<1>0. Len(s) \in Nat
  BY LenProperties
<1>1. EntriesAt(s, at) = kept[Len(s)]
  BY DEF EntriesAt, NextDrawn
<1>2. kept = [n \in 0..Len(s) |-> NextDrawn(kept, s, at, n)]
  <2>1. \E g : g = [n \in 0..Len(s) |-> NextDrawn(g, s, at, n)]
    <3> PICK g : Recurs(g, s, at, Len(s))
      BY DrawnRecursively
    <3> QED BY DEF Recurs
  <2> QED BY <2>1
<1> HIDE DEF kept
<1>3. \A n \in 0..Len(s) : kept[n] = NextDrawn(kept, s, at, n)
  BY <1>2
<1>4. ASSUME NEW n \in Bad, \A k \in Bad : n <= k PROVE FALSE
  <2>1. n # 0
    <3>1. 0 \in 0..Len(s)
      BY <1>0
    <3>2. kept[0] = <<>>
      BY <1>3, <3>1 DEF NextDrawn
    <3> QED BY <3>2, DrawsNothing
  <2>2. n \in 1..Len(s) /\ n - 1 \in 0..Len(s) /\ n - 1 < n
    BY <1>0, <2>1
  <2>3. Draws(kept[n - 1], S, s, at, n - 1)
    BY <1>4, <2>2
  <2>4. kept[n] = IF n \in at THEN Append(kept[n - 1], s[n]) ELSE kept[n - 1]
    BY <1>3, <2>1 DEF NextDrawn
  <2>5. Draws(kept[n], S, s, at, n)
    BY <2>2, <2>3, <2>4, DrawsMore
  <2> QED BY <2>5
<1>5. Bad = {}
  <2> SUFFICES ASSUME NEW n \in Bad PROVE FALSE
    OBVIOUS
  <2>1. Bad \in SUBSET Nat
    BY <1>0
  <2> HIDE DEF Bad
  <2>2. \E m \in Bad : \A k \in Bad : m <= k
    BY <2>1, LeastNumber
  <2> QED BY <1>4, <2>2
<1>6. Len(s) \in 0..Len(s)
  BY <1>0
<1> QED BY <1>1, <1>5, <1>6

(* The sequence made of a finite set lists its elements and nothing else.    *)
LEMMA SetListed ==
    ASSUME NEW S, IsFiniteSet(S)
    PROVE  /\ SetToSeq(S) \in Seq(S)
           /\ \A x \in S : \E k \in 1..Len(SetToSeq(S)) : SetToSeq(S)[k] = x
           /\ \A j, k \in 1..Len(SetToSeq(S)) : SetToSeq(S)[j] = SetToSeq(S)[k] => j = k
<1> DEFINE n == Cardinality(S)
           f == SetToSeq(S)
<1>1. n \in Nat /\ \E g : g \in Bijection(1..n, S)
  BY FS_CardinalityType DEF ExistsBijection
<1>2. \E g \in [1..n -> S] : IsInjective(g)
  BY <1>1 DEF Bijection, Injection
<1>3. f \in [1..n -> S] /\ IsInjective(f)
  BY <1>2 DEF SetToSeq
<1> HIDE DEF f
<1>4. f \in Injection(1..n, S) /\ IsFiniteSet(1..n) /\ Cardinality(1..n) = n
  BY <1>1, <1>3, FS_Interval DEF Injection
<1>5. f \in Surjection(1..n, S)
  BY <1>4, FS_Injection
<1>6. f \in Seq(S) /\ Len(f) = n
  BY <1>1, <1>3
<1>7. \A j, k \in 1..Len(f) : f[j] = f[k] => j = k
  BY <1>3, <1>6 DEF IsInjective
<1> QED BY <1>5, <1>6, <1>7 DEF Surjection, f

(* One entry taken out: the others keep their order.                         *)
LEMMA TakenOut ==
    ASSUME NEW S, NEW s \in Seq(S), NEW i \in 1..Len(s)
    PROVE  /\ RemoveAt(s, i) \in Seq(S)
           /\ Len(RemoveAt(s, i)) = Len(s) - 1
           /\ \A k \in 1..Len(s) - 1 : RemoveAt(s, i)[k] = IF k < i THEN s[k] ELSE s[k + 1]
<1> DEFINE a == SubSeq(s, 1, i - 1)
           b == SubSeq(s, i + 1, Len(s))
<1>1. Len(s) \in Nat /\ \A k \in 1..Len(s) : s[k] \in S
  BY LenProperties, ElementOfSeq
<1>2. /\ a \in Seq(S) /\ Len(a) = i - 1
      /\ \A k \in 1..i - 1 : a[k] = s[k]
  BY <1>1, SubSeqProperties
<1>3. /\ b \in Seq(S) /\ Len(b) = Len(s) - i
      /\ \A k \in 1..Len(s) - i : b[k] = s[i + k]
  BY <1>1, SubSeqProperties
<1>4. RemoveAt(s, i) = a \o b
  BY DEF RemoveAt
<1> HIDE DEF a, b
<1>5. /\ a \o b \in Seq(S) /\ Len(a \o b) = Len(a) + Len(b)
      /\ \A k \in 1..Len(a) + Len(b) : (a \o b)[k] = IF k <= Len(a) THEN a[k] ELSE b[k - Len(a)]
  BY <1>2, <1>3, ConcatProperties
<1>6. Len(a \o b) = Len(s) - 1
  BY <1>1, <1>2, <1>3, <1>5
<1>7. ASSUME NEW k \in 1..Len(s) - 1
      PROVE  (a \o b)[k] = IF k < i THEN s[k] ELSE s[k + 1]
  <2>1. k \in 1..Len(a) + Len(b)
    BY <1>5, <1>6
  <2>2. CASE k < i
    BY <1>1, <1>2, <1>5, <2>1, <2>2
  <2>3. CASE ~(k < i)
    <3>1. ~(k <= Len(a)) /\ k - Len(a) \in 1..Len(s) - i /\ i + (k - Len(a)) = k + 1
      BY <1>1, <1>2, <2>3
    <3> QED BY <1>3, <1>5, <2>1, <2>3, <3>1
  <2> QED BY <2>2, <2>3
<1> QED BY <1>4, <1>5, <1>6, <1>7
-----------------------------------------------------------------------------
(* Sequences of messages, entry by entry.                                    *)
LEMMA Popped ==
    ASSUME NEW S, NEW s \in Seq(S), s # <<>>
    PROVE  /\ Tail(s) \in Seq(S) /\ Head(s) = s[1] /\ Head(s) \in S /\ 1 \in 1..Len(s)
           /\ \A i \in 1..Len(Tail(s)) : i + 1 \in 1..Len(s) /\ Tail(s)[i] = s[i + 1]
           /\ Len(Tail(s)) = Len(s) - 1 /\ Len(s) \in Nat
<1> DEFINE t == Tail(s)
<1>1. /\ Head(s) \in S /\ t \in Seq(S) /\ Len(t) = Len(s) - 1
      /\ \A i \in 1..Len(t) : t[i] = s[i + 1]
  BY HeadTailProperties
<1>2. Len(s) \in Nat \ {0}
  BY EmptySeq
<1> HIDE DEF t
<1>3. 1 \in 1..Len(s) /\ \A i \in 1..Len(t) : i + 1 \in 1..Len(s)
  BY <1>1, <1>2
<1> QED BY <1>1, <1>2, <1>3 DEF t

LEMMA Pushed ==
    ASSUME NEW S, NEW s \in Seq(S), NEW e \in S
    PROVE  /\ Append(s, e) \in Seq(S) /\ Len(Append(s, e)) = Len(s) + 1 /\ Len(s) \in Nat
           /\ \A i \in 1..Len(s) : i \in 1..Len(s) + 1 /\ Append(s, e)[i] = s[i]
           /\ Len(s) + 1 \in 1..Len(s) + 1 /\ Append(s, e)[Len(s) + 1] = e
           /\ \A i \in 1..Len(s) + 1 : i = Len(s) + 1 \/ i \in 1..Len(s)
<1>1. Len(s) \in Nat
  BY LenProperties
<1> QED BY <1>1, AppendProperties

LEMMA Joined ==
    ASSUME NEW S, NEW s \in Seq(S), NEW t \in Seq(S)
    PROVE  /\ s \o t \in Seq(S) /\ Len(s \o t) = Len(s) + Len(t) /\ Len(s) \in Nat /\ Len(t) \in Nat
           /\ \A i \in 1..Len(s) : i \in 1..Len(s \o t) /\ (s \o t)[i] = s[i]
           /\ \A i \in 1..Len(t) : Len(s) + i \in 1..Len(s \o t) /\ (s \o t)[Len(s) + i] = t[i]
           /\ \A i \in 1..Len(s \o t) :
                 i \in 1..Len(s) \/ (i - Len(s) \in 1..Len(t) /\ (s \o t)[i] = t[i - Len(s)])
<1> DEFINE u == s \o t
<1>1. /\ u \in Seq(S) /\ Len(u) = Len(s) + Len(t)
      /\ \A i \in 1..Len(s) + Len(t) : u[i] = IF i <= Len(s) THEN s[i] ELSE t[i - Len(s)]
  BY ConcatProperties
<1>2. Len(s) \in Nat /\ Len(t) \in Nat
  BY LenProperties
<1> HIDE DEF u
<1>3. \A i \in 1..Len(s) : i \in 1..Len(u) /\ u[i] = s[i]
  BY <1>1, <1>2
<1>4. ASSUME NEW i \in 1..Len(t) PROVE Len(s) + i \in 1..Len(u) /\ u[Len(s) + i] = t[i]
  <2>1. Len(s) + i \in 1..Len(s) + Len(t) /\ ~(Len(s) + i <= Len(s)) /\ (Len(s) + i) - Len(s) = i
    BY <1>2
  <2> QED BY <1>1, <2>1
<1>5. ASSUME NEW i \in 1..Len(u), i \notin 1..Len(s)
      PROVE  i - Len(s) \in 1..Len(t) /\ u[i] = t[i - Len(s)]
  <2>1. ~(i <= Len(s)) /\ i - Len(s) \in 1..Len(t)
    BY <1>1, <1>2, <1>5
  <2> QED BY <1>1, <2>1
<1> QED BY <1>1, <1>2, <1>3, <1>4, <1>5 DEF u
-----------------------------------------------------------------------------
(* The values of one parameter, in the order the vehicle has them: the one   *)
(* in the cache, those on their way to the page, its own, and those of the   *)
(* writes on their way to it.                                                *)
DownFrames == [kind : {"set"}, param : Params, val : Values, n : Nat]
              \cup [kind : {"list", "read"}, param : Params, val : {NoVal}, n : Nat]
UpFrames == [param : Params, val : Values, listed : BOOLEAN]

Writes(f, p) == f.kind = "set" /\ f.param = p
AllUps(w, p, us) == \A i \in 1..Len(us) : us[i].param = p => us[i].val = w
AllSets(w, p, ds) == \A i \in 1..Len(ds) : Writes(ds[i], p) => ds[i].val = w

(* Nothing but the value of the vehicle.                                     *)
Same(p, c, us, a, ds) == c \in {NoVal, a} /\ AllUps(a, p, us) /\ AllSets(a, p, ds)

(* Once w shows, it stays.                                                   *)
Stays(w, p, c, us, a, ds) ==
    /\ c = w => AllUps(w, p, us) /\ a = w /\ AllSets(w, p, ds)
    /\ \A i \in 1..Len(us) : us[i].param = p /\ us[i].val = w =>
          /\ \A j \in 1..Len(us) : j > i /\ us[j].param = p => us[j].val = w
          /\ a = w /\ AllSets(w, p, ds)
    /\ a = w => AllSets(w, p, ds)
    /\ \A i \in 1..Len(ds) : Writes(ds[i], p) /\ ds[i].val = w =>
          \A j \in 1..Len(ds) : j > i /\ Writes(ds[j], p) => ds[j].val = w

(* A write is sent, for the first time or again.                             *)
LEMMA StartsStaying ==
    ASSUME NEW p \in Params, NEW w \in Values, NEW c, NEW us \in Seq(UpFrames), NEW a,
           NEW ds \in Seq(DownFrames), NEW e \in DownFrames, Writes(e, p), e.val = w,
           Same(p, c, us, a, ds)
    PROVE  Stays(w, p, c, us, a, Append(ds, e))
<1> DEFINE t == Append(ds, e)
<1>1. /\ Len(t) = Len(ds) + 1 /\ Len(ds) \in Nat
      /\ \A i \in 1..Len(ds) : t[i] = ds[i]
      /\ t[Len(ds) + 1] = e
      /\ \A i \in 1..Len(ds) + 1 : i = Len(ds) + 1 \/ i \in 1..Len(ds)
  BY Pushed
<1>2. NoVal \notin Values
  BY ParamAssumption DEF ParamAssumption
<1> HIDE DEF t
<1>3. a = w => AllSets(w, p, t)
  BY <1>1 DEF Same, AllSets
<1>4. \A i \in 1..Len(t) : Writes(t[i], p) /\ t[i].val = w =>
          \A j \in 1..Len(t) : j > i /\ Writes(t[j], p) => t[j].val = w
  <2> TAKE i \in 1..Len(t)
  <2> HAVE Writes(t[i], p) /\ t[i].val = w
  <2> TAKE j \in 1..Len(t)
  <2> HAVE j > i /\ Writes(t[j], p)
  <2>1. CASE j = Len(ds) + 1
    BY <1>1, <2>1
  <2>2. CASE j \in 1..Len(ds)
    <3>1. i \in 1..Len(ds)
      BY <1>1, <2>2
    <3> QED BY <1>1, <2>2, <3>1 DEF Same, AllSets
  <2> QED BY <1>1, <2>1, <2>2
<1>5. \A i \in 1..Len(us) : us[i].param = p => us[i].val = a
  BY DEF Same, AllUps
<1>6. c = w => a = w
  BY <1>2 DEF Same
<1> QED BY <1>3, <1>4, <1>5, <1>6 DEF Same, Stays, AllUps, t

(* The page hears a value; one that is w ends the wait for w.                *)
LEMMA Heard ==
    ASSUME NEW p \in Params, NEW w, NEW c, NEW us \in Seq(UpFrames), NEW a, NEW ds, us # <<>>
    PROVE  LET m == Head(us)
               d == IF m.param = p THEN m.val ELSE c
           IN  /\ Same(p, c, us, a, ds) => Same(p, d, Tail(us), a, ds)
               /\ Stays(w, p, c, us, a, ds) => Stays(w, p, d, Tail(us), a, ds)
               /\ Stays(w, p, c, us, a, ds) /\ m.param = p /\ m.val = w
                    => Same(p, w, Tail(us), a, ds) /\ a = w
<1> DEFINE m == Head(us)
           t == Tail(us)
           d == IF m.param = p THEN m.val ELSE c
<1>1. /\ m = us[1] /\ 1 \in 1..Len(us) /\ Len(t) = Len(us) - 1 /\ Len(us) \in Nat
      /\ \A i \in 1..Len(t) : i + 1 \in 1..Len(us) /\ t[i] = us[i + 1]
  BY Popped
<1> HIDE DEF m, t
<1>2. ASSUME Same(p, c, us, a, ds) PROVE Same(p, d, t, a, ds)
  BY <1>1, <1>2 DEF Same, AllUps
<1>3. \A i \in 1..Len(t) : i + 1 > 1
  BY <1>1
<1>4. \A i, j \in 1..Len(t) : j > i => j + 1 > i + 1
  BY <1>1
<1>5. ASSUME Stays(w, p, c, us, a, ds), m.param = p, m.val = w
      PROVE  AllUps(w, p, t) /\ a = w /\ AllSets(w, p, ds)
  BY <1>1, <1>3, <1>5 DEF Stays, AllUps
<1>6. ASSUME Stays(w, p, c, us, a, ds) PROVE Stays(w, p, d, t, a, ds)
  <2>1. d = w => AllUps(w, p, t) /\ a = w /\ AllSets(w, p, ds)
    <3>1. CASE m.param = p
      BY <1>5, <1>6, <3>1
    <3>2. CASE m.param # p
      BY <1>1, <1>6, <3>2 DEF Stays, AllUps
    <3> QED BY <3>1, <3>2
  <2>2. \A i \in 1..Len(t) : t[i].param = p /\ t[i].val = w =>
          /\ \A j \in 1..Len(t) : j > i /\ t[j].param = p => t[j].val = w
          /\ a = w /\ AllSets(w, p, ds)
    <3> TAKE i \in 1..Len(t)
    <3> HAVE t[i].param = p /\ t[i].val = w
    <3>1. i + 1 \in 1..Len(us) /\ us[i + 1].param = p /\ us[i + 1].val = w
      BY <1>1
    <3>2. /\ \A j \in 1..Len(us) : j > i + 1 /\ us[j].param = p => us[j].val = w
          /\ a = w /\ AllSets(w, p, ds)
      BY <1>6, <3>1 DEF Stays
    <3>3. \A j \in 1..Len(t) : j > i /\ t[j].param = p => t[j].val = w
      BY <1>1, <1>4, <3>2
    <3> QED BY <3>2, <3>3
  <2> QED BY <1>6, <2>1, <2>2 DEF Stays
<1>7. ASSUME Stays(w, p, c, us, a, ds), m.param = p, m.val = w PROVE Same(p, w, t, a, ds)
  BY <1>5, <1>7 DEF Same
<1> QED BY <1>2, <1>5, <1>6, <1>7 DEF m, t

(* Frames that write another parameter, or none, say nothing about p.        *)
LEMMA OtherSent ==
    ASSUME NEW p \in Params, NEW w, NEW c, NEW us, NEW a, NEW ds \in Seq(DownFrames),
           NEW es \in Seq(DownFrames), \A i \in 1..Len(es) : ~Writes(es[i], p)
    PROVE  /\ Same(p, c, us, a, ds) => Same(p, c, us, a, ds \o es)
           /\ Stays(w, p, c, us, a, ds) => Stays(w, p, c, us, a, ds \o es)
<1> DEFINE t == ds \o es
<1>1. /\ \A i \in 1..Len(ds) : t[i] = ds[i]
      /\ \A i \in 1..Len(t) : i \in 1..Len(ds) \/ (i - Len(ds) \in 1..Len(es) /\ t[i] = es[i - Len(ds)])
  BY Joined
<1> HIDE DEF t
<1>2. \A i \in 1..Len(t) : Writes(t[i], p) => i \in 1..Len(ds) /\ t[i] = ds[i]
  BY <1>1
<1>3. \A v : AllSets(v, p, ds) => AllSets(v, p, t)
  BY <1>2 DEF AllSets
<1>4. Same(p, c, us, a, ds) => Same(p, c, us, a, t)
  BY <1>3 DEF Same
<1>5. Stays(w, p, c, us, a, ds) => Stays(w, p, c, us, a, t)
  BY <1>2, <1>3 DEF Stays
<1> QED BY <1>4, <1>5 DEF t

(* The write of w is sent again.                                             *)
LEMMA SentAgain ==
    ASSUME NEW p \in Params, NEW w, NEW c, NEW us, NEW a, NEW ds \in Seq(DownFrames),
           NEW e \in DownFrames, Writes(e, p), e.val = w, Stays(w, p, c, us, a, ds)
    PROVE  Stays(w, p, c, us, a, Append(ds, e))
<1> DEFINE t == Append(ds, e)
<1>1. /\ Len(t) = Len(ds) + 1 /\ Len(ds) \in Nat
      /\ \A i \in 1..Len(ds) : t[i] = ds[i]
      /\ t[Len(ds) + 1] = e
      /\ \A i \in 1..Len(ds) + 1 : i = Len(ds) + 1 \/ i \in 1..Len(ds)
  BY Pushed
<1> HIDE DEF t
<1>3. AllSets(w, p, ds) => AllSets(w, p, t)
  BY <1>1 DEF AllSets
<1>4. \A i \in 1..Len(t) : Writes(t[i], p) /\ t[i].val = w =>
          \A j \in 1..Len(t) : j > i /\ Writes(t[j], p) => t[j].val = w
  <2> TAKE i \in 1..Len(t)
  <2> HAVE Writes(t[i], p) /\ t[i].val = w
  <2> TAKE j \in 1..Len(t)
  <2> HAVE j > i /\ Writes(t[j], p)
  <2>1. CASE j = Len(ds) + 1
    BY <1>1, <2>1
  <2>2. CASE j \in 1..Len(ds)
    <3>1. i \in 1..Len(ds)
      BY <1>1, <2>2
    <3> QED BY <1>1, <2>2, <3>1 DEF Stays
  <2> QED BY <1>1, <2>1, <2>2
<1> QED BY <1>3, <1>4 DEF Stays, t

(* The vehicle takes a frame out.                                            *)
LEMMA TakenFirst ==
    ASSUME NEW p \in Params, NEW w, NEW c, NEW us, NEW a, NEW ds \in Seq(DownFrames), ds # <<>>
    PROVE  LET f == Head(ds) IN
           /\ Same(p, c, us, a, ds) => Same(p, c, us, a, Tail(ds)) /\ (Writes(f, p) => f.val = a)
           /\ Stays(w, p, c, us, a, ds) =>
                /\ Stays(w, p, c, us, a, Tail(ds))
                /\ Writes(f, p) /\ a = w => f.val = w
                /\ Writes(f, p) /\ f.val = w => AllSets(w, p, Tail(ds))
<1> DEFINE f == Head(ds)
           t == Tail(ds)
<1>1. /\ f = ds[1] /\ 1 \in 1..Len(ds) /\ Len(t) = Len(ds) - 1 /\ Len(ds) \in Nat
      /\ \A i \in 1..Len(t) : i + 1 \in 1..Len(ds) /\ t[i] = ds[i + 1]
  BY Popped
<1> HIDE DEF f, t
<1>2. \A v : AllSets(v, p, ds) => AllSets(v, p, t) /\ (Writes(f, p) => f.val = v)
  BY <1>1 DEF AllSets
<1>3. \A i, j \in 1..Len(t) : (j > i => j + 1 > i + 1) /\ i + 1 > 1
  BY <1>1
<1>4. Same(p, c, us, a, ds) => Same(p, c, us, a, t) /\ (Writes(f, p) => f.val = a)
  BY <1>2 DEF Same
<1>5. ASSUME Stays(w, p, c, us, a, ds) PROVE Stays(w, p, c, us, a, t)
  <2>1. \A i \in 1..Len(t) : Writes(t[i], p) /\ t[i].val = w =>
          \A j \in 1..Len(t) : j > i /\ Writes(t[j], p) => t[j].val = w
    BY <1>1, <1>3, <1>5 DEF Stays
  <2> QED BY <1>2, <1>5, <2>1 DEF Stays
<1>6. ASSUME Stays(w, p, c, us, a, ds)
      PROVE  /\ Writes(f, p) /\ a = w => f.val = w
             /\ Writes(f, p) /\ f.val = w => AllSets(w, p, t)
  BY <1>1, <1>2, <1>3, <1>6 DEF Stays, AllSets
<1> QED BY <1>4, <1>5, <1>6 DEF f, t

(* The vehicle tells what it has.                                            *)
LEMMA TellsOwn ==
    ASSUME NEW p \in Params, NEW w, NEW c, NEW us \in Seq(UpFrames), NEW a, NEW ds,
           NEW es \in Seq(UpFrames), AllUps(a, p, es)
    PROVE  /\ Same(p, c, us, a, ds) => Same(p, c, us \o es, a, ds)
           /\ Stays(w, p, c, us, a, ds) => Stays(w, p, c, us \o es, a, ds)
<1> DEFINE t == us \o es
<1>1. /\ \A i \in 1..Len(us) : i \in 1..Len(t) /\ t[i] = us[i]
      /\ \A i \in 1..Len(t) : i \in 1..Len(us) \/ (i - Len(us) \in 1..Len(es) /\ t[i] = es[i - Len(us)])
      /\ Len(us) \in Nat /\ Len(es) \in Nat /\ Len(t) = Len(us) + Len(es)
  BY Joined
<1> HIDE DEF t
<1>2. \A i \in 1..Len(t) : t[i].param = p => (i \in 1..Len(us) /\ t[i] = us[i]) \/ t[i].val = a
  BY <1>1 DEF AllUps
<1>3. Same(p, c, us, a, ds) => Same(p, c, t, a, ds)
  BY <1>2 DEF Same, AllUps
<1>4. ASSUME Stays(w, p, c, us, a, ds) PROVE Stays(w, p, c, t, a, ds)
  <2>1. \A i, j \in 1..Len(t) : i \notin 1..Len(us) /\ j > i => j \notin 1..Len(us)
    BY <1>1
  <2>2. AllUps(w, p, us) /\ a = w => AllUps(w, p, t)
    BY <1>2 DEF AllUps
  <2>3. ASSUME NEW i \in 1..Len(t), t[i].param = p, t[i].val = w
        PROVE  /\ \A j \in 1..Len(t) : j > i /\ t[j].param = p => t[j].val = w
               /\ a = w /\ AllSets(w, p, ds)
    <3>1. CASE i \in 1..Len(us)
      <4>1. a = w /\ AllSets(w, p, ds) /\ \A j \in 1..Len(us) : j > i /\ us[j].param = p => us[j].val = w
        BY <1>1, <1>4, <2>3, <3>1 DEF Stays
      <4> QED BY <1>2, <4>1
    <3>2. CASE i \notin 1..Len(us)
      <4>1. a = w
        BY <1>2, <2>3, <3>2
      <4> QED BY <1>2, <1>4, <2>1, <3>2, <4>1 DEF Stays
    <3> QED BY <3>1, <3>2
  <2> QED BY <1>4, <2>2, <2>3 DEF Stays
<1> QED BY <1>3, <1>4 DEF t

(* The vehicle takes the value of a write.                                   *)
LEMMA Applied ==
    ASSUME NEW p \in Params, NEW w, NEW c, NEW us \in Seq(UpFrames), NEW a,
           NEW ds \in Seq(DownFrames), ds # <<>>, Writes(Head(ds), p),
           NEW e \in UpFrames, e.param = p, e.val = Head(ds).val,
           Stays(w, p, c, us, a, ds)
    PROVE  Stays(w, p, c, Append(us, e), Head(ds).val, Tail(ds))
<1> DEFINE v == Head(ds).val
           t == Tail(ds)
           u == Append(us, e)
<1>1. /\ Stays(w, p, c, us, a, t) /\ (a = w => v = w) /\ (v = w => AllSets(w, p, t))
      /\ Writes(Head(ds), p)
  BY TakenFirst
<1>2. /\ Len(u) = Len(us) + 1 /\ Len(us) \in Nat
      /\ \A i \in 1..Len(us) : u[i] = us[i]
      /\ u[Len(us) + 1] = e
      /\ \A i \in 1..Len(us) + 1 : i = Len(us) + 1 \/ i \in 1..Len(us)
  BY Pushed
<1> HIDE DEF v, t, u
<1>3. e.param = p /\ e.val = v
  BY DEF v
<1>4. c = w => AllUps(w, p, u) /\ v = w /\ AllSets(w, p, t)
  BY <1>1, <1>2, <1>3 DEF Stays, AllUps
<1>5. ASSUME NEW i \in 1..Len(u), u[i].param = p, u[i].val = w
      PROVE  /\ \A j \in 1..Len(u) : j > i /\ u[j].param = p => u[j].val = w
             /\ v = w /\ AllSets(w, p, t)
  <2>1. CASE i = Len(us) + 1
    <3>1. v = w /\ \A j \in 1..Len(u) : ~(j > i)
      BY <1>2, <1>3, <1>5, <2>1
    <3> QED BY <1>1, <3>1
  <2>2. CASE i \in 1..Len(us)
    <3>1. a = w /\ \A j \in 1..Len(us) : j > i /\ us[j].param = p => us[j].val = w
      BY <1>1, <1>2, <1>5, <2>2 DEF Stays
    <3> QED BY <1>1, <1>2, <1>3, <3>1
  <2> QED BY <1>2, <2>1, <2>2
<1> QED BY <1>1, <1>4, <1>5 DEF Stays, v, t, u
-----------------------------------------------------------------------------
(* The parameter requests.                                                   *)
PendingSets == [val : Values, n : 1..SetAttempts, by : Nat]
Confirmed == [val : Values, by : Nat]
AirframeStates == [id : Nat \ {0}, phase : {"first", "second", "undo"}, old : [{First, Second} -> Values],
                   new : [{0, 1} -> Values], intact : BOOLEAN]
LoadStates == [active : BOOLEAN, counted : BOOLEAN, got : SUBSET Params, stalls : 0..MaxStalls,
               cursor : Nat, reads : Nat, complete : BOOLEAN]

(* The value of one parameter, with its write ps and what is known k of it.  *)
ValueOf(p, ps, k, c, us, a, ds) ==
    k # Doubt => IF ps = NoSet THEN Same(p, c, us, a, ds) /\ (k.val \in Values => a = k.val)
                 ELSE Stays(ps.val, p, c, us, a, ds) /\ k = Unsure
ValuesOK(ps, ks, cs, us, as, ds) ==
    \A p \in Params : ValueOf(p, ps[p], ks[p], cs[p], us, as[p], ds)

SetTypes(ps, ks) ==
    /\ ps \in [Params -> {NoSet} \cup PendingSets]
    /\ ks \in [Params -> {Doubt, Unsure} \cup Confirmed]
SetBound(ps) == Cardinality({q \in Params : ps[q] # NoSet}) <= MaxPending

LineTypes == /\ cache \in [Params -> Values \cup {NoVal}] /\ actual \in [Params -> Values]
             /\ down \in Seq(DownFrames) /\ up \in Seq(UpFrames)

(* The writes of the airframe transaction fr, and those of earlier ones.     *)
FrameOK(fr, n, ps, ks) ==
    /\ n \in Nat /\ fr \in {NoFrame} \cup AirframeStates /\ fr.id \in 0..n
    /\ \A p \in Params : ps[p].by \in 0..n /\ ks[p].by \in 0..n
    /\ fr.id # 0 => \A p \in Params :
          /\ ps[p].by = fr.id =>
                \/ p = First /\ fr.phase = "first" /\ ps[p].val = fr.new[First]
                \/ p = Second /\ fr.phase = "second" /\ ps[p].val = fr.new[Second]
                \/ p = First /\ fr.phase = "undo" /\ ps[p].val = fr.old[First]
          /\ ks[p].by = fr.id => p = First /\ fr.phase = "second" /\ ks[p].val = fr.new[First]

LoadOK == /\ load \in LoadStates /\ load.got # Params /\ (load.active => ~load.complete)
          /\ \A p \in load.got : cache[p] # NoVal

ParamInv ==
    /\ SetTypes(pset, known) /\ SetBound(pset) /\ LineTypes /\ LoadOK
    /\ FrameOK(frame, frames, pset, known)
    /\ ValuesOK(pset, known, cache, up, actual, down)

LEMMA ParamFacts ==
    /\ NoVal \notin Values /\ Unsure # Doubt /\ Unsure \notin Confirmed /\ Doubt \notin Confirmed
    /\ NoSet \notin PendingSets /\ First \in Params /\ Second \in Params /\ First # Second
    /\ First = 0 /\ Second = 1
    /\ Doubt.by = 0 /\ Unsure.by = 0 /\ Unsure.val \notin Values /\ Doubt.val \notin Values /\ NoSet.by = 0
    /\ IsFiniteSet(Params) /\ Params # {} /\ MaxPending \in Nat \ {0} /\ 1 \in 1..SetAttempts
    /\ NoLoad \in LoadStates /\ NoLoad.got = {} /\ ~NoLoad.active /\ ~NoLoad.complete
    /\ NoFrame.id = 0
<1> USE ParamAssumption DEF ParamAssumption
<1>1. "no value" # "doubt"
  OBVIOUS
<1>2. NoVal \notin Values /\ "doubt" \notin Values
  OBVIOUS
<1>3. Unsure # Doubt /\ Unsure.val = NoVal /\ Doubt.val = "doubt" /\ Unsure.by = 0 /\ Doubt.by = 0
  BY <1>1 DEF Unsure, Doubt, NoVal
<1>4. Unsure \notin Confirmed /\ Doubt \notin Confirmed
  BY <1>2, <1>3 DEF Confirmed
<1>5. NoSet.val = NoVal /\ NoSet.by = 0
  BY DEF NoSet
<1>6. NoSet \notin PendingSets
  BY <1>2, <1>5 DEF PendingSets
<1>7. First \in Params /\ Second \in Params /\ First # Second /\ First = 0 /\ Second = 1 /\ Params # {}
  BY DEF First, Second, Params
<1>8. IsFiniteSet(Params)
  BY FS_Interval DEF Params
<1>9. NoLoad \in LoadStates /\ NoLoad.got = {} /\ ~NoLoad.active /\ ~NoLoad.complete
  BY DEF NoLoad, LoadStates
<1>10. NoFrame.id = 0
  BY DEF NoFrame
<1>11. MaxPending \in Nat \ {0} /\ 1 \in 1..SetAttempts
  OBVIOUS
<1> QED BY <1>2, <1>3, <1>4, <1>5, <1>6, <1>7, <1>8, <1>9, <1>10, <1>11

(* The writes that are pending: one more, one changed or ended.              *)
LEMMA OneMoreSet ==
    ASSUME NEW ps \in [Params -> {NoSet} \cup PendingSets], NEW p \in Params, NEW x,
           Cardinality({q \in Params : ps[q] # NoSet}) < MaxPending
    PROVE  SetBound([ps EXCEPT ![p] = x])
<1> DEFINE A == {q \in Params : ps[q] # NoSet}
           B == {q \in Params : [ps EXCEPT ![p] = x][q] # NoSet}
<1>1. IsFiniteSet(A)
  BY ParamFacts, FS_Subset
<1>2. IsFiniteSet(A \cup {p}) /\ Cardinality(A \cup {p}) <= Cardinality(A) + 1 /\ Cardinality(A) \in Nat
  <2> HIDE DEF A
  <2>1. Cardinality(A) \in Nat
    BY <1>1, FS_CardinalityType
  <2>2. /\ IsFiniteSet(A \cup {p})
        /\ Cardinality(A \cup {p}) = IF p \in A THEN Cardinality(A) ELSE Cardinality(A) + 1
    BY <1>1, FS_AddElement
  <2> QED BY <2>1, <2>2
<1>3. B \subseteq A \cup {p}
  OBVIOUS
<1>4. IsFiniteSet(B) /\ Cardinality(B) <= Cardinality(A \cup {p})
  BY <1>2, <1>3, FS_Subset
<1>5. Cardinality(B) \in Nat /\ Cardinality(A \cup {p}) \in Nat
  BY <1>2, <1>4, FS_CardinalityType
<1>6. Cardinality(A) < MaxPending
  OBVIOUS
<1> HIDE DEF A, B
<1>7. Cardinality(B) <= MaxPending
  BY <1>2, <1>4, <1>5, <1>6, ParamFacts
<1> QED BY <1>7 DEF SetBound, B

LEMMA NoMoreSets ==
    ASSUME NEW ps \in [Params -> {NoSet} \cup PendingSets], NEW qs,
           \A q \in Params : qs[q] # NoSet => ps[q] # NoSet, SetBound(ps)
    PROVE  SetBound(qs)
<1> DEFINE A == {q \in Params : ps[q] # NoSet}
           B == {q \in Params : qs[q] # NoSet}
<1>1. B \subseteq A
  OBVIOUS
<1>2. IsFiniteSet(A) /\ IsFiniteSet(B) /\ Cardinality(B) <= Cardinality(A)
  BY <1>1, ParamFacts, FS_Subset
<1>3. Cardinality(B) \in Nat /\ Cardinality(A) \in Nat
  BY <1>2, FS_CardinalityType
<1>4. Cardinality(A) <= MaxPending
  BY DEF SetBound
<1> HIDE DEF A, B
<1>5. Cardinality(B) <= MaxPending
  BY <1>2, <1>3, <1>4, ParamFacts
<1> QED BY <1>5 DEF SetBound, B

LEMMA SetFrames ==
    ASSUME NEW q \in Params, NEW v \in Values, NEW n \in Nat
    PROVE  /\ SetFrame(q, v, n) \in DownFrames /\ <<SetFrame(q, v, n)>> \in Seq(DownFrames)
           /\ Writes(SetFrame(q, v, n), q) /\ SetFrame(q, v, n).val = v
           /\ \A p \in Params \ {q} : \A i \in 1..Len(<<SetFrame(q, v, n)>>) :
                 ~Writes(<<SetFrame(q, v, n)>>[i], p)
           /\ \A ds \in Seq(DownFrames) : Append(ds, SetFrame(q, v, n)) = ds \o <<SetFrame(q, v, n)>>
<1> DEFINE e == SetFrame(q, v, n)
<1>1. e.kind = "set" /\ e.param = q /\ e.val = v /\ e \in DownFrames
  BY DEF SetFrame, DownFrames
<1> HIDE DEF e
<1>2. <<e>> \in Seq(DownFrames) /\ Len(<<e>>) = 1 /\ <<e>>[1] = e
  BY <1>1
<1>3. \A ds \in Seq(DownFrames) : Append(ds, e) = ds \o <<e>>
  BY <1>1, AppendIsConcat
<1>4. \A i \in 1..1 : i = 1
  OBVIOUS
<1> QED BY <1>1, <1>2, <1>3, <1>4 DEF Writes, e

(* What is pending and known of the parameters after a write of q is sent.   *)
LEMMA WriteSent ==
    ASSUME NEW ps, NEW ks, SetTypes(ps, ks), NEW cs, NEW us \in Seq(UpFrames), NEW as,
           NEW ds \in Seq(DownFrames), ValuesOK(ps, ks, cs, us, as, ds),
           NEW q \in Params, ps[q] = NoSet, NEW x \in PendingSets
    PROVE  /\ SetTypes([ps EXCEPT ![q] = x], Awaited(ks, q))
           /\ Append(ds, SetFrame(q, x.val, 1)) \in Seq(DownFrames)
           /\ ValuesOK([ps EXCEPT ![q] = x], Awaited(ks, q), cs, us, as, Append(ds, SetFrame(q, x.val, 1)))
<1> DEFINE e == SetFrame(q, x.val, 1)
           d == Append(ds, e)
           ps2 == [ps EXCEPT ![q] = x]
           ks2 == Awaited(ks, q)
<1>1. x.val \in Values
  BY DEF PendingSets
<1>2. /\ e \in DownFrames /\ Writes(e, q) /\ e.val = x.val /\ d \in Seq(DownFrames)
      /\ <<e>> \in Seq(DownFrames) /\ d = ds \o <<e>>
      /\ \A p \in Params \ {q} : \A i \in 1..Len(<<e>>) : ~Writes(<<e>>[i], p)
  BY <1>1, SetFrames, Pushed
<1>3. /\ ps2 \in [Params -> {NoSet} \cup PendingSets] /\ ps2[q] = x
      /\ \A p \in Params \ {q} : ps2[p] = ps[p]
  BY DEF SetTypes
<1>4. /\ ks2 \in [Params -> {Doubt, Unsure} \cup Confirmed] /\ ks2[q] \in {Doubt, Unsure}
      /\ \A p \in Params \ {q} : ks2[p] = ks[p]
      /\ ks2[q] # Doubt => ks[q] # Doubt
  BY DEF SetTypes, Awaited
<1>5. x # NoSet
  BY ParamFacts
<1> HIDE DEF e, d, ps2, ks2
<1>6. ASSUME NEW p \in Params PROVE ValueOf(p, ps2[p], ks2[p], cs[p], us, as[p], d)
  <2>1. CASE p = q
    <3>1. ValueOf(q, ps[q], ks[q], cs[q], us, as[q], ds)
      BY DEF ValuesOK
    <3> SUFFICES ASSUME ks2[p] # Doubt PROVE ValueOf(p, ps2[p], ks2[p], cs[p], us, as[p], d)
      BY DEF ValueOf
    <3>2. Same(q, cs[q], us, as[q], ds)
      BY <1>4, <2>1, <3>1 DEF ValueOf
    <3>3. Stays(x.val, q, cs[q], us, as[q], d)
      BY <1>1, <1>2, <3>2, StartsStaying DEF d
    <3> QED BY <1>3, <1>4, <1>5, <2>1, <3>3 DEF ValueOf
  <2>2. CASE p # q
    <3>1. ValueOf(p, ps[p], ks[p], cs[p], us, as[p], ds)
      BY DEF ValuesOK
    <3>2. /\ Same(p, cs[p], us, as[p], ds) => Same(p, cs[p], us, as[p], d)
          /\ Stays(ps[p].val, p, cs[p], us, as[p], ds) => Stays(ps[p].val, p, cs[p], us, as[p], d)
      BY <1>2, <2>2, OtherSent
    <3> QED BY <1>3, <1>4, <2>2, <3>1, <3>2 DEF ValueOf
  <2> QED BY <2>1, <2>2
<1> QED BY <1>2, <1>3, <1>4, <1>6 DEF SetTypes, ValuesOK, e, d, ps2, ks2

(* A write that is pending is sent again.                                    *)
LEMMA WriteSentAgain ==
    ASSUME NEW ps, NEW ks, SetTypes(ps, ks), NEW cs, NEW us \in Seq(UpFrames), NEW as,
           NEW ds \in Seq(DownFrames), ValuesOK(ps, ks, cs, us, as, ds),
           NEW q \in Params, ps[q] # NoSet, NEW x \in PendingSets, x.val = ps[q].val, NEW n \in Nat
    PROVE  /\ SetTypes([ps EXCEPT ![q] = x], ks)
           /\ Append(ds, SetFrame(q, x.val, n)) \in Seq(DownFrames)
           /\ ValuesOK([ps EXCEPT ![q] = x], ks, cs, us, as, Append(ds, SetFrame(q, x.val, n)))
<1> DEFINE e == SetFrame(q, x.val, n)
           d == Append(ds, e)
           ps2 == [ps EXCEPT ![q] = x]
<1>1. x.val \in Values
  BY DEF PendingSets
<1>2. /\ e \in DownFrames /\ Writes(e, q) /\ e.val = x.val /\ d \in Seq(DownFrames)
      /\ <<e>> \in Seq(DownFrames) /\ d = ds \o <<e>>
      /\ \A p \in Params \ {q} : \A i \in 1..Len(<<e>>) : ~Writes(<<e>>[i], p)
  BY <1>1, SetFrames, Pushed
<1>3. /\ ps2 \in [Params -> {NoSet} \cup PendingSets] /\ ps2[q] = x
      /\ \A p \in Params \ {q} : ps2[p] = ps[p]
  BY DEF SetTypes
<1>5. x # NoSet
  BY ParamFacts
<1> HIDE DEF e, d, ps2
<1>6. ASSUME NEW p \in Params PROVE ValueOf(p, ps2[p], ks[p], cs[p], us, as[p], d)
  <2>0. ValueOf(p, ps[p], ks[p], cs[p], us, as[p], ds)
    BY DEF ValuesOK
  <2>1. CASE p = q
    <3> SUFFICES ASSUME ks[p] # Doubt PROVE ValueOf(p, ps2[p], ks[p], cs[p], us, as[p], d)
      BY DEF ValueOf
    <3>2. Stays(x.val, q, cs[q], us, as[q], ds) /\ ks[q] = Unsure
      BY <2>0, <2>1 DEF ValueOf
    <3>3. Stays(x.val, q, cs[q], us, as[q], d)
      BY <1>2, <3>2, SentAgain DEF d
    <3> QED BY <1>3, <1>5, <2>1, <3>2, <3>3 DEF ValueOf
  <2>2. CASE p # q
    <3>2. /\ Same(p, cs[p], us, as[p], ds) => Same(p, cs[p], us, as[p], d)
          /\ Stays(ps[p].val, p, cs[p], us, as[p], ds) => Stays(ps[p].val, p, cs[p], us, as[p], d)
      BY <1>2, <2>2, OtherSent
    <3> QED BY <1>3, <2>0, <2>2, <3>2 DEF ValueOf
  <2> QED BY <2>1, <2>2
<1> QED BY <1>2, <1>3, <1>6 DEF SetTypes, ValuesOK, e, d, ps2

(* Requests that write nothing are sent.                                     *)
LEMMA NothingWritten ==
    ASSUME NEW ps, NEW ks, NEW cs, NEW us, NEW as, NEW ds \in Seq(DownFrames),
           NEW es \in Seq(DownFrames), \A i \in 1..Len(es) : es[i].kind # "set",
           ValuesOK(ps, ks, cs, us, as, ds)
    PROVE  ds \o es \in Seq(DownFrames) /\ ValuesOK(ps, ks, cs, us, as, ds \o es)
<1>1. ds \o es \in Seq(DownFrames)
  BY Joined
<1>2. ASSUME NEW p \in Params PROVE ValueOf(p, ps[p], ks[p], cs[p], us, as[p], ds \o es)
  <2>1. \A i \in 1..Len(es) : ~Writes(es[i], p)
    BY DEF Writes
  <2>2. /\ Same(p, cs[p], us, as[p], ds) => Same(p, cs[p], us, as[p], ds \o es)
        /\ Stays(ps[p].val, p, cs[p], us, as[p], ds) => Stays(ps[p].val, p, cs[p], us, as[p], ds \o es)
    BY <2>1, OtherSent
  <2>3. ValueOf(p, ps[p], ks[p], cs[p], us, as[p], ds)
    BY DEF ValuesOK
  <2> QED BY <2>2, <2>3 DEF ValueOf
<1> QED BY <1>1, <1>2 DEF ValuesOK

(* A write ends: by a value that echoes it, or without one.                  *)
LEMMA SetEnded ==
    ASSUME SetTypes(pset, known), NEW q \in Params, pset[q] # NoSet, NEW ok \in BOOLEAN
    PROVE  /\ SetTypes([pset EXCEPT ![q] = NoSet], Judged(q, ok))
           /\ Judged(q, ok)[q] = Doubt \/ (ok /\ Judged(q, ok)[q].val = pset[q].val
                                           /\ Judged(q, ok)[q].by = pset[q].by /\ known[q] # Doubt)
           /\ \A p \in Params \ {q} : Judged(q, ok)[p] = known[p]
<1>1. pset[q] \in PendingSets
  BY DEF SetTypes
<1>2. [val |-> pset[q].val, by |-> pset[q].by] \in Confirmed
  BY <1>1 DEF PendingSets, Confirmed
<1>3. [pset EXCEPT ![q] = NoSet] \in [Params -> {NoSet} \cup PendingSets]
  BY DEF SetTypes
<1>4. Judged(q, ok) \in [Params -> {Doubt, Unsure} \cup Confirmed]
  BY <1>2 DEF SetTypes, Judged
<1>5. Judged(q, ok)[q] = Doubt \/ (ok /\ Judged(q, ok)[q] = [val |-> pset[q].val, by |-> pset[q].by]
                                   /\ known[q] # Doubt)
  BY DEF SetTypes, Judged
<1>6. \A p \in Params \ {q} : Judged(q, ok)[p] = known[p]
  BY DEF SetTypes, Judged
<1> QED BY <1>3, <1>4, <1>5, <1>6 DEF SetTypes

(* A value is heard: nothing waited for it, or it ends the write.            *)
LEMMA ValueHeard ==
    ASSUME ParamInv, up # <<>>
    PROVE  LET m == Head(up)
               cs == [cache EXCEPT ![m.param] = m.val]
           IN  /\ m \in UpFrames /\ Tail(up) \in Seq(UpFrames)
               /\ cs \in [Params -> Values \cup {NoVal}]
               /\ ValuesOK(pset, known, cs, Tail(up), actual, down)
               /\ Echoes(m) => ValuesOK([pset EXCEPT ![m.param] = NoSet], Judged(m.param, TRUE),
                                        cs, Tail(up), actual, down)
<1> DEFINE m == Head(up)
           cs == [cache EXCEPT ![m.param] = m.val]
           t == Tail(up)
<1>1. m \in UpFrames /\ t \in Seq(UpFrames) /\ up \in Seq(UpFrames)
  BY Popped DEF ParamInv, LineTypes
<1>2. m.param \in Params /\ m.val \in Values
  BY <1>1 DEF UpFrames
<1>3. /\ cs \in [Params -> Values \cup {NoVal}]
      /\ \A p \in Params : cs[p] = IF m.param = p THEN m.val ELSE cache[p]
  BY <1>2 DEF ParamInv, LineTypes
<1>4. \A p \in Params :
         /\ Same(p, cache[p], up, actual[p], down) => Same(p, cs[p], t, actual[p], down)
         /\ Stays(pset[p].val, p, cache[p], up, actual[p], down)
               => Stays(pset[p].val, p, cs[p], t, actual[p], down)
         /\ Stays(pset[p].val, p, cache[p], up, actual[p], down) /\ m.param = p /\ m.val = pset[p].val
               => Same(p, pset[p].val, t, actual[p], down) /\ actual[p] = pset[p].val
  BY <1>1, <1>3, Heard
<1> HIDE DEF cs, t
<1>5. \A p \in Params : ValueOf(p, pset[p], known[p], cache[p], up, actual[p], down)
  BY DEF ParamInv, ValuesOK
<1>6. ValuesOK(pset, known, cs, t, actual, down)
  BY <1>4, <1>5 DEF ValuesOK, ValueOf
<1>7. ASSUME Echoes(m)
      PROVE  ValuesOK([pset EXCEPT ![m.param] = NoSet], Judged(m.param, TRUE), cs, t, actual, down)
  <2> DEFINE q == m.param
             ps == [pset EXCEPT ![q] = NoSet]
             ks == Judged(q, TRUE)
  <2>1. q \in Params /\ pset[q] # NoSet /\ m.val = pset[q].val /\ SetTypes(pset, known)
    BY <1>2, <1>7 DEF Echoes, ParamInv
  <2>2. /\ ks[q] = Doubt \/ (ks[q].val = pset[q].val /\ known[q] # Doubt)
        /\ \A p \in Params \ {q} : ks[p] = known[p]
    BY <2>1, SetEnded
  <2>3. ps[q] = NoSet /\ \A p \in Params \ {q} : ps[p] = pset[p]
    BY <2>1 DEF SetTypes
  <2> HIDE DEF ps, ks
  <2>4. ASSUME NEW p \in Params PROVE ValueOf(p, ps[p], ks[p], cs[p], t, actual[p], down)
    <3>1. CASE p = q
      <4> SUFFICES ASSUME ks[p] # Doubt PROVE ValueOf(p, ps[p], ks[p], cs[p], t, actual[p], down)
        BY DEF ValueOf
      <4>1. known[q] # Doubt /\ ks[q].val = pset[q].val
        BY <2>2, <3>1
      <4>2. Stays(pset[q].val, q, cache[q], up, actual[q], down)
        BY <1>5, <2>1, <4>1 DEF ValueOf
      <4>3. Same(q, pset[q].val, t, actual[q], down) /\ actual[q] = pset[q].val
        BY <1>4, <2>1, <4>2
      <4>4. cs[q] = pset[q].val
        BY <1>3, <2>1
      <4> QED BY <2>3, <3>1, <4>1, <4>3, <4>4 DEF ValueOf
    <3>2. CASE p # q
      BY <1>6, <2>2, <2>3, <3>2 DEF ValuesOK
    <3> QED BY <3>1, <3>2
  <2> QED BY <2>4 DEF ValuesOK, ps, ks
<1> QED BY <1>1, <1>3, <1>6, <1>7 DEF cs, t

LEMMA SetGivenUp ==
    ASSUME ParamInv, NEW q \in Params, pset[q] # NoSet
    PROVE  ValuesOK([pset EXCEPT ![q] = NoSet], Judged(q, FALSE), cache, up, actual, down)
<1> DEFINE ps == [pset EXCEPT ![q] = NoSet]
           ks == Judged(q, FALSE)
<1>1. SetTypes(pset, known)
  BY DEF ParamInv
<1>2. ks[q] = Doubt /\ \A p \in Params \ {q} : ks[p] = known[p]
  BY <1>1, SetEnded
<1>3. \A p \in Params \ {q} : ps[p] = pset[p]
  BY <1>1 DEF SetTypes
<1> HIDE DEF ps, ks
<1>4. \A p \in Params : ValueOf(p, pset[p], known[p], cache[p], up, actual[p], down)
  BY DEF ParamInv, ValuesOK
<1>5. \A p \in Params : ValueOf(p, ps[p], ks[p], cache[p], up, actual[p], down)
  BY <1>2, <1>3, <1>4 DEF ValueOf
<1> QED BY <1>5 DEF ValuesOK, ps, ks
-----------------------------------------------------------------------------
(* A PARAM_SET transaction ends, and the airframe transaction goes on.       *)

(* What the end of an airframe transaction fr says of the parameters.        *)
ReportTrue(fr, how, ks) ==
    /\ how = "done" => \A q \in {First, Second} :
          ks[q].by = fr.id => ks[q].val = fr.new[q] /\ ks[q].val \in Values
    /\ how = "failed" /\ ks[First].by = fr.id => ks[First].val = fr.old[First] /\ ks[First].val \in Values

SetsAfter(cs, us) ==
    /\ SetTypes(pset', known') /\ SetBound(pset') /\ down' \in Seq(DownFrames)
    /\ FrameOK(frame', frames, pset', known')
    /\ ValuesOK(pset', known', cs, us, actual, down')
    /\ frame.id # 0 /\ frame'.id = 0 => ReportTrue(frame, report', known')

LEMMA FrameWrite ==
    ASSUME NEW ps, NEW ks, SetTypes(ps, ks), NEW cs, NEW us \in Seq(UpFrames),
           down \in Seq(DownFrames), ValuesOK(ps, ks, cs, us, actual, down),
           NEW q \in Params, NEW taken, Takes(ps, q, taken), NEW v \in Values, NEW ph,
           frame.id \in Nat, Write(ps, ks, q, v, ph)
    PROVE  /\ SetTypes(pset', known') /\ SetBound(pset') /\ down' \in Seq(DownFrames)
           /\ ValuesOK(pset', known', cs, us, actual, down')
           /\ pset'[q].val = v /\ pset'[q].by = frame.id /\ known'[q].by = 0
           /\ \A p \in Params \ {q} : pset'[p] = ps[p] /\ known'[p] = ks[p]
<1> DEFINE x == [val |-> v, n |-> 1, by |-> frame.id]
<1>1. x \in PendingSets /\ x.val = v /\ x.by = frame.id
  BY ParamFacts DEF PendingSets
<1>2. /\ pset' = [ps EXCEPT ![q] = x] /\ known' = Awaited(ks, q)
      /\ down' = Append(down, SetFrame(q, x.val, 1))
  BY DEF Write
<1>3. ps[q] = NoSet /\ Cardinality({p \in Params : ps[p] # NoSet}) < MaxPending
  BY DEF Takes
<1> HIDE DEF x
<1>4. SetTypes(pset', known') /\ down' \in Seq(DownFrames) /\ ValuesOK(pset', known', cs, us, actual, down')
  BY <1>1, <1>2, <1>3, WriteSent
<1>5. SetBound(pset')
  BY <1>2, <1>3, OneMoreSet DEF SetTypes
<1>6. pset'[q] = x /\ \A p \in Params \ {q} : pset'[p] = ps[p]
  BY <1>2 DEF SetTypes
<1>7. known'[q].by = 0 /\ \A p \in Params \ {q} : known'[p] = ks[p]
  BY <1>2, ParamFacts DEF SetTypes, Awaited
<1> QED BY <1>1, <1>4, <1>5, <1>6, <1>7

LEMMA SettleStep ==
    ASSUME SetTypes(pset, known), SetBound(pset), down \in Seq(DownFrames),
           FrameOK(frame, frames, pset, known),
           NEW p \in Params, pset[p] # NoSet, NEW ok \in BOOLEAN, NEW taken, Settle(p, ok, taken),
           NEW cs, NEW us \in Seq(UpFrames),
           ValuesOK([pset EXCEPT ![p] = NoSet], Judged(p, ok), cs, us, actual, down)
    PROVE  SetsAfter(cs, us)
<1> DEFINE by == pset[p].by
           ps == [pset EXCEPT ![p] = NoSet]
           ks == Judged(p, ok)
<1>1. /\ SetTypes(ps, ks)
      /\ ks[p] = Doubt \/ (ok /\ ks[p].val = pset[p].val /\ ks[p].by = by)
      /\ \A q \in Params \ {p} : ks[q] = known[q]
  BY SetEnded
<1>2. ps[p] = NoSet /\ \A q \in Params \ {p} : ps[q] = pset[q]
  BY DEF SetTypes
<1>3. SetBound(ps)
  BY <1>2, NoMoreSets DEF SetTypes
<1>4. /\ frames \in Nat /\ frame.id \in 0..frames /\ frame.id \in Nat
      /\ frame \in {NoFrame} \cup AirframeStates
      /\ \A q \in Params : pset[q].by \in 0..frames /\ known[q].by \in 0..frames
      /\ 0 \in 0..frames
  BY DEF FrameOK
<1>5. \A q \in Params : ps[q].by \in 0..frames /\ ks[q].by \in 0..frames
  BY <1>1, <1>2, <1>4, ParamFacts
<1>6. FrameOK(NoFrame, frames, ps, ks)
  BY <1>4, <1>5, ParamFacts DEF FrameOK
<1>7. pset[p].val \in Values
  BY DEF SetTypes, PendingSets
<1>8. ValuesOK(ps, ks, cs, us, actual, down)
  OBVIOUS
<1>9. \/ by = 0 /\ pset' = ps /\ known' = ks /\ UNCHANGED <<frame, report, baseless, down, ready>>
      \/ pset' = ps /\ known' = ks /\ Abort /\ UNCHANGED <<down, ready>>
      \/ by # 0 /\ by = frame.id /\ Safe /\ Continue(ps, ks, ok, taken)
  BY DEF Settle
<1> HIDE DEF by, ps, ks
<1>10. CASE by = 0 /\ pset' = ps /\ known' = ks /\ UNCHANGED <<frame, report, baseless, down, ready>>
  <2>1. FrameOK(frame, frames, ps, ks)
    <3> SUFFICES ASSUME frame.id # 0, NEW q \in Params
                 PROVE  /\ ps[q].by = frame.id => pset[q].by = frame.id /\ ps[q].val = pset[q].val
                        /\ ks[q].by = frame.id => known[q].by = frame.id /\ ks[q].val = known[q].val
      BY <1>4, <1>5 DEF FrameOK
    <3> QED BY <1>1, <1>2, <1>10, ParamFacts
  <2> QED BY <1>1, <1>3, <1>8, <1>10, <2>1 DEF SetsAfter
<1>11. CASE pset' = ps /\ known' = ks /\ Abort /\ UNCHANGED <<down, ready>>
  <2>1. frame' = NoFrame /\ (frame.id # 0 => report' = "abandoned")
    BY <1>11 DEF Abort
  <2>2. "abandoned" # "done" /\ "abandoned" # "failed"
    OBVIOUS
  <2> QED BY <1>1, <1>3, <1>6, <1>8, <1>11, <2>1, <2>2 DEF SetsAfter, ReportTrue
<1>12. CASE by # 0 /\ by = frame.id /\ Safe /\ Continue(ps, ks, ok, taken)
  <2>1. /\ frame \in AirframeStates /\ frame.id # 0
        /\ frame.new \in [{0, 1} -> Values] /\ frame.old \in [{First, Second} -> Values]
        /\ frame.phase \in {"first", "second", "undo"}
    BY <1>4, <1>12, ParamFacts DEF AirframeStates
  <2>2. frame.new[First] \in Values /\ frame.new[Second] \in Values /\ frame.old[First] \in Values
    BY <2>1, ParamFacts
  <2>3. \/ p = First /\ frame.phase = "first" /\ pset[p].val = frame.new[First]
        \/ p = Second /\ frame.phase = "second" /\ pset[p].val = frame.new[Second]
        \/ p = First /\ frame.phase = "undo" /\ pset[p].val = frame.old[First]
    BY <1>12, <2>1 DEF FrameOK, by
  <2>4. \A q \in Params \ {p} : ps[q].by # frame.id
    BY <1>2, <2>1, <2>3, ParamFacts DEF FrameOK
  <2>5. \A q \in Params \ {p} : ks[q].by = frame.id =>
            q = First /\ frame.phase = "second" /\ ks[q].val = frame.new[First]
    BY <1>1, <2>1 DEF FrameOK
  <2>6. ps[p].by # frame.id
    BY <1>2, <2>1, ParamFacts
  <2>7. ~ok => ks[p].by = 0
    BY <1>1, ParamFacts
  <2>8. ASSUME NEW how, End(ps, ks, how), ReportTrue(frame, how, ks) PROVE SetsAfter(cs, us)
    BY <1>1, <1>3, <1>6, <1>8, <2>8 DEF End, SetsAfter
  <2>9. ASSUME NEW q \in Params, NEW v \in Values, NEW ph \in {"second", "undo"},
               Takes(ps, q, taken), Write(ps, ks, q, v, ph),
               \/ q = Second /\ ph = "second" /\ v = frame.new[Second] /\ frame.phase = "first"
               \/ q = First /\ ph = "undo" /\ v = frame.old[First]
                  /\ (p = Second => ~ok) /\ frame.phase \in {"first", "second"}
        PROVE  SetsAfter(cs, us)
    <3>1. /\ SetTypes(pset', known') /\ SetBound(pset') /\ down' \in Seq(DownFrames)
          /\ ValuesOK(pset', known', cs, us, actual, down')
          /\ pset'[q].val = v /\ pset'[q].by = frame.id /\ known'[q].by = 0
          /\ \A r \in Params \ {q} : pset'[r] = ps[r] /\ known'[r] = ks[r]
      BY <1>1, <1>4, <1>8, <2>9, FrameWrite
    <3>2. /\ frame' \in AirframeStates /\ frame'.id = frame.id /\ frame'.phase = ph
          /\ frame'.new = frame.new /\ frame'.old = frame.old
      BY <2>1, <2>9 DEF Write, AirframeStates
    <3>3. \A r \in Params : pset'[r].by \in 0..frames /\ known'[r].by \in 0..frames
      BY <1>4, <1>5, <3>1
    <3>4. \A r \in Params : pset'[r].by = frame.id => r = q
      BY <2>4, <2>6, <3>1
    <3>5. \A r \in Params : known'[r].by = frame.id =>
              r = First /\ ph = "second" /\ known'[r].val = frame.new[First]
      <4> SUFFICES ASSUME NEW r \in Params, known'[r].by = frame.id
                   PROVE  r = First /\ ph = "second" /\ known'[r].val = frame.new[First]
        OBVIOUS
      <4>1. r # q /\ known'[r] = ks[r]
        BY <2>1, <3>1
      <4>2. CASE r = p
        BY <1>1, <2>1, <2>3, <2>7, <2>9, <4>1, <4>2, ParamFacts
      <4>3. CASE r # p
        BY <2>3, <2>5, <2>7, <2>9, <4>1, <4>3, ParamFacts
      <4> QED BY <4>2, <4>3
    <3>6. FrameOK(frame', frames, pset', known')
      BY <1>4, <2>9, <3>1, <3>2, <3>3, <3>4, <3>5 DEF FrameOK
    <3> QED BY <2>1, <3>1, <3>2, <3>6 DEF SetsAfter
  <2>10. ASSUME Restore(ps, ks, taken), p = Second => ~ok, frame.phase \in {"first", "second"}
         PROVE  SetsAfter(cs, us)
    <3>1. CASE Takes(ps, First, taken) /\ Write(ps, ks, First, frame.old[First], "undo")
      BY <2>2, <2>9, <2>10, <3>1, ParamFacts
    <3>2. CASE End(ps, ks, "dirty")
      <4>1. ReportTrue(frame, "dirty", ks)
        BY DEF ReportTrue
      <4> QED BY <2>8, <3>2, <4>1
    <3> QED BY <2>10, <3>1, <3>2 DEF Restore
  <2>11. CASE frame.phase = "first" /\ ok
    <3>1. p = First
      BY <2>3, <2>11
    <3>2. \/ Takes(ps, Second, taken) /\ Write(ps, ks, Second, frame.new[Second], "second")
          \/ Restore(ps, ks, taken)
      BY <1>12, <2>11 DEF Continue
    <3> QED BY <2>2, <2>9, <2>10, <2>11, <3>1, <3>2, ParamFacts
  <2>12. CASE frame.phase = "first" /\ ~ok
    <3>1. End(ps, ks, "failed") /\ p = First
      BY <1>12, <2>3, <2>12 DEF Continue
    <3>2. ReportTrue(frame, "failed", ks)
      BY <2>1, <2>7, <2>12, <3>1 DEF ReportTrue
    <3> QED BY <2>8, <3>1, <3>2
  <2>13. CASE frame.phase = "second" /\ ok
    <3>1. (End(ps, ks, "done") \/ End(ps, ks, "no reboot")) /\ p = Second
      BY <1>12, <2>3, <2>13 DEF Continue
    <3>2. ks[Second].by = frame.id => ks[Second].val = frame.new[Second]
      BY <1>1, <2>1, <2>3, <3>1, ParamFacts
    <3>3. ks[First].by = frame.id => ks[First].val = frame.new[First]
      BY <2>5, <3>1, ParamFacts
    <3>4. ReportTrue(frame, "done", ks) /\ ReportTrue(frame, "no reboot", ks)
      BY <2>2, <3>2, <3>3 DEF ReportTrue
    <3> QED BY <2>8, <3>1, <3>4
  <2>14. CASE frame.phase = "second" /\ ~ok
    <3>1. Restore(ps, ks, taken)
      BY <1>12, <2>14 DEF Continue
    <3> QED BY <2>10, <2>14, <3>1
  <2>15. CASE frame.phase = "undo"
    <3>1. End(ps, ks, IF ok THEN "failed" ELSE "dirty") /\ p = First
      BY <1>12, <2>3, <2>15 DEF Continue
    <3>2. ks[First].by = frame.id => ks[First].val = frame.old[First]
      BY <1>1, <2>1, <2>3, <2>15, <3>1, ParamFacts
    <3>3. ReportTrue(frame, IF ok THEN "failed" ELSE "dirty", ks)
      BY <2>2, <3>2 DEF ReportTrue
    <3> QED BY <2>8, <3>1, <3>3
  <2> QED BY <2>1, <2>11, <2>12, <2>13, <2>14, <2>15
<1> QED BY <1>9, <1>10, <1>11, <1>12
-----------------------------------------------------------------------------
(* The actions.  What each leaves behind, what an airframe transaction that  *)
(* ends reports, and what a download that completes has in the cache.        *)
ParamStep ==
    /\ ParamInv'
    /\ frame.id # 0 /\ frame'.id = 0 => ReportTrue(frame, report', known')
    /\ load.active /\ load'.complete => \A p \in Params : cache'[p] # NoVal

(* A step that leaves the download and its values alone.                     *)
LEMMA RestKept ==
    ASSUME ParamInv, SetsAfter(cache, up), UNCHANGED <<cache, up, actual, load, frames>>
    PROVE  ParamStep
<1>1. LineTypes' /\ LoadOK'
  BY DEF ParamInv, LineTypes, LoadOK, SetsAfter
<1>2. FrameOK(frame', frames', pset', known')
  BY DEF SetsAfter
<1>3. ValuesOK(pset', known', cache', up', actual', down')
  BY DEF SetsAfter
<1>4. SetTypes(pset', known') /\ SetBound(pset')
  BY DEF SetsAfter
<1>5. ParamInv'
  BY <1>1, <1>2, <1>3, <1>4 DEF ParamInv
<1>6. ~(load.active /\ load'.complete)
  BY DEF ParamInv, LoadOK
<1> QED BY <1>5, <1>6 DEF ParamStep, SetsAfter

LEMMA ReportAbandoned ==
    ASSUME ParamInv, Abort, SetTypes(pset', known'), frames' = frames,
           \A p \in Params : pset'[p].by \in 0..frames /\ known'[p].by \in 0..frames
    PROVE  /\ FrameOK(frame', frames', pset', known')
           /\ frame.id # 0 /\ frame'.id = 0 => ReportTrue(frame, report', known')
<1>1. frame' = NoFrame /\ (frame.id # 0 => report' = "abandoned")
  BY DEF Abort
<1>2. "abandoned" # "done" /\ "abandoned" # "failed"
  OBVIOUS
<1>3. frames \in Nat /\ 0 \in 0..frames
  BY DEF ParamInv, FrameOK
<1> QED BY <1>1, <1>2, <1>3, ParamFacts DEF FrameOK, ReportTrue

LEMMA AbortKept ==
    ASSUME ParamInv, Abort, UNCHANGED <<cache, pset, frames, load, down, up, actual, known>>
    PROVE  ParamStep
<1>1. /\ FrameOK(frame', frames', pset', known')
      /\ frame.id # 0 /\ frame'.id = 0 => ReportTrue(frame, report', known')
  BY ReportAbandoned DEF ParamInv, FrameOK
<1>2. SetsAfter(cache, up)
  BY <1>1 DEF SetsAfter, ParamInv, LineTypes
<1> QED BY <1>2, RestKept

LEMMA SetParamStep ==
    ASSUME ParamInv, NEW p \in Params, NEW v \in Values, SetParam(p, v)
    PROVE  ParamStep
<1> DEFINE x == [val |-> v, n |-> 1, by |-> 0]
<1>1. x \in PendingSets /\ x.val = v /\ x.by = 0
  BY ParamFacts DEF PendingSets
<1>2. /\ pset' = [pset EXCEPT ![p] = x] /\ known' = Awaited(known, p)
      /\ down' = Append(down, SetFrame(p, x.val, 1))
      /\ UNCHANGED <<cache, frame, frames, load, up, actual, report>>
  BY DEF SetParam
<1>3. pset[p] = NoSet /\ Cardinality({q \in Params : pset[q] # NoSet}) < MaxPending
  BY DEF SetParam, Takes
<1>4. SetTypes(pset, known) /\ down \in Seq(DownFrames) /\ up \in Seq(UpFrames)
      /\ ValuesOK(pset, known, cache, up, actual, down) /\ FrameOK(frame, frames, pset, known)
  BY DEF ParamInv, LineTypes
<1> HIDE DEF x
<1>5. SetTypes(pset', known') /\ down' \in Seq(DownFrames) /\ ValuesOK(pset', known', cache, up, actual, down')
  BY <1>1, <1>2, <1>3, <1>4, WriteSent
<1>6. SetBound(pset')
  BY <1>2, <1>3, <1>4, OneMoreSet DEF SetTypes
<1>7. /\ pset'[p].by = 0 /\ known'[p].by = 0
      /\ \A q \in Params \ {p} : pset'[q] = pset[q] /\ known'[q] = known[q]
  BY <1>1, <1>2, <1>4, ParamFacts DEF SetTypes, Awaited
<1>8. FrameOK(frame', frames, pset', known')
  <2>1. frames \in Nat /\ 0 \in 0..frames
    BY <1>4 DEF FrameOK
  <2>2. \A q \in Params : pset'[q].by \in 0..frames /\ known'[q].by \in 0..frames
    BY <1>4, <1>7, <2>1 DEF FrameOK
  <2>3. frame.id # 0 => \A q \in Params :
          /\ pset'[q].by = frame.id => pset'[q] = pset[q]
          /\ known'[q].by = frame.id => known'[q] = known[q]
    BY <1>7
  <2> QED BY <1>2, <1>4, <2>1, <2>2, <2>3 DEF FrameOK
<1>9. SetsAfter(cache, up)
  BY <1>2, <1>5, <1>6, <1>8 DEF SetsAfter
<1> QED BY <1>2, <1>9, RestKept

LEMMA ApplyAirframeStep ==
    ASSUME ParamInv, NEW new \in Airframes, NEW taken, ApplyAirframe(new, taken)
    PROVE  ParamStep
<1> DEFINE x == [val |-> new[First], n |-> 1, by |-> frames + 1]
<1>1. /\ SetTypes(pset, known) /\ SetBound(pset) /\ down \in Seq(DownFrames) /\ up \in Seq(UpFrames)
      /\ ValuesOK(pset, known, cache, up, actual, down) /\ FrameOK(frame, frames, pset, known)
      /\ cache \in [Params -> Values \cup {NoVal}]
      /\ LineTypes /\ LoadOK
  BY DEF ParamInv, LineTypes
<1>2. /\ frames \in Nat /\ frames + 1 \in Nat \ {0} /\ \A i \in 0..frames : i \in 0..frames + 1 /\ i # frames + 1
      /\ 0 \in 0..frames + 1 /\ frames + 1 \in 0..frames + 1
  BY <1>1 DEF FrameOK
<1>3. new \in [{0, 1} -> Values] /\ new[First] \in Values
  BY ParamAssumption, ParamFacts DEF ParamAssumption
<1>4. /\ frames' = frames + 1 /\ frame.id = 0
      /\ UNCHANGED <<cache, load, up, actual>>
      /\ cache[First] # NoVal /\ cache[Second] # NoVal
  BY DEF ApplyAirframe
<1>5. /\ x \in PendingSets /\ x.val = new[First] /\ x.by = frames + 1
  BY <1>2, <1>3, ParamFacts DEF PendingSets
<1>6. LineTypes' <=> down' \in Seq(DownFrames)
  BY <1>1, <1>4 DEF LineTypes
<1>7. LoadOK' /\ ~(load.active /\ load'.complete)
  BY <1>1, <1>4 DEF LoadOK
<1>8. \A q \in Params : pset[q].by \in 0..frames /\ known[q].by \in 0..frames
  BY <1>1 DEF FrameOK
<1>9. CASE Takes(pset, First, taken) /\ frame' = [id |-> frames + 1, phase |-> "first", new |-> new,
                       old |-> [p \in {First, Second} |-> cache[p]], intact |-> TRUE]
           /\ pset' = [pset EXCEPT ![First] = x] /\ known' = Awaited(known, First)
           /\ down' = Append(down, SetFrame(First, x.val, 1))
  <2> HIDE DEF x
  <2>1. pset[First] = NoSet /\ Cardinality({q \in Params : pset[q] # NoSet}) < MaxPending
    BY <1>9 DEF Takes
  <2>2. SetTypes(pset', known') /\ down' \in Seq(DownFrames) /\ ValuesOK(pset', known', cache, up, actual, down')
    BY <1>1, <1>5, <1>9, <2>1, ParamFacts, WriteSent
  <2>3. SetBound(pset')
    BY <1>1, <1>9, <2>1, ParamFacts, OneMoreSet DEF SetTypes
  <2>4. /\ pset'[First] = x /\ known'[First].by = 0
        /\ \A q \in Params \ {First} : pset'[q] = pset[q] /\ known'[q] = known[q]
    BY <1>1, <1>9, ParamFacts DEF SetTypes, Awaited
  <2>5. /\ frame' \in AirframeStates /\ frame'.id = frames + 1 /\ frame'.phase = "first"
        /\ frame'.new = new
    <3>1. [p \in {First, Second} |-> cache[p]] \in [{First, Second} -> Values]
      BY <1>1, <1>4, ParamFacts
    <3> QED BY <1>2, <1>3, <1>9, <3>1 DEF AirframeStates
  <2>6. \A q \in Params : /\ pset'[q].by \in 0..frames + 1 /\ known'[q].by \in 0..frames + 1
                          /\ pset'[q].by = frames + 1 => q = First
                          /\ known'[q].by # frames + 1
    BY <1>2, <1>5, <1>8, <2>4
  <2>7. FrameOK(frame', frames', pset', known')
    BY <1>2, <1>4, <1>5, <2>4, <2>5, <2>6 DEF FrameOK
  <2>8. ParamInv'
    BY <1>4, <1>6, <1>7, <2>2, <2>3, <2>7 DEF ParamInv
  <2> QED BY <1>4, <1>7, <2>8 DEF ParamStep
<1>10. CASE UNCHANGED <<frame, pset, known, down>>
  <2>1. FrameOK(frame', frames', pset', known')
    BY <1>1, <1>2, <1>4, <1>8, <1>10 DEF FrameOK
  <2>2. ParamInv'
    BY <1>1, <1>4, <1>6, <1>7, <1>10, <2>1 DEF ParamInv
  <2> QED BY <1>4, <1>7, <2>2 DEF ParamStep
<1> QED BY <1>9, <1>10 DEF ApplyAirframe

LEMMA SetTimeoutStep ==
    ASSUME ParamInv, NEW p \in Params, NEW taken, SetTimeout(p, taken)
    PROVE  ParamStep
<1>1. /\ SetTypes(pset, known) /\ SetBound(pset) /\ down \in Seq(DownFrames) /\ up \in Seq(UpFrames)
      /\ ValuesOK(pset, known, cache, up, actual, down) /\ FrameOK(frame, frames, pset, known)
  BY DEF ParamInv, LineTypes
<1>2. pset[p] # NoSet /\ UNCHANGED <<cache, frames, load, up, actual>>
  BY DEF SetTimeout
<1>3. pset[p] \in PendingSets
  BY <1>1, <1>2 DEF SetTypes
<1>4. CASE pset[p].n < SetAttempts /\ pset' = [pset EXCEPT ![p].n = @ + 1]
           /\ down' = Append(down, SetFrame(p, pset[p].val, pset[p].n + 1))
           /\ UNCHANGED <<ready, frame, known, report, baseless>>
  <2> DEFINE x == [val |-> pset[p].val, n |-> pset[p].n + 1, by |-> pset[p].by]
             n == pset[p].n + 1
  <2>1. x \in PendingSets /\ n \in Nat /\ x.val = pset[p].val /\ x.by = pset[p].by /\ x # NoSet
    BY <1>3, <1>4, ParamFacts, ParamAssumption, SMTT(30) DEF PendingSets, ParamAssumption
  <2>2. [pset[p] EXCEPT !.n = @ + 1] = x
    BY <1>3 DEF PendingSets
  <2>3. pset' = [pset EXCEPT ![p] = x]
    BY <1>4, <2>2
  <2> HIDE DEF x, n
  <2> DEFINE e == SetFrame(p, x.val, n)
  <2>0. /\ SetTypes([pset EXCEPT ![p] = x], known) /\ Append(down, e) \in Seq(DownFrames)
        /\ ValuesOK([pset EXCEPT ![p] = x], known, cache, up, actual, Append(down, e))
    BY <1>1, <1>2, <2>1, WriteSentAgain
  <2>10. down' = Append(down, e)
    BY <1>4, <2>1 DEF n
  <2> HIDE DEF e
  <2>4. SetTypes(pset', known') /\ down' \in Seq(DownFrames) /\ ValuesOK(pset', known', cache, up, actual, down')
    BY <1>4, <2>0, <2>3, <2>10
  <2>5. pset'[p] = x /\ \A q \in Params \ {p} : pset'[q] = pset[q]
    BY <1>1, <2>3 DEF SetTypes
  <2>6. SetBound(pset')
    BY <1>1, <1>2, <2>5, NoMoreSets DEF SetTypes
  <2>7. \A q \in Params : pset'[q].by = pset[q].by /\ pset'[q].val = pset[q].val
    BY <2>1, <2>5
  <2>8. FrameOK(frame', frames, pset', known')
    BY <1>1, <1>4, <2>7, SMTT(30) DEF FrameOK
  <2>9. SetsAfter(cache, up)
    BY <1>4, <2>4, <2>6, <2>8 DEF SetsAfter
  <2> QED BY <1>2, <2>9, RestKept
<1>5. CASE Settle(p, FALSE, taken)
  <2>1. ValuesOK([pset EXCEPT ![p] = NoSet], Judged(p, FALSE), cache, up, actual, down)
    BY <1>2, SetGivenUp
  <2>2. SetsAfter(cache, up)
    BY <1>1, <1>2, <1>5, <2>1, SettleStep
  <2> QED BY <1>2, <2>2, RestKept
<1> QED BY <1>4, <1>5 DEF SetTimeout

LEMMA ConflictStep ==
    ASSUME ParamInv, ConflictChanges
    PROVE  ParamStep
<1>1. /\ frame.id # 0 /\ frame' = [frame EXCEPT !.intact = FALSE]
      /\ UNCHANGED <<cache, pset, frames, load, down, up, actual, known>>
  BY DEF ConflictChanges
<1>2. frame \in AirframeStates
  BY <1>1, ParamFacts DEF ParamInv, FrameOK
<1>3. /\ frame' \in AirframeStates /\ frame'.id = frame.id /\ frame'.phase = frame.phase
      /\ frame'.new = frame.new /\ frame'.old = frame.old
  BY <1>1, <1>2 DEF AirframeStates
<1>4. FrameOK(frame', frames, pset', known')
  BY <1>1, <1>3 DEF ParamInv, FrameOK
<1>5. SetsAfter(cache, up)
  BY <1>1, <1>3, <1>4 DEF SetsAfter, ParamInv, LineTypes
<1> QED BY <1>1, <1>5, RestKept

LEMMA InvalidateStep ==
    ASSUME ParamInv, InvalidateAirframe
    PROVE  ParamStep
BY AbortKept DEF InvalidateAirframe

LEMMA NothingDone ==
    ASSUME ParamInv, UNCHANGED <<cache, pset, frame, frames, load, down, up, actual, known>>
    PROVE  ParamStep
BY RestKept DEF SetsAfter, ParamInv, LineTypes
-----------------------------------------------------------------------------
(* The download: what it asks for writes nothing.                            *)
LEMMA RequestsSent ==
    ASSUME ParamInv, NEW es \in Seq(DownFrames), \A i \in 1..Len(es) : es[i].kind # "set",
           down' = down \/ down' = down \o es,
           UNCHANGED <<cache, pset, frame, frames, up, actual, known>>,
           load' \in LoadStates, load'.got \in {{}, load.got}, ~load'.complete
    PROVE  ParamStep
<1>1. /\ SetTypes(pset, known) /\ SetBound(pset) /\ down \in Seq(DownFrames) /\ up \in Seq(UpFrames)
      /\ ValuesOK(pset, known, cache, up, actual, down) /\ FrameOK(frame, frames, pset, known)
      /\ LineTypes /\ LoadOK
  BY DEF ParamInv, LineTypes
<1>2. down \o es \in Seq(DownFrames) /\ ValuesOK(pset, known, cache, up, actual, down \o es)
  BY <1>1, NothingWritten
<1>3. down' \in Seq(DownFrames) /\ ValuesOK(pset', known', cache', up', actual', down')
  BY <1>1, <1>2
<1>4. LineTypes'
  BY <1>1, <1>3 DEF LineTypes
<1>5. LoadOK'
  BY <1>1, ParamFacts DEF LoadOK
<1>6. FrameOK(frame', frames', pset', known') /\ SetTypes(pset', known') /\ SetBound(pset')
  BY <1>1
<1>7. ParamInv'
  BY <1>3, <1>4, <1>5, <1>6 DEF ParamInv
<1>8. ~(frame.id # 0 /\ frame'.id = 0)
  OBVIOUS
<1> QED BY <1>7, <1>8 DEF ParamStep

LEMMA ListAsked ==
    <<ListFrame>> \in Seq(DownFrames) /\ Len(<<ListFrame>>) = 1
    /\ \A i \in 1..Len(<<ListFrame>>) : <<ListFrame>>[i].kind # "set"
<1> DEFINE e == ListFrame
<1>1. e \in DownFrames /\ e.kind = "list"
  BY ParamFacts DEF ListFrame, DownFrames
<1> HIDE DEF e
<1>2. <<e>> \in Seq(DownFrames) /\ Len(<<e>>) = 1 /\ <<e>>[1] = e /\ \A i \in 1..1 : i = 1
  BY <1>1
<1> QED BY <1>1, <1>2 DEF e

LEMMA StartLoadStep ==
    ASSUME ParamInv, NEW taken \in BOOLEAN, StartLoad(taken)
    PROVE  ParamStep
<1>1. /\ load' = [NoLoad EXCEPT !.active = TRUE]
      /\ down' = down \/ down' = Append(down, ListFrame)
      /\ UNCHANGED <<cache, pset, frame, frames, up, actual, known>>
  BY DEF StartLoad
<1>2. load' \in LoadStates /\ load'.got = {} /\ ~load'.complete
  BY <1>1, ParamFacts DEF LoadStates
<1>3. down \in Seq(DownFrames) /\ ListFrame \in DownFrames
  BY ParamFacts DEF ParamInv, LineTypes, ListFrame, DownFrames
<1>4. Append(down, ListFrame) = down \o <<ListFrame>>
  BY <1>3, AppendIsConcat
<1> QED BY <1>1, <1>2, <1>4, ListAsked, RequestsSent

(* The download asks for parameters of the list, and for one at least.       *)
LEMMA MissingListed ==
    ASSUME LoadOK
    PROVE  Missing \in Seq(Params) /\ Len(Missing) \in Nat \ {0}
<1> DEFINE s == [i \in 1..NParams |-> i - 1]
           at == {i \in 1..NParams : i - 1 \notin load.got}
<1>1. NParams \in Nat /\ load.got \subseteq Params /\ load.got # Params
  BY ParamAssumption DEF ParamAssumption, LoadOK, LoadStates
<1>2. s \in Seq(Params) /\ Len(s) = NParams
  BY <1>1 DEF Params
<1>3. Missing = EntriesAt(s, at)
  BY DEF Missing
<1>4. PICK q \in Params : q \notin load.got
  BY <1>1
<1>5. q + 1 \in 1..NParams /\ (q + 1) - 1 = q
  BY <1>1 DEF Params
<1>6. q + 1 \in at
  BY <1>4, <1>5
<1> HIDE DEF s, at
<1>7. Draws(Missing, Params, s, at, NParams)
  BY <1>2, <1>3, EntriesDrawn
<1>8. Missing \in Seq(Params) /\ \E k \in 1..Len(Missing) : TRUE
  BY <1>5, <1>6, <1>7 DEF Draws
<1>9. Len(Missing) \in Nat
  BY <1>8, LenProperties
<1> QED BY <1>8, <1>9

LEMMA ReadsAsked ==
    ASSUME LoadOK
    PROVE  /\ Wanted \in Seq(DownFrames) /\ Len(Wanted) \in Nat
           /\ \A i \in 1..Len(Wanted) : Wanted[i].kind # "set"
<1> DEFINE m == Len(Missing)
           b == IF Batch < m THEN Batch ELSE m
<1>1. Missing \in Seq(Params) /\ m \in Nat \ {0} /\ load.cursor \in Nat /\ b \in Nat
  BY MissingListed, ParamAssumption DEF LoadOK, LoadStates, ParamAssumption
<1>2. Wanted = [i \in 1..b |-> ReadFrame(Missing[((load.cursor + i - 1) % m) + 1])]
  BY DEF Wanted
<1> HIDE DEF m, b
<1>3. ASSUME NEW i \in 1..b
      PROVE  /\ ReadFrame(Missing[((load.cursor + i - 1) % m) + 1]) \in DownFrames
             /\ ReadFrame(Missing[((load.cursor + i - 1) % m) + 1]).kind = "read"
  <2>1. (load.cursor + i - 1) \in Nat
    BY <1>1
  <2>2. ((load.cursor + i - 1) % m) \in 0..m - 1
    BY <1>1, <2>1
  <2>3. ((load.cursor + i - 1) % m) + 1 \in 1..m
    BY <1>1, <2>2
  <2>4. Missing[((load.cursor + i - 1) % m) + 1] \in Params
    BY <1>1, <2>3, ElementOfSeq DEF m
  <2> QED BY <2>4 DEF ReadFrame, DownFrames
<1> DEFINE g(i) == ReadFrame(Missing[((load.cursor + i - 1) % m) + 1])
<1>4. \A i \in 1..b : g(i) \in DownFrames /\ g(i).kind = "read"
  BY <1>3
<1>5. Wanted = [i \in 1..b |-> g(i)]
  BY <1>2
<1> HIDE DEF g
<1>6. Wanted \in Seq(DownFrames) /\ Len(Wanted) = b /\ \A i \in 1..b : Wanted[i] = g(i)
  BY <1>1, <1>4, <1>5
<1> QED BY <1>1, <1>4, <1>6

LEMMA RetryMissingStep ==
    ASSUME ParamInv, NEW late \in BOOLEAN, NEW taken \in BOOLEAN, RetryMissing(late, taken)
    PROVE  ParamStep
<1>1. /\ LoadOK /\ load \in LoadStates /\ load.active /\ ~load.complete
      /\ UNCHANGED <<cache, pset, frame, frames, up, actual, known>>
  BY DEF RetryMissing, ParamInv, LoadOK
<1>2. CASE load' = NoLoad /\ UNCHANGED down
  BY <1>1, <1>2, ListAsked, RequestsSent, ParamFacts
<1>3. ASSUME ~(late \/ load.reads >= MaxReads \/ load.stalls >= MaxStalls),
             NEW es \in Seq(DownFrames), \A i \in 1..Len(es) : es[i].kind # "set",
             down' = IF taken THEN down \o es ELSE down,
             NEW cur \in Nat, NEW rd \in Nat,
             load' = [load EXCEPT !.stalls = @ + 1, !.cursor = cur, !.reads = rd]
      PROVE  ParamStep
  <2>1. load.stalls + 1 \in 0..MaxStalls
    BY <1>1, <1>3, ParamAssumption, SMTT(30) DEF LoadStates, ParamAssumption
  <2>2. load' \in LoadStates /\ load'.got = load.got /\ load'.complete = load.complete
    BY <1>1, <1>3, <2>1 DEF LoadStates
  <2>3. down' = down \/ down' = down \o es
    BY <1>3
  <2> QED BY <1>1, <1>3, <2>2, <2>3, RequestsSent
<1>4. CASE ~(late \/ load.reads >= MaxReads \/ load.stalls >= MaxStalls) /\ load.counted
  <2> DEFINE cur == (load.cursor + Len(Wanted)) % Len(Missing)
             rd == IF taken THEN load.reads + Len(Wanted) ELSE load.reads
  <2>1. cur \in Nat /\ rd \in Nat
    <3>1. /\ Len(Missing) \in Nat \ {0} /\ Len(Wanted) \in Nat
          /\ load.cursor \in Nat /\ load.reads \in Nat
      BY <1>1, MissingListed, ReadsAsked DEF LoadStates
    <3>2. load.cursor + Len(Wanted) \in Nat /\ load.reads + Len(Wanted) \in Nat
      BY <3>1
    <3> QED BY <3>1, <3>2
  <2>2. /\ down' = IF taken THEN down \o Wanted ELSE down
        /\ load' = [load EXCEPT !.stalls = @ + 1, !.cursor = cur, !.reads = rd]
    BY <1>1, <1>4 DEF RetryMissing
  <2> HIDE DEF cur, rd
  <2> QED BY <1>1, <1>3, <1>4, <2>1, <2>2, ReadsAsked
<1>5. CASE ~(late \/ load.reads >= MaxReads \/ load.stalls >= MaxStalls) /\ ~load.counted
  <2>1. /\ down' = IF taken THEN down \o <<ListFrame>> ELSE down
        /\ load' = [load EXCEPT !.stalls = @ + 1, !.cursor = load.cursor, !.reads = load.reads]
    BY <1>1, <1>5 DEF RetryMissing
  <2>2. load.cursor \in Nat /\ load.reads \in Nat
    BY <1>1 DEF LoadStates
  <2> QED BY <1>3, <1>5, <2>1, <2>2, ListAsked
<1>6. (late \/ load.reads >= MaxReads \/ load.stalls >= MaxStalls) => load' = NoLoad /\ UNCHANGED down
  BY DEF RetryMissing
<1>7. load.counted \in BOOLEAN
  BY <1>1 DEF LoadStates
<1> QED BY <1>2, <1>4, <1>5, <1>6, <1>7

LEMMA LoadedOK ==
    ASSUME LoadOK, NEW m \in UpFrames, cache \in [Params -> Values \cup {NoVal}],
           cache' = [cache EXCEPT ![m.param] = m.val], load' = Loaded(m)
    PROVE  /\ LoadOK'
           /\ load.active /\ load'.complete => \A p \in Params : cache'[p] # NoVal
<1> DEFINE got == IF m.listed THEN load.got \cup {m.param} ELSE load.got
<1>1. m.param \in Params /\ m.val \in Values /\ m.listed \in BOOLEAN /\ m.val # NoVal
  BY ParamFacts DEF UpFrames
<1>2. /\ load \in LoadStates /\ load.got \subseteq Params /\ load.got # Params
      /\ load.active \in BOOLEAN /\ load.counted \in BOOLEAN /\ load.complete \in BOOLEAN
      /\ load.stalls \in 0..MaxStalls /\ 0 \in 0..MaxStalls
  BY ParamAssumption DEF LoadOK, LoadStates, ParamAssumption
<1>3. cache'[m.param] # NoVal /\ \A p \in Params : cache[p] # NoVal => cache'[p] # NoVal
  BY <1>1
<1>4. \A p \in load.got : cache'[p] # NoVal
  BY <1>2, <1>3 DEF LoadOK
<1>5. got \subseteq Params /\ \A p \in got : cache'[p] # NoVal
  BY <1>1, <1>2, <1>3, <1>4
<1>6. load' = IF ~load.active THEN load
              ELSE IF got = Params THEN [NoLoad EXCEPT !.complete = TRUE]
              ELSE [load EXCEPT !.counted = @ \/ m.listed, !.got = got,
                                !.stalls = IF got # load.got THEN 0 ELSE @]
  BY DEF Loaded
<1> HIDE DEF got
<1>7. CASE ~load.active
  BY <1>2, <1>4, <1>6, <1>7 DEF LoadOK
<1>8. CASE load.active /\ got = Params
  <2>1. load' = [NoLoad EXCEPT !.complete = TRUE]
    BY <1>6, <1>8
  <2>2. load' \in LoadStates /\ load'.got = {} /\ ~load'.active
    BY <2>1, ParamFacts DEF LoadStates, NoLoad
  <2> QED BY <1>5, <1>8, <2>2, ParamFacts DEF LoadOK
<1>9. CASE load.active /\ got # Params
  <2>1. load' = [load EXCEPT !.counted = @ \/ m.listed, !.got = got,
                             !.stalls = IF got # load.got THEN 0 ELSE @]
    BY <1>6, <1>9
  <2>2. load'.got = got /\ load'.complete = load.complete
    BY <1>2, <2>1 DEF LoadStates
  <2>3. load' \in LoadStates
    BY <1>1, <1>2, <1>5, <2>1 DEF LoadStates
  <2> QED BY <1>5, <1>9, <2>2, <2>3 DEF LoadOK
<1> QED BY <1>2, <1>7, <1>8, <1>9

LEMMA HandleValueStep ==
    ASSUME ParamInv, NEW taken, HandleValue(taken)
    PROVE  ParamStep
<1> DEFINE m == Head(up)
           ps == [pset EXCEPT ![m.param] = NoSet]
<1>1. /\ SetTypes(pset, known) /\ SetBound(pset) /\ down \in Seq(DownFrames) /\ up \in Seq(UpFrames)
      /\ ValuesOK(pset, known, cache, up, actual, down) /\ FrameOK(frame, frames, pset, known)
      /\ cache \in [Params -> Values \cup {NoVal}] /\ LoadOK /\ LineTypes
  BY DEF ParamInv, LineTypes
<1>2. /\ up # <<>> /\ up' = Tail(up) /\ cache' = [cache EXCEPT ![m.param] = m.val]
      /\ load' = Loaded(m) /\ UNCHANGED <<frames, actual>>
  BY DEF HandleValue
<1>3. /\ m \in UpFrames /\ up' \in Seq(UpFrames) /\ cache' \in [Params -> Values \cup {NoVal}]
      /\ ValuesOK(pset, known, cache', up', actual, down)
      /\ Echoes(m) => ValuesOK(ps, Judged(m.param, TRUE), cache', up', actual, down)
  BY <1>2, ValueHeard
<1>4. /\ LoadOK'
      /\ load.active /\ load'.complete => \A p \in Params : cache'[p] # NoVal
  BY <1>1, <1>2, <1>3, LoadedOK
<1>5. SetsAfter(cache', up')
  <2>1. CASE Echoes(m)
    <3>1. Settle(m.param, TRUE, taken)
      BY <2>1 DEF HandleValue
    <3>2. m.param \in Params /\ pset[m.param] # NoSet
      BY <1>3, <2>1 DEF UpFrames, Echoes
    <3> HIDE DEF m
    <3> QED BY <1>1, <1>3, <2>1, <3>1, <3>2, SettleStep
  <2>2. CASE ~Echoes(m)
    <3>1. UNCHANGED <<pset, frame, down, known, report>>
      BY <2>2 DEF HandleValue
    <3> QED BY <1>1, <1>3, <3>1 DEF SetsAfter
  <2> QED BY <2>1, <2>2
<1> HIDE DEF m
<1>6. LineTypes'
  BY <1>1, <1>2, <1>3, <1>5 DEF LineTypes, SetsAfter
<1>7. ParamInv'
  BY <1>2, <1>4, <1>5, <1>6 DEF ParamInv, SetsAfter
<1> QED BY <1>4, <1>5, <1>7 DEF ParamStep, SetsAfter
-----------------------------------------------------------------------------
(* What the line and the vehicle do.                                         *)

(* A step of the frames on their way and of the values of the vehicle.       *)
LEMMA OnTheWay ==
    ASSUME ParamInv, down' \in Seq(DownFrames), up' \in Seq(UpFrames),
           actual' \in [Params -> Values],
           UNCHANGED <<cache, pset, frame, frames, load, known>>,
           ASSUME NEW p \in Params
           PROVE  /\ Same(p, cache[p], up, actual[p], down)
                        => Same(p, cache[p], up', actual'[p], down') /\ actual'[p] = actual[p]
                  /\ Stays(pset[p].val, p, cache[p], up, actual[p], down)
                        => Stays(pset[p].val, p, cache[p], up', actual'[p], down')
    PROVE  ParamStep
<1>1. /\ SetTypes(pset, known) /\ SetBound(pset) /\ LineTypes /\ LoadOK
      /\ ValuesOK(pset, known, cache, up, actual, down) /\ FrameOK(frame, frames, pset, known)
  BY DEF ParamInv
<1>2. \A p \in Params : ValueOf(p, pset[p], known[p], cache[p], up', actual'[p], down')
  BY <1>1 DEF ValuesOK, ValueOf
<1>3. ValuesOK(pset', known', cache', up', actual', down')
  BY <1>2 DEF ValuesOK
<1>4. LineTypes'
  BY <1>1 DEF LineTypes
<1>5. LoadOK'
  BY <1>1 DEF LoadOK
<1>6. ParamInv'
  BY <1>1, <1>3, <1>4, <1>5 DEF ParamInv
<1>7. ~(frame.id # 0 /\ frame'.id = 0) /\ ~(load.active /\ load'.complete)
  BY <1>1 DEF LoadOK
<1> QED BY <1>6, <1>7 DEF ParamStep

LEMMA Unheard ==
    ASSUME NEW p \in Params, NEW w, NEW c, NEW us \in Seq(UpFrames), NEW a, NEW ds, us # <<>>
    PROVE  /\ Same(p, c, us, a, ds) => Same(p, c, Tail(us), a, ds)
           /\ Stays(w, p, c, us, a, ds) => Stays(w, p, c, Tail(us), a, ds)
<1> DEFINE t == Tail(us)
<1>1. /\ Len(t) = Len(us) - 1 /\ Len(us) \in Nat
      /\ \A i \in 1..Len(t) : i + 1 \in 1..Len(us) /\ t[i] = us[i + 1]
  BY Popped
<1> HIDE DEF t
<1>2. \A v : AllUps(v, p, us) => AllUps(v, p, t)
  BY <1>1 DEF AllUps
<1>3. \A i, j \in 1..Len(t) : j > i => j + 1 > i + 1
  BY <1>1
<1>4. ASSUME Stays(w, p, c, us, a, ds) PROVE Stays(w, p, c, t, a, ds)
  <2>1. \A i \in 1..Len(t) : t[i].param = p /\ t[i].val = w =>
          /\ \A j \in 1..Len(t) : j > i /\ t[j].param = p => t[j].val = w
          /\ a = w /\ AllSets(w, p, ds)
    <3> TAKE i \in 1..Len(t)
    <3> HAVE t[i].param = p /\ t[i].val = w
    <3>1. i + 1 \in 1..Len(us) /\ us[i + 1].param = p /\ us[i + 1].val = w
      BY <1>1
    <3>2. /\ \A j \in 1..Len(us) : j > i + 1 /\ us[j].param = p => us[j].val = w
          /\ a = w /\ AllSets(w, p, ds)
      BY <1>4, <3>1 DEF Stays
    <3>3. \A j \in 1..Len(t) : j > i /\ t[j].param = p => t[j].val = w
      BY <1>1, <1>3, <3>2
    <3> QED BY <3>2, <3>3
  <2> QED BY <1>2, <1>4, <2>1 DEF Stays
<1> QED BY <1>2, <1>4 DEF Same, t

LEMMA ValueLostStep ==
    ASSUME ParamInv, ValueLost
    PROVE  ParamStep
<1>1. /\ up # <<>> /\ up' = Tail(up)
      /\ UNCHANGED <<cache, pset, frame, frames, load, down, actual, known>>
  BY DEF ValueLost
<1>2. up \in Seq(UpFrames) /\ down \in Seq(DownFrames) /\ actual \in [Params -> Values]
  BY DEF ParamInv, LineTypes
<1>3. up' \in Seq(UpFrames)
  BY <1>1, <1>2, Popped
<1>4. ASSUME NEW p \in Params
      PROVE  /\ Same(p, cache[p], up, actual[p], down) => Same(p, cache[p], up', actual[p], down)
             /\ Stays(pset[p].val, p, cache[p], up, actual[p], down)
                   => Stays(pset[p].val, p, cache[p], up', actual[p], down)
  BY <1>1, <1>2, Unheard
<1> QED BY <1>1, <1>2, <1>3, <1>4, OnTheWay

LEMMA OneValue ==
    ASSUME NEW q \in Params, NEW v \in Values, NEW listed \in BOOLEAN
    PROVE  LET e == ValueFrame(q, v, listed) IN
           /\ e \in UpFrames /\ <<e>> \in Seq(UpFrames) /\ e.param = q /\ e.val = v
           /\ \A us \in Seq(UpFrames) : Append(us, e) \in Seq(UpFrames) /\ Append(us, e) = us \o <<e>>
           /\ \A p, a : (p = q => a = v) => AllUps(a, p, <<e>>)
<1> DEFINE e == ValueFrame(q, v, listed)
<1>1. e \in UpFrames /\ e.param = q /\ e.val = v
  BY DEF ValueFrame, UpFrames
<1> HIDE DEF e
<1>2. <<e>> \in Seq(UpFrames) /\ Len(<<e>>) = 1 /\ <<e>>[1] = e /\ \A i \in 1..1 : i = 1
  BY <1>1
<1>3. \A us \in Seq(UpFrames) : Append(us, e) \in Seq(UpFrames) /\ Append(us, e) = us \o <<e>>
  BY <1>1, AppendIsConcat, Pushed
<1>4. \A p, a : (p = q => a = v) => AllUps(a, p, <<e>>)
  BY <1>1, <1>2 DEF AllUps
<1> QED BY <1>1, <1>2, <1>3, <1>4 DEF e

LEMMA AllValues ==
    ASSUME NEW as \in [Params -> Values]
    PROVE  LET es == [i \in 1..NParams |-> ValueFrame(i - 1, as[i - 1], TRUE)] IN
           es \in Seq(UpFrames) /\ \A p \in Params : AllUps(as[p], p, es)
<1> DEFINE es == [i \in 1..NParams |-> ValueFrame(i - 1, as[i - 1], TRUE)]
<1>1. NParams \in Nat
  BY ParamAssumption DEF ParamAssumption
<1>2. \A i \in 1..NParams : i - 1 \in Params
  BY <1>1 DEF Params
<1>3. \A i \in 1..NParams : /\ ValueFrame(i - 1, as[i - 1], TRUE) \in UpFrames
                            /\ ValueFrame(i - 1, as[i - 1], TRUE).param = i - 1
                            /\ ValueFrame(i - 1, as[i - 1], TRUE).val = as[i - 1]
  BY <1>2, OneValue
<1> DEFINE g(i) == ValueFrame(i - 1, as[i - 1], TRUE)
<1>7. \A i \in 1..NParams : g(i) \in UpFrames /\ g(i).param = i - 1 /\ g(i).val = as[i - 1]
  BY <1>3
<1>8. es = [i \in 1..NParams |-> g(i)]
  OBVIOUS
<1> HIDE DEF g, es
<1>4. es \in Seq(UpFrames) /\ Len(es) = NParams /\ \A i \in 1..NParams : es[i] = g(i)
  <2>1. \A i \in 1..NParams : g(i) \in UpFrames
    BY <1>7
  <2>2. es \in [1..NParams -> UpFrames] /\ \A i \in 1..NParams : es[i] = g(i)
    BY <1>8, <2>1
  <2>3. es \in Seq(UpFrames)
    BY <1>1, <2>2, SeqDef
  <2>4. DOMAIN es = 1..NParams
    BY <2>2
  <2> QED BY <1>1, <2>2, <2>3, <2>4, LenProperties
<1>5. \A i \in 1..NParams : es[i].param = i - 1 /\ es[i].val = as[i - 1]
  BY <1>4, <1>7
<1>6. \A p \in Params : AllUps(as[p], p, es)
  BY <1>4, <1>5 DEF AllUps
<1> QED BY <1>4, <1>6 DEF es

LEMMA VehicleTakesStep ==
    ASSUME ParamInv, NEW heard \in BOOLEAN, NEW applies \in BOOLEAN, NEW listed \in BOOLEAN,
           VehicleTakes(heard, applies, listed)
    PROVE  ParamStep
<1> DEFINE f == Head(down)
           q == f.param
           v == IF applies THEN f.val ELSE actual[q]
<1>1. /\ down # <<>> /\ down' = Tail(down)
      /\ UNCHANGED <<cache, pset, frame, frames, load, known>>
  BY DEF VehicleTakes
<1>2. /\ up \in Seq(UpFrames) /\ down \in Seq(DownFrames) /\ actual \in [Params -> Values]
  BY DEF ParamInv, LineTypes
<1>3. down' \in Seq(DownFrames) /\ f \in DownFrames
  BY <1>1, <1>2, Popped
<1>4. f.param \in Params /\ (f.kind = "set" => f.val \in Values)
  BY <1>3 DEF DownFrames
<1>5. ASSUME NEW p \in Params, NEW w
      PROVE  /\ Same(p, cache[p], up, actual[p], down)
                  => Same(p, cache[p], up, actual[p], down') /\ (Writes(f, p) => f.val = actual[p])
             /\ Stays(w, p, cache[p], up, actual[p], down) => Stays(w, p, cache[p], up, actual[p], down')
  BY <1>1, <1>2, TakenFirst
<1>6. \/ ~heard /\ UNCHANGED <<actual, up>>
      \/ /\ heard /\ f.kind = "set"
         /\ actual' = [actual EXCEPT ![q] = v]
         /\ up' = Append(up, ValueFrame(q, v, listed))
      \/ /\ heard /\ f.kind = "read"
         /\ up' = Append(up, ValueFrame(q, actual[q], TRUE))
         /\ UNCHANGED actual
      \/ /\ heard /\ f.kind = "list"
         /\ up' = up \o [i \in 1..NParams |-> ValueFrame(i - 1, actual[i - 1], TRUE)]
         /\ UNCHANGED actual
  BY DEF VehicleTakes
<1> HIDE DEF f
<1>7. CASE UNCHANGED <<actual, up>>
  BY <1>1, <1>2, <1>3, <1>5, <1>7, OnTheWay
<1>8. ASSUME NEW es \in Seq(UpFrames), up' = up \o es, actual' = actual,
             \A p \in Params : AllUps(actual[p], p, es)
      PROVE  ParamStep
  <2>1. up' \in Seq(UpFrames)
    BY <1>2, <1>8, Joined
  <2>2. ASSUME NEW p \in Params
        PROVE  /\ Same(p, cache[p], up, actual[p], down) => Same(p, cache[p], up', actual[p], down')
               /\ Stays(pset[p].val, p, cache[p], up, actual[p], down)
                      => Stays(pset[p].val, p, cache[p], up', actual[p], down')
    BY <1>2, <1>5, <1>8, TellsOwn
  <2> QED BY <1>1, <1>2, <1>3, <1>8, <2>1, <2>2, OnTheWay
<1>9. CASE f.kind = "set" /\ actual' = [actual EXCEPT ![q] = v] /\ up' = Append(up, ValueFrame(q, v, listed))
  <2> DEFINE e == ValueFrame(q, v, listed)
  <2>1. v \in Values
    BY <1>2, <1>4, <1>9
  <2>2. /\ e \in UpFrames /\ e.param = q /\ e.val = v /\ <<e>> \in Seq(UpFrames)
        /\ up' \in Seq(UpFrames) /\ up' = up \o <<e>> /\ up' = Append(up, e)
        /\ \A p, a : (p = q => a = v) => AllUps(a, p, <<e>>)
    BY <1>2, <1>4, <1>9, <2>1, OneValue
  <2>3. /\ actual' \in [Params -> Values] /\ actual'[q] = v
        /\ \A p \in Params \ {q} : actual'[p] = actual[p]
    BY <1>2, <1>4, <1>9, <2>1
  <2>4. v = f.val \/ v = actual[q]
    OBVIOUS
  <2> HIDE DEF e, q, v
  <2>5. q = f.param /\ Writes(f, q)
    BY <1>9 DEF q, Writes
  <2>6. ASSUME NEW p \in Params, p = q => v = actual[q]
        PROVE  /\ Same(p, cache[p], up, actual[p], down)
                      => Same(p, cache[p], up', actual'[p], down') /\ actual'[p] = actual[p]
               /\ Stays(pset[p].val, p, cache[p], up, actual[p], down)
                      => Stays(pset[p].val, p, cache[p], up', actual'[p], down')
    <3>1. actual'[p] = actual[p] /\ AllUps(actual[p], p, <<e>>)
      BY <2>2, <2>3, <2>6
    <3> QED BY <1>2, <1>5, <2>2, <3>1, TellsOwn
  <2>7. ASSUME Same(q, cache[q], up, actual[q], down) PROVE v = actual[q]
    BY <1>4, <1>5, <2>4, <2>5, <2>7
  <2>8. ASSUME v = f.val, Stays(pset[q].val, q, cache[q], up, actual[q], down)
        PROVE  Stays(pset[q].val, q, cache[q], up', actual'[q], down')
    <3>1. Writes(Head(down), q) /\ e.val = Head(down).val /\ v = Head(down).val
      BY <2>2, <2>5, <2>8 DEF f
    <3>2. q \in Params
      BY <1>4, <2>5
    <3>3. Stays(pset[q].val, q, cache[q], Append(up, e), Head(down).val, Tail(down))
      BY <1>1, <1>2, <2>2, <2>8, <3>1, <3>2, Applied
    <3> QED BY <1>1, <2>2, <2>3, <3>1, <3>3
  <2>9. ASSUME NEW p \in Params
        PROVE  /\ Same(p, cache[p], up, actual[p], down)
                      => Same(p, cache[p], up', actual'[p], down') /\ actual'[p] = actual[p]
               /\ Stays(pset[p].val, p, cache[p], up, actual[p], down)
                      => Stays(pset[p].val, p, cache[p], up', actual'[p], down')
    <3>1. CASE p = q => v = actual[q]
      BY <2>6, <3>1
    <3>2. CASE p = q /\ v # actual[q]
      BY <2>4, <2>7, <2>8, <3>2
    <3> QED BY <3>1, <3>2
  <2> QED BY <1>1, <1>2, <1>3, <2>2, <2>3, <2>9, OnTheWay
<1>10. CASE up' = Append(up, ValueFrame(q, actual[q], TRUE)) /\ UNCHANGED actual
  <2> DEFINE e == ValueFrame(q, actual[q], TRUE)
  <2>1. /\ <<e>> \in Seq(UpFrames) /\ up' = up \o <<e>>
        /\ \A p, a : (p = q => a = actual[q]) => AllUps(a, p, <<e>>)
    BY <1>2, <1>4, <1>10, OneValue
  <2> HIDE DEF e
  <2> QED BY <1>8, <1>10, <2>1
<1>11. CASE up' = up \o [i \in 1..NParams |-> ValueFrame(i - 1, actual[i - 1], TRUE)] /\ UNCHANGED actual
  BY <1>2, <1>8, <1>11, AllValues
<1> QED BY <1>6, <1>7, <1>9, <1>10, <1>11
-----------------------------------------------------------------------------
(* A heartbeat, the selection of a target, and the whole.                    *)
LEMMA ParamsHearStep ==
    ASSUME ParamInv, NEW isArmed, NEW changed, ParamsHear(isArmed, changed)
    PROVE  ParamStep
<1>1. /\ UNCHANGED <<cache, pset, frames, load, down, up, actual, known>>
      /\ Abort \/ UNCHANGED <<frame, report>>
  BY DEF ParamsHear
<1> QED BY <1>1, AbortKept, NothingDone

LEMMA ParamsResetStep ==
    ASSUME ParamInv, ParamsReset
    PROVE  ParamStep
<1>1. /\ SetTypes(pset, known) /\ SetBound(pset) /\ LineTypes /\ LoadOK
      /\ ValuesOK(pset, known, cache, up, actual, down) /\ FrameOK(frame, frames, pset, known)
  BY DEF ParamInv
<1>2. /\ Abort /\ pset' = [p \in Params |-> NoSet]
      /\ known' = [p \in Params |-> IF pset[p] # NoSet THEN Doubt ELSE known[p]]
      /\ load' = NoLoad /\ cache' = [p \in Params |-> NoVal]
      /\ UNCHANGED <<frames, down, up, actual>>
  BY DEF ParamsReset
<1>3. \A p \in Params : /\ pset'[p] = NoSet /\ cache'[p] = NoVal
                        /\ known'[p] = Doubt \/ (known'[p] = known[p] /\ pset[p] = NoSet)
  BY <1>2
<1>4. /\ pset' \in [Params -> {NoSet} \cup PendingSets]
      /\ known' \in [Params -> {Doubt, Unsure} \cup Confirmed]
      /\ cache' \in [Params -> Values \cup {NoVal}]
  BY <1>1, <1>2 DEF SetTypes
<1>5. SetBound(pset')
  BY <1>1, <1>3, NoMoreSets DEF SetTypes
<1>6. \A p \in Params : pset'[p].by \in 0..frames /\ known'[p].by \in 0..frames
  BY <1>1, <1>3, ParamFacts DEF FrameOK
<1>7. /\ FrameOK(frame', frames', pset', known')
      /\ frame.id # 0 /\ frame'.id = 0 => ReportTrue(frame, report', known')
  BY <1>2, <1>4, <1>6, ReportAbandoned DEF SetTypes
<1>8. ASSUME NEW p \in Params
      PROVE  ValueOf(p, pset'[p], known'[p], cache'[p], up, actual[p], down)
  <2>1. ValueOf(p, pset[p], known[p], cache[p], up, actual[p], down)
    BY <1>1 DEF ValuesOK
  <2>2. Same(p, cache[p], up, actual[p], down) => Same(p, cache'[p], up, actual[p], down)
    BY <1>3 DEF Same
  <2> QED BY <1>3, <2>1, <2>2 DEF ValueOf
<1>9. ValuesOK(pset', known', cache', up', actual', down')
  BY <1>2, <1>8 DEF ValuesOK
<1>10. LineTypes' /\ LoadOK' /\ ~load'.complete
  BY <1>1, <1>2, <1>4, ParamFacts DEF LineTypes, LoadOK
<1>11. ParamInv'
  BY <1>4, <1>5, <1>7, <1>9, <1>10 DEF ParamInv, SetTypes
<1> QED BY <1>7, <1>10, <1>11 DEF ParamStep

LEMMA ParamsStart == Init => ParamInv
<1> SUFFICES ASSUME Init PROVE ParamInv
  OBVIOUS
<1>1. /\ page \in Pages /\ actual \in page.has
      /\ cache = IF "load" \in page.uses THEN [p \in Params |-> NoVal] ELSE actual
      /\ pset = [p \in Params |-> NoSet] /\ known = [p \in Params |-> Unsure]
      /\ frame = NoFrame /\ frames = 0 /\ load = NoLoad /\ down = <<>> /\ up = <<>>
  BY DEF Init, BaseInit, ParamInit
<1>2. actual \in [Params -> Values]
  BY <1>1, ParamAssumption DEF ParamAssumption, Params
<1>3. LineTypes
  BY <1>1, <1>2, EmptySeq DEF LineTypes
<1>4. SetTypes(pset, known) /\ \A p \in Params : pset[p] = NoSet /\ known[p] = Unsure /\ cache[p] \in {NoVal, actual[p]}
  BY <1>1, <1>2 DEF SetTypes
<1>5. SetBound(pset)
  <2>1. {q \in Params : pset[q] # NoSet} = {}
    BY <1>4
  <2> QED BY <2>1, FS_EmptySet, ParamFacts DEF SetBound
<1>6. FrameOK(frame, frames, pset, known)
  BY <1>1, <1>4, ParamFacts DEF FrameOK
<1>7. ValuesOK(pset, known, cache, up, actual, down)
  <2>1. Len(up) = 0 /\ Len(down) = 0 /\ 1..0 = {}
    BY <1>1, EmptySeq
  <2> QED BY <1>4, <2>1, ParamFacts DEF ValuesOK, ValueOf, Same, AllUps, AllSets
<1>8. LoadOK
  BY <1>1, ParamFacts DEF LoadOK
<1> QED BY <1>3, <1>4, <1>5, <1>6, <1>7, <1>8 DEF ParamInv

LEMMA ParamsKept == ParamInv /\ [Next]_vars => ParamStep
<1> SUFFICES ASSUME ParamInv, [Next]_vars PROVE ParamStep
  OBVIOUS
<1>1. CASE UNCHANGED vars
  BY <1>1, NothingDone DEF vars, paramVars
<1>2. CASE CommandNext /\ UNCHANGED paramVars
  BY <1>2, NothingDone DEF paramVars
<1>3. CASE AskParam
  BY <1>3, SetParamStep, ApplyAirframeStep, StartLoadStep DEF AskParam
<1>4. CASE ParamTimers
  BY <1>4, SetTimeoutStep, RetryMissingStep DEF ParamTimers
<1>5. CASE ParamsOutside
  BY <1>5, VehicleTakesStep, HandleValueStep, ValueLostStep, ConflictStep, InvalidateStep DEF ParamsOutside
<1>6. ASSUME NEW isArmed \in BOOLEAN, NEW changed \in BOOLEAN, NEW refused \in BOOLEAN,
             Heartbeat(isArmed, changed, refused)
      PROVE  ParamStep
  BY <1>6, ParamsHearStep DEF Heartbeat
<1>7. ASSUME NEW v \in Vehicles, Reselect(v) PROVE ParamStep
  BY <1>7, ParamsResetStep DEF Reselect
<1> QED BY <1>1, <1>2, <1>3, <1>4, <1>5, <1>6, <1>7 DEF Next, ParamNext

LEMMA ParamsInvariant == Spec => []ParamInv
<1>1. ParamInv /\ [Next]_vars => ParamInv'
  BY ParamsKept DEF ParamStep
<1> QED BY <1>1, ParamsStart, PTL DEF Spec

LEMMA ConfirmedIsTrue ==
    ASSUME NEW ps, NEW ks, NEW cs, NEW us, NEW as, NEW ds, ValuesOK(ps, ks, cs, us, as, ds),
           NEW p \in Params, ks[p].val \in Values
    PROVE  as[p] = ks[p].val
BY ParamFacts DEF ValuesOK, ValueOf

(* A write the page was told is confirmed is in the vehicle, for every       *)
(* number of writes, retransmissions, losses and values on their way.        *)
THEOREM WritesConfirmed == Spec => []ConfirmedIsApplied
<1>1. ParamInv => ConfirmedIsApplied
  BY ConfirmedIsTrue DEF ParamInv, ConfirmedIsApplied
<1> QED BY <1>1, ParamsInvariant, PTL

(* What an airframe transaction or a download reports is so.                 *)
THEOREM OutcomesAreTrue == Spec => OutcomesReported
<1> DEFINE Reported == /\ report' = "done" =>
                            \A p \in {First, Second} : known'[p].by = frame.id => actual[p] = frame.new[p]
                       /\ report' = "failed" /\ known'[First].by = frame.id => actual[First] = frame.old[First]
           Current == \A p \in Params : pset'[p] = NoSet /\ known'[p] # Doubt => cache'[p] = actual[p]
<1>1. ASSUME ParamInv, [Next]_vars
      PROVE  /\ [frame.id # 0 /\ frame'.id = 0 => Reported]_paramVars
             /\ [load.active /\ load'.complete => Current]_paramVars
  <2>1. ParamStep /\ ParamInv'
    BY <1>1, ParamsKept DEF ParamStep
  <2>2. actual' = actual \/ UNCHANGED <<frame, load>>
    <3>1. CASE UNCHANGED paramVars
      BY <3>1, SMTT(30) DEF paramVars
    <3>2. CASE ParamNext
      BY <3>2 DEF ParamNext, AskParam, ParamTimers, ParamsOutside, SetParam, ApplyAirframe, StartLoad,
                  SetTimeout, RetryMissing, VehicleTakes, HandleValue, ValueLost, ConflictChanges,
                  InvalidateAirframe
    <3>3. ASSUME NEW isArmed \in BOOLEAN, NEW changed \in BOOLEAN, NEW refused \in BOOLEAN,
                 Heartbeat(isArmed, changed, refused)
          PROVE  actual' = actual
      BY <3>3 DEF Heartbeat, ParamsHear
    <3>4. ASSUME NEW v \in Vehicles, Reselect(v) PROVE actual' = actual
      BY <3>4 DEF Reselect, ParamsReset
    <3> QED BY <1>1, <3>1, <3>2, <3>3, <3>4 DEF Next, vars
  <2>3. ValuesOK(pset', known', cache', up', actual', down')
    BY <2>1 DEF ParamInv
  <2>4. \A p \in Params : known'[p].val \in Values => actual'[p] = known'[p].val
    BY <2>3, ConfirmedIsTrue
  <2>5. ASSUME frame.id # 0, frame'.id = 0 PROVE Reported
    <3>1. actual' = actual /\ ReportTrue(frame, report', known')
      BY <2>1, <2>2, <2>5 DEF ParamStep
    <3> QED BY <2>4, <3>1, ParamFacts DEF ReportTrue
  <2>6. ASSUME load.active, load'.complete PROVE Current
    <3>1. actual' = actual /\ \A p \in Params : cache'[p] # NoVal
      BY <1>1, <2>1, <2>2, <2>6 DEF ParamStep, ParamInv, LoadOK
    <3>2. \A p \in Params : pset'[p] = NoSet /\ known'[p] # Doubt => Same(p, cache'[p], up', actual'[p], down')
      BY <2>3 DEF ValuesOK, ValueOf
    <3> QED BY <3>1, <3>2 DEF Same
  <2> QED BY <2>5, <2>6
<1>2. Spec => [][frame.id # 0 /\ frame'.id = 0 => Reported]_paramVars
              /\ [][load.active /\ load'.complete => Current]_paramVars
  BY <1>1, ParamsInvariant, PTL DEF Spec
<1> QED BY <1>2 DEF OutcomesReported, AirframeAsReported, LoadedIsCurrent
-----------------------------------------------------------------------------
(* The commands.  What is said of the frames of one motor is said of the     *)
(* queue q and the line l: they were asked for in the order they stand in,   *)
(* and no start has another frame behind it that is not behind a withdrawal. *)
Frames(uses) ==
    [kind : {"arm", "disarm", "other"}, of : Commands, req : Nat, n : Nat, to : Vehicles]
    \cup [kind : {"start", "stop"}, of : Motors \cap uses, req : Nat, n : Nat, to : Vehicles]
Messages(uses) ==
    Frames(uses) \cup [kind : {"withdraw"}, of : Motors, req : Nat, n : Nat, to : Vehicles]
Working == [of : Commands, req : Nat, n : Nat, by : Vehicles]
Acks == [of : Commands, req : Nat, n : Nat, from : Vehicles, result : {"progress", "later", "result"}]

Orders(f, m) == f.of = m /\ f.kind # "withdraw"
Withdraws(f, m) == f.of = m /\ f.kind = "withdraw"

Within(m, q, l, lo, hi) ==
    /\ lo <= hi
    /\ \A i \in 1..Len(q) : q[i].of = m => lo <= q[i].req /\ q[i].req <= hi
    /\ \A i \in 1..Len(l) : Orders(l[i], m) => lo <= l[i].req /\ l[i].req <= hi
QueueInOrder(m, q) ==
    \A i, j \in 1..Len(q) : i < j /\ q[i].of = m /\ q[j].of = m =>
        q[i].kind # "start" /\ q[i].req <= q[j].req
LineInOrder(m, l) ==
    \A i, j \in 1..Len(l) : i < j /\ Orders(l[i], m) /\ Orders(l[j], m) =>
        /\ l[i].req <= l[j].req
        /\ \E k \in 1..Len(l) : i < k /\ k < j /\ Withdraws(l[k], m)
LineAfterQueue(m, q, l) ==
    \A i \in 1..Len(q), j \in 1..Len(l) : q[i].of = m /\ Orders(l[j], m) =>
        /\ q[i].req <= l[j].req
        /\ q[i].kind = "start" => \E k \in 1..Len(l) : k < j /\ Withdraws(l[k], m)
InOrder(m, q, l, lo, hi) ==
    Within(m, q, l, lo, hi) /\ QueueInOrder(m, q) /\ LineInOrder(m, l) /\ LineAfterQueue(m, q, l)

(* Every start of m is about to be withdrawn.                                *)
Covered(m, q, l) ==
    /\ \A i \in 1..Len(q) : q[i].of = m /\ q[i].kind = "start" =>
          \E j \in 1..Len(l) : Withdraws(l[j], m)
    /\ \A i \in 1..Len(l) : l[i].of = m /\ l[i].kind = "start" =>
          \E j \in 1..Len(l) : j > i /\ Withdraws(l[j], m)

MotorInv ==
    /\ page \in Pages /\ asked \in Nat /\ armed \in BOOLEAN /\ target \in Vehicles
    /\ line \in Seq(Messages(page.uses)) /\ queue \in Seq(Frames(page.uses))
    /\ left \in [Motors \cup {Arming} -> Nat]
    /\ \A m \in Motors : InOrder(m, queue, line, left[m], asked)
    /\ armed => \A m \in Motors : Covered(m, queue, line)

(* An order of command c for request r, as long as it or its answer is       *)
(* anywhere: c waits for it, or takes no other, or r ended without a fence.  *)
Traced(c, r, n, ps, fs, un) ==
    /\ r \in 1..n
    /\ r \in un \/ fs[c] # "open" \/ (ps[c] # None /\ ps[c].req = r)
AllTraced(n, ps, fs, un, l, q, ws, as) ==
    /\ \A i \in 1..Len(l) : l[i].of \in Commands => Traced(l[i].of, l[i].req, n, ps, fs, un)
    /\ \A i \in 1..Len(q) : q[i].of \in Commands => Traced(q[i].of, q[i].req, n, ps, fs, un)
    /\ \A w \in ws : Traced(w.of, w.req, n, ps, fs, un)
    /\ \A a \in as : Traced(a.of, a.req, n, ps, fs, un)

(* What a command waits for; its request, its number of attempts and the     *)
(* fence.  No two wait for one request, and none has a report before its end. *)
Waiting == [req : Nat \ {0}, what : {"arm", "disarm", "other"}, attempt : Nat, over : BOOLEAN]
Books(n, ps, fs, un, ts) ==
    /\ ps \in [Commands -> {None} \cup Waiting] /\ fs \in [Commands -> {"open", "settling", "uncertain"}]
    /\ \A c \in Commands : ps[c].attempt <= Tries[c] /\ (ps[c] # None => fs[c] = "open")
    /\ un \subseteq 1..n
    /\ ts \in [Requests -> 0..1]
    /\ \A r \in Requests : r > n => ts[r] = 0
    /\ \A c \in Commands : ps[c] # None => ps[c].req \in 1..n /\ ts[ps[c].req] = 0
    /\ \A c, d \in Commands : ps[c] # None /\ ps[d] # None /\ ps[c].req = ps[d].req => c = d

BaseOK ==
    /\ page \in Pages /\ target \in Vehicles /\ ready \in BOOLEAN /\ armed \in BOOLEAN
    /\ asked \in 0..MaxRequests /\ switches \in 0..page.switches

CommandInv ==
    /\ BaseOK /\ AckAnswersRequest /\ working \subseteq Working /\ air \subseteq Acks
    /\ Books(asked, pending, fence, unfenced, told)
    /\ AllTraced(asked, pending, fence, unfenced, line, queue, working, air)
-----------------------------------------------------------------------------
(* The line grows: by messages that are no order of m, by a withdrawal and   *)
(* then one order of m.                                                      *)
LEMMA OthersPosted ==
    ASSUME NEW S, NEW m, NEW q, NEW l \in Seq(S), NEW es \in Seq(S), NEW lo \in Nat, NEW hi \in Nat,
           NEW hi2 \in Nat, hi <= hi2, \A i \in 1..Len(es) : ~Orders(es[i], m),
           \A i \in 1..Len(q) : q[i].of = m => q[i].req \in Nat,
           \A i \in 1..Len(l) : l[i].of = m => l[i].req \in Nat,
           InOrder(m, q, l, lo, hi)
    PROVE  InOrder(m, q, l \o es, lo, hi2)
<1> DEFINE t == l \o es
<1>1. /\ \A i \in 1..Len(l) : i \in 1..Len(t) /\ t[i] = l[i]
      /\ \A i \in 1..Len(t) : i \in 1..Len(l) \/ (i - Len(l) \in 1..Len(es) /\ t[i] = es[i - Len(l)])
  BY Joined
<1> HIDE DEF t
<1>2. \A i \in 1..Len(t) : Orders(t[i], m) => i \in 1..Len(l) /\ t[i] = l[i]
  BY <1>1
<1>3. \A i \in 1..Len(l) : Orders(l[i], m) => l[i].req \in Nat
  BY DEF Orders
<1>7. \A r \in Nat : r <= hi => r <= hi2
  OBVIOUS
<1>11. lo <= hi2
  BY <1>7 DEF InOrder, Within
<1>8. Within(m, q, l, lo, hi)
  BY DEF InOrder
<1>9. ASSUME NEW i \in 1..Len(q), q[i].of = m PROVE lo <= q[i].req /\ q[i].req <= hi2
  BY <1>7, <1>8, <1>9 DEF Within
<1>10. ASSUME NEW i \in 1..Len(t), Orders(t[i], m) PROVE lo <= t[i].req /\ t[i].req <= hi2
  BY <1>2, <1>3, <1>7, <1>8, <1>10 DEF Within
<1>4. Within(m, q, t, lo, hi2)
  BY <1>9, <1>10, <1>11 DEF Within
<1>5. LineInOrder(m, t)
  BY <1>1, <1>2 DEF InOrder, LineInOrder
<1>6. LineAfterQueue(m, q, t)
  BY <1>1, <1>2 DEF InOrder, LineAfterQueue
<1> QED BY <1>4, <1>5, <1>6 DEF InOrder, t

LEMMA NewOrderPosted ==
    ASSUME NEW S, NEW m, NEW q, NEW l \in Seq(S), NEW es \in Seq(S), NEW lo \in Nat, NEW hi \in Nat,
           NEW b \in 1..Len(es), Withdraws(es[b], m),
           \A i \in 1..Len(es) : Orders(es[i], m) => i > b /\ es[i].req = hi + 1,
           \A i, j \in 1..Len(es) : Orders(es[i], m) /\ Orders(es[j], m) => i = j,
           \A i \in 1..Len(q) : q[i].of = m => q[i].req \in Nat,
           \A i \in 1..Len(l) : l[i].of = m => l[i].req \in Nat,
           InOrder(m, q, l, lo, hi)
    PROVE  InOrder(m, q, l \o es, lo, hi + 1)
<1> DEFINE t == l \o es
           n == Len(l)
<1>1. /\ \A i \in 1..n : i \in 1..Len(t) /\ t[i] = l[i]
      /\ \A i \in 1..Len(es) : n + i \in 1..Len(t) /\ t[n + i] = es[i]
      /\ \A i \in 1..Len(t) : i \in 1..n \/ (i - n \in 1..Len(es) /\ t[i] = es[i - n])
      /\ n \in Nat /\ Len(es) \in Nat /\ Len(t) = n + Len(es)
  BY Joined
<1> HIDE DEF t, n
<1>2. n + b \in 1..Len(t) /\ Withdraws(t[n + b], m) /\ n + b \in Nat /\ n + b > n
  BY <1>1
<1>3. \A i \in 1..Len(t) : Orders(t[i], m) =>
          (i \in 1..n /\ t[i] = l[i]) \/ (i > n + b /\ t[i].req = hi + 1)
  <2> SUFFICES ASSUME NEW i \in 1..Len(t), Orders(t[i], m), i \notin 1..n
               PROVE  i > n + b /\ t[i].req = hi + 1
    BY <1>1
  <2>1. i - n \in 1..Len(es) /\ t[i] = es[i - n]
    BY <1>1
  <2>2. i - n > b /\ es[i - n].req = hi + 1
    BY <2>1
  <2>3. i > n + b
    BY <1>1, <2>1, <2>2
  <2> QED BY <2>1, <2>2, <2>3
<1>4. \A i \in 1..n : i < n + b
  BY <1>1
<1>5. \A i, j \in 1..Len(t) : Orders(t[i], m) /\ Orders(t[j], m) /\ i > n + b /\ j > n + b => i = j
  <2> TAKE i, j \in 1..Len(t)
  <2> HAVE Orders(t[i], m) /\ Orders(t[j], m) /\ i > n + b /\ j > n + b
  <2>1. i \notin 1..n /\ j \notin 1..n
    BY <1>1
  <2>2. /\ i - n \in 1..Len(es) /\ t[i] = es[i - n]
        /\ j - n \in 1..Len(es) /\ t[j] = es[j - n]
    BY <1>1, <2>1
  <2>3. i - n = j - n
    BY <2>2
  <2> QED BY <1>1, <2>3
<1>6. \A i \in 1..n : Orders(l[i], m) => l[i].req \in Nat
  BY DEF Orders, n
<1>7. Within(m, q, t, lo, hi + 1)
  BY <1>3, <1>6, SMTT(30) DEF InOrder, Within, n
<1>8. LineInOrder(m, t)
  <2> SUFFICES ASSUME NEW i \in 1..Len(t), NEW j \in 1..Len(t), i < j, Orders(t[i], m), Orders(t[j], m)
               PROVE  /\ t[i].req <= t[j].req
                      /\ \E k \in 1..Len(t) : i < k /\ k < j /\ Withdraws(t[k], m)
    BY DEF LineInOrder
  <2>1. CASE i \in 1..n /\ t[i] = l[i] /\ j \in 1..n /\ t[j] = l[j]
    BY <1>1, <2>1 DEF InOrder, LineInOrder, n
  <2>2. CASE i \in 1..n /\ t[i] = l[i] /\ j > n + b /\ t[j].req = hi + 1
    <3>1. l[i].req <= hi /\ l[i].req \in Nat
      BY <1>6, <2>2 DEF InOrder, Within, n
    <3>2. i < n + b
      BY <1>4, <2>2
    <3> QED BY <1>2, <2>2, <3>1, <3>2, SMTT(30)
  <2>3. CASE i > n + b
    <3>1. j > n + b
      BY <1>2, <2>3
    <3> QED BY <1>5, <2>3, <3>1
  <2> QED BY <1>3, <2>1, <2>2, <2>3
<1>9. LineAfterQueue(m, q, t)
  <2> SUFFICES ASSUME NEW i \in 1..Len(q), NEW j \in 1..Len(t), q[i].of = m, Orders(t[j], m)
               PROVE  /\ q[i].req <= t[j].req
                      /\ q[i].kind = "start" => \E k \in 1..Len(t) : k < j /\ Withdraws(t[k], m)
    BY DEF LineAfterQueue
  <2>1. CASE j \in 1..n /\ t[j] = l[j]
    BY <1>1, <2>1 DEF InOrder, LineAfterQueue, n
  <2>2. CASE j > n + b /\ t[j].req = hi + 1
    <3>1. q[i].req <= hi /\ q[i].req \in Nat
      BY DEF InOrder, Within
    <3> QED BY <1>2, <2>2, <3>1, SMTT(30)
  <2> QED BY <1>3, <2>1, <2>2
<1> QED BY <1>7, <1>8, <1>9 DEF InOrder, t

LEMMA StaysCovered ==
    ASSUME NEW S, NEW m, NEW q, NEW l \in Seq(S), NEW es \in Seq(S),
           \A i \in 1..Len(es) : ~(es[i].of = m /\ es[i].kind = "start")
    PROVE  /\ Covered(m, q, l) => Covered(m, q, l \o es)
           /\ (\E b \in 1..Len(es) : Withdraws(es[b], m)) => Covered(m, q, l \o es)
<1> DEFINE t == l \o es
           n == Len(l)
<1>1. /\ \A i \in 1..n : i \in 1..Len(t) /\ t[i] = l[i]
      /\ \A i \in 1..Len(es) : n + i \in 1..Len(t) /\ t[n + i] = es[i]
      /\ \A i \in 1..Len(t) : i \in 1..n \/ (i - n \in 1..Len(es) /\ t[i] = es[i - n])
      /\ n \in Nat
  BY Joined
<1> HIDE DEF t, n
<1>2. \A i \in 1..Len(t) : t[i].of = m /\ t[i].kind = "start" => i \in 1..n /\ t[i] = l[i]
  BY <1>1
<1>3. Covered(m, q, l) => Covered(m, q, t)
  BY <1>1, <1>2 DEF Covered, n
<1>4. ASSUME NEW b \in 1..Len(es), Withdraws(es[b], m) PROVE Covered(m, q, t)
  <2>1. n + b \in 1..Len(t) /\ Withdraws(t[n + b], m) /\ \A i \in 1..n : n + b > i
    BY <1>1, <1>4
  <2> QED BY <1>2, <2>1 DEF Covered
<1> QED BY <1>3, <1>4 DEF t

(* The queue loses frames.                                                   *)
LEMMA QueueThinned ==
    ASSUME NEW m, NEW q, NEW q2, NEW l, NEW g, Places(q2, q, Len(q), g), Len(q) \in Nat, Len(q2) \in Nat
    PROVE  /\ \A lo, hi : Within(m, q, l, lo, hi) => Within(m, q2, l, lo, hi)
           /\ QueueInOrder(m, q) => QueueInOrder(m, q2)
           /\ LineAfterQueue(m, q, l) => LineAfterQueue(m, q2, l)
           /\ Covered(m, q, l) => Covered(m, q2, l)
<1>1. /\ \A k \in 1..Len(q2) : g[k] \in 1..Len(q) /\ q2[k] = q[g[k]]
      /\ \A j, k \in 1..Len(q2) : j < k => g[j] < g[k]
  BY DEF Places
<1>2. \A lo, hi : Within(m, q, l, lo, hi) => Within(m, q2, l, lo, hi)
  BY <1>1 DEF Within
<1>3. QueueInOrder(m, q) => QueueInOrder(m, q2)
  BY <1>1, SMTT(30) DEF QueueInOrder
<1>4. LineAfterQueue(m, q, l) => LineAfterQueue(m, q2, l)
  BY <1>1, SMTT(30) DEF LineAfterQueue
<1>5. Covered(m, q, l) => Covered(m, q2, l)
  BY <1>1 DEF Covered
<1> QED BY <1>2, <1>3, <1>4, <1>5

(* The first message leaves the line: another motor's, or a withdrawal of m  *)
(* when no start of m is in the queue any more.                              *)
LEMMA WithdrawalPopped ==
    ASSUME NEW S, NEW m, NEW q, NEW l \in Seq(S), l # <<>>, ~Orders(Head(l), m),
           Head(l).of = m => \A i \in 1..Len(q) : ~(q[i].of = m /\ q[i].kind = "start")
    PROVE  /\ \A lo, hi : InOrder(m, q, l, lo, hi) => InOrder(m, q, Tail(l), lo, hi)
           /\ Covered(m, q, l) => Covered(m, q, Tail(l))
<1> DEFINE h == Head(l)
           t == Tail(l)
<1>1. /\ h = l[1] /\ Len(t) = Len(l) - 1 /\ Len(l) \in Nat
      /\ \A i \in 1..Len(t) : i + 1 \in 1..Len(l) /\ t[i] = l[i + 1]
  BY Popped
<1> HIDE DEF h, t
<1>2. \A k \in 1..Len(l) : k = 1 \/ (k - 1 \in 1..Len(t) /\ l[k] = t[k - 1])
  <2> TAKE k \in 1..Len(l)
  <2>1. CASE k # 1
    <3>1. k - 1 \in 1..Len(t) /\ (k - 1) + 1 = k
      BY <1>1, <2>1
    <3> QED BY <1>1, <3>1
  <2> QED BY <2>1
<1>3. \A i \in 1..Len(t), k \in 1..Len(l) : i + 1 < k => k # 1 /\ i < k - 1
  BY <1>1
<1>4. \A j \in 1..Len(t), k \in 1..Len(l) : k < j + 1 => k - 1 < j
  BY <1>1
<1>5. \A lo, hi : Within(m, q, l, lo, hi) => Within(m, q, t, lo, hi)
  BY <1>1 DEF Within
<1>6. ASSUME LineInOrder(m, l) PROVE LineInOrder(m, t)
  <2> SUFFICES ASSUME NEW i \in 1..Len(t), NEW j \in 1..Len(t), i < j, Orders(t[i], m), Orders(t[j], m)
               PROVE  /\ t[i].req <= t[j].req
                      /\ \E k \in 1..Len(t) : i < k /\ k < j /\ Withdraws(t[k], m)
    BY DEF LineInOrder
  <2>1. /\ i + 1 \in 1..Len(l) /\ j + 1 \in 1..Len(l) /\ i + 1 < j + 1
        /\ t[i] = l[i + 1] /\ t[j] = l[j + 1]
    BY <1>1
  <2>2. /\ t[i].req <= t[j].req
        /\ \E k \in 1..Len(l) : i + 1 < k /\ k < j + 1 /\ Withdraws(l[k], m)
    BY <1>6, <2>1 DEF LineInOrder
  <2>3. PICK k \in 1..Len(l) : i + 1 < k /\ k < j + 1 /\ Withdraws(l[k], m)
    BY <2>2
  <2>4. k - 1 \in 1..Len(t) /\ l[k] = t[k - 1] /\ i < k - 1 /\ k - 1 < j
    BY <1>2, <1>3, <1>4, <2>3
  <2> QED BY <2>2, <2>3, <2>4
<1>7. ASSUME LineAfterQueue(m, q, l) PROVE LineAfterQueue(m, q, t)
  <2> SUFFICES ASSUME NEW i \in 1..Len(q), NEW j \in 1..Len(t), q[i].of = m, Orders(t[j], m)
               PROVE  /\ q[i].req <= t[j].req
                      /\ q[i].kind = "start" => \E k \in 1..Len(t) : k < j /\ Withdraws(t[k], m)
    BY DEF LineAfterQueue
  <2>1. /\ j + 1 \in 1..Len(l) /\ t[j] = l[j + 1]
    BY <1>1
  <2>2. /\ q[i].req <= t[j].req
        /\ q[i].kind = "start" => \E k \in 1..Len(l) : k < j + 1 /\ Withdraws(l[k], m)
    BY <1>7, <2>1 DEF LineAfterQueue
  <2>3. ASSUME q[i].kind = "start" PROVE \E k \in 1..Len(t) : k < j /\ Withdraws(t[k], m)
    <3>1. PICK k \in 1..Len(l) : k < j + 1 /\ Withdraws(l[k], m)
      BY <2>2, <2>3
    <3>2. k # 1
      BY <1>1, <2>3, <3>1 DEF Withdraws, h
    <3> QED BY <1>2, <1>4, <3>1, <3>2
  <2> QED BY <2>2, <2>3
<1>8. ASSUME Covered(m, q, l) PROVE Covered(m, q, t)
  <2>1. ASSUME NEW i \in 1..Len(q), q[i].of = m, q[i].kind = "start"
        PROVE  \E j \in 1..Len(t) : Withdraws(t[j], m)
    <3>1. PICK k \in 1..Len(l) : Withdraws(l[k], m)
      BY <1>8, <2>1 DEF Covered
    <3>2. k # 1
      BY <1>1, <2>1, <3>1 DEF Withdraws, h
    <3> QED BY <1>2, <3>1, <3>2
  <2>2. ASSUME NEW i \in 1..Len(t), t[i].of = m, t[i].kind = "start"
        PROVE  \E j \in 1..Len(t) : j > i /\ Withdraws(t[j], m)
    <3>1. PICK k \in 1..Len(l) : k > i + 1 /\ Withdraws(l[k], m)
      BY <1>1, <1>8, <2>2 DEF Covered
    <3>2. k - 1 \in 1..Len(t) /\ l[k] = t[k - 1] /\ k - 1 > i
      BY <1>2, <1>3, <3>1
    <3> QED BY <3>1, <3>2
  <2> QED BY <2>1, <2>2 DEF Covered
<1> QED BY <1>5, <1>6, <1>7, <1>8 DEF InOrder, t

(* The first order of the line joins the queue.                              *)
LEMMA OrderPopped ==
    ASSUME NEW S, NEW U, NEW m, NEW q \in Seq(U), NEW l \in Seq(S), l # <<>>, Head(l) \in U,
           Head(l).kind # "withdraw", NEW lo, NEW hi, InOrder(m, q, l, lo, hi)
    PROVE  /\ InOrder(m, Append(q, Head(l)), Tail(l), lo, hi)
           /\ Covered(m, q, l) => Covered(m, Append(q, Head(l)), Tail(l))
<1> DEFINE h == Head(l)
           t == Tail(l)
           u == Append(q, h)
           n == Len(q) + 1
<1>1. /\ h = l[1] /\ 1 \in 1..Len(l) /\ Len(t) = Len(l) - 1 /\ Len(l) \in Nat
      /\ \A i \in 1..Len(t) : i + 1 \in 1..Len(l) /\ t[i] = l[i + 1] /\ 1 < i + 1
  <2>1. /\ h = l[1] /\ 1 \in 1..Len(l) /\ Len(t) = Len(l) - 1 /\ Len(l) \in Nat
        /\ \A i \in 1..Len(t) : i + 1 \in 1..Len(l) /\ t[i] = l[i + 1]
    BY Popped
  <2> QED BY <2>1
<1>2. /\ Len(u) = n /\ n \in Nat /\ n \in 1..n /\ u[n] = h
      /\ \A i \in 1..Len(q) : i \in 1..n /\ u[i] = q[i]
      /\ \A i \in 1..n : i = n \/ i \in 1..Len(q)
      /\ \A i \in 1..n : ~(n < i)
  <2>1. /\ Len(u) = n /\ Len(q) \in Nat /\ u[n] = h
        /\ \A i \in 1..Len(q) : i \in 1..n /\ u[i] = q[i]
        /\ \A i \in 1..n : i = n \/ i \in 1..Len(q)
    BY Pushed
  <2> QED BY <2>1
<1>3. h.kind # "withdraw"
  OBVIOUS
<1> HIDE DEF h, t, u, n
<1>4. CASE h.of # m
  <2>1. InOrder(m, q, t, lo, hi) /\ (Covered(m, q, l) => Covered(m, q, t))
    BY <1>4, WithdrawalPopped DEF Orders, h, t
  <2>2. \A i \in 1..n : u[i].of = m => i \in 1..Len(q) /\ u[i] = q[i]
    BY <1>2, <1>4
  <2>3. Within(m, u, t, lo, hi)
    BY <1>2, <2>1, <2>2 DEF InOrder, Within
  <2>4. QueueInOrder(m, u)
    BY <1>2, <2>1, <2>2 DEF InOrder, QueueInOrder
  <2>5. LineAfterQueue(m, u, t)
    BY <1>2, <2>1, <2>2 DEF InOrder, LineAfterQueue
  <2>6. Covered(m, q, t) => Covered(m, u, t)
    BY <1>2, <2>2 DEF Covered
  <2> QED BY <2>1, <2>3, <2>4, <2>5, <2>6 DEF InOrder, h, t, u
<1>5. CASE h.of = m
  <2>1. Orders(l[1], m) /\ Orders(h, m)
    BY <1>1, <1>3, <1>5 DEF Orders
  <2>2. \A k \in 1..Len(l) : ~(k < 1)
    BY <1>1
  <2>3. \A i \in 1..Len(q) : q[i].of = m => q[i].kind # "start" /\ q[i].req <= h.req
    BY <1>1, <2>1, <2>2 DEF InOrder, LineAfterQueue
  <2>4. \A k \in 1..Len(l) : k = 1 \/ (k - 1 \in 1..Len(t) /\ l[k] = t[k - 1])
    <3> TAKE k \in 1..Len(l)
    <3>1. CASE k # 1
      <4>1. k - 1 \in 1..Len(t) /\ (k - 1) + 1 = k
        BY <1>1, <3>1
      <4> QED BY <1>1, <4>1
    <3> QED BY <3>1
  <2>5. \A k \in 1..Len(l) : ~Withdraws(l[1], m)
    BY <1>1, <1>3 DEF Withdraws
  <2>6. \A i \in 1..Len(t), k \in 1..Len(l) : i + 1 < k => k # 1 /\ i < k - 1
    BY <1>1
  <2>7. \A j \in 1..Len(t), k \in 1..Len(l) : k < j + 1 => k - 1 < j
    BY <1>1
  <2>8. Within(m, u, t, lo, hi)
    <3>1. lo <= h.req /\ h.req <= hi
      BY <1>1, <2>1 DEF InOrder, Within
    <3> QED BY <1>1, <1>2, <3>1 DEF InOrder, Within
  <2>9. QueueInOrder(m, u)
    <3> SUFFICES ASSUME NEW i \in 1..n, NEW j \in 1..n, i < j, u[i].of = m, u[j].of = m
                 PROVE  u[i].kind # "start" /\ u[i].req <= u[j].req
      BY <1>2 DEF QueueInOrder
    <3>1. i \in 1..Len(q) /\ u[i] = q[i]
      BY <1>2
    <3>2. CASE j = n
      BY <1>2, <2>3, <3>1, <3>2
    <3>3. CASE j \in 1..Len(q)
      BY <1>2, <3>1, <3>3 DEF InOrder, QueueInOrder
    <3> QED BY <1>2, <3>2, <3>3
  <2>10. LineInOrder(m, t)
    <3> SUFFICES ASSUME NEW i \in 1..Len(t), NEW j \in 1..Len(t), i < j, Orders(t[i], m), Orders(t[j], m)
                 PROVE  /\ t[i].req <= t[j].req
                        /\ \E k \in 1..Len(t) : i < k /\ k < j /\ Withdraws(t[k], m)
      BY DEF LineInOrder
    <3>1. /\ i + 1 \in 1..Len(l) /\ j + 1 \in 1..Len(l) /\ i + 1 < j + 1
          /\ t[i] = l[i + 1] /\ t[j] = l[j + 1]
      BY <1>1
    <3>2. /\ t[i].req <= t[j].req
          /\ \E k \in 1..Len(l) : i + 1 < k /\ k < j + 1 /\ Withdraws(l[k], m)
      BY <3>1 DEF InOrder, LineInOrder
    <3>3. PICK k \in 1..Len(l) : i + 1 < k /\ k < j + 1 /\ Withdraws(l[k], m)
      BY <3>2
    <3>4. k - 1 \in 1..Len(t) /\ l[k] = t[k - 1] /\ i < k - 1 /\ k - 1 < j
      BY <2>4, <2>6, <2>7, <3>3
    <3> QED BY <3>2, <3>3, <3>4
  <2>11. LineAfterQueue(m, u, t)
    <3> SUFFICES ASSUME NEW i \in 1..n, NEW j \in 1..Len(t), u[i].of = m, Orders(t[j], m)
                 PROVE  /\ u[i].req <= t[j].req
                        /\ u[i].kind = "start" => \E k \in 1..Len(t) : k < j /\ Withdraws(t[k], m)
      BY <1>2 DEF LineAfterQueue
    <3>1. /\ j + 1 \in 1..Len(l) /\ t[j] = l[j + 1] /\ 1 < j + 1
      BY <1>1
    <3>2. CASE i \in 1..Len(q)
      BY <1>2, <2>3, <3>1, <3>2 DEF InOrder, LineAfterQueue
    <3>3. CASE i = n
      <4>1. /\ h.req <= t[j].req
            /\ \E k \in 1..Len(l) : 1 < k /\ k < j + 1 /\ Withdraws(l[k], m)
        BY <1>1, <2>1, <3>1 DEF InOrder, LineInOrder
      <4>2. PICK k \in 1..Len(l) : 1 < k /\ k < j + 1 /\ Withdraws(l[k], m)
        BY <4>1
      <4>3. k # 1
        BY <2>5, <4>2
      <4>4. k - 1 \in 1..Len(t) /\ l[k] = t[k - 1] /\ k - 1 < j
        BY <2>4, <2>7, <4>2, <4>3
      <4> QED BY <1>2, <3>3, <4>1, <4>2, <4>4
    <3> QED BY <1>2, <3>2, <3>3
  <2>12. ASSUME Covered(m, q, l) PROVE Covered(m, u, t)
    <3>1. ASSUME NEW i \in 1..n, u[i].of = m, u[i].kind = "start"
          PROVE  \E j \in 1..Len(t) : Withdraws(t[j], m)
      <4>1. l[1].of = m /\ l[1].kind = "start"
        BY <1>1, <1>2, <2>3, <3>1
      <4>2. PICK k \in 1..Len(l) : k > 1 /\ Withdraws(l[k], m)
        BY <1>1, <2>12, <4>1 DEF Covered
      <4>3. k # 1
        BY <2>5, <4>2
      <4> QED BY <2>4, <4>2, <4>3
    <3>2. ASSUME NEW i \in 1..Len(t), t[i].of = m, t[i].kind = "start"
          PROVE  \E j \in 1..Len(t) : j > i /\ Withdraws(t[j], m)
      <4>1. PICK k \in 1..Len(l) : k > i + 1 /\ Withdraws(l[k], m)
        BY <1>1, <2>12, <3>2 DEF Covered
      <4>2. i + 1 < k
        BY <4>1
      <4>3. k - 1 \in 1..Len(t) /\ l[k] = t[k - 1] /\ k - 1 > i
        BY <2>4, <2>6, <4>1, <4>2
      <4> QED BY <4>1, <4>3
    <3> QED BY <1>2, <3>1, <3>2 DEF Covered
  <2> QED BY <2>8, <2>9, <2>10, <2>11, <2>12 DEF InOrder, h, t, u
<1> QED BY <1>4, <1>5

(* The frame the queue sends first is the oldest of its motor.               *)
LEMMA OldestLeaves ==
    ASSUME NEW m, NEW q, NEW l, NEW i \in 1..Len(q), q[i].of = m, Len(q) \in Nat,
           NEW lo, NEW hi, InOrder(m, q, l, lo, hi),
           \A j \in 1..Len(q) : j < i => Critical(q[i]) /\ ~Critical(q[j]),
           \A j \in 1..Len(q) : q[j].of = m => q[j].kind \in {"start", "stop"}
    PROVE  /\ lo <= q[i].req /\ q[i].req <= hi
           /\ \A j \in 1..Len(q) : j # i /\ q[j].of = m => j > i /\ q[i].req <= q[j].req
           /\ \A j \in 1..Len(l) : Orders(l[j], m) => q[i].req <= l[j].req
<1>1. \A j \in 1..Len(q) : j < i /\ q[j].of = m => q[j].kind = "start"
  BY DEF Critical
<1>2. \A j \in 1..Len(q) : j < i => q[j].of # m
  BY <1>1 DEF InOrder, QueueInOrder
<1>3. \A j \in 1..Len(q) : j # i /\ q[j].of = m => j > i
  BY <1>2
<1>4. \A j \in 1..Len(q) : j # i /\ q[j].of = m => q[i].req <= q[j].req
  BY <1>3 DEF InOrder, QueueInOrder
<1> QED BY <1>3, <1>4 DEF InOrder, Within, LineAfterQueue
-----------------------------------------------------------------------------
(* The actions, as far as motors are concerned.                              *)
MotorStep == MotorInv' /\ \A m \in Motors : left'[m] >= left[m]

LEMMA MotorFacts ==
    ASSUME MotorInv
    PROVE  /\ \A i \in 1..Len(queue) :
                 /\ queue[i] \in Frames(page.uses) /\ queue[i].kind # "withdraw"
                 /\ queue[i].req \in Nat
                 /\ queue[i].of \in Motors =>
                       queue[i].kind \in {"start", "stop"} /\ queue[i].of \in page.uses
                 /\ queue[i].kind = "start" => queue[i].of \in Motors
           /\ \A i \in 1..Len(line) :
                 /\ line[i] \in Messages(page.uses) /\ line[i].req \in Nat
                 /\ line[i].kind = "start" => line[i].of \in Motors \cap page.uses
                 /\ line[i].kind = "withdraw" => line[i].of \in Motors
                 /\ line[i].kind # "withdraw" => line[i] \in Frames(page.uses)
           /\ Len(queue) \in Nat /\ Len(line) \in Nat
           /\ \A m \in Motors : left[m] \in Nat /\ left[m] >= left[m]
<1>1. /\ line \in Seq(Messages(page.uses)) /\ queue \in Seq(Frames(page.uses))
      /\ left \in [Motors \cup {Arming} -> Nat]
  BY DEF MotorInv
<1>2. Commands \cap Motors = {}
  BY CommandAssumption DEF CommandAssumption
<1>3. ASSUME NEW f \in Frames(page.uses)
      PROVE  /\ f.kind # "withdraw" /\ f.req \in Nat
             /\ f.of \in Motors => f.kind \in {"start", "stop"} /\ f.of \in page.uses
             /\ f.kind = "start" => f.of \in Motors \cap page.uses
  BY <1>2 DEF Frames
<1>4. ASSUME NEW f \in Messages(page.uses)
      PROVE  /\ f.req \in Nat
             /\ f.kind = "start" => f.of \in Motors \cap page.uses
             /\ f.kind = "withdraw" => f.of \in Motors
             /\ f.kind # "withdraw" => f \in Frames(page.uses)
  BY <1>3 DEF Messages
<1>5. /\ \A i \in 1..Len(queue) : queue[i] \in Frames(page.uses)
      /\ \A i \in 1..Len(line) : line[i] \in Messages(page.uses)
  BY <1>1, ElementOfSeq
<1>6. Len(queue) \in Nat /\ Len(line) \in Nat
  BY <1>1, LenProperties
<1>7. \A m \in Motors : left[m] \in Nat /\ left[m] >= left[m]
  BY <1>1
<1> QED BY <1>3, <1>4, <1>5, <1>6, <1>7

(* Messages that order nothing of a motor are posted.                        *)
LEMMA LineGrows ==
    ASSUME MotorInv, NEW es \in Seq(Messages(page.uses)), line' = line \o es,
           \A i \in 1..Len(es) : es[i].of \in Motors => es[i].kind = "withdraw",
           asked' \in Nat, asked <= asked', armed' \in BOOLEAN, target' \in Vehicles,
           UNCHANGED <<page, queue, left>>,
           armed' => armed \/ \A m \in Motors \cap page.uses : \E b \in 1..Len(es) : Withdraws(es[b], m)
    PROVE  MotorStep
<1>1. /\ page \in Pages /\ asked \in Nat /\ armed \in BOOLEAN
      /\ line \in Seq(Messages(page.uses)) /\ queue \in Seq(Frames(page.uses))
      /\ left \in [Motors \cup {Arming} -> Nat]
      /\ \A m \in Motors : InOrder(m, queue, line, left[m], asked)
      /\ armed => \A m \in Motors : Covered(m, queue, line)
  BY DEF MotorInv
<1>2. line' \in Seq(Messages(page.uses))
  BY <1>1, Joined
<1>3. ASSUME NEW m \in Motors PROVE InOrder(m, queue, line', left[m], asked')
  <2>1. \A i \in 1..Len(es) : ~Orders(es[i], m)
    BY DEF Orders
  <2>2. /\ \A i \in 1..Len(queue) : queue[i].of = m => queue[i].req \in Nat
        /\ \A i \in 1..Len(line) : line[i].of = m => line[i].req \in Nat
        /\ left[m] \in Nat
    BY MotorFacts
  <2> QED BY <1>1, <2>1, <2>2, OthersPosted
<1>4. ASSUME armed', NEW m \in Motors PROVE Covered(m, queue, line')
  <2>1. \A i \in 1..Len(es) : ~(es[i].of = m /\ es[i].kind = "start")
    OBVIOUS
  <2>2. CASE armed \/ \E b \in 1..Len(es) : Withdraws(es[b], m)
    BY <1>1, <2>1, <2>2, StaysCovered
  <2>3. CASE m \notin page.uses
    <3>1. Covered(m, queue, line)
      BY <2>3, MotorFacts DEF Covered
    <3> QED BY <1>1, <2>1, <3>1, StaysCovered
  <2> QED BY <1>4, <2>2, <2>3
<1>5. MotorInv'
  BY <1>1, <1>2, <1>3, <1>4 DEF MotorInv
<1> QED BY <1>5, MotorFacts DEF MotorStep

(* Nothing of a motor changes.                                               *)
LEMMA LineStays ==
    ASSUME MotorInv, UNCHANGED <<page, line, queue, left>>,
           asked' \in Nat, asked <= asked', armed' \in BOOLEAN, target' \in Vehicles,
           armed' => armed
    PROVE  MotorStep
<1>1. line \in Seq(Messages(page.uses))
  BY DEF MotorInv
<1>2. <<>> \in Seq(Messages(page.uses)) /\ Len(<<>>) = 0 /\ 1..0 = {} /\ line \o <<>> = line
  BY <1>1, EmptySeq, ConcatEmptySeq
<1> DEFINE es == <<>>
<1>3. /\ es \in Seq(Messages(page.uses)) /\ line' = line \o es
      /\ \A i \in 1..Len(es) : es[i].of \in Motors => es[i].kind = "withdraw"
  BY <1>2
<1> HIDE DEF es
<1> QED BY <1>3, LineGrows

(* An order of a command is posted.                                          *)
LEMMA CommandPosted ==
    ASSUME MotorInv, NEW c \in Commands, NEW what \in {"arm", "disarm", "other"}, NEW r \in Nat, NEW n \in Nat,
           line' = Append(line, Order(c, what, r, n)),
           asked' \in Nat, asked <= asked', UNCHANGED <<page, queue, left, armed, target>>
    PROVE  MotorStep
<1> DEFINE e == Order(c, what, r, n)
<1>1. line \in Seq(Messages(page.uses)) /\ target \in Vehicles /\ armed \in BOOLEAN
  BY DEF MotorInv
<1>2. e \in Messages(page.uses) /\ e.of = c
  BY <1>1 DEF Order, Messages, Frames
<1>3. c \notin Motors
  BY CommandAssumption DEF CommandAssumption
<1> HIDE DEF e
<1>4. /\ <<e>> \in Seq(Messages(page.uses)) /\ line' = line \o <<e>> /\ Len(<<e>>) = 1
      /\ <<e>>[1] = e /\ \A i \in 1..1 : i = 1
  BY <1>1, <1>2, AppendIsConcat DEF e
<1> DEFINE es == <<e>>
<1>5. /\ es \in Seq(Messages(page.uses)) /\ line' = line \o es
      /\ \A i \in 1..Len(es) : es[i].of \in Motors => es[i].kind = "withdraw"
  BY <1>2, <1>3, <1>4
<1> HIDE DEF es
<1> QED BY <1>1, <1>5, LineGrows

LEMMA WithdrawalsListed ==
    ASSUME NEW ms \in SUBSET Motors, target \in Vehicles
    PROVE  LET ws == Withdrawals(ms) IN
           /\ ws \in Seq(Messages(page.uses)) /\ Len(ws) \in Nat
           /\ \A i \in 1..Len(ws) : ws[i].kind = "withdraw" /\ ws[i].of \in Motors
           /\ \A m \in ms \cap page.uses : \E b \in 1..Len(ws) : Withdraws(ws[b], m)
<1> DEFINE s == SetToSeq(ms \cap page.uses)
           ws == Withdrawals(ms)
<1>1. IsFiniteSet(ms \cap page.uses)
  BY CommandAssumption, FS_Subset DEF CommandAssumption
<1>2. /\ s \in Seq(ms \cap page.uses)
      /\ \A m \in ms \cap page.uses : \E k \in 1..Len(s) : s[k] = m
  BY <1>1, SetListed
<1>3. ws = [i \in DOMAIN s |-> Withdrawal(s[i])]
  BY DEF Withdrawals
<1> HIDE DEF s, ws
<1>4. DOMAIN s = 1..Len(s) /\ Len(s) \in Nat /\ \A i \in 1..Len(s) : s[i] \in ms \cap page.uses
  BY <1>2, LenProperties, ElementOfSeq
<1> DEFINE g(i) == Withdrawal(s[i])
<1>5. \A i \in 1..Len(s) : g(i) \in Messages(page.uses) /\ g(i).kind = "withdraw" /\ g(i).of = s[i]
  BY <1>4 DEF Withdrawal, Messages
<1>6. ws = [i \in 1..Len(s) |-> g(i)]
  BY <1>3, <1>4
<1> HIDE DEF g
<1>7. ws \in [1..Len(s) -> Messages(page.uses)] /\ \A i \in 1..Len(s) : ws[i] = g(i)
  BY <1>5, <1>6
<1>8. ws \in Seq(Messages(page.uses))
  BY <1>4, <1>7, SeqDef
<1>9. Len(ws) = Len(s)
  <2>1. DOMAIN ws = 1..Len(s)
    BY <1>7
  <2> QED BY <1>4, <1>8, <2>1, LenProperties
<1>10. \A m \in ms \cap page.uses : \E b \in 1..Len(ws) : Withdraws(ws[b], m)
  BY <1>2, <1>5, <1>7, <1>9 DEF Withdraws
<1> QED BY <1>4, <1>5, <1>7, <1>8, <1>9, <1>10 DEF ws

LEMMA MotorTestStep ==
    ASSUME MotorInv, NEW ms \in SUBSET (Motors \cap page.uses), NEW kind \in {"start", "stop"},
           NEW ok \in SUBSET ms, MotorTest(ms, kind, ok), UNCHANGED page
    PROVE  MotorStep
<1> DEFINE ws == Withdrawals(ms)
           s == SetToSeq(ok)
           os == [i \in DOMAIN s |-> Order(s[i], kind, asked + 1, 1)]
           es == ws \o os
           n == Len(ws)
<1>1. /\ asked' = asked + 1 /\ (kind = "start" /\ armed => ok = {})
      /\ line' = line \o MotorMessages(ms, kind, asked + 1, ok)
      /\ UNCHANGED <<page, target, armed, queue, left>>
  BY DEF MotorTest, NextRequest, wireVars
<1>2. MotorMessages(ms, kind, asked + 1, ok) = es
  BY DEF MotorMessages
<1>3. /\ page \in Pages /\ asked \in Nat /\ armed \in BOOLEAN /\ target \in Vehicles
      /\ line \in Seq(Messages(page.uses)) /\ queue \in Seq(Frames(page.uses))
      /\ left \in [Motors \cup {Arming} -> Nat]
      /\ \A m \in Motors : InOrder(m, queue, line, left[m], asked)
      /\ armed => \A m \in Motors : Covered(m, queue, line)
  BY DEF MotorInv
<1>4. /\ ws \in Seq(Messages(page.uses)) /\ n \in Nat
      /\ \A i \in 1..n : ws[i].kind = "withdraw" /\ ws[i].of \in Motors
      /\ \A m \in ms : \E b \in 1..n : Withdraws(ws[b], m)
  BY <1>3, WithdrawalsListed
<1>5. /\ s \in Seq(ok) /\ \A j, k \in 1..Len(s) : s[j] = s[k] => j = k
  <2>1. IsFiniteSet(ok)
    BY CommandAssumption, FS_Subset DEF CommandAssumption
  <2> QED BY <2>1, SetListed
<1>6. DOMAIN s = 1..Len(s) /\ Len(s) \in Nat /\ \A i \in 1..Len(s) : s[i] \in ok
  BY <1>5, LenProperties, ElementOfSeq
<1> DEFINE g(i) == Order(s[i], kind, asked + 1, 1)
<1>7. \A i \in 1..Len(s) : /\ g(i) \in Messages(page.uses) /\ g(i).kind = kind /\ g(i).of = s[i]
                           /\ g(i).req = asked + 1
  BY <1>3, <1>6 DEF Order, Messages, Frames
<1>8. os = [i \in 1..Len(s) |-> g(i)]
  BY <1>6
<1> HIDE DEF g, ws, s, n
<1>9. os \in Seq(Messages(page.uses)) /\ Len(os) = Len(s) /\ \A i \in 1..Len(s) : os[i] = g(i)
  <2> HIDE DEF os
  <2>1. os \in [1..Len(s) -> Messages(page.uses)] /\ \A i \in 1..Len(s) : os[i] = g(i)
    BY <1>7, <1>8
  <2>2. os \in Seq(Messages(page.uses))
    BY <1>6, <2>1, SeqDef
  <2>3. DOMAIN os = 1..Len(s)
    BY <2>1
  <2> QED BY <1>6, <2>1, <2>2, <2>3, LenProperties
<1> HIDE DEF os
<1>10. /\ es \in Seq(Messages(page.uses)) /\ Len(es) = n + Len(s)
       /\ \A i \in 1..n : i \in 1..Len(es) /\ es[i] = ws[i]
       /\ \A i \in 1..Len(es) : i \in 1..n \/ (i - n \in 1..Len(s) /\ es[i] = g(i - n))
  <2>1. /\ es \in Seq(Messages(page.uses)) /\ Len(es) = n + Len(os)
        /\ \A i \in 1..n : i \in 1..Len(es) /\ es[i] = ws[i]
        /\ \A i \in 1..Len(es) : i \in 1..n \/ (i - n \in 1..Len(os) /\ es[i] = os[i - n])
    BY <1>4, <1>9, Joined DEF n
  <2> QED BY <1>9, <2>1
<1> HIDE DEF es
<1>11. line' = line \o es /\ line' \in Seq(Messages(page.uses))
  BY <1>1, <1>2, <1>3, <1>10, Joined
<1>12. ASSUME NEW i \in 1..Len(es), i \notin 1..n
       PROVE  /\ i - n \in 1..Len(s) /\ es[i].kind = kind /\ es[i].of = s[i - n] /\ es[i].of \in ok
              /\ es[i].req = asked + 1 /\ i > n
  <2>1. i - n \in 1..Len(s) /\ es[i] = g(i - n)
    BY <1>10, <1>12
  <2>2. i > n
    BY <1>4, <1>6, <2>1
  <2> QED BY <1>6, <1>7, <2>1, <2>2
<1>13. ASSUME NEW i \in 1..n, NEW m \in Motors PROVE ~Orders(es[i], m)
  BY <1>4, <1>10 DEF Orders
<1>14. ASSUME NEW m \in Motors PROVE InOrder(m, queue, line', left[m], asked')
  <2>1. /\ \A i \in 1..Len(queue) : queue[i].of = m => queue[i].req \in Nat
        /\ \A i \in 1..Len(line) : line[i].of = m => line[i].req \in Nat
        /\ left[m] \in Nat
    BY MotorFacts
  <2>2. CASE m \in ok
    <3>1. PICK b \in 1..n : Withdraws(ws[b], m)
      BY <1>4, <2>2
    <3>2. b \in 1..Len(es) /\ Withdraws(es[b], m)
      BY <1>10, <3>1
    <3>3. ASSUME NEW i \in 1..Len(es), Orders(es[i], m) PROVE i > b /\ es[i].req = asked + 1 /\ i \notin 1..n
      <4>1. i \notin 1..n
        BY <1>13, <3>3
      <4>2. i > n /\ es[i].req = asked + 1
        BY <1>12, <4>1
      <4> QED BY <1>4, <4>1, <4>2
    <3>4. ASSUME NEW i \in 1..Len(es), NEW j \in 1..Len(es), Orders(es[i], m), Orders(es[j], m) PROVE i = j
      <4>1. i \notin 1..n /\ j \notin 1..n
        BY <3>3, <3>4
      <4>2. i - n \in 1..Len(s) /\ j - n \in 1..Len(s) /\ s[i - n] = m /\ s[j - n] = m
        BY <1>12, <3>4, <4>1 DEF Orders
      <4>3. i - n = j - n
        BY <1>5, <4>2
      <4> QED BY <1>4, <4>3
    <3>5. InOrder(m, queue, line \o es, left[m], asked + 1)
      BY <1>3, <1>10, <2>1, <3>2, <3>3, <3>4, NewOrderPosted
    <3> QED BY <1>1, <1>11, <3>5
  <2>3. CASE m \notin ok
    <3>1. \A i \in 1..Len(es) : ~Orders(es[i], m)
      BY <1>12, <1>13, <2>3 DEF Orders
    <3>2. asked + 1 \in Nat /\ asked <= asked + 1
      BY <1>3
    <3>3. InOrder(m, queue, line \o es, left[m], asked + 1)
      BY <1>3, <1>10, <2>1, <3>1, <3>2, OthersPosted
    <3> QED BY <1>1, <1>11, <3>3
  <2> QED BY <2>2, <2>3
<1>15. ASSUME armed, NEW m \in Motors PROVE Covered(m, queue, line')
  <2>1. \A i \in 1..Len(es) : ~(es[i].of = m /\ es[i].kind = "start")
    BY <1>1, <1>4, <1>10, <1>12, <1>15
  <2> QED BY <1>3, <1>10, <1>11, <1>15, <2>1, StaysCovered
<1>16. asked' \in Nat
  BY <1>1, <1>3
<1>17. MotorInv'
  BY <1>1, <1>3, <1>11, <1>14, <1>15, <1>16 DEF MotorInv
<1> QED BY <1>1, <1>17, MotorFacts DEF MotorStep

LEMMA HandleMessageStep ==
    ASSUME MotorInv, HandleMessage, UNCHANGED page
    PROVE  MotorStep
<1> DEFINE h == Head(line)
<1>1. /\ line # <<>> /\ line' = Tail(line)
      /\ queue' = IF h.kind = "withdraw" THEN Without(h.of) ELSE Append(queue, h)
      /\ UNCHANGED <<page, target, armed, asked, left>>
  BY DEF HandleMessage, baseVars
<1>2. /\ page \in Pages /\ asked \in Nat /\ armed \in BOOLEAN /\ target \in Vehicles
      /\ line \in Seq(Messages(page.uses)) /\ queue \in Seq(Frames(page.uses))
      /\ left \in [Motors \cup {Arming} -> Nat]
      /\ \A m \in Motors : InOrder(m, queue, line, left[m], asked)
      /\ armed => \A m \in Motors : Covered(m, queue, line)
  BY DEF MotorInv
<1>3. line' \in Seq(Messages(page.uses)) /\ h = line[1] /\ 1 \in 1..Len(line)
  BY <1>1, <1>2, Popped
<1> HIDE DEF h
<1>4. /\ queue' \in Seq(Frames(page.uses))
      /\ \A m \in Motors : /\ InOrder(m, queue', line', left[m], asked)
                           /\ armed => Covered(m, queue', line')
  <2>1. CASE h.kind = "withdraw"
    <3> DEFINE at == {i \in DOMAIN queue : ~(queue[i].kind = "start" /\ queue[i].of = h.of)}
               q2 == EntriesAt(queue, at)
    <3>1. queue' = q2
      BY <1>1, <2>1 DEF Without
    <3>2. Draws(q2, Frames(page.uses), queue, at, Len(queue))
      BY <1>2, EntriesDrawn
    <3> HIDE DEF q2
    <3>3. /\ q2 \in Seq(Frames(page.uses))
          /\ \E g : Places(q2, queue, Len(queue), g) /\ \A k \in 1..Len(q2) : g[k] \in at
      BY <3>2 DEF Draws
    <3> PICK g : Places(q2, queue, Len(queue), g) /\ \A k \in 1..Len(q2) : g[k] \in at
      BY <3>3
    <3>4. Len(q2) \in Nat /\ Len(queue) \in Nat
      BY <1>2, <3>3, LenProperties
    <3>5. \A k \in 1..Len(q2) : ~(q2[k].kind = "start" /\ q2[k].of = h.of)
      BY DEF Places
    <3>6. ASSUME NEW m \in Motors
          PROVE  InOrder(m, q2, line', left[m], asked) /\ (armed => Covered(m, q2, line'))
      <4>1. InOrder(m, q2, line, left[m], asked) /\ (armed => Covered(m, q2, line))
        BY <1>2, <3>4, QueueThinned DEF InOrder
      <4>2. ~Orders(Head(line), m) /\ (Head(line).of = m => \A i \in 1..Len(q2) : ~(q2[i].of = m /\ q2[i].kind = "start"))
        BY <2>1, <3>5 DEF Orders, h
      <4> QED BY <1>1, <1>2, <4>1, <4>2, WithdrawalPopped
    <3> QED BY <3>1, <3>3, <3>6
  <2>2. CASE h.kind # "withdraw"
    <3>1. queue' = Append(queue, h) /\ h \in Frames(page.uses)
      BY <1>1, <1>3, <2>2, MotorFacts
    <3>2. queue' \in Seq(Frames(page.uses))
      BY <1>2, <3>1, Pushed
    <3>3. ASSUME NEW m \in Motors
          PROVE  InOrder(m, queue', line', left[m], asked) /\ (armed => Covered(m, queue', line'))
      BY <1>1, <1>2, <2>2, <3>1, OrderPopped DEF h
    <3> QED BY <3>2, <3>3
  <2> QED BY <2>1, <2>2
<1>5. MotorInv'
  BY <1>1, <1>2, <1>3, <1>4 DEF MotorInv
<1> QED BY <1>1, <1>5, MotorFacts DEF MotorStep

LEMMA DepartStep ==
    ASSUME MotorInv, NEW i \in DOMAIN queue, NEW heard, Depart(i, heard), UNCHANGED page
    PROVE  MotorStep
<1> DEFINE e == queue[i]
           q2 == RemoveAt(queue, i)
           g == [k \in 1..Len(q2) |-> IF k < i THEN k ELSE k + 1]
<1>1. /\ IsNext(i) /\ queue' = q2
      /\ left' = IF e.of \in Motors \/ e.kind = "disarm" THEN [left EXCEPT ![e.of] = e.req] ELSE left
      /\ UNCHANGED <<page, target, armed, asked, line>>
  BY DEF Depart, baseVars
<1>2. /\ page \in Pages /\ asked \in Nat /\ armed \in BOOLEAN /\ target \in Vehicles
      /\ line \in Seq(Messages(page.uses)) /\ queue \in Seq(Frames(page.uses))
      /\ left \in [Motors \cup {Arming} -> Nat]
      /\ \A m \in Motors : InOrder(m, queue, line, left[m], asked)
      /\ armed => \A m \in Motors : Covered(m, queue, line)
  BY DEF MotorInv
<1>3. /\ DOMAIN queue = 1..Len(queue) /\ i \in 1..Len(queue) /\ Len(queue) \in Nat
  BY <1>2, LenProperties, SMTT(30)
<1>4. /\ q2 \in Seq(Frames(page.uses)) /\ Len(q2) = Len(queue) - 1
      /\ \A k \in 1..Len(queue) - 1 : q2[k] = IF k < i THEN queue[k] ELSE queue[k + 1]
  BY <1>2, <1>3, TakenOut
<1>5. e.req \in Nat /\ e.kind # "withdraw" /\ (e.of \in Motors => e.kind \in {"start", "stop"})
  BY <1>3, MotorFacts
<1> HIDE DEF q2
<1>6. Len(q2) \in Nat /\ \A k \in 1..Len(q2) : k \in 1..Len(queue) - 1 /\ k \in 1..Len(queue) /\ k + 1 \in 1..Len(queue)
  BY <1>3, <1>4
<1>7. Places(q2, queue, Len(queue), g) /\ \A k \in 1..Len(q2) : g[k] # i
  <2>1. \A k \in 1..Len(q2) : g[k] = (IF k < i THEN k ELSE k + 1) /\ g[k] \in 1..Len(queue) /\ g[k] # i
    BY <1>3, <1>6
  <2>2. g \in [1..Len(q2) -> 1..Len(queue)]
    BY <2>1
  <2> HIDE DEF g
  <2>3. \A k \in 1..Len(q2) : q2[k] = queue[g[k]]
    BY <1>4, <1>6, <2>1
  <2>4. \A j, k \in 1..Len(q2) : j < k => g[j] < g[k]
    BY <1>3, <2>1
  <2> QED BY <2>1, <2>2, <2>3, <2>4 DEF Places
<1> HIDE DEF g
<1>8. ASSUME NEW m \in Motors
      PROVE  /\ InOrder(m, q2, line, left[m], asked) /\ (armed => Covered(m, q2, line))
  BY <1>2, <1>3, <1>6, <1>7, QueueThinned DEF InOrder
<1>9. left' \in [Motors \cup {Arming} -> Nat]
  BY <1>1, <1>2, <1>5
<1>10. ASSUME NEW m \in Motors PROVE InOrder(m, q2, line, left'[m], asked) /\ left'[m] >= left[m]
  <2>1. CASE e.of # m
    <3>1. left'[m] = left[m]
      BY <1>1, <1>2, <2>1
    <3> QED BY <1>8, <3>1, MotorFacts
  <2>2. CASE e.of = m
    <3>1. left'[m] = e.req
      BY <1>1, <1>2, <2>2
    <3>2. \A j \in 1..Len(queue) : j < i => Critical(queue[i]) /\ ~Critical(queue[j])
      BY <1>1, <1>3 DEF IsNext
    <3>3. \A j \in 1..Len(queue) : queue[j].of = m => queue[j].kind \in {"start", "stop"}
      BY MotorFacts
    <3>4. InOrder(m, queue, line, left[m], asked)
      BY <1>2
    <3>5. /\ left[m] <= e.req /\ e.req <= asked
          /\ \A j \in 1..Len(queue) : j # i /\ queue[j].of = m => j > i /\ e.req <= queue[j].req
          /\ \A j \in 1..Len(line) : Orders(line[j], m) => e.req <= line[j].req
      BY <1>3, <2>2, <3>2, <3>3, <3>4, OldestLeaves
    <3>6. \A k \in 1..Len(q2) : q2[k].of = m => e.req <= q2[k].req
      BY <1>7, <3>5 DEF Places
    <3>7. Within(m, q2, line, e.req, asked)
      BY <1>8, <3>5, <3>6 DEF InOrder, Within
    <3>8. left'[m] >= left[m]
      BY <1>5, <3>1, <3>5, MotorFacts
    <3> QED BY <1>8, <3>1, <3>7, <3>8 DEF InOrder
  <2> QED BY <2>1, <2>2
<1>11. MotorInv'
  BY <1>1, <1>2, <1>4, <1>8, <1>9, <1>10 DEF MotorInv
<1> QED BY <1>10, <1>11 DEF MotorStep
-----------------------------------------------------------------------------
(* The transactions.  Whatever an order is traced to keeps it traced.        *)
Keeps(n, ps, fs, un, n2, ps2, fs2, un2) ==
    \A c \in Commands : \A r : Traced(c, r, n, ps, fs, un) => Traced(c, r, n2, ps2, fs2, un2)

LEMMA CommandFacts ==
    /\ None \notin Waiting /\ None.req = 0 /\ None.attempt = 0 /\ None.over = FALSE
    /\ Arming \in Commands /\ Tries \in [Commands -> Nat \ {0}] /\ Requests \subseteq Nat
    /\ MaxRequests \in Nat /\ \A r \in Requests : r \in 1..MaxRequests
    /\ Commands \cap Motors = {}
    /\ \A c, what : what \in Asks(c) => what \in {"arm", "disarm", "other"}
<1>1. None.req = 0 /\ None.attempt = 0 /\ None.over = FALSE
  BY DEF None
<1>2. None \notin Waiting
  BY <1>1 DEF Waiting
<1>3. Arming \in Commands /\ Tries \in [Commands -> Nat \ {0}] /\ Commands \cap Motors = {}
  BY CommandAssumption DEF CommandAssumption
<1>4. Requests \subseteq Nat /\ MaxRequests \in Nat /\ \A r \in Requests : r \in 1..MaxRequests
  BY BaseAssumption DEF BaseAssumption, Requests
<1>5. \A c, what : what \in Asks(c) => what \in {"arm", "disarm", "other"}
  BY DEF Asks
<1> QED BY <1>1, <1>2, <1>3, <1>4, <1>5

(* The command c waits for the request of p, or is free for it: it is not    *)
(* reported and no other command waits for it.                               *)
Holds(c, p, n) ==
    /\ p \in Waiting /\ n \in 0..MaxRequests /\ asked <= n
    /\ p.req \in 1..n /\ p.req \in Requests /\ told[p.req] = 0
    /\ fence[c] = "open" /\ (pending[c] # None => pending[c].req = p.req)
    /\ \A d \in Commands \ {c} : pending[d] # None => pending[d].req # p.req

LEMMA HeldByPending ==
    ASSUME CommandInv, NEW c \in Commands, pending[c] # None
    PROVE  Holds(c, pending[c], asked) /\ asked \in 0..MaxRequests
<1>1. Books(asked, pending, fence, unfenced, told) /\ asked \in 0..MaxRequests /\ asked <= asked
  BY CommandFacts DEF CommandInv, BaseOK
<1>2. pending[c] \in Waiting /\ pending[c].req \in 1..asked /\ told[pending[c].req] = 0 /\ fence[c] = "open"
  BY <1>1 DEF Books
<1>3. pending[c].req \in Requests
  BY <1>1, <1>2, CommandFacts DEF Requests
<1>4. \A d \in Commands \ {c} : pending[d] # None => pending[d].req # pending[c].req
  BY <1>1 DEF Books
<1> QED BY <1>1, <1>2, <1>3, <1>4 DEF Holds

LEMMA HeldByNew ==
    ASSUME CommandInv, NEW c \in Commands, pending[c] = None, fence[c] = "open", NEW r \in Requests,
           r = asked + 1, NEW what \in {"arm", "disarm", "other"}
    PROVE  /\ Holds(c, [None EXCEPT !.req = r, !.what = what], r)
           /\ [None EXCEPT !.req = r, !.what = what].attempt = 0
           /\ [None EXCEPT !.req = r, !.what = what].over = FALSE
<1> DEFINE p == [None EXCEPT !.req = r, !.what = what]
<1>1. Books(asked, pending, fence, unfenced, told) /\ asked \in 0..MaxRequests
  BY DEF CommandInv, BaseOK
<1>2. r \in Nat \ {0} /\ r \in 0..MaxRequests /\ r \in 1..r /\ asked <= r /\ r > asked
  BY <1>1, CommandFacts
<1>4. p \in Waiting /\ p.req = r /\ p.attempt = 0 /\ p.over = FALSE
  BY <1>2 DEF Waiting, None
<1> HIDE DEF p
<1>5. told[r] = 0
  BY <1>1, <1>2 DEF Books
<1>6. \A d \in Commands : pending[d] # None => pending[d].req \in 1..asked
  BY <1>1 DEF Books
<1>7. \A d \in Commands : pending[d] # None => pending[d].req # r
  BY <1>1, <1>2, <1>6, CommandFacts
<1> QED BY <1>2, <1>4, <1>5, <1>7 DEF Holds, p

(* It waits, with another attempt or past its deadline.                      *)
LEMMA WaitsOn ==
    ASSUME CommandInv, NEW c \in Commands, NEW p, NEW n, Holds(c, p, n),
           NEW q \in Waiting, q.req = p.req, q.attempt <= Tries[c]
    PROVE  LET ps == [pending EXCEPT ![c] = q] IN
           /\ Books(n, ps, fence, unfenced, told)
           /\ Keeps(asked, pending, fence, unfenced, n, ps, fence, unfenced)
           /\ Traced(c, p.req, n, ps, fence, unfenced)
<1> DEFINE ps == [pending EXCEPT ![c] = q]
<1>1. Books(asked, pending, fence, unfenced, told) /\ asked \in 0..MaxRequests
  BY DEF CommandInv, BaseOK
<1>2. /\ ps \in [Commands -> {None} \cup Waiting] /\ ps[c] = q
      /\ \A d \in Commands \ {c} : ps[d] = pending[d]
  BY <1>1 DEF Books
<1>3. q # None
  BY CommandFacts
<1>4. /\ n \in 0..MaxRequests /\ asked <= n /\ p.req \in 1..n /\ told[p.req] = 0
      /\ fence[c] = "open" /\ (pending[c] # None => pending[c].req = p.req)
      /\ \A d \in Commands \ {c} : pending[d] # None => pending[d].req # p.req
  BY DEF Holds
<1>5. \A r : r \in 1..asked => r \in 1..n
  BY <1>1, <1>4
<1>6. \A r \in Requests : r > n => r > asked
  BY <1>1, <1>4, CommandFacts
<1> HIDE DEF ps
<1>7. Books(n, ps, fence, unfenced, told)
  BY <1>1, <1>2, <1>3, <1>4, <1>5, <1>6 DEF Books
<1>8. Keeps(asked, pending, fence, unfenced, n, ps, fence, unfenced)
  BY <1>2, <1>3, <1>4, <1>5 DEF Keeps, Traced
<1>9. Traced(c, p.req, n, ps, fence, unfenced)
  BY <1>2, <1>3, <1>4 DEF Traced
<1> QED BY <1>7, <1>8, <1>9 DEF ps

(* It ends and is reported: behind a fence, or without one.                  *)
LEMMA WaitEnds ==
    ASSUME CommandInv, NEW c \in Commands, NEW p, NEW n, Holds(c, p, n),
           NEW fs, NEW un,
           \/ /\ fs = [fence EXCEPT ![c] = "uncertain"] \/ fs = [fence EXCEPT ![c] = "settling"]
              /\ un = unfenced
           \/ fs = fence /\ un = unfenced \cup {p.req}
    PROVE  LET ps == [pending EXCEPT ![c] = None]
               ts == Told(p.req)
           IN  /\ Books(n, ps, fs, un, ts)
               /\ Keeps(asked, pending, fence, unfenced, n, ps, fs, un)
               /\ Traced(c, p.req, n, ps, fs, un) /\ unfenced \subseteq un
<1> DEFINE ps == [pending EXCEPT ![c] = None]
           ts == Told(p.req)
<1>1. Books(asked, pending, fence, unfenced, told) /\ asked \in 0..MaxRequests
  BY DEF CommandInv, BaseOK
<1>2. /\ ps \in [Commands -> {None} \cup Waiting] /\ ps[c] = None
      /\ \A d \in Commands \ {c} : ps[d] = pending[d]
  BY <1>1 DEF Books
<1>4. /\ n \in 0..MaxRequests /\ asked <= n /\ p.req \in 1..n /\ told[p.req] = 0 /\ p.req \in Requests
      /\ fence[c] = "open" /\ (pending[c] # None => pending[c].req = p.req)
      /\ \A d \in Commands \ {c} : pending[d] # None => pending[d].req # p.req
  BY DEF Holds
<1>5. \A r : r \in 1..asked => r \in 1..n
  BY <1>1, <1>4
<1>6. \A r \in Requests : r > n => r > asked /\ r # p.req
  BY <1>1, <1>4, CommandFacts
<1>7. /\ ts \in [Requests -> 0..1] /\ ts[p.req] = 1
      /\ \A r \in Requests : r # p.req => ts[r] = told[r]
  BY <1>1, <1>4 DEF Books, Told
<1>8. /\ fs \in [Commands -> {"open", "settling", "uncertain"}] /\ un \subseteq 1..n /\ unfenced \subseteq un
      /\ \A d \in Commands \ {c} : fs[d] = fence[d]
      /\ fs[c] # "open" \/ p.req \in un
  BY <1>1, <1>4, <1>5 DEF Books
<1> HIDE DEF ps, ts
<1>9. \A d \in Commands : ps[d] # None => d # c /\ ps[d] = pending[d] /\ pending[d] # None
  BY <1>2
<1>10. \A d \in Commands : ps[d] # None => ps[d].req \in 1..n /\ ps[d].req \in Requests /\ ts[ps[d].req] = 0
  <2> TAKE d \in Commands
  <2> HAVE ps[d] # None
  <2>1. d # c /\ ps[d] = pending[d] /\ pending[d].req \in 1..asked /\ told[pending[d].req] = 0
    BY <1>1, <1>9 DEF Books
  <2>2. pending[d].req \in Requests
    BY <1>1, <2>1, CommandFacts DEF Requests
  <2> QED BY <1>4, <1>5, <1>7, <2>1, <2>2
<1>11. \A d \in Commands : ps[d].attempt <= Tries[d]
  <2> TAKE d \in Commands
  <2>1. CASE d = c
    BY <1>2, <2>1, CommandFacts
  <2>2. CASE d # c
    BY <1>1, <1>2, <2>2 DEF Books
  <2> QED BY <2>1, <2>2
<1>12. Books(n, ps, fs, un, ts)
  BY <1>1, <1>2, <1>6, <1>7, <1>8, <1>9, <1>10, <1>11 DEF Books
<1>13. Keeps(asked, pending, fence, unfenced, n, ps, fs, un)
  BY <1>2, <1>4, <1>5, <1>8 DEF Keeps, Traced
<1>14. Traced(c, p.req, n, ps, fs, un)
  BY <1>4, <1>8 DEF Traced
<1> QED BY <1>8, <1>12, <1>13, <1>14 DEF ps, ts

(* Orders and answers are traced on, where they were and where they go.      *)
LEMMA StillTraced ==
    ASSUME CommandInv, Keeps(asked, pending, fence, unfenced, asked', pending', fence', unfenced'),
           \A i \in 1..Len(line') : line'[i].of \in Commands =>
              \/ \E j \in 1..Len(line) : line'[i] = line[j]
              \/ Traced(line'[i].of, line'[i].req, asked', pending', fence', unfenced'),
           \A i \in 1..Len(queue') :
              \/ \E j \in 1..Len(queue) : queue'[i] = queue[j]
              \/ \E j \in 1..Len(line) : queue'[i] = line[j],
           \A w \in working' : \/ w \in working
                               \/ \E j \in 1..Len(queue) : /\ queue[j].of = w.of /\ queue[j].req = w.req
                                                           /\ w.of \in Commands,
           \A a \in air' : a \in air \/ \E w \in working : w.of = a.of /\ w.req = a.req
    PROVE  AllTraced(asked', pending', fence', unfenced', line', queue', working', air')
<1>1. /\ AllTraced(asked, pending, fence, unfenced, line, queue, working, air)
      /\ working \subseteq Working /\ air \subseteq Acks
  BY DEF CommandInv
<1>2. (\A w \in working : w.of \in Commands) /\ (\A a \in air : a.of \in Commands)
  BY <1>1 DEF Working, Acks
<1>3. \A c \in Commands : \A r : Traced(c, r, asked, pending, fence, unfenced)
                              => Traced(c, r, asked', pending', fence', unfenced')
  BY DEF Keeps
<1>4. /\ \A i \in 1..Len(line) : line[i].of \in Commands =>
            Traced(line[i].of, line[i].req, asked', pending', fence', unfenced')
      /\ \A i \in 1..Len(queue) : queue[i].of \in Commands =>
            Traced(queue[i].of, queue[i].req, asked', pending', fence', unfenced')
      /\ \A w \in working : Traced(w.of, w.req, asked', pending', fence', unfenced')
      /\ \A a \in air : Traced(a.of, a.req, asked', pending', fence', unfenced')
  BY <1>1, <1>2, <1>3 DEF AllTraced
<1>5. \A i \in 1..Len(line') : line'[i].of \in Commands =>
            Traced(line'[i].of, line'[i].req, asked', pending', fence', unfenced')
  BY <1>4
<1>6. \A i \in 1..Len(queue') : queue'[i].of \in Commands =>
            Traced(queue'[i].of, queue'[i].req, asked', pending', fence', unfenced')
  BY <1>4
<1>7. \A w \in working' : Traced(w.of, w.req, asked', pending', fence', unfenced')
  BY <1>4
<1>8. \A a \in air' : Traced(a.of, a.req, asked', pending', fence', unfenced')
  BY <1>4
<1> QED BY <1>5, <1>6, <1>7, <1>8 DEF AllTraced

(* The messages behind the ones the line has.                                *)
LEMMA LineTraced ==
    ASSUME MotorInv, NEW es \in Seq(Messages(page.uses)), line' = line \o es
    PROVE  \A i \in 1..Len(line') : \/ \E j \in 1..Len(line) : line'[i] = line[j]
                                    \/ \E j \in 1..Len(es) : line'[i] = es[j]
<1>1. line \in Seq(Messages(page.uses))
  BY DEF MotorInv
<1>2. \A i \in 1..Len(line \o es) :
         \/ i \in 1..Len(line) /\ (line \o es)[i] = line[i]
         \/ i - Len(line) \in 1..Len(es) /\ (line \o es)[i] = es[i - Len(line)]
  BY <1>1, Joined
<1> QED BY <1>2

(* A step that posts at most one order of c, for the request it holds.       *)
Posts(c, r) ==
    \/ line' = line
    \/ \E what \in {"arm", "disarm", "other"}, n \in Nat :
          line' = Append(line, Order(c, what, r, n))

LEMMA Posted ==
    ASSUME MotorInv, CommandInv, BaseOK', NEW c \in Commands, NEW r \in Nat, Posts(c, r),
           Traced(c, r, asked', pending', fence', unfenced'),
           Books(asked', pending', fence', unfenced', told'),
           Keeps(asked, pending, fence, unfenced, asked', pending', fence', unfenced'),
           unfenced \subseteq unfenced', \A x \in stolen' : x \in stolen \/ x[1] \in unfenced',
           air' \subseteq air, asked <= asked',
           UNCHANGED <<page, target, armed, queue, working, left>>
    PROVE  MotorStep /\ CommandInv'
<1>1. /\ asked' \in Nat /\ armed' \in BOOLEAN /\ target' \in Vehicles
      /\ line \in Seq(Messages(page.uses)) /\ target \in Vehicles
  BY CommandFacts DEF BaseOK, MotorInv
<1>2. MotorStep
  <2>1. CASE line' = line
    BY <1>1, <2>1, LineStays
  <2>2. ASSUME NEW what \in {"arm", "disarm", "other"}, NEW n \in Nat,
               line' = Append(line, Order(c, what, r, n))
        PROVE  MotorStep
    BY <1>1, <2>2, CommandPosted
  <2> QED BY <2>1, <2>2 DEF Posts
<1>3. ASSUME NEW i \in 1..Len(line'), line'[i].of \in Commands
      PROVE  \/ \E j \in 1..Len(line) : line'[i] = line[j]
             \/ Traced(line'[i].of, line'[i].req, asked', pending', fence', unfenced')
  <2>1. CASE line' = line
    BY <1>3, <2>1
  <2>2. ASSUME NEW what \in {"arm", "disarm", "other"}, NEW n \in Nat,
               line' = Append(line, Order(c, what, r, n))
        PROVE  (\E j \in 1..Len(line) : line'[i] = line[j]) \/ (line'[i].of = c /\ line'[i].req = r)
    <3> DEFINE e == Order(c, what, r, n)
    <3>1. e \in Messages(page.uses) /\ e.of = c /\ e.req = r
      BY <1>1 DEF Order, Messages, Frames
    <3> HIDE DEF e
    <3>2. /\ Len(line') = Len(line) + 1 /\ line'[Len(line) + 1] = e
          /\ \A j \in 1..Len(line) : line'[j] = line[j]
          /\ \A j \in 1..Len(line) + 1 : j = Len(line) + 1 \/ j \in 1..Len(line)
      BY <1>1, <2>2, <3>1, Pushed DEF e
    <3> QED BY <3>1, <3>2
  <2> QED BY <2>1, <2>2 DEF Posts
<1>4. /\ \A i \in 1..Len(queue') : \E j \in 1..Len(queue) : queue'[i] = queue[j]
      /\ \A w \in working' : w \in working
      /\ \A a \in air' : a \in air
  OBVIOUS
<1>5. AllTraced(asked', pending', fence', unfenced', line', queue', working', air')
  BY <1>3, <1>4, StillTraced
<1>6. AckAnswersRequest'
  BY DEF CommandInv, AckAnswersRequest
<1>7. working' \subseteq Working /\ air' \subseteq Acks
  BY DEF CommandInv
<1> QED BY <1>2, <1>5, <1>6, <1>7 DEF CommandInv

(* transmitPendingCommand.                                                   *)
LEMMA Transmitted ==
    ASSUME CommandInv, NEW c \in Commands, NEW p, NEW n, Holds(c, p, n),
           p.attempt < Tries[c], NEW accepted, Transmit(c, p, accepted), asked' = n
    PROVE  /\ Books(asked', pending', fence', unfenced', told')
           /\ Keeps(asked, pending, fence, unfenced, asked', pending', fence', unfenced')
           /\ Traced(c, p.req, asked', pending', fence', unfenced')
           /\ unfenced \subseteq unfenced' /\ Posts(c, p.req) /\ p.req \in Nat /\ asked <= asked'
<1> DEFINE q == [p EXCEPT !.attempt = @ + 1]
<1>1. /\ p \in Waiting /\ asked <= n /\ p.req \in Nat
  BY DEF Holds, Waiting
<1>2. Tries[c] \in Nat
  BY CommandFacts
<1>3. q \in Waiting /\ q.req = p.req /\ q.what = p.what /\ q.attempt \in Nat /\ q.attempt <= Tries[c]
      /\ q.what \in {"arm", "disarm", "other"} /\ p.over \in BOOLEAN
  BY <1>1, <1>2 DEF Waiting
<1>4. IF accepted
      THEN /\ line' = Append(line, Order(c, q.what, q.req, q.attempt))
           /\ pending' = [pending EXCEPT ![c] = IF p.over THEN None ELSE q]
           /\ fence' = [fence EXCEPT ![c] = IF p.over THEN "uncertain" ELSE @]
           /\ told' = IF p.over THEN Told(p.req) ELSE told
           /\ UNCHANGED unfenced
      ELSE /\ pending' = [pending EXCEPT ![c] = None]
           /\ told' = Told(p.req)
           /\ unfenced' = unfenced \cup {p.req}
           /\ UNCHANGED <<line, fence>>
  BY DEF Transmit
<1> HIDE DEF q
<1>5. Posts(c, p.req)
  BY <1>3, <1>4 DEF Posts
<1>6. fence \in [Commands -> {"open", "settling", "uncertain"}]
  BY DEF CommandInv, Books
<1>7. CASE accepted /\ p.over
  <2>1. /\ pending' = [pending EXCEPT ![c] = None] /\ fence' = [fence EXCEPT ![c] = "uncertain"]
        /\ told' = Told(p.req) /\ unfenced' = unfenced
    BY <1>4, <1>7
  <2> QED BY <1>1, <1>5, <2>1, WaitEnds
<1>8. CASE accepted /\ ~p.over
  <2>1. /\ pending' = [pending EXCEPT ![c] = q] /\ fence' = fence
        /\ told' = told /\ unfenced' = unfenced
    BY <1>4, <1>6, <1>8
  <2> QED BY <1>1, <1>3, <1>5, <2>1, WaitsOn
<1>9. CASE ~accepted
  <2>1. /\ pending' = [pending EXCEPT ![c] = None] /\ fence' = fence
        /\ told' = Told(p.req) /\ unfenced' = unfenced \cup {p.req}
    BY <1>4, <1>9
  <2> QED BY <1>1, <1>5, <2>1, WaitEnds
<1> QED BY <1>3, <1>7, <1>8, <1>9

LEMMA BaseKept ==
    ASSUME BaseOK, UNCHANGED <<page, target, ready, armed, switches>>,
           asked' = asked \/ \E r \in Requests : NextRequest(r)
    PROVE  BaseOK' /\ asked <= asked' /\ asked' \in Nat
<1>1. page \in Pages /\ asked \in 0..MaxRequests /\ MaxRequests \in Nat
  BY CommandFacts DEF BaseOK
<1>2. page.asks \in 0..MaxRequests
  BY <1>1, BaseAssumption DEF BaseAssumption
<1>3. asked' \in 0..MaxRequests /\ asked <= asked'
  BY <1>1, <1>2 DEF NextRequest
<1> QED BY <1>1, <1>3 DEF BaseOK
-----------------------------------------------------------------------------
(* The actions of the commands.                                              *)
CommandStep == MotorStep /\ CommandInv'

LEMMA SendStep ==
    ASSUME MotorInv, CommandInv, NEW c \in Commands, NEW what \in Asks(c), NEW accepted,
           Send(c, what, accepted), UNCHANGED page
    PROVE  CommandStep
<1> PICK r \in Requests :
        /\ NextRequest(r) /\ Admits(c)
        /\ Transmit(c, [None EXCEPT !.req = r, !.what = what], accepted)
        /\ UNCHANGED <<target, ready, armed, switches, wireVars, stolen>>
  BY DEF Send
<1> DEFINE p == [None EXCEPT !.req = r, !.what = what]
<1>1. /\ pending[c] = None /\ fence[c] = "open" /\ r = asked + 1 /\ asked' = r
      /\ UNCHANGED <<page, target, ready, armed, switches, queue, working, air, left, stolen>>
  BY DEF Admits, NextRequest, wireVars
<1>2. what \in {"arm", "disarm", "other"}
  BY CommandFacts, SMTT(30)
<1>3. Holds(c, p, r) /\ p.attempt = 0
  BY <1>1, <1>2, HeldByNew
<1>4. p.attempt < Tries[c]
  BY <1>3, CommandFacts
<1>5. BaseOK' /\ asked <= asked'
  BY <1>1, BaseKept DEF CommandInv
<1>6. Transmit(c, p, accepted)
  OBVIOUS
<1> HIDE DEF p
<1>7. /\ Books(asked', pending', fence', unfenced', told')
      /\ Keeps(asked, pending, fence, unfenced, asked', pending', fence', unfenced')
      /\ Traced(c, p.req, asked', pending', fence', unfenced')
      /\ unfenced \subseteq unfenced' /\ Posts(c, p.req) /\ p.req \in Nat
  BY <1>1, <1>3, <1>4, <1>6, Transmitted
<1> QED BY <1>1, <1>5, <1>7, Posted DEF CommandStep

(* A request is turned away, or a step of the parameters takes one.          *)
LEMMA AskedOnly ==
    ASSUME MotorInv, CommandInv, NEW r \in Requests, NextRequest(r),
           told' = told \/ told' = Told(r),
           UNCHANGED <<page, target, armed, switches, pending, fence, line, wireVars, stolen, unfenced>>,
           ready' \in BOOLEAN
    PROVE  CommandStep
<1>1. /\ Books(asked, pending, fence, unfenced, told) /\ asked \in 0..MaxRequests /\ BaseOK
  BY DEF CommandInv, BaseOK
<1>2. /\ r = asked + 1 /\ asked' = r /\ asked < page.asks
      /\ UNCHANGED <<page, target, armed, switches, pending, fence, line, queue, working, air, left,
                     stolen, unfenced>>
  BY DEF NextRequest, wireVars
<1>3. /\ r \in Nat /\ r > asked /\ asked <= r /\ \A k : k \in 1..asked => k \in 1..r /\ k # r
      /\ \A k \in Requests : k > r => k > asked /\ k # r
  BY <1>1, <1>2, CommandFacts
<1>4. BaseOK'
  <2>1. page.asks \in 0..MaxRequests
    BY <1>1, BaseAssumption DEF BaseAssumption, BaseOK
  <2>2. asked' \in 0..MaxRequests
    BY <1>1, <1>2, <2>1, CommandFacts
  <2> QED BY <1>1, <1>2, <2>2 DEF BaseOK
<1>5. told \in [Requests -> 0..1] /\ told[r] = 0
  BY <1>1, <1>3 DEF Books
<1>6. told' \in [Requests -> 0..1] /\ \A k \in Requests : k # r => told'[k] = told[k]
  BY <1>5 DEF Told
<1>7. \A d \in Commands : pending[d] # None =>
         pending[d].req \in 1..r /\ pending[d].req \in Requests /\ told'[pending[d].req] = 0
  <2> TAKE d \in Commands
  <2> HAVE pending[d] # None
  <2>1. pending[d].req \in 1..asked /\ told[pending[d].req] = 0
    BY <1>1 DEF Books
  <2>2. pending[d].req \in Requests
    BY <1>1, <2>1, CommandFacts DEF Requests
  <2> QED BY <1>3, <1>6, <2>1, <2>2
<1>8. Books(asked', pending', fence', unfenced', told')
  BY <1>1, <1>2, <1>3, <1>6, <1>7 DEF Books
<1>9. Keeps(asked, pending, fence, unfenced, asked', pending', fence', unfenced')
  BY <1>2, <1>3 DEF Keeps, Traced
<1>10. AllTraced(asked', pending', fence', unfenced', line', queue', working', air')
  BY <1>2, <1>9, StillTraced
<1>11. CommandInv'
  BY <1>2, <1>4, <1>8, <1>10 DEF CommandInv, AckAnswersRequest
<1>12. MotorStep
  BY <1>1, <1>2, <1>3, LineStays DEF BaseOK
<1> QED BY <1>11, <1>12 DEF CommandStep

LEMMA SendRefusedStep ==
    ASSUME MotorInv, CommandInv, NEW c, NEW what, SendRefused(c, what), UNCHANGED page
    PROVE  CommandStep
<1> PICK r \in Requests :
        /\ NextRequest(r) /\ told' = Told(r)
        /\ UNCHANGED <<target, ready, armed, switches, pending, fence, line, wireVars, stolen, unfenced>>
  BY DEF SendRefused
<1> QED BY AskedOnly DEF CommandInv, BaseOK

LEMMA EmergencyDisarmStep ==
    ASSUME MotorInv, CommandInv, NEW accepted \in BOOLEAN, EmergencyDisarm(accepted), UNCHANGED page
    PROVE  CommandStep
<1> DEFINE c == Arming
<1> PICK r \in Requests :
        /\ NextRequest(r)
        /\ pending' = [pending EXCEPT ![c] = None]
        /\ fence' = [fence EXCEPT ![c] = "uncertain"]
        /\ line' = IF accepted THEN Append(line, Order(c, "disarm", r, 1)) ELSE line
        /\ told' = [k \in Requests |->
                       told[k] + (IF k = pending[c].req THEN 1 ELSE 0)
                               + (IF k = r /\ ~accepted THEN 1 ELSE 0)]
        /\ UNCHANGED <<target, ready, armed, switches, wireVars, stolen, unfenced>>
  BY DEF EmergencyDisarm
<1>1. /\ Books(asked, pending, fence, unfenced, told) /\ asked \in 0..MaxRequests /\ BaseOK
      /\ c \in Commands
  BY CommandFacts DEF CommandInv, BaseOK
<1>2. /\ r = asked + 1 /\ asked' = r
      /\ UNCHANGED <<page, target, ready, armed, switches, queue, working, air, left, stolen, unfenced>>
  BY DEF NextRequest, wireVars
<1>3. /\ r \in Nat /\ r > asked /\ asked <= r /\ r \in 1..r /\ \A k : k \in 1..asked => k \in 1..r /\ k # r
      /\ \A k \in Requests : k > r => k > asked /\ k # r
  BY <1>1, <1>2, CommandFacts
<1>4. BaseOK'
  BY <1>1, <1>2, BaseKept
<1>5. /\ pending' \in [Commands -> {None} \cup Waiting] /\ pending'[c] = None
      /\ \A d \in Commands \ {c} : pending'[d] = pending[d]
      /\ fence' \in [Commands -> {"open", "settling", "uncertain"}] /\ fence'[c] = "uncertain"
      /\ \A d \in Commands \ {c} : fence'[d] = fence[d]
  BY <1>1 DEF Books
<1>6. told \in [Requests -> 0..1] /\ told[r] = 0
  BY <1>1, <1>3 DEF Books
<1>7. pending[c].req \in Nat /\ pending[c].req # r /\ ~(pending[c].req > r)
      /\ (pending[c].req \in Requests => told[pending[c].req] = 0)
  <2>1. CASE pending[c] = None
    BY <1>1, <1>3, <2>1, CommandFacts
  <2>2. CASE pending[c] # None
    <3>1. pending[c].req \in 1..asked /\ told[pending[c].req] = 0
      BY <1>1, <2>2 DEF Books
    <3> QED BY <1>1, <1>2, <3>1
  <2> QED BY <2>1, <2>2
<1>8. \A k \in Requests : /\ told'[k] \in 0..1
                          /\ k # r /\ k # pending[c].req => told'[k] = told[k]
  BY <1>6, <1>7
<1>9. told' \in [Requests -> 0..1]
  BY <1>8
<1>10. \A k \in Requests : k > r => told'[k] = 0
  BY <1>1, <1>3, <1>7, <1>8 DEF Books
<1>11. \A d \in Commands : pending'[d] # None =>
          pending'[d].req \in 1..r /\ told'[pending'[d].req] = 0
  <2> TAKE d \in Commands
  <2> HAVE pending'[d] # None
  <2>1. d # c /\ pending'[d] = pending[d] /\ pending[d] # None
    BY <1>5
  <2>2. pending[d].req \in 1..asked /\ told[pending[d].req] = 0
    BY <1>1, <2>1 DEF Books
  <2>3. pending[d].req \in Requests /\ pending[d].req # r
    BY <1>1, <1>3, <2>2, CommandFacts DEF Requests
  <2>4. pending[d].req # pending[c].req
    <3>1. CASE pending[c] = None
      BY <1>1, <2>2, <3>1, CommandFacts
    <3>2. CASE pending[c] # None
      BY <1>1, <2>1, <3>2 DEF Books
    <3> QED BY <3>1, <3>2
  <2> QED BY <1>3, <1>8, <2>1, <2>2, <2>3, <2>4
<1>12. \A d \in Commands : pending'[d].attempt <= Tries[d] /\ (pending'[d] # None => fence'[d] = "open")
  <2> TAKE d \in Commands
  <2>1. CASE d = c
    BY <1>5, <2>1, CommandFacts
  <2>2. CASE d # c
    BY <1>1, <1>5, <2>2 DEF Books
  <2> QED BY <2>1, <2>2
<1>13. Books(asked', pending', fence', unfenced', told')
  BY <1>1, <1>2, <1>3, <1>5, <1>9, <1>10, <1>11, <1>12 DEF Books
<1>14. Keeps(asked, pending, fence, unfenced, asked', pending', fence', unfenced')
  BY <1>2, <1>3, <1>5 DEF Keeps, Traced
<1>15. Traced(c, r, asked', pending', fence', unfenced')
  BY <1>2, <1>3, <1>5 DEF Traced
<1>16. Posts(c, r)
  BY DEF Posts
<1> HIDE DEF c
<1> QED BY <1>1, <1>2, <1>3, <1>4, <1>13, <1>14, <1>15, <1>16, Posted DEF CommandStep

LEMMA RetryStep ==
    ASSUME MotorInv, CommandInv, NEW c \in Commands, NEW accepted, Retry(c, accepted), UNCHANGED page
    PROVE  CommandStep
<1>1. /\ pending[c] # None /\ pending[c].attempt < Tries[c] /\ Transmit(c, pending[c], accepted)
      /\ UNCHANGED <<page, target, ready, armed, asked, switches, queue, working, air, left, stolen>>
  BY DEF Retry, MayRetry, baseVars, wireVars
<1>2. Holds(c, pending[c], asked)
  BY <1>1, HeldByPending
<1>3. BaseOK' /\ asked <= asked'
  BY <1>1, BaseKept DEF CommandInv
<1>4. /\ Books(asked', pending', fence', unfenced', told')
      /\ Keeps(asked, pending, fence, unfenced, asked', pending', fence', unfenced')
      /\ Traced(c, pending[c].req, asked', pending', fence', unfenced')
      /\ unfenced \subseteq unfenced' /\ Posts(c, pending[c].req) /\ pending[c].req \in Nat
  BY <1>1, <1>2, Transmitted
<1> QED BY <1>1, <1>3, <1>4, Posted DEF CommandStep

(* A transaction ends behind a fence.                                        *)
LEMMA EndedStep ==
    ASSUME MotorInv, CommandInv, NEW c \in Commands, pending[c] # None,
           pending' = [pending EXCEPT ![c] = None],
           fence' = [fence EXCEPT ![c] = "uncertain"] \/ fence' = [fence EXCEPT ![c] = "settling"],
           told' = Told(pending[c].req), \A x \in stolen' : x \in stolen \/ x[1] \in unfenced',
           air' \subseteq air,
           UNCHANGED <<page, target, ready, armed, asked, switches, queue, working, left, line, unfenced>>
    PROVE  CommandStep
<1>1. Holds(c, pending[c], asked) /\ pending[c].req \in Nat
  BY HeldByPending DEF Holds, Waiting
<1>2. BaseOK' /\ asked <= asked'
  BY BaseKept DEF CommandInv
<1>3. /\ Books(asked', pending', fence', unfenced', told')
      /\ Keeps(asked, pending, fence, unfenced, asked', pending', fence', unfenced')
      /\ Traced(c, pending[c].req, asked', pending', fence', unfenced')
  BY <1>1, WaitEnds
<1>4. Posts(c, pending[c].req)
  BY DEF Posts
<1> QED BY <1>1, <1>2, <1>3, <1>4, Posted DEF CommandStep

LEMMA TimeOutStep ==
    ASSUME MotorInv, CommandInv, NEW c \in Commands, TimeOut(c), UNCHANGED page
    PROVE  CommandStep
BY EndedStep DEF TimeOut, Expire, baseVars, wireVars

LEMMA DeadlinePassesStep ==
    ASSUME MotorInv, CommandInv, NEW c \in Commands, DeadlinePasses(c), UNCHANGED page
    PROVE  CommandStep
<1> DEFINE q == [pending[c] EXCEPT !.over = TRUE]
<1>1. /\ pending[c] # None /\ pending' = [pending EXCEPT ![c].over = TRUE]
      /\ UNCHANGED <<page, target, ready, armed, asked, switches, queue, working, air, left, line,
                     fence, unfenced, told, stolen>>
  BY DEF DeadlinePasses, baseVars, wireVars, history
<1>2. Holds(c, pending[c], asked) /\ pending[c] \in Waiting
  BY <1>1, HeldByPending DEF Holds
<1>3. /\ pending \in [Commands -> {None} \cup Waiting] /\ pending[c].attempt <= Tries[c]
  BY DEF CommandInv, Books
<1>4. pending' = [pending EXCEPT ![c] = q]
  BY <1>1
<1>5. q \in Waiting /\ q.req = pending[c].req /\ q.attempt <= Tries[c] /\ pending[c].req \in Nat
  BY <1>2, <1>3 DEF Waiting
<1> HIDE DEF q
<1>6. /\ Books(asked', pending', fence', unfenced', told')
      /\ Keeps(asked, pending, fence, unfenced, asked', pending', fence', unfenced')
      /\ Traced(c, pending[c].req, asked', pending', fence', unfenced')
  <2> DEFINE p == pending[c]
             ps == [pending EXCEPT ![c] = q]
  <2>1. Holds(c, p, asked) /\ q \in Waiting /\ q.req = p.req /\ q.attempt <= Tries[c]
    BY <1>2, <1>5
  <2> HIDE DEF p
  <2>2. /\ Books(asked, ps, fence, unfenced, told)
        /\ Keeps(asked, pending, fence, unfenced, asked, ps, fence, unfenced)
        /\ Traced(c, p.req, asked, ps, fence, unfenced)
    BY <2>1, WaitsOn
  <2> QED BY <1>1, <1>4, <2>2 DEF p
<1>7. BaseOK' /\ asked <= asked' /\ Posts(c, pending[c].req)
  BY <1>1, BaseKept DEF CommandInv, Posts
<1> QED BY <1>1, <1>5, <1>6, <1>7, Posted DEF CommandStep

LEMMA WindowEndsStep ==
    ASSUME MotorInv, CommandInv, NEW c \in Commands, WindowEnds(c), UNCHANGED page
    PROVE  CommandStep
<1>1. /\ fence[c] # "open" /\ Drained(c) /\ fence' = [fence EXCEPT ![c] = "open"]
      /\ UNCHANGED <<page, target, ready, armed, asked, switches, queue, working, air, left, line,
                     pending, unfenced, told, stolen>>
  BY DEF WindowEnds, baseVars, wireVars, history
<1>2. /\ Books(asked, pending, fence, unfenced, told) /\ BaseOK
      /\ AllTraced(asked, pending, fence, unfenced, line, queue, working, air)
      /\ asked \in Nat /\ asked <= asked
  BY CommandFacts DEF CommandInv, BaseOK
<1>3. /\ fence' \in [Commands -> {"open", "settling", "uncertain"}] /\ fence'[c] = "open"
      /\ \A d \in Commands \ {c} : fence'[d] = fence[d]
  BY <1>1, <1>2 DEF Books
<1>4. Books(asked', pending', fence', unfenced', told')
  BY <1>1, <1>2, <1>3 DEF Books
<1>5. /\ line \in Seq(Messages(page.uses)) /\ queue \in Seq(Frames(page.uses))
      /\ DOMAIN line = 1..Len(line) /\ DOMAIN queue = 1..Len(queue)
  BY LenProperties DEF MotorInv
<1>6. AllTraced(asked', pending', fence', unfenced', line', queue', working', air')
  <2>1. \A i \in 1..Len(line) : line[i].of # c
    BY <1>1, <1>5 DEF Drained
  <2>2. \A i \in 1..Len(queue) : queue[i].of # c
    BY <1>1, <1>5 DEF Drained
  <2>3. (\A w \in working : w.of # c) /\ (\A a \in air : a.of # c)
    BY <1>1 DEF Drained
  <2>4. (\A w \in working : w.of \in Commands) /\ (\A a \in air : a.of \in Commands)
    BY DEF CommandInv, Working, Acks
  <2>5. \A d \in Commands \ {c} : \A r : Traced(d, r, asked, pending, fence, unfenced)
            => Traced(d, r, asked', pending', fence', unfenced')
    BY <1>1, <1>3 DEF Traced
  <2> QED BY <1>1, <1>2, <2>1, <2>2, <2>3, <2>4, <2>5 DEF AllTraced
<1>7. BaseOK'
  BY <1>1, <1>2, BaseKept
<1>8. CommandInv'
  BY <1>1, <1>4, <1>6, <1>7 DEF CommandInv, AckAnswersRequest
<1>9. MotorStep
  BY <1>1, <1>2, LineStays DEF BaseOK
<1> QED BY <1>8, <1>9 DEF CommandStep

(* Nothing of the transactions changes, and orders and answers move on.      *)
LEMMA MovedOn ==
    ASSUME MotorInv, CommandInv, MotorStep, BaseOK',
           UNCHANGED <<page, asked, pending, fence, told, stolen, unfenced>>,
           working' \subseteq Working, air' \subseteq Acks,
           \A i \in 1..Len(line') : line'[i].of \in Commands => \E j \in 1..Len(line) : line'[i] = line[j],
           \A i \in 1..Len(queue') :
              \/ \E j \in 1..Len(queue) : queue'[i] = queue[j]
              \/ \E j \in 1..Len(line) : queue'[i] = line[j],
           \A w \in working' : \/ w \in working
                               \/ \E j \in 1..Len(queue) : /\ queue[j].of = w.of /\ queue[j].req = w.req
                                                           /\ w.of \in Commands,
           \A a \in air' : a \in air \/ \E w \in working : w.of = a.of /\ w.req = a.req
    PROVE  CommandStep
<1>1. Books(asked', pending', fence', unfenced', told')
  BY DEF CommandInv
<1>2. Keeps(asked, pending, fence, unfenced, asked', pending', fence', unfenced')
  BY DEF Keeps
<1>3. AllTraced(asked', pending', fence', unfenced', line', queue', working', air')
  BY <1>2, StillTraced
<1> QED BY <1>1, <1>3 DEF CommandStep, CommandInv, AckAnswersRequest

(* A step of the base, or none.                                              *)
LEMMA CommandsIdle ==
    ASSUME MotorInv, CommandInv, BaseOK', armed' => armed,
           UNCHANGED <<page, asked, pending, fence, told, stolen, unfenced, line, queue, working, air, left>>
    PROVE  CommandStep
<1>1. asked \in Nat /\ asked <= asked
  BY CommandFacts DEF CommandInv, BaseOK
<1>2. MotorStep
  BY <1>1, LineStays DEF BaseOK
<1> QED BY <1>2, MovedOn DEF CommandInv

LEMMA HandleAckStep ==
    ASSUME MotorInv, CommandInv, NEW a \in air, NEW accepted, HandleAck(a, accepted), UNCHANGED page
    PROVE  CommandStep
<1> DEFINE c == a.of
           p == pending[c]
<1>1. /\ air' = air \ {a}
      /\ stolen' = IF p # None /\ a.req # p.req THEN stolen \cup {<<a.req, p.req>>} ELSE stolen
      /\ UNCHANGED <<page, target, ready, armed, asked, switches, queue, working, left>>
  BY DEF HandleAck, baseVars
<1>2. c \in Commands /\ Traced(c, a.req, asked, pending, fence, unfenced)
  <2>1. a \in Acks /\ Traced(a.of, a.req, asked, pending, fence, unfenced)
    BY DEF CommandInv, AllTraced
  <2> QED BY <2>1 DEF Acks
<1>3. p # None => Holds(c, p, asked)
  BY <1>2, HeldByPending
<1>4. p # None /\ a.req # p.req => a.req \in unfenced
  BY <1>2, <1>3 DEF Holds, Traced
<1>5. \A x \in stolen' : x \in stolen \/ x[1] \in unfenced
  BY <1>1, <1>4
<1>6. BaseOK' /\ asked <= asked'
  BY <1>1, BaseKept DEF CommandInv
<1>7. \/ /\ p = None
         /\ fence' = IF fence[c] # "open" /\ a.result # "progress" THEN Answered(c) ELSE fence
         /\ UNCHANGED <<pending, line, told, unfenced>>
      \/ /\ p # None /\ Rearm(c) /\ UNCHANGED <<line, unfenced>>
      \/ /\ p # None /\ MayRetry(c) /\ Transmit(c, p, accepted)
      \/ /\ p # None
         /\ pending' = [pending EXCEPT ![c] = None]
         /\ fence' = Answered(c)
         /\ told' = Told(p.req)
         /\ UNCHANGED <<line, unfenced>>
  BY DEF HandleAck
<1> HIDE DEF c
<1>8. CASE p = None /\ fence' = (IF fence[c] # "open" /\ a.result # "progress" THEN Answered(c) ELSE fence)
           /\ UNCHANGED <<pending, line, told, unfenced>>
  <2>1. Books(asked, pending, fence, unfenced, told)
    BY DEF CommandInv
  <2>2. /\ fence' \in [Commands -> {"open", "settling", "uncertain"}]
        /\ \A d \in Commands : d # c => fence'[d] = fence[d]
        /\ fence[c] # "open" => fence'[c] # "open"
    BY <1>2, <1>8, <2>1 DEF Books, Answered
  <2>3. Books(asked', pending', fence', unfenced', told')
    BY <1>1, <1>2, <1>8, <2>1, <2>2 DEF Books
  <2>4. Keeps(asked, pending, fence, unfenced, asked', pending', fence', unfenced')
    BY <1>1, <1>2, <1>8, <2>2 DEF Keeps, Traced
  <2>5. Traced(c, a.req, asked', pending', fence', unfenced') /\ a.req \in Nat
    BY <1>2, <2>4 DEF Keeps, CommandInv, Acks
  <2>6. Posts(c, a.req)
    BY <1>8 DEF Posts
  <2> QED BY <1>1, <1>2, <1>5, <1>6, <1>8, <2>3, <2>4, <2>5, <2>6, Posted DEF CommandStep
<1>9. CASE p # None /\ Rearm(c) /\ UNCHANGED <<line, unfenced>>
  <2>1. CASE pending[c].over
    <3>1. Expire(c)
      BY <1>9, <2>1 DEF Rearm
    <3> QED BY <1>1, <1>2, <1>5, <1>9, <3>1, EndedStep DEF Expire
  <2>2. CASE ~pending[c].over
    <3>1. UNCHANGED <<pending, fence, told>>
      BY <1>9, <2>2 DEF Rearm
    <3>2. Books(asked', pending', fence', unfenced', told')
      BY <1>1, <1>9, <3>1 DEF CommandInv
    <3>3. Keeps(asked, pending, fence, unfenced, asked', pending', fence', unfenced')
      BY <1>1, <1>9, <3>1 DEF Keeps
    <3>4. Traced(c, a.req, asked', pending', fence', unfenced') /\ a.req \in Nat
      BY <1>2, <3>3 DEF Keeps, CommandInv, Acks
    <3>5. Posts(c, a.req)
      BY <1>9 DEF Posts
    <3> QED BY <1>1, <1>2, <1>5, <1>6, <1>9, <3>2, <3>3, <3>4, <3>5, Posted DEF CommandStep
  <2> QED BY <2>1, <2>2
<1>10. CASE p # None /\ MayRetry(c) /\ Transmit(c, p, accepted)
  <2>1. p.attempt < Tries[c]
    BY <1>10 DEF MayRetry
  <2>2. Holds(c, p, asked) /\ Transmit(c, p, accepted)
    BY <1>3, <1>10
  <2> HIDE DEF p
  <2>3. /\ Books(asked', pending', fence', unfenced', told')
        /\ Keeps(asked, pending, fence, unfenced, asked', pending', fence', unfenced')
        /\ Traced(c, p.req, asked', pending', fence', unfenced')
        /\ unfenced \subseteq unfenced' /\ Posts(c, p.req) /\ p.req \in Nat
    BY <1>1, <1>2, <2>1, <2>2, Transmitted
  <2>4. \A x \in stolen' : x \in stolen \/ x[1] \in unfenced'
    BY <1>5, <2>3
  <2> QED BY <1>1, <1>2, <1>6, <2>3, <2>4, Posted DEF CommandStep
<1>11. CASE p # None /\ pending' = [pending EXCEPT ![c] = None] /\ fence' = Answered(c)
            /\ told' = Told(p.req) /\ UNCHANGED <<line, unfenced>>
  BY <1>1, <1>2, <1>5, <1>11, EndedStep DEF Answered
<1> QED BY <1>7, <1>8, <1>9, <1>10, <1>11

LEMMA AckDroppedStep ==
    ASSUME MotorInv, CommandInv, NEW a \in air, AckDropped(a), UNCHANGED page
    PROVE  CommandStep
<1>1. /\ air' = air \ {a}
      /\ UNCHANGED <<page, target, ready, armed, asked, switches, pending, fence, line, queue, working, left,
                     told, stolen, unfenced>>
  BY DEF AckDropped, baseVars, history
<1>2. BaseOK' /\ asked <= asked' /\ asked' \in Nat
  BY <1>1, BaseKept DEF CommandInv
<1>3. MotorStep
  BY <1>1, <1>2, LineStays DEF BaseOK
<1> QED BY <1>1, <1>2, <1>3, MovedOn DEF CommandInv

(* One request more.                                                         *)
LEMMA OneMoreAsked ==
    ASSUME CommandInv, NEW r \in Requests, r = asked + 1
    PROVE  /\ Books(r, pending, fence, unfenced, told)
           /\ Keeps(asked, pending, fence, unfenced, r, pending, fence, unfenced)
<1>1. Books(asked, pending, fence, unfenced, told) /\ asked \in 0..MaxRequests
  BY DEF CommandInv, BaseOK
<1>2. /\ \A k : k \in 1..asked => k \in 1..r
      /\ \A k \in Requests : k > r => k > asked
  BY <1>1, CommandFacts
<1>3. Books(r, pending, fence, unfenced, told)
  BY <1>1, <1>2 DEF Books
<1>4. Keeps(asked, pending, fence, unfenced, r, pending, fence, unfenced)
  BY <1>2 DEF Keeps, Traced
<1> QED BY <1>3, <1>4

(* What a motor test posts concerns motors.                                  *)
LEMMA MotorMessagesListed ==
    ASSUME MotorInv, NEW ms \in SUBSET (Motors \cap page.uses), NEW kind \in {"start", "stop"},
           NEW ok \in SUBSET ms, NEW r \in Nat
    PROVE  /\ MotorMessages(ms, kind, r, ok) \in Seq(Messages(page.uses))
           /\ \A i \in 1..Len(MotorMessages(ms, kind, r, ok)) :
                 MotorMessages(ms, kind, r, ok)[i].of \in Motors
<1> DEFINE ws == Withdrawals(ms)
           s == SetToSeq(ok)
           os == [i \in DOMAIN s |-> Order(s[i], kind, r, 1)]
           g(i) == Order(s[i], kind, r, 1)
<1>1. target \in Vehicles
  BY DEF MotorInv
<1>2. ws \in Seq(Messages(page.uses)) /\ \A i \in 1..Len(ws) : ws[i].of \in Motors
  BY <1>1, WithdrawalsListed
<1>3. s \in Seq(ok)
  BY CommandAssumption, FS_Subset, SetListed DEF CommandAssumption
<1>4. DOMAIN s = 1..Len(s) /\ Len(s) \in Nat /\ \A i \in 1..Len(s) : s[i] \in ok
  BY <1>3, LenProperties, ElementOfSeq
<1>5. \A i \in 1..Len(s) : g(i) \in Messages(page.uses) /\ g(i).of \in Motors
  BY <1>1, <1>4 DEF Order, Messages, Frames
<1>6. os = [i \in 1..Len(s) |-> g(i)]
  BY <1>4
<1>7. MotorMessages(ms, kind, r, ok) = ws \o os
  BY DEF MotorMessages
<1> HIDE DEF ws, s, g, os
<1>8. os \in [1..Len(s) -> Messages(page.uses)] /\ \A i \in 1..Len(s) : os[i].of \in Motors
  BY <1>5, <1>6
<1>9. os \in Seq(Messages(page.uses))
  BY <1>4, <1>8, SeqDef
<1>10. Len(os) = Len(s)
  <2>1. DOMAIN os = 1..Len(s)
    BY <1>8
  <2> QED BY <1>4, <1>9, <2>1, LenProperties
<1> QED BY <1>2, <1>7, <1>8, <1>9, <1>10, Joined

LEMMA MotorTestKept ==
    ASSUME MotorInv, CommandInv, NEW ms \in SUBSET (Motors \cap page.uses), NEW kind \in {"start", "stop"},
           NEW ok \in SUBSET ms, MotorTest(ms, kind, ok), UNCHANGED page
    PROVE  CommandStep
<1>1. PICK r \in Requests : NextRequest(r) /\ line' = line \o MotorMessages(ms, kind, r, ok)
  BY DEF MotorTest
<1>2. /\ r = asked + 1 /\ asked' = r
      /\ UNCHANGED <<page, target, ready, armed, switches, pending, fence, queue, working, air,
                     told, stolen, unfenced>>
  BY <1>1 DEF MotorTest, NextRequest, wireVars, history
<1>3. BaseOK'
  BY <1>1, <1>2, BaseKept DEF CommandInv
<1>4. /\ Books(asked', pending', fence', unfenced', told')
      /\ Keeps(asked, pending, fence, unfenced, asked', pending', fence', unfenced')
  BY <1>2, OneMoreAsked
<1> DEFINE es == MotorMessages(ms, kind, r, ok)
<1>5. es \in Seq(Messages(page.uses)) /\ line' = line \o es /\ \A i \in 1..Len(es) : es[i].of \in Motors
  BY <1>1, CommandFacts, MotorMessagesListed
<1> HIDE DEF es
<1>6. \A i \in 1..Len(line') : line'[i].of \in Commands => \E j \in 1..Len(line) : line'[i] = line[j]
  BY <1>5, LineTraced, CommandFacts
<1>7. AllTraced(asked', pending', fence', unfenced', line', queue', working', air')
  BY <1>2, <1>4, <1>6, StillTraced
<1>8. CommandInv'
  BY <1>2, <1>3, <1>4, <1>7 DEF CommandInv, AckAnswersRequest
<1> QED BY <1>8, MotorTestStep DEF CommandStep
-----------------------------------------------------------------------------
(* What happens outside the bridge.                                          *)
LEMMA HandleMessageKept ==
    ASSUME MotorInv, CommandInv, HandleMessage, UNCHANGED page
    PROVE  CommandStep
<1> DEFINE h == Head(line)
<1>1. /\ line # <<>> /\ line' = Tail(line)
      /\ queue' = IF h.kind = "withdraw" THEN Without(h.of) ELSE Append(queue, h)
      /\ UNCHANGED <<page, target, ready, armed, asked, switches, pending, fence, working, air,
                     told, stolen, unfenced>>
  BY DEF HandleMessage, baseVars, history
<1>2. line \in Seq(Messages(page.uses)) /\ queue \in Seq(Frames(page.uses))
  BY DEF MotorInv
<1>3. /\ \A i \in 1..Len(line') : \E j \in 1..Len(line) : line'[i] = line[j]
      /\ h = line[1] /\ 1 \in 1..Len(line)
  BY <1>1, <1>2, Popped
<1> HIDE DEF h
<1>4. \A i \in 1..Len(queue') : \/ \E j \in 1..Len(queue) : queue'[i] = queue[j]
                                \/ \E j \in 1..Len(line) : queue'[i] = line[j]
  <2>1. CASE h.kind = "withdraw"
    <3> DEFINE at == {i \in DOMAIN queue : ~(queue[i].kind = "start" /\ queue[i].of = h.of)}
               q2 == EntriesAt(queue, at)
    <3>1. queue' = q2
      BY <1>1, <2>1 DEF Without
    <3>2. Draws(q2, Frames(page.uses), queue, at, Len(queue))
      BY <1>2, EntriesDrawn
    <3> HIDE DEF q2
    <3>3. PICK g : Places(q2, queue, Len(queue), g)
      BY <3>2 DEF Draws
    <3> QED BY <3>1, <3>3 DEF Places
  <2>2. CASE h.kind # "withdraw"
    <3>1. queue' = Append(queue, h) /\ h \in Frames(page.uses)
      BY <1>1, <1>3, <2>2, MotorFacts
    <3>2. /\ Len(queue') = Len(queue) + 1 /\ queue'[Len(queue) + 1] = h
          /\ \A j \in 1..Len(queue) : queue'[j] = queue[j]
          /\ \A j \in 1..Len(queue) + 1 : j = Len(queue) + 1 \/ j \in 1..Len(queue)
      BY <1>2, <3>1, Pushed
    <3> QED BY <1>3, <3>2
  <2> QED BY <2>1, <2>2
<1>5. BaseOK'
  BY <1>1, BaseKept DEF CommandInv
<1> QED BY <1>1, <1>3, <1>4, <1>5, HandleMessageStep, MovedOn DEF CommandInv

LEMMA DepartKept ==
    ASSUME MotorInv, CommandInv, NEW i \in DOMAIN queue, NEW heard, Depart(i, heard), UNCHANGED page
    PROVE  CommandStep
<1> DEFINE e == queue[i]
           q2 == RemoveAt(queue, i)
           w2 == [of |-> e.of, req |-> e.req, n |-> e.n, by |-> e.to]
<1>1. /\ queue' = q2
      /\ working' = IF heard /\ e.of \in Commands THEN working \cup {w2} ELSE working
      /\ UNCHANGED <<page, target, ready, armed, asked, switches, pending, fence, line, air,
                     told, stolen, unfenced>>
  BY DEF Depart, baseVars, history
<1>2. /\ queue \in Seq(Frames(page.uses)) /\ i \in 1..Len(queue) /\ Len(queue) \in Nat
  BY LenProperties DEF MotorInv
<1>3. /\ Len(q2) = Len(queue) - 1
      /\ \A k \in 1..Len(queue) - 1 : q2[k] = IF k < i THEN queue[k] ELSE queue[k + 1]
  BY <1>2, TakenOut
<1> HIDE DEF q2
<1>4. \A k \in 1..Len(queue') : \E j \in 1..Len(queue) : queue'[k] = queue[j]
  <2> TAKE k \in 1..Len(queue')
  <2>1. k \in 1..Len(queue) - 1 /\ k \in 1..Len(queue) /\ k + 1 \in 1..Len(queue)
    BY <1>1, <1>2, <1>3
  <2> QED BY <1>1, <1>3, <2>1
<1>5. e \in Frames(page.uses)
  BY <1>2, MotorFacts
<1>6. w2.of = e.of /\ w2.req = e.req /\ (e.of \in Commands => w2 \in Working)
  BY <1>5 DEF Frames, Working
<1> HIDE DEF w2, e
<1>7. /\ working' \subseteq Working
      /\ \A w \in working' : \/ w \in working
                             \/ w.of = e.of /\ w.req = e.req /\ w.of \in Commands
  BY <1>1, <1>6 DEF CommandInv
<1>8. \A w \in working' : \/ w \in working
                          \/ \E j \in 1..Len(queue) : /\ queue[j].of = w.of /\ queue[j].req = w.req
                                                      /\ w.of \in Commands
  BY <1>2, <1>7 DEF e
<1>9. BaseOK'
  BY <1>1, BaseKept DEF CommandInv
<1> QED BY <1>1, <1>4, <1>7, <1>8, <1>9, DepartStep, MovedOn DEF CommandInv

LEMMA AnswerKept ==
    ASSUME MotorInv, CommandInv, NEW w \in working, NEW result \in {"progress", "later", "result"},
           Answer(w, result), UNCHANGED page
    PROVE  CommandStep
<1> DEFINE a2 == [of |-> w.of, req |-> w.req, n |-> w.n, from |-> w.by, result |-> result]
<1>1. /\ working' \subseteq working /\ air' = air \cup {a2}
      /\ UNCHANGED <<page, target, ready, armed, asked, switches, pending, fence, line, queue, left,
                     told, stolen, unfenced>>
  BY DEF Answer, baseVars, history
<1>2. a2 \in Acks /\ a2.of = w.of /\ a2.req = w.req
  BY DEF CommandInv, Working, Acks
<1> HIDE DEF a2
<1>3. /\ air' \subseteq Acks /\ working' \subseteq Working
      /\ \A a \in air' : a \in air \/ \E x \in working : x.of = a.of /\ x.req = a.req
  BY <1>1, <1>2 DEF CommandInv
<1>4. BaseOK' /\ asked' \in Nat /\ asked <= asked'
  BY <1>1, BaseKept DEF CommandInv
<1>5. MotorStep
  BY <1>1, <1>4, LineStays DEF BaseOK
<1> QED BY <1>1, <1>3, <1>4, <1>5, MovedOn
-----------------------------------------------------------------------------
(* A heartbeat, the selection of a target, the parameters, and the whole.    *)
LEMMA HeartbeatKept ==
    ASSUME MotorInv, CommandInv, NEW isArmed \in BOOLEAN, NEW changed \in BOOLEAN, NEW refused \in BOOLEAN,
           Heartbeat(isArmed, changed, refused), UNCHANGED page
    PROVE  CommandStep
<1>1. /\ armed' = IF refused THEN armed ELSE isArmed
      /\ ready' = ~refused
      /\ line' = IF Unsafe(isArmed, changed) THEN line \o Withdrawals(Motors) ELSE line
      /\ UNCHANGED <<page, target, asked, switches, pending, fence, queue, working, air, left,
                     told, stolen, unfenced>>
  BY DEF Heartbeat, BaseHeartbeat, CommandsHear, wireVars, history
<1>2. BaseOK /\ working \subseteq Working /\ air \subseteq Acks /\ asked \in Nat /\ asked <= asked
  BY CommandFacts DEF CommandInv, BaseOK
<1>3. armed' \in BOOLEAN /\ ready' \in BOOLEAN /\ target' \in Vehicles
  BY <1>1, <1>2 DEF BaseOK
<1>4. BaseOK'
  BY <1>1, <1>2, <1>3 DEF BaseOK
<1>5. CASE Unsafe(isArmed, changed)
  <2> DEFINE es == Withdrawals(Motors)
  <2>1. /\ es \in Seq(Messages(page.uses))
        /\ \A i \in 1..Len(es) : es[i].kind = "withdraw" /\ es[i].of \in Motors
        /\ \A m \in Motors \cap page.uses : \E b \in 1..Len(es) : Withdraws(es[b], m)
    BY <1>2, WithdrawalsListed DEF BaseOK
  <2>2. line' = line \o es
    BY <1>1, <1>5
  <2> HIDE DEF es
  <2>3. MotorStep
    BY <1>1, <1>2, <1>3, <2>1, <2>2, LineGrows
  <2>4. \A i \in 1..Len(line') : line'[i].of \in Commands => \E j \in 1..Len(line) : line'[i] = line[j]
    BY <2>1, <2>2, LineTraced, CommandFacts
  <2> QED BY <1>1, <1>2, <1>4, <2>3, <2>4, MovedOn
<1>6. CASE ~Unsafe(isArmed, changed)
  <2>1. armed' => armed
    BY <1>1, <1>6 DEF Unsafe, BecomesArmed
  <2> QED BY <1>1, <1>4, <1>6, <2>1, CommandsIdle
<1> QED BY <1>5, <1>6

LEMMA ReselectKept ==
    ASSUME MotorInv, CommandInv, NEW v \in Vehicles, Reselect(v), UNCHANGED page
    PROVE  CommandStep
<1>1. /\ target' = v /\ switches < page.switches /\ switches' = switches + 1
      /\ ready' = FALSE /\ armed' = FALSE
      /\ line' = line \o Withdrawals(Motors) /\ told' = Cancelled
      /\ pending' = [c \in Commands |-> None] /\ fence' = [c \in Commands |-> "open"]
      /\ unfenced' = 1..asked
      /\ UNCHANGED <<page, asked, queue, working, air, left, stolen>>
  BY DEF Reselect, BaseReselect, CommandsReset, wireVars
<1>2. /\ BaseOK /\ AckAnswersRequest /\ working \subseteq Working /\ air \subseteq Acks
      /\ Books(asked, pending, fence, unfenced, told)
      /\ asked \in Nat /\ asked <= asked
  BY CommandFacts DEF CommandInv, BaseOK
<1>3. BaseOK'
  <2>1. /\ page \in Pages /\ page.switches \in Nat /\ switches \in Nat /\ switches + 1 <= page.switches
        /\ asked \in 0..MaxRequests
    BY <1>1, <1>2, BaseAssumption DEF BaseOK, BaseAssumption
  <2>2. switches' \in 0..page.switches
    BY <1>1, <2>1
  <2>3. page' = page /\ asked' = asked /\ ready' \in BOOLEAN /\ armed' \in BOOLEAN /\ target' \in Vehicles
    BY <1>1
  <2> QED BY <2>1, <2>2, <2>3 DEF BaseOK
<1> DEFINE es == Withdrawals(Motors)
<1>4. /\ es \in Seq(Messages(page.uses))
      /\ \A i \in 1..Len(es) : es[i].kind = "withdraw" /\ es[i].of \in Motors
  BY <1>2, WithdrawalsListed DEF BaseOK
<1>5. line' = line \o es
  BY <1>1
<1> HIDE DEF es
<1>6. MotorStep
  BY <1>1, <1>2, <1>3, <1>4, <1>5, LineGrows DEF BaseOK
<1>7. \A i \in 1..Len(line') : line'[i].of \in Commands => \E j \in 1..Len(line) : line'[i] = line[j]
  BY <1>4, <1>5, LineTraced, CommandFacts
<1>8. told' \in [Requests -> 0..1] /\ \A r \in Requests : r > asked => told'[r] = 0
  <2>1. ASSUME NEW r \in Requests
        PROVE  /\ told'[r] = told[r] + (IF \E c \in Commands : pending[c].req = r THEN 1 ELSE 0)
               /\ told[r] \in 0..1 /\ (r > asked => told[r] = 0)
    BY <1>1, <1>2 DEF Cancelled, Books
  <2>2. ASSUME NEW r \in Requests, NEW c \in Commands, pending[c].req = r
        PROVE  told[r] = 0 /\ ~(r > asked)
    <3>1. pending[c] # None
      BY <2>2, CommandFacts
    <3>2. told[pending[c].req] = 0 /\ pending[c].req \in 1..asked
      BY <1>2, <3>1 DEF Books
    <3> QED BY <1>2, <2>2, <3>2
  <2>3. \A r \in Requests : told'[r] \in 0..1 /\ (r > asked => told'[r] = 0)
    BY <2>1, <2>2
  <2>4. told' = [r \in Requests |-> told[r] + (IF \E c \in Commands : pending[c].req = r THEN 1 ELSE 0)]
    BY <1>1 DEF Cancelled
  <2> QED BY <2>3, <2>4
<1>9. Books(asked', pending', fence', unfenced', told')
  <2>1. \A c \in Commands : pending'[c] = None /\ fence'[c] = "open" /\ None.attempt <= Tries[c]
    BY <1>1, CommandFacts
  <2> QED BY <1>1, <1>8, <2>1 DEF Books
<1>10. Keeps(asked, pending, fence, unfenced, asked', pending', fence', unfenced')
  BY <1>1 DEF Keeps, Traced
<1>11. AllTraced(asked', pending', fence', unfenced', line', queue', working', air')
  BY <1>1, <1>7, <1>10, StillTraced
<1>12. AckAnswersRequest'
  <2>1. unfenced \subseteq unfenced'
    BY <1>1, <1>2 DEF Books
  <2> QED BY <1>1, <1>2, <2>1 DEF AckAnswersRequest
<1>13. CommandInv'
  BY <1>1, <1>2, <1>3, <1>9, <1>11, <1>12 DEF CommandInv
<1> QED BY <1>6, <1>13 DEF CommandStep

(* A step of the parameters takes a request or none, and touches of the base *)
(* only whether the vehicle is ready.                                        *)
LEMMA ParamsAsk ==
    ASSUME ParamNext, ready \in BOOLEAN
    PROVE  /\ ready' \in BOOLEAN /\ UNCHANGED <<target, armed, switches>>
           /\ UNCHANGED asked \/ \E r \in Requests : NextRequest(r)
<1>1. ASSUME NEW p, NEW ok, NEW taken, Settle(p, ok, taken) PROVE ready' \in BOOLEAN
  BY <1>1 DEF Settle, Continue, Write, End, Restore
<1>2. CASE AskParam
  BY <1>2 DEF AskParam, SetParam, ApplyAirframe, StartLoad, baseVars
<1>3. CASE ParamTimers
  BY <1>1, <1>3 DEF ParamTimers, SetTimeout, RetryMissing, baseVars
<1>4. CASE ParamsOutside
  BY <1>1, <1>4 DEF ParamsOutside, VehicleTakes, HandleValue, ValueLost, ConflictChanges, InvalidateAirframe,
                    baseVars
<1> QED BY <1>2, <1>3, <1>4 DEF ParamNext

LEMMA ParamNextKept ==
    ASSUME MotorInv, CommandInv, ParamNext, UNCHANGED commandVars, UNCHANGED page
    PROVE  CommandStep
<1>1. UNCHANGED <<page, pending, fence, line, queue, working, air, left, told, stolen, unfenced>>
  BY DEF commandVars, wireVars, history
<1>2. /\ ready' \in BOOLEAN /\ UNCHANGED <<target, armed, switches>>
      /\ UNCHANGED asked \/ \E r \in Requests : NextRequest(r)
  BY ParamsAsk DEF CommandInv, BaseOK
<1>3. CASE UNCHANGED asked
  <2>1. BaseOK'
    BY <1>1, <1>2, <1>3 DEF CommandInv, BaseOK
  <2> QED BY <1>1, <1>2, <1>3, <2>1, CommandsIdle
<1>4. ASSUME NEW r \in Requests, NextRequest(r) PROVE CommandStep
  BY <1>1, <1>2, <1>4, AskedOnly DEF wireVars
<1> QED BY <1>2, <1>3, <1>4

LEMMA CommandsKept == MotorInv /\ CommandInv /\ [Next]_vars => CommandStep
<1> SUFFICES ASSUME MotorInv, CommandInv, [Next]_vars PROVE CommandStep
  OBVIOUS
<1>1. CASE UNCHANGED vars
  <2>1. /\ UNCHANGED <<page, target, ready, armed, asked, switches>>
        /\ UNCHANGED <<pending, fence, line, queue, working, air, left, told, stolen, unfenced>>
    BY <1>1 DEF vars, baseVars, commandVars, wireVars, history
  <2>2. BaseOK'
    BY <2>1, BaseKept DEF CommandInv
  <2> QED BY <2>1, <2>2, CommandsIdle
<1>2. CASE AskCommand /\ UNCHANGED page
  BY <1>2, SendStep, SendRefusedStep, EmergencyDisarmStep, MotorTestKept DEF AskCommand
<1>3. CASE CommandTimers /\ UNCHANGED page
  BY <1>3, RetryStep, TimeOutStep, DeadlinePassesStep, WindowEndsStep DEF CommandTimers
<1>4. CASE HearAck /\ UNCHANGED page
  BY <1>4, HandleAckStep, AckDroppedStep DEF HearAck
<1>5. CASE Outside /\ UNCHANGED page
  BY <1>5, HandleMessageKept, DepartKept, AnswerKept DEF Outside
<1>6. CASE ParamNext /\ UNCHANGED commandVars /\ UNCHANGED page
  BY <1>6, ParamNextKept
<1>7. ASSUME NEW isArmed \in BOOLEAN, NEW changed \in BOOLEAN, NEW refused \in BOOLEAN,
             Heartbeat(isArmed, changed, refused), UNCHANGED page
      PROVE  CommandStep
  BY <1>7, HeartbeatKept
<1>8. ASSUME NEW v \in Vehicles, Reselect(v), UNCHANGED page PROVE CommandStep
  BY <1>8, ReselectKept
<1> QED BY <1>1, <1>2, <1>3, <1>4, <1>5, <1>6, <1>7, <1>8 DEF Next, CommandNext

LEMMA CommandsStart == Init => MotorInv /\ CommandInv
<1> SUFFICES ASSUME Init PROVE MotorInv /\ CommandInv
  OBVIOUS
<1>1. /\ page \in Pages /\ target \in page.on /\ ready = TRUE /\ armed \in BOOLEAN /\ asked = 0 /\ switches = 0
      /\ pending = [c \in Commands |-> None] /\ fence = [c \in Commands |-> "open"]
      /\ line = <<>> /\ queue = <<>> /\ working = {} /\ air = {}
      /\ told = [r \in Requests |-> 0] /\ stolen = {} /\ unfenced = {}
      /\ left = [x \in Motors \cup {Arming} |-> 0]
  BY DEF Init, BaseInit, CommandInit
<1>2. BaseOK
  <2>1. target \in Vehicles /\ page.switches \in Nat
    BY <1>1, BaseAssumption DEF BaseAssumption
  <2> QED BY <1>1, <2>1, CommandFacts DEF BaseOK
<1>3. Len(line) = 0 /\ Len(queue) = 0 /\ 1..0 = {}
  BY <1>1, EmptySeq
<1>4. \A m \in Motors : InOrder(m, queue, line, left[m], asked) /\ Covered(m, queue, line)
  <2> TAKE m \in Motors
  <2>1. left[m] = 0 /\ 0 <= 0
    BY <1>1
  <2> QED BY <1>1, <1>3, <2>1 DEF InOrder, Within, QueueInOrder, LineInOrder, LineAfterQueue, Covered
<1>5. MotorInv
  BY <1>1, <1>2, <1>4, EmptySeq DEF MotorInv, BaseOK
<1>6. Books(asked, pending, fence, unfenced, told)
  <2>1. \A c \in Commands : pending[c] = None /\ None.attempt <= Tries[c]
    BY <1>1, CommandFacts
  <2> QED BY <1>1, <2>1 DEF Books
<1>7. AllTraced(asked, pending, fence, unfenced, line, queue, working, air)
  BY <1>1, <1>3 DEF AllTraced
<1> QED BY <1>1, <1>2, <1>5, <1>6, <1>7 DEF CommandInv, AckAnswersRequest

LEMMA CommandsInvariant == Spec => [](MotorInv /\ CommandInv)
<1>1. MotorInv /\ CommandInv /\ [Next]_vars => (MotorInv /\ CommandInv)'
  BY CommandsKept DEF CommandStep, MotorStep
<1> QED BY <1>1, CommandsStart, PTL DEF Spec

(* Every transaction keeps within its bounds and has one final report, and a *)
(* command ends on the answer that was meant for it, for every number of     *)
(* commands, tries, vehicles and requests.                                   *)
THEOREM AnswersCredited == Spec => []CommandsAnswered
<1> SUFFICES ASSUME MotorInv, CommandInv, ParamInv PROVE CommandsAnswered
  BY CommandsInvariant, ParamsInvariant, PTL
<1>1. /\ BaseOK /\ AckAnswersRequest /\ Books(asked, pending, fence, unfenced, told)
      /\ asked \in 0..MaxRequests /\ MaxRequests \in Nat
  BY CommandFacts DEF CommandInv, BaseOK
<1>2. CommandTypeOK
  <2>1. ASSUME NEW c \in Commands
        PROVE  pending[c] \in [req : 0..asked, what : {"none", "arm", "disarm", "other"},
                               attempt : Nat, over : BOOLEAN]
    <3>1. CASE pending[c] = None
      BY <1>1, <3>1 DEF None
    <3>2. CASE pending[c] # None
      <4>1. pending[c] \in Waiting /\ pending[c].req \in 1..asked
        BY <1>1, <3>2 DEF Books
      <4> QED BY <1>1, <4>1 DEF Waiting
    <3> QED BY <3>1, <3>2
  <2>2. pending = [c \in Commands |-> pending[c]]
    BY <1>1 DEF Books
  <2>3. pending \in [Commands -> [req : 0..asked, what : {"none", "arm", "disarm", "other"},
                                  attempt : Nat, over : BOOLEAN]]
    BY <2>1, <2>2
  <2> QED BY <1>1, <2>3 DEF CommandTypeOK, BaseOK, Books
<1>3. ParamTypeOK
  <2>1. /\ SetTypes(pset, known) /\ SetBound(pset) /\ LineTypes /\ LoadOK /\ FrameOK(frame, frames, pset, known)
    BY DEF ParamInv
  <2>2. ASSUME NEW p \in Params
        PROVE  pset[p] \in [val : Values \cup {NoVal}, n : 0..SetAttempts, by : 0..frames]
    <3>1. pset[p] \in {NoSet} \cup PendingSets /\ pset[p].by \in 0..frames
      BY <2>1 DEF SetTypes, FrameOK
    <3>2. SetAttempts \in Nat
      BY ParamAssumption DEF ParamAssumption
    <3>3. CASE pset[p] = NoSet
      BY <3>1, <3>2, <3>3 DEF NoSet
    <3>4. CASE pset[p] \in PendingSets
      BY <3>1, <3>2, <3>4 DEF PendingSets
    <3> QED BY <3>1, <3>3, <3>4
  <2>3. pset \in [Params -> [val : Values \cup {NoVal}, n : 0..SetAttempts, by : 0..frames]]
    <3>1. pset = [p \in Params |-> pset[p]]
      BY <2>1 DEF SetTypes
    <3> QED BY <2>2, <3>1
  <2>4. load.got \subseteq Params /\ load.stalls \in 0..MaxStalls /\ load.got # Params
    BY <2>1 DEF LoadOK, LoadStates
  <2> QED BY <2>1, <2>3, <2>4 DEF ParamTypeOK, SetBound, LineTypes, FrameOK
<1>4. ReportedOnce
  BY <1>1 DEF ReportedOnce, Books
<1> QED BY <1>1, <1>2, <1>3, <1>4 DEF CommandsAnswered, TransactionsConsistent, BridgeTypeOK

(* No start of a motor escapes the stop, the update or the withdrawal that   *)
(* came after it, although stops overtake starts: for every number of motors *)
(* and every length of the two queues.                                       *)
THEOREM MotorsAreHeld == Spec => MotorsHeld
<1>1. MotorInv => ArmedNoStart
  <2> SUFFICES ASSUME MotorInv, armed
               PROVE  /\ \A i \in DOMAIN queue : queue[i].kind = "start" => Withdrawn(queue[i].of, 0)
                      /\ \A i \in DOMAIN line : line[i].kind = "start" => Withdrawn(line[i].of, i)
    BY DEF ArmedNoStart
  <2>1. /\ DOMAIN line = 1..Len(line) /\ DOMAIN queue = 1..Len(queue)
        /\ \A m \in Motors : Covered(m, queue, line)
    BY LenProperties DEF MotorInv
  <2>2. \A j \in 1..Len(line) : j > 0
    BY MotorFacts
  <2>3. ASSUME NEW i \in 1..Len(queue), queue[i].kind = "start" PROVE Withdrawn(queue[i].of, 0)
    <3>1. Covered(queue[i].of, queue, line)
      BY <2>1, <2>3, MotorFacts
    <3>2. PICK j \in 1..Len(line) : Withdraws(line[j], queue[i].of)
      BY <2>3, <3>1 DEF Covered
    <3> QED BY <2>1, <2>2, <3>2 DEF Withdrawn, Withdraws
  <2>4. ASSUME NEW i \in 1..Len(line), line[i].kind = "start" PROVE Withdrawn(line[i].of, i)
    <3>1. Covered(line[i].of, queue, line)
      BY <2>1, <2>4, MotorFacts
    <3>2. PICK j \in 1..Len(line) : j > i /\ Withdraws(line[j], line[i].of)
      BY <2>4, <3>1 DEF Covered
    <3> QED BY <2>1, <3>2 DEF Withdrawn, Withdraws
  <2> QED BY <2>1, <2>3, <2>4
<1>2. MotorInv /\ CommandInv /\ [Next]_vars => [\A m \in Motors : left'[m] >= left[m]]_commandVars
  BY CommandsKept DEF CommandStep, MotorStep
<1> QED BY <1>1, <1>2, CommandsInvariant, PTL DEF Spec, MotorsHeld, MotorsInOrder
=============================================================================
