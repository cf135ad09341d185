----------------------------- MODULE Runtime_proofs -----------------------------
(***************************************************************************)
(* Proofs about the modules around the Worker's core: which autopilot is   *)
(* bound, which frames are found and believed, what the parameter list of  *)
(* the page shows, for every number of autopilots, sources, links,         *)
(* generations and every length of a frame.                                *)
(***************************************************************************)
EXTENDS PageRuntime, FrameCodec, FrameTrust, TargetDiscovery, SequenceTheorems, FiniteSetTheorems,
        NaturalsInduction, TLAPS

(* What is drawn from the first n entries of a sequence keeps their order.   *)
Places(t, s, n, f) ==
    /\ f \in [1..Len(t) -> 1..n]
    /\ \A k \in 1..Len(t) : t[k] = s[f[k]]
    /\ \A j, k \in 1..Len(t) : j < k => f[j] < f[k]

Draws(t, S, s, at, n) ==
    /\ t \in Seq(S)
    /\ \E f : /\ Places(t, s, n, f)
              /\ \A k \in 1..Len(t) : f[k] \in at
              /\ \A i \in at : i \in 1..n => \E k \in 1..Len(t) : f[k] = i

LEMMA DrawsMore ==
    ASSUME NEW S, NEW s \in Seq(S), NEW at, NEW n \in 1..Len(s), NEW t, Draws(t, S, s, at, n - 1)
    PROVE  Draws(IF n \in at THEN Append(t, s[n]) ELSE t, S, s, at, n)
<1> PICK f : /\ Places(t, s, n - 1, f)
             /\ \A k \in 1..Len(t) : f[k] \in at
             /\ \A i \in at : i \in 1..n - 1 => \E k \in 1..Len(t) : f[k] = i
  BY DEF Draws
<1>1. Len(t) \in Nat /\ s[n] \in S /\ n \in Nat /\ Len(s) \in Nat
  BY LenProperties, ElementOfSeq DEF Draws
<1>2. \A k \in 1..Len(t) : f[k] \in 1..n - 1
  BY DEF Places
<1>0. \A i \in 1..n : i = n \/ i \in 1..n - 1
  OBVIOUS
<1>3. ASSUME n \notin at PROVE Draws(t, S, s, at, n)
  <2>1. f \in [1..Len(t) -> 1..n]
    BY <1>1, <1>2 DEF Places
  <2>2. \A i \in at : i \in 1..n => \E k \in 1..Len(t) : f[k] = i
    BY <1>0, <1>3
  <2> QED BY <2>1, <2>2 DEF Places, Draws
<1>4. ASSUME n \in at PROVE Draws(Append(t, s[n]), S, s, at, n)
  <2> DEFINE u == Append(t, s[n])
             m == Len(t)
             g == [k \in 1..m + 1 |-> IF k = m + 1 THEN n ELSE f[k]]
  <2>1. /\ u \in Seq(S) /\ Len(u) = m + 1
        /\ \A k \in 1..m : u[k] = t[k]
        /\ u[m + 1] = s[n]
    BY <1>1, AppendProperties DEF Draws
  <2>2. \A k \in 1..m + 1 : k = m + 1 \/ k \in 1..m
    BY <1>1
  <2>3. m + 1 \notin 1..m /\ m + 1 \in 1..m + 1 /\ \A k \in 1..m : k \in 1..m + 1
    BY <1>1
  <2>4. g[m + 1] = n /\ \A k \in 1..m : g[k] = f[k]
    BY <2>3
  <2>5. \A k \in 1..m + 1 : g[k] \in 1..n
    BY <1>1, <1>2, <2>2, <2>4
  <2>6. g \in [1..m + 1 -> 1..n]
    BY <2>5
  <2> HIDE DEF u, g
  <2>7. \A k \in 1..m + 1 : u[k] = s[g[k]] /\ g[k] \in at
    BY <1>4, <2>1, <2>2, <2>4 DEF Places
  <2>8. \A j, k \in 1..m + 1 : j < k => g[j] < g[k]
    <3> TAKE j, k \in 1..m + 1
    <3> HAVE j < k
    <3>1. j \in 1..m
      BY <1>1, <2>2
    <3>2. CASE k = m + 1
      BY <1>1, <1>2, <2>4, <3>1, <3>2
    <3>3. CASE k \in 1..m
      BY <2>4, <3>1, <3>3 DEF Places
    <3> QED BY <2>2, <3>2, <3>3
  <2>9. Places(u, s, n, g)
    BY <2>1, <2>6, <2>7, <2>8 DEF Places
  <2>10. \A i \in at : i \in 1..n => \E k \in 1..m + 1 : g[k] = i
    BY <1>0, <2>3, <2>4
  <2> QED BY <2>1, <2>7, <2>9, <2>10 DEF Draws, u
<1> QED BY <1>3, <1>4

LEMMA DrawsNothing == ASSUME NEW S, NEW s \in Seq(S), NEW at PROVE Draws(<<>>, S, s, at, 0)
<1> DEFINE f == [k \in 1..0 |-> k]
<1>1. <<>> \in Seq(S) /\ Len(<<>>) = 0 /\ 1..0 = {}
  BY EmptySeq
<1>2. f \in [1..0 -> 1..0]
  OBVIOUS
<1> HIDE DEF f
<1>3. Places(<<>>, s, 0, f)
  BY <1>1, <1>2 DEF Places
<1>4. \A i \in at : i \in 1..0 => \E k \in 1..0 : f[k] = i
  BY <1>1
<1> QED BY <1>1, <1>3, <1>4 DEF Draws

LEMMA LeastNumber ==
    ASSUME NEW T \in SUBSET Nat, T # {}
    PROVE  \E m \in T : \A k \in T : m <= k
<1>1. PICK m \in T : \A k \in T : ~(<<k, m>> \in OpToRel(<, Nat))
  BY NatLessThanWellFounded, WFMin
<1>2. \A k \in T : ~(k < m)
  BY <1>1 DEF OpToRel
<1> QED BY <1>2

(* The recursion of Purged, as far as n; there is a function that satisfies  *)
(* it, by the least number for which there is none.                          *)
Stays(s, t) == {n \in DOMAIN s : s[n].age <= StaleTicks \/ s[n].peer = t}
NextKept(g, s, t, n) ==
    IF n = 0 THEN <<>>
    ELSE IF s[n].age <= StaleTicks \/ s[n].peer = t THEN Append(g[n - 1], s[n])
    ELSE g[n - 1]
Recurs(g, s, t, n) == g = [i \in 0..n |-> NextKept(g, s, t, i)]

LEMMA KeptRecursively ==
    ASSUME NEW S, NEW s \in Seq(S), NEW t
    PROVE  \E g : Recurs(g, s, t, Len(s))
<1> DEFINE Bad == {n \in 0..Len(s) : ~\E g : Recurs(g, s, t, n)}
<1>0. Len(s) \in Nat
  BY LenProperties
<1>1. 0 \notin Bad
  <2> DEFINE g == [i \in 0..0 |-> <<>>]
  <2>1. \A i \in 0..0 : i = 0 /\ g[i] = <<>>
    OBVIOUS
  <2>2. g = [i \in 0..0 |-> NextKept(g, s, t, i)]
    BY <2>1 DEF NextKept
  <2> HIDE DEF g
  <2> QED BY <2>2 DEF Recurs
<1>2. ASSUME NEW n \in Bad, \A k \in Bad : n <= k PROVE FALSE
  <2>1. n \in 1..Len(s) /\ n - 1 \in 0..Len(s) /\ n - 1 \in Nat
    BY <1>0, <1>1
  <2>2. n - 1 \notin Bad
    BY <1>2, <2>1
  <2> PICK g : Recurs(g, s, t, n - 1)
    BY <2>1, <2>2
  <2> DEFINE h == [i \in 0..n |-> IF i = n THEN NextKept(g, s, t, n) ELSE g[i]]
  <2>3. /\ \A i \in 0..n : i = n \/ i \in 0..n - 1
        /\ n \in 0..n /\ n # 0 /\ n - 1 # n /\ n - 1 \in 0..n - 1
        /\ \A i \in 0..n - 1 : i # n /\ i \in 0..n /\ (i # 0 => i - 1 \in 0..n - 1)
    BY <2>1
  <2>4. h[n] = NextKept(g, s, t, n) /\ \A i \in 0..n - 1 : h[i] = g[i]
    BY <2>3
  <2>5. \A i \in 0..n - 1 : g[i] = NextKept(g, s, t, i)
    BY DEF Recurs
  <2>6. DOMAIN h = 0..n /\ h = [i \in 0..n |-> h[i]]
    OBVIOUS
  <2> HIDE DEF h
  <2>7. \A i \in 0..n - 1 : NextKept(h, s, t, i) = NextKept(g, s, t, i)
    BY <2>3, <2>4 DEF NextKept
  <2>8. NextKept(h, s, t, n) = NextKept(g, s, t, n)
    BY <2>3, <2>4 DEF NextKept
  <2>9. \A i \in 0..n : h[i] = NextKept(h, s, t, i)
    BY <2>3, <2>4, <2>5, <2>7, <2>8
  <2>10. h = [i \in 0..n |-> NextKept(h, s, t, i)]
    BY <2>6, <2>9
  <2> QED BY <2>10 DEF Recurs
<1>3. Bad = {}
  <2> SUFFICES ASSUME NEW n \in Bad PROVE FALSE
    OBVIOUS
  <2>1. Bad \in SUBSET Nat
    BY <1>0
  <2> HIDE DEF Bad
  <2>2. \E m \in Bad : \A k \in Bad : m <= k
    BY <2>1, LeastNumber
  <2> QED BY <1>2, <2>2
<1> QED BY <1>0, <1>3

(* A purged table is what stays of it, in order.                            *)
LEMMA PurgedDrawn ==
    ASSUME NEW S, NEW s \in Seq(S), NEW t
    PROVE  Draws(Purged(s, t), S, s, Stays(s, t), Len(s))
<1> DEFINE kept == CHOOSE g : g = [n \in 0..Len(s) |-> NextKept(g, s, t, n)]
       Bad == {n \in 0..Len(s) : ~Draws(kept[n], S, s, Stays(s, t), n)}
<1>0. Len(s) \in Nat /\ DOMAIN s = 1..Len(s)
  BY LenProperties
<1>1. Purged(s, t) = kept[Len(s)]
  BY DEF Purged, NextKept
<1>2. kept = [n \in 0..Len(s) |-> NextKept(kept, s, t, n)]
  <2>1. \E g : g = [n \in 0..Len(s) |-> NextKept(g, s, t, n)]
    <3> PICK g : Recurs(g, s, t, Len(s))
      BY KeptRecursively
    <3> QED BY DEF Recurs
  <2> QED BY <2>1
<1> HIDE DEF kept
<1>3. \A n \in 0..Len(s) : kept[n] = NextKept(kept, s, t, n)
  BY <1>2
<1>4. ASSUME NEW n \in Bad, \A k \in Bad : n <= k PROVE FALSE
  <2>1. n # 0
    <3>1. 0 \in 0..Len(s)
      BY <1>0
    <3>2. kept[0] = <<>>
      BY <1>3, <3>1 DEF NextKept
    <3> QED BY <3>2, DrawsNothing
  <2>2. n \in 1..Len(s) /\ n - 1 \in 0..Len(s) /\ n - 1 < n
    BY <1>0, <2>1
  <2>3. Draws(kept[n - 1], S, s, Stays(s, t), n - 1)
    BY <1>4, <2>2
  <2>4. kept[n] = IF n \in Stays(s, t) THEN Append(kept[n - 1], s[n]) ELSE kept[n - 1]
    BY <1>0, <1>3, <2>1, <2>2 DEF NextKept, Stays
  <2>5. Draws(kept[n], S, s, Stays(s, t), n)
    BY <2>2, <2>3, <2>4, DrawsMore
  <2> QED BY <2>5
<1>5. Bad = {}
  <2> SUFFICES ASSUME NEW n \in Bad PROVE FALSE
    OBVIOUS
  <2>1. Bad \in SUBSET Nat
    BY <1>0
  <2> HIDE DEF Bad
  <2>2. \E m \in Bad : \A k \in Bad : m <= k
    BY <2>1, LeastNumber
  <2> QED BY <1>4, <2>2
<1>6. Len(s) \in 0..Len(s)
  BY <1>0
<1> QED BY <1>1, <1>5, <1>6

(* One entry taken out: the others keep their order.                         *)
LEMMA TakenOut ==
    ASSUME NEW S, NEW s \in Seq(S), NEW i \in 1..Len(s)
    PROVE  /\ RemoveAt(s, i) \in Seq(S)
           /\ Len(RemoveAt(s, i)) = Len(s) - 1
           /\ \A k \in 1..Len(s) - 1 : RemoveAt(s, i)[k] = IF k < i THEN s[k] ELSE s[k + 1]
<1> DEFINE a == SubSeq(s, 1, i - 1)
           b == SubSeq(s, i + 1, Len(s))
<1>1. Len(s) \in Nat /\ \A k \in 1..Len(s) : s[k] \in S
  BY LenProperties, ElementOfSeq
<1>2. /\ a \in Seq(S) /\ Len(a) = i - 1
      /\ \A k \in 1..i - 1 : a[k] = s[k]
  BY <1>1, SubSeqProperties
<1>3. /\ b \in Seq(S) /\ Len(b) = Len(s) - i
      /\ \A k \in 1..Len(s) - i : b[k] = s[i + k]
  BY <1>1, SubSeqProperties
<1>4. RemoveAt(s, i) = a \o b
  BY DEF RemoveAt
<1> HIDE DEF a, b
<1>5. /\ a \o b \in Seq(S) /\ Len(a \o b) = Len(a) + Len(b)
      /\ \A k \in 1..Len(a) + Len(b) : (a \o b)[k] = IF k <= Len(a) THEN a[k] ELSE b[k - Len(a)]
  BY <1>2, <1>3, ConcatProperties
<1>6. Len(a \o b) = Len(s) - 1
  BY <1>1, <1>2, <1>3, <1>5
<1>7. ASSUME NEW k \in 1..Len(s) - 1
      PROVE  (a \o b)[k] = IF k < i THEN s[k] ELSE s[k + 1]
  <2>1. k \in 1..Len(a) + Len(b)
    BY <1>5, <1>6
  <2>2. CASE k < i
    BY <1>1, <1>2, <1>5, <2>1, <2>2
  <2>3. CASE ~(k < i)
    <3>1. ~(k <= Len(a)) /\ k - Len(a) \in 1..Len(s) - i /\ i + (k - Len(a)) = k + 1
      BY <1>1, <1>2, <2>3
    <3> QED BY <1>3, <1>5, <2>1, <2>3, <3>1
  <2> QED BY <2>2, <2>3
<1> QED BY <1>4, <1>5, <1>6, <1>7
-----------------------------------------------------------------------------
(* Sequences of messages, entry by entry.                                    *)
LEMMA Popped ==
    ASSUME NEW S, NEW s \in Seq(S), s # <<>>
    PROVE  /\ Tail(s) \in Seq(S) /\ Head(s) = s[1] /\ Head(s) \in S /\ 1 \in 1..Len(s)
           /\ \A i \in 1..Len(Tail(s)) : i + 1 \in 1..Len(s) /\ Tail(s)[i] = s[i + 1]
           /\ Len(Tail(s)) = Len(s) - 1 /\ Len(s) \in Nat
<1> DEFINE t == Tail(s)
<1>1. /\ Head(s) \in S /\ t \in Seq(S) /\ Len(t) = Len(s) - 1
      /\ \A i \in 1..Len(t) : t[i] = s[i + 1]
  BY HeadTailProperties
<1>2. Len(s) \in Nat \ {0}
  BY EmptySeq
<1> HIDE DEF t
<1>3. 1 \in 1..Len(s) /\ \A i \in 1..Len(t) : i + 1 \in 1..Len(s)
  BY <1>1, <1>2
<1> QED BY <1>1, <1>2, <1>3 DEF t

LEMMA Pushed ==
    ASSUME NEW S, NEW s \in Seq(S), NEW e \in S
    PROVE  /\ Append(s, e) \in Seq(S) /\ Len(Append(s, e)) = Len(s) + 1 /\ Len(s) \in Nat
           /\ \A i \in 1..Len(s) : i \in 1..Len(s) + 1 /\ Append(s, e)[i] = s[i]
           /\ Len(s) + 1 \in 1..Len(s) + 1 /\ Append(s, e)[Len(s) + 1] = e
           /\ \A i \in 1..Len(s) + 1 : i = Len(s) + 1 \/ i \in 1..Len(s)
<1>1. Len(s) \in Nat
  BY LenProperties
<1> QED BY <1>1, AppendProperties

LEMMA Joined ==
    ASSUME NEW S, NEW s \in Seq(S), NEW t \in Seq(S)
    PROVE  /\ s \o t \in Seq(S) /\ Len(s \o t) = Len(s) + Len(t) /\ Len(s) \in Nat /\ Len(t) \in Nat
           /\ \A i \in 1..Len(s) : i \in 1..Len(s \o t) /\ (s \o t)[i] = s[i]
           /\ \A i \in 1..Len(t) : Len(s) + i \in 1..Len(s \o t) /\ (s \o t)[Len(s) + i] = t[i]
           /\ \A i \in 1..Len(s \o t) :
                 i \in 1..Len(s) \/ (i - Len(s) \in 1..Len(t) /\ (s \o t)[i] = t[i - Len(s)])
<1> DEFINE u == s \o t
<1>1. /\ u \in Seq(S) /\ Len(u) = Len(s) + Len(t)
      /\ \A i \in 1..Len(s) + Len(t) : u[i] = IF i <= Len(s) THEN s[i] ELSE t[i - Len(s)]
  BY ConcatProperties
<1>2. Len(s) \in Nat /\ Len(t) \in Nat
  BY LenProperties
<1> HIDE DEF u
<1>3. \A i \in 1..Len(s) : i \in 1..Len(u) /\ u[i] = s[i]
  BY <1>1, <1>2
<1>4. ASSUME NEW i \in 1..Len(t) PROVE Len(s) + i \in 1..Len(u) /\ u[Len(s) + i] = t[i]
  <2>1. Len(s) + i \in 1..Len(s) + Len(t) /\ ~(Len(s) + i <= Len(s)) /\ (Len(s) + i) - Len(s) = i
    BY <1>2
  <2> QED BY <1>1, <2>1
<1>5. ASSUME NEW i \in 1..Len(u), i \notin 1..Len(s)
      PROVE  i - Len(s) \in 1..Len(t) /\ u[i] = t[i - Len(s)]
  <2>1. ~(i <= Len(s)) /\ i - Len(s) \in 1..Len(t)
    BY <1>1, <1>2, <1>5
  <2> QED BY <1>1, <2>1
<1> QED BY <1>1, <1>2, <1>3, <1>4, <1>5 DEF u
-----------------------------------------------------------------------------
(* TargetDiscovery.  The table mirrors the air: an entry has the age and the *)
(* beats of its autopilot, and who was heard lately has an entry.            *)
Entries == [peer : Autopilots, age : 0..StaleTicks + 1, beats : 1..MinBeats]
Traffic == [Autopilots -> [age : 0..StaleTicks + 1, beats : 0..MinBeats]]

Mirrors(k, b) ==
    /\ k \in Seq(Entries)
    /\ \A i, j \in 1..Len(k) : k[i].peer = k[j].peer => i = j
    /\ \A i \in 1..Len(k) : k[i].age = b[k[i].peer].age /\ k[i].beats = b[k[i].peer].beats
    /\ \A p \in Autopilots : b[p].age <= StaleTicks => \E i \in 1..Len(k) : k[i].peer = p

LEMMA StableIsSteady ==
    ASSUME NEW b \in Traffic, NEW k, Mirrors(k, b)
    PROVE  Stable(k) = SteadyOn(b)
<1>1. /\ k \in Seq(Entries) /\ DOMAIN k = 1..Len(k)
      /\ \A i \in 1..Len(k) : k[i] \in Entries
  BY LenProperties, ElementOfSeq DEF Mirrors
<1>2. \A i \in 1..Len(k) : k[i].peer \in Autopilots /\ (Steady(k[i]) <=> Steady(b[k[i].peer]))
  BY <1>1 DEF Mirrors, Entries, Steady
<1>3. ASSUME NEW p \in Stable(k) PROVE p \in SteadyOn(b)
  BY <1>1, <1>2 DEF Stable, SteadyOn
<1>4. ASSUME NEW p \in SteadyOn(b) PROVE p \in Stable(k)
  <2>1. p \in Autopilots /\ Steady(b[p]) /\ b[p].age <= StaleTicks
    BY DEF SteadyOn, Steady
  <2>2. PICK i \in 1..Len(k) : k[i].peer = p
    BY <2>1 DEF Mirrors
  <2>3. Steady(k[i])
    BY <1>2, <2>1, <2>2
  <2> QED BY <1>1, <2>2, <2>3 DEF Stable
<1> QED BY <1>3, <1>4

LEMMA PurgedMirrors ==
    ASSUME NEW b \in Traffic, NEW k, Mirrors(k, b), NEW t
    PROVE  Mirrors(Purged(k, t), b)
<1> DEFINE u == Purged(k, t)
<1>1. /\ k \in Seq(Entries) /\ DOMAIN k = 1..Len(k) /\ Len(k) \in Nat
      /\ \A i \in 1..Len(k) : k[i] \in Entries
  BY LenProperties, ElementOfSeq DEF Mirrors
<1>2. Draws(u, Entries, k, Stays(k, t), Len(k))
  BY <1>1, PurgedDrawn
<1> HIDE DEF u
<1>3. u \in Seq(Entries) /\ Len(u) \in Nat
  BY <1>2, LenProperties DEF Draws
<1> PICK f : /\ Places(u, k, Len(k), f)
             /\ \A i \in Stays(k, t) : i \in 1..Len(k) => \E j \in 1..Len(u) : f[j] = i
  BY <1>2 DEF Draws
<1>4. /\ \A j \in 1..Len(u) : f[j] \in 1..Len(k) /\ u[j] = k[f[j]]
      /\ \A i, j \in 1..Len(u) : i < j => f[i] < f[j]
  BY DEF Places
<1>5. ASSUME NEW i \in 1..Len(u), NEW j \in 1..Len(u), u[i].peer = u[j].peer PROVE i = j
  <2>1. f[i] = f[j] /\ f[i] \in 1..Len(k) /\ f[j] \in 1..Len(k)
    BY <1>4, <1>5, SMTT(30) DEF Mirrors
  <2>2. ~(f[i] < f[j]) /\ ~(f[j] < f[i])
    BY <1>1, <2>1
  <2> QED BY <1>3, <1>4, <2>2
<1>6. ASSUME NEW p \in Autopilots, b[p].age <= StaleTicks
      PROVE  \E j \in 1..Len(u) : u[j].peer = p
  <2>1. PICK i \in 1..Len(k) : k[i].peer = p
    BY <1>6 DEF Mirrors
  <2>2. i \in Stays(k, t)
    BY <1>1, <1>6, <2>1 DEF Mirrors, Stays
  <2>3. PICK j \in 1..Len(u) : f[j] = i
    BY <2>2
  <2> QED BY <1>4, <2>1, <2>3
<1>7. \A j \in 1..Len(u) : u[j].age = b[u[j].peer].age /\ u[j].beats = b[u[j].peer].beats
  BY <1>4 DEF Mirrors
<1> QED BY <1>3, <1>5, <1>6, <1>7 DEF Mirrors, u

(* The others of the table, when one has been taken out.                     *)
LEMMA OthersKept ==
    ASSUME NEW k \in Seq(Entries), NEW p \in Autopilots,
           \A i, j \in 1..Len(k) : k[i].peer = k[j].peer => i = j,
           NEW u, u = WithoutPeer(k, p)
    PROVE  /\ u \in Seq(Entries)
           /\ \A j \in 1..Len(u) : u[j].peer # p /\ \E i \in 1..Len(k) : u[j] = k[i]
           /\ \A i, j \in 1..Len(u) : u[i].peer = u[j].peer => i = j
           /\ \A i \in 1..Len(k) : k[i].peer # p => \E j \in 1..Len(u) : u[j] = k[i]
<1>1. DOMAIN k = 1..Len(k) /\ Len(k) \in Nat
  BY LenProperties
<1>2. CASE PlacesOf(k, p) = {}
  BY <1>1, <1>2 DEF WithoutPeer, PlacesOf
<1>3. CASE PlacesOf(k, p) # {}
  <2> DEFINE n == CHOOSE i \in PlacesOf(k, p) : TRUE
  <2>1. n \in 1..Len(k) /\ k[n].peer = p /\ u = RemoveAt(k, n)
    BY <1>1, <1>3 DEF PlacesOf, WithoutPeer
  <2> HIDE DEF n
  <2>2. /\ u \in Seq(Entries) /\ Len(u) = Len(k) - 1
        /\ \A j \in 1..Len(k) - 1 : u[j] = IF j < n THEN k[j] ELSE k[j + 1]
    <3>1. n \in 1..Len(k)
      BY <2>1
    <3> DEFINE r == RemoveAt(k, n)
    <3>2. /\ r \in Seq(Entries) /\ Len(r) = Len(k) - 1
          /\ \A j \in 1..Len(k) - 1 : r[j] = IF j < n THEN k[j] ELSE k[j + 1]
      BY <3>1, TakenOut
    <3>3. u = r
      BY <2>1
    <3> HIDE DEF r
    <3> QED BY <3>2, <3>3
  <2>3. \A j \in 1..Len(k) - 1 : j \in 1..Len(k) /\ j + 1 \in 1..Len(k) /\ j \in Nat /\ n \in Nat
    BY <1>1, <2>1
  <2>4. \A i \in 1..Len(k) : k[i].peer = p => i = n
    BY <2>1
  <2>5. ASSUME NEW j \in 1..Len(u)
        PROVE  u[j].peer # p /\ \E i \in 1..Len(k) : u[j] = k[i]
    <3>1. CASE j < n
      <4>1. u[j] = k[j] /\ j \in 1..Len(k) /\ j # n
        BY <2>2, <2>3, <3>1
      <4> QED BY <2>4, <4>1
    <3>2. CASE ~(j < n)
      <4>1. u[j] = k[j + 1] /\ j + 1 \in 1..Len(k) /\ j + 1 # n
        BY <2>2, <2>3, <3>2
      <4> QED BY <2>4, <4>1
    <3> QED BY <3>1, <3>2
  <2>6. ASSUME NEW i \in 1..Len(u), NEW j \in 1..Len(u), u[i].peer = u[j].peer PROVE i = j
    <3> DEFINE x == IF i < n THEN i ELSE i + 1
               y == IF j < n THEN j ELSE j + 1
    <3>1. u[i] = k[x] /\ u[j] = k[y] /\ x \in 1..Len(k) /\ y \in 1..Len(k)
      BY <2>2, <2>3
    <3>2. x = y
      BY <2>6, <3>1
    <3> QED BY <2>2, <2>3, <3>2
  <2>7. ASSUME NEW i \in 1..Len(k), k[i].peer # p PROVE \E j \in 1..Len(u) : u[j] = k[i]
    <3>1. i # n
      BY <2>1, <2>7
    <3>2. CASE i < n
      <4>1. i \in 1..Len(k) - 1
        BY <1>1, <2>1, <3>2
      <4> QED BY <2>2, <3>2, <4>1
    <3>3. CASE ~(i < n)
      <4>1. i - 1 \in 1..Len(k) - 1 /\ ~(i - 1 < n) /\ (i - 1) + 1 = i
        BY <1>1, <2>1, <3>1, <3>3
      <4> QED BY <2>2, <4>1
    <3> QED BY <3>2, <3>3
  <2>8. \A j \in 1..Len(u) : u[j].peer # p /\ \E i \in 1..Len(k) : u[j] = k[i]
    BY <2>5
  <2>9. \A i, j \in 1..Len(u) : u[i].peer = u[j].peer => i = j
    BY <2>6
  <2>10. \A i \in 1..Len(k) : k[i].peer # p => \E j \in 1..Len(u) : u[j] = k[i]
    BY <2>7
  <2> QED BY <2>2, <2>8, <2>9, <2>10
<1> QED BY <1>2, <1>3

(* A table that lacks an autopilot is not full.                              *)
LEMMA RoomForOne ==
    ASSUME NEW k \in Seq(Entries), NEW p \in Autopilots, Cardinality(Autopilots) <= MaxKnown,
           \A i \in 1..Len(k) : k[i].peer # p,
           \A i, j \in 1..Len(k) : k[i].peer = k[j].peer => i = j
    PROVE  Len(k) < MaxKnown
<1> DEFINE T == Autopilots \ {p}
           f == [i \in 1..Len(k) |-> k[i].peer]
<1>1. Len(k) \in Nat /\ \A i \in 1..Len(k) : k[i] \in Entries
  BY LenProperties, ElementOfSeq
<1>2. /\ IsFiniteSet(T) /\ Cardinality(T) = Cardinality(Autopilots) - 1
      /\ Cardinality(Autopilots) \in Nat /\ Cardinality(T) \in Nat
  BY FS_RemoveElement, FS_CardinalityType, TargetAssumption
<1>3. f \in [1..Len(k) -> T]
  BY <1>1 DEF Entries
<1>4. f \in Injection(1..Len(k), T)
  BY <1>3 DEF Injection, IsInjective
<1>5. IsFiniteSet(1..Len(k)) /\ Cardinality(1..Len(k)) = Len(k)
  <2>1. Len(k) \in Int /\ 1 \in Int /\ (1 > Len(k) => Len(k) = 0) /\ Len(k) - 1 + 1 = Len(k)
    BY <1>1
  <2> QED BY <2>1, FS_Interval
<1> HIDE DEF f, T
<1>6. Len(k) <= Cardinality(T)
  BY <1>2, <1>4, <1>5, FS_Injection
<1> QED BY <1>1, <1>2, <1>6, TargetAssumption

LEMMA NextBeats ==
    ASSUME NEW e, e.age \in 0..StaleTicks + 1, e.beats \in 0..MinBeats
    PROVE  BeatsAfter(e) \in 1..MinBeats
BY TargetAssumption DEF BeatsAfter

(* A HEARTBEAT changes the table as it changes the air; nobody is evicted    *)
(* while there is room for every autopilot.                                  *)
LEMMA RememberedMirrors ==
    ASSUME NEW b \in Traffic, NEW k, Mirrors(k, b), NEW t, NEW p \in Autopilots,
           Cardinality(Autopilots) <= MaxKnown
    PROVE  Mirrors(RememberedPeer(k, t, p),
                   [b EXCEPT ![p] = [age |-> 0, beats |-> BeatsAfter(b[p])]])
<1> DEFINE u == WithoutPeer(k, p)
           c == [b EXCEPT ![p] = [age |-> 0, beats |-> BeatsAfter(b[p])]]
           was == PlacesOf(k, p)
           n == IF was = {} THEN 1 ELSE BeatsAfter(k[CHOOSE i \in was : TRUE])
           e == [peer |-> p, age |-> 0, beats |-> n]
<1>1. /\ k \in Seq(Entries) /\ DOMAIN k = 1..Len(k)
      /\ \A i \in 1..Len(k) : k[i] \in Entries
      /\ \A i, j \in 1..Len(k) : k[i].peer = k[j].peer => i = j
  BY LenProperties, ElementOfSeq DEF Mirrors
<1>2. /\ u \in Seq(Entries)
      /\ \A j \in 1..Len(u) : u[j].peer # p /\ \E i \in 1..Len(k) : u[j] = k[i]
      /\ \A i, j \in 1..Len(u) : u[i].peer = u[j].peer => i = j
      /\ \A i \in 1..Len(k) : k[i].peer # p => \E j \in 1..Len(u) : u[j] = k[i]
  BY <1>1, OthersKept
<1>3. b[p].age \in 0..StaleTicks + 1 /\ b[p].beats \in 0..MinBeats
  BY DEF Traffic
<1>4. n = BeatsAfter(b[p])
  <2>1. CASE was = {}
    <3>1. ~(b[p].age <= StaleTicks)
      BY <1>1, <2>1 DEF Mirrors, PlacesOf
    <3>2. b[p].age > 1
      BY <1>3, <3>1, TargetAssumption
    <3> QED BY <2>1, <3>2 DEF BeatsAfter
  <2>2. CASE was # {}
    <3> DEFINE i == CHOOSE i \in was : TRUE
    <3>1. i \in 1..Len(k) /\ k[i].peer = p
      BY <1>1, <2>2 DEF PlacesOf
    <3>2. n = BeatsAfter(k[i])
      BY <2>2
    <3> HIDE DEF i, n
    <3>3. k[i].age = b[p].age /\ k[i].beats = b[p].beats
      BY <3>1 DEF Mirrors
    <3> QED BY <3>2, <3>3 DEF BeatsAfter
  <2> QED BY <2>1, <2>2
<1>5. RememberedPeer(k, t, p) = Append(EvictedPeer(u, t), e)
  BY DEF RememberedPeer
<1> HIDE DEF n, u, was
<1>6. n \in 1..MinBeats
  BY <1>3, <1>4, NextBeats
<1>7. e \in Entries
  BY <1>6, TargetAssumption DEF Entries
<1>8. EvictedPeer(u, t) = u
  <2>1. Len(u) < MaxKnown
    BY <1>2, RoomForOne
  <2> QED BY <2>1 DEF EvictedPeer
<1> DEFINE v == Append(u, e)
<1>9. e.peer = p /\ e.age = 0 /\ e.beats = n
  OBVIOUS
<1> HIDE DEF e
<1>10. /\ v \in Seq(Entries) /\ Len(v) = Len(u) + 1 /\ Len(u) \in Nat
       /\ \A i \in 1..Len(u) : i \in 1..Len(v) /\ v[i] = u[i]
       /\ Len(u) + 1 \in 1..Len(v) /\ v[Len(u) + 1] = e
       /\ \A i \in 1..Len(v) : i = Len(u) + 1 \/ i \in 1..Len(u)
  BY <1>2, <1>7, Pushed
<1> HIDE DEF v
<1>11. c[p].age = 0 /\ c[p].beats = n /\ \A q \in Autopilots : q # p => c[q] = b[q]
  BY <1>4 DEF Traffic
<1> HIDE DEF c
<1>12. ASSUME NEW i \in 1..Len(v), NEW j \in 1..Len(v), v[i].peer = v[j].peer PROVE i = j
  <2>1. CASE i \in 1..Len(u) /\ j \in 1..Len(u)
    BY <1>2, <1>10, <1>12, <2>1
  <2>2. CASE i = Len(u) + 1
    BY <1>2, <1>9, <1>10, <1>12, <2>2
  <2>3. CASE j = Len(u) + 1
    BY <1>2, <1>9, <1>10, <1>12, <2>3
  <2> QED BY <1>10, <2>1, <2>2, <2>3
<1>13. ASSUME NEW i \in 1..Len(v)
       PROVE  v[i].age = c[v[i].peer].age /\ v[i].beats = c[v[i].peer].beats
  <2>1. CASE i = Len(u) + 1
    BY <1>9, <1>10, <1>11, <2>1
  <2>2. CASE i \in 1..Len(u)
    <3>0. v[i] = u[i]
      BY <1>10, <2>2
    <3>1. PICK j \in 1..Len(k) : v[i] = k[j]
      BY <1>2, <2>2, <3>0
    <3>2. v[i].peer \in Autopilots /\ v[i].peer # p
      BY <1>1, <1>2, <1>10, <2>2, <3>1 DEF Entries
    <3>3. v[i].age = b[v[i].peer].age /\ v[i].beats = b[v[i].peer].beats
      BY <3>1 DEF Mirrors
    <3> QED BY <1>11, <3>2, <3>3
  <2> QED BY <1>10, <2>1, <2>2
<1>14. ASSUME NEW q \in Autopilots, c[q].age <= StaleTicks PROVE \E i \in 1..Len(v) : v[i].peer = q
  <2>1. CASE q = p
    BY <1>9, <1>10, <2>1
  <2>2. CASE q # p
    <3>1. PICK i \in 1..Len(k) : k[i].peer = q
      BY <1>11, <1>14, <2>2 DEF Mirrors
    <3>2. PICK j \in 1..Len(u) : u[j] = k[i]
      BY <1>2, <2>2, <3>1
    <3> QED BY <1>10, <3>1, <3>2
  <2> QED BY <2>1, <2>2
<1>15. Mirrors(v, c)
  BY <1>10, <1>12, <1>13, <1>14 DEF Mirrors
<1> QED BY <1>5, <1>8, <1>15 DEF v, c

(* What no conflict means.                                                   *)
LEMMA NoConflictMeans ==
    ASSUME NEW s \in SUBSET Autopilots, NEW explicit \in BOOLEAN, ConflictOf(s, explicit) = NoConflict
    PROVE  /\ \A p, q \in s : p.system = q.system => p = q
           /\ explicit \/ Cardinality(s) <= 1
<1>0. IsFiniteSet(s) /\ Cardinality(s) \in Nat
  BY TargetAssumption, FS_Subset, FS_CardinalityType
<1>1. SharedSystems(s) = {}
  <2> SUFFICES ASSUME SharedSystems(s) # {} PROVE FALSE
    OBVIOUS
  <2>1. ConflictOf(s, explicit).reason = "same_system"
    BY DEF ConflictOf
  <2> QED BY <2>1 DEF NoConflict
<1>2. explicit \/ ~(Cardinality(s) >= 2)
  <2> SUFFICES ASSUME ~explicit, Cardinality(s) >= 2 PROVE FALSE
    OBVIOUS
  <2>1. ConflictOf(s, explicit).reason = "multiple"
    BY <1>1 DEF ConflictOf
  <2> QED BY <2>1 DEF NoConflict
<1>3. ASSUME NEW p \in s, NEW q \in s, p.system = q.system PROVE p = q
  <2> DEFINE g == {r \in s : r.system = p.system}
  <2>1. g \in {{r \in s : r.system = x.system} : x \in s}
    OBVIOUS
  <2>2. ~(Cardinality(g) >= 2)
    BY <1>1, <2>1 DEF SharedSystems
  <2>3. p \in g /\ q \in g /\ g \in SUBSET s
    BY <1>3
  <2> HIDE DEF g
  <2>4. IsFiniteSet(g) /\ Cardinality(g) \in Nat
    BY <1>0, <2>3, FS_Subset, FS_CardinalityType
  <2>5. SUFFICES ASSUME p # q PROVE FALSE
    OBVIOUS
  <2>6. IsFiniteSet({p}) /\ Cardinality({p}) = 1
    BY FS_Singleton
  <2>7. IsFiniteSet({p} \cup {q}) /\ Cardinality({p} \cup {q}) = 2
    <3>1. q \notin {p}
      BY <2>5
    <3>2. Cardinality({p} \cup {q}) = Cardinality({p}) + 1 /\ IsFiniteSet({p} \cup {q})
      BY <2>6, <3>1, FS_AddElement
    <3> QED BY <2>6, <3>2
  <2>8. Cardinality({p} \cup {q}) <= Cardinality(g)
    BY <2>3, <2>4, FS_Subset
  <2> QED BY <2>2, <2>4, <2>7, <2>8
<1> QED BY <1>0, <1>2, <1>3
-----------------------------------------------------------------------------
(* As long as the table holds every autopilot: it mirrors the air, what the  *)
(* bridge judged last holds of the air now, and it knows whom it writes to.  *)
TargetTypeInv ==
    /\ bus \in Traffic /\ kind \in [Autopilots -> {1, 2}]
    /\ target \in Autopilots \cup {NoPeer}
    /\ chosen \in BOOLEAN /\ beatReady \in BOOLEAN /\ boundAlone \in BOOLEAN
    /\ source \in {"none", "automatic", "explicit"}

TargetInv ==
    /\ TargetTypeInv /\ Mirrors(known, bus)
    /\ conflict = NoConflict =>
          /\ \A p, q \in SteadyOn(bus) : p.system = q.system => p = q
          /\ chosen \/ Cardinality(SteadyOn(bus)) <= 1
    /\ beatReady => identity # NoKind
    /\ source = "automatic" => boundAlone

LEMMA NobodySteady == SteadyOn([p \in Autopilots |-> Unheard]) = {}
BY TargetAssumption DEF SteadyOn, Steady, Unheard

LEMMA NobodyMirrored == Mirrors(<<>>, [p \in Autopilots |-> Unheard])
<1>1. <<>> \in Seq(Entries) /\ Len(<<>>) = 0 /\ 1..0 = {}
  BY EmptySeq
<1>2. \A p \in Autopilots : ~([q \in Autopilots |-> Unheard][p].age <= StaleTicks)
  BY TargetAssumption DEF Unheard
<1> QED BY <1>1, <1>2 DEF Mirrors

LEMMA NobodyHeard ==
    /\ [p \in Autopilots |-> Unheard] \in Traffic
    /\ Cardinality(SteadyOn([p \in Autopilots |-> Unheard])) <= 1
<1>1. Unheard \in [age : 0..StaleTicks + 1, beats : 0..MinBeats]
  BY TargetAssumption DEF Unheard
<1> QED BY <1>1, NobodySteady, FS_EmptySet DEF Traffic

LEMMA TargetInvInit == TargetInit => TargetInv
<1> SUFFICES ASSUME TargetInit PROVE TargetInv
  OBVIOUS
<1>1. TargetTypeInv
  BY NobodyHeard DEF TargetInit, TargetTypeInv
<1>2. Mirrors(known, bus)
  BY NobodyMirrored DEF TargetInit
<1>3. SteadyOn(bus) = {} /\ Cardinality(SteadyOn(bus)) <= 1
  BY NobodySteady, NobodyHeard DEF TargetInit
<1>4. ~beatReady /\ source = "none"
  BY DEF TargetInit
<1> QED BY <1>1, <1>2, <1>3, <1>4 DEF TargetInv

LEMMA SteadyFinite ==
    ASSUME NEW b
    PROVE  /\ SteadyOn(b) \in SUBSET Autopilots
           /\ IsFiniteSet(SteadyOn(b)) /\ Cardinality(SteadyOn(b)) \in Nat
<1>1. SteadyOn(b) \in SUBSET Autopilots
  BY DEF SteadyOn
<1> QED BY <1>1, TargetAssumption, FS_Subset, FS_CardinalityType

LEMMA HeartbeatStep ==
    ASSUME TargetInv, NEW p \in Autopilots, Heartbeat(p), Cardinality(Autopilots) <= MaxKnown
    PROVE  TargetInv'
<1> DEFINE table == Purged(RememberedPeer(known, target, p), target)
           stable == Stable(table)
           binds == AutoBinds(stable)
           next == IF binds THEN CHOOSE q \in stable : TRUE ELSE target
<1>1. /\ bus' = [bus EXCEPT ![p] = [age |-> 0, beats |-> BeatsAfter(bus[p])]]
      /\ known' = table /\ conflict' = ConflictOf(stable, chosen) /\ target' = next
      /\ chosen' = (chosen /\ ~binds)
      /\ source' = (IF binds THEN "automatic" ELSE source)
      /\ boundAlone' = (IF binds THEN SteadyOn(bus') = {next} ELSE boundAlone)
      /\ next # p => /\ identity' = (IF binds THEN NoKind ELSE identity)
                     /\ beatReady' = (beatReady /\ ~binds)
      /\ next = p => identity' = kind[p] /\ beatReady' = ~rebooting
      /\ kind' = kind
  BY DEF Heartbeat
<1>2. bus' \in Traffic
  <2>1. bus[p].age \in 0..StaleTicks + 1 /\ bus[p].beats \in 0..MinBeats /\ bus \in Traffic
    BY DEF TargetInv, TargetTypeInv, Traffic
  <2>2. BeatsAfter(bus[p]) \in 0..MinBeats
    BY <2>1, NextBeats, TargetAssumption
  <2>3. [age |-> 0, beats |-> BeatsAfter(bus[p])] \in [age : 0..StaleTicks + 1, beats : 0..MinBeats]
    BY <2>2, TargetAssumption
  <2> QED BY <1>1, <2>1, <2>3 DEF Traffic
<1>3. Mirrors(RememberedPeer(known, target, p), bus')
  BY <1>1, RememberedMirrors DEF TargetInv, TargetTypeInv
<1>4. Mirrors(table, bus')
  BY <1>2, <1>3, PurgedMirrors
<1>5. stable = SteadyOn(bus')
  BY <1>2, <1>4, StableIsSteady
<1> HIDE DEF table
<1>6. stable \in SUBSET Autopilots /\ IsFiniteSet(stable) /\ Cardinality(stable) \in Nat
  BY <1>5, SteadyFinite
<1> HIDE DEF stable
<1>7. binds => Cardinality(stable) = 1 /\ stable = {next} /\ next \in Autopilots
  <2> SUFFICES ASSUME binds PROVE Cardinality(stable) = 1 /\ stable = {next} /\ next \in Autopilots
    OBVIOUS
  <2>1. Cardinality(stable) = 1
    BY DEF AutoBinds
  <2>2. PICK x : stable = {x}
    BY <1>6, <2>1, FS_Singleton
  <2>3. next = x
    BY <2>2
  <2> QED BY <1>6, <2>1, <2>2, <2>3
<1>8. binds \in BOOLEAN
  BY DEF AutoBinds
<1> HIDE DEF binds
<1>9. TargetTypeInv'
  <2>1. next \in Autopilots \cup {NoPeer}
    BY <1>7 DEF TargetInv, TargetTypeInv
  <2>2. beatReady' \in BOOLEAN
    BY <1>1, <1>8 DEF TargetInv, TargetTypeInv
  <2>3. boundAlone' \in BOOLEAN
    BY <1>1, <1>8 DEF TargetInv, TargetTypeInv
  <2>4. chosen' \in BOOLEAN /\ source' \in {"none", "automatic", "explicit"}
    BY <1>1, <1>8 DEF TargetInv, TargetTypeInv
  <2>5. kind' \in [Autopilots -> {1, 2}]
    BY <1>1 DEF TargetInv, TargetTypeInv
  <2> HIDE DEF next
  <2> QED BY <1>1, <1>2, <2>1, <2>2, <2>3, <2>4, <2>5 DEF TargetTypeInv
<1>10. ASSUME conflict' = NoConflict
       PROVE  /\ \A q, r \in SteadyOn(bus') : q.system = r.system => q = r
              /\ chosen' \/ Cardinality(SteadyOn(bus')) <= 1
  <2>1. /\ \A q, r \in stable : q.system = r.system => q = r
        /\ chosen \/ Cardinality(stable) <= 1
    BY <1>1, <1>6, <1>10, NoConflictMeans DEF TargetInv, TargetTypeInv
  <2>2. chosen' \/ Cardinality(stable) <= 1
    <3>1. CASE binds
      BY <1>7, <3>1
    <3>2. CASE ~binds
      BY <1>1, <2>1, <3>2
    <3> QED BY <3>1, <3>2
  <2> QED BY <1>5, <2>1, <2>2
<1>11. beatReady' => identity' # NoKind
  <2>1. CASE next = p
    <3>1. identity' \in {1, 2}
      BY <1>1, <2>1 DEF TargetInv, TargetTypeInv
    <3> QED BY <3>1 DEF NoKind
  <2>2. CASE next # p
    <3>1. beatReady' => ~binds /\ beatReady
      BY <1>1, <1>8, <2>2
    <3> QED BY <1>1, <2>2, <3>1 DEF TargetInv
  <2> QED BY <2>1, <2>2
<1>12. source' = "automatic" => boundAlone'
  <2>1. CASE binds
    BY <1>1, <1>5, <1>7, <2>1
  <2>2. CASE ~binds
    BY <1>1, <2>2 DEF TargetInv
  <2> QED BY <2>1, <2>2
<1>13. Mirrors(known', bus')
  BY <1>1, <1>4
<1> QED BY <1>9, <1>10, <1>11, <1>12, <1>13 DEF TargetInv

LEMMA SelectTargetStep ==
    ASSUME TargetInv, NEW p \in Autopilots, SelectTarget(p)
    PROVE  TargetInv'
<1>1. /\ known' = Purged(known, target)
      /\ conflict' = ConflictOf(Stable(Purged(known, target)), TRUE)
      /\ chosen' = TRUE /\ source' = "explicit" /\ target' = p
      /\ identity' = (IF target = p THEN identity ELSE NoKind)
      /\ beatReady' = (beatReady /\ target = p)
      /\ bus' = bus /\ kind' = kind /\ boundAlone' = boundAlone
  BY DEF SelectTarget
<1>2. Mirrors(Purged(known, target), bus) /\ bus \in Traffic
  BY PurgedMirrors DEF TargetInv, TargetTypeInv
<1>3. Stable(Purged(known, target)) = SteadyOn(bus)
  BY <1>2, StableIsSteady
<1>4. conflict' = NoConflict =>
         \A q, r \in SteadyOn(bus) : q.system = r.system => q = r
  BY <1>1, <1>3, SteadyFinite, NoConflictMeans
<1>5. TargetTypeInv'
  BY <1>1 DEF TargetInv, TargetTypeInv
<1>6. beatReady' => identity' # NoKind
  <2>1. beatReady' => beatReady /\ target = p
    BY <1>1 DEF TargetInv, TargetTypeInv
  <2> QED BY <1>1, <2>1 DEF TargetInv
<1> QED BY <1>1, <1>2, <1>4, <1>5, <1>6 DEF TargetInv

LEMMA TickStep == ASSUME TargetInv, Tick PROVE TargetInv'
<1>1. /\ bus' = [p \in Autopilots |-> [bus[p] EXCEPT !.age = Older(@)]]
      /\ known' = [i \in DOMAIN known |-> [known[i] EXCEPT !.age = Older(@)]]
      /\ UNCHANGED <<kind, target, chosen, source, conflict, identity, beatReady, boundAlone>>
  BY DEF Tick
<1>2. \A a \in 0..StaleTicks + 1 : Older(a) \in 0..StaleTicks + 1 /\ a <= Older(a)
  BY TargetAssumption DEF Older
<1>3. \A p \in Autopilots : /\ bus[p] \in [age : 0..StaleTicks + 1, beats : 0..MinBeats]
                            /\ bus'[p].age = Older(bus[p].age) /\ bus'[p].beats = bus[p].beats
  BY <1>1 DEF TargetInv, TargetTypeInv, Traffic
<1>4. bus' \in Traffic
  <2>1. \A p \in Autopilots : [bus[p] EXCEPT !.age = Older(@)]
                                 \in [age : 0..StaleTicks + 1, beats : 0..MinBeats]
    BY <1>2, <1>3
  <2> QED BY <1>1, <2>1 DEF Traffic
<1>5. \A p \in Autopilots : bus'[p].age <= StaleTicks => bus[p].age <= StaleTicks
  <2> TAKE p \in Autopilots
  <2>1. bus[p].age \in 0..StaleTicks + 1 /\ bus'[p].age = Older(bus[p].age)
    BY <1>3
  <2> QED BY <2>1, TargetAssumption DEF Older
<1>6. /\ known \in Seq(Entries) /\ DOMAIN known = 1..Len(known) /\ Len(known) \in Nat
      /\ \A i \in 1..Len(known) : known[i] \in Entries
  BY LenProperties, ElementOfSeq DEF TargetInv, Mirrors
<1>7. \A i \in 1..Len(known) : /\ [known[i] EXCEPT !.age = Older(@)] \in Entries
                               /\ known'[i].age = Older(known[i].age)
                               /\ known'[i].beats = known[i].beats
                               /\ known'[i].peer = known[i].peer
  BY <1>1, <1>2, <1>6 DEF Entries
<1>8. known' \in Seq(Entries) /\ Len(known') = Len(known)
  <2> DEFINE u == [i \in 1..Len(known) |-> [known[i] EXCEPT !.age = Older(@)]]
  <2>1. known' = u
    BY <1>1, <1>6
  <2>2. u \in [1..Len(known) -> Entries]
    BY <1>7
  <2> HIDE DEF u
  <2>3. u \in Seq(Entries)
    BY <1>6, <2>2, SeqDef
  <2>4. Len(u) = Len(known)
    BY <1>6, <2>2, <2>3, LenProperties
  <2> QED BY <2>1, <2>3, <2>4
<1>9. Mirrors(known', bus')
  <2>1. \A i \in 1..Len(known) : known[i].peer \in Autopilots
    BY <1>6 DEF Entries
  <2>2. \A i, j \in 1..Len(known) : known'[i].peer = known'[j].peer => i = j
    BY <1>7 DEF TargetInv, Mirrors
  <2>3. \A i \in 1..Len(known) : /\ known'[i].age = bus'[known'[i].peer].age
                                 /\ known'[i].beats = bus'[known'[i].peer].beats
    <3> TAKE i \in 1..Len(known)
    <3>1. known[i].age = bus[known[i].peer].age /\ known[i].beats = bus[known[i].peer].beats
      BY DEF TargetInv, Mirrors
    <3> DEFINE q == known[i].peer
    <3>2. bus'[q].age = Older(bus[q].age) /\ bus'[q].beats = bus[q].beats
      BY <1>3, <2>1
    <3>3. known'[i].age = Older(known[i].age) /\ known'[i].beats = known[i].beats /\ known'[i].peer = q
      BY <1>7
    <3> QED BY <3>1, <3>2, <3>3
  <2>4. \A p \in Autopilots : bus'[p].age <= StaleTicks =>
                                 \E i \in 1..Len(known) : known'[i].peer = p
    <3> TAKE p \in Autopilots
    <3> HAVE bus'[p].age <= StaleTicks
    <3>1. bus[p].age <= StaleTicks
      BY <1>5
    <3>2. PICK i \in 1..Len(known) : known[i].peer = p
      BY <3>1 DEF TargetInv, Mirrors
    <3>3. known'[i].peer = p
      BY <1>7, <3>2
    <3> QED BY <3>3
  <2> QED BY <1>8, <2>2, <2>3, <2>4 DEF Mirrors
<1>10. SteadyOn(bus') \in SUBSET SteadyOn(bus)
  BY <1>3, <1>5 DEF SteadyOn, Steady
<1>11. Cardinality(SteadyOn(bus')) <= Cardinality(SteadyOn(bus))
  BY <1>10, SteadyFinite, FS_Subset
<1>12. Cardinality(SteadyOn(bus)) <= 1 => Cardinality(SteadyOn(bus')) <= 1
  <2>1. Cardinality(SteadyOn(bus')) \in Nat /\ Cardinality(SteadyOn(bus)) \in Nat
    BY SteadyFinite
  <2> QED BY <1>11, <2>1
<1>13. TargetTypeInv'
  BY <1>1, <1>4 DEF TargetInv, TargetTypeInv
<1> QED BY <1>1, <1>9, <1>10, <1>12, <1>13 DEF TargetInv

LEMMA TargetInvStep ==
    ASSUME TargetInv, [TargetNext]_targetVars, Cardinality(Autopilots) <= MaxKnown
    PROVE  TargetInv'
<1>1. CASE UNCHANGED targetVars
  BY <1>1 DEF targetVars, TargetInv, TargetTypeInv
<1>2. ASSUME NEW p \in Autopilots, Heartbeat(p) PROVE TargetInv'
  BY <1>2, HeartbeatStep
<1>3. ASSUME NEW p \in Autopilots, SelectTarget(p) PROVE TargetInv'
  BY <1>3, SelectTargetStep
<1>4. ASSUME NEW p \in Autopilots, KindChanges(p) PROVE TargetInv'
  <2>1. /\ kind' = [kind EXCEPT ![p] = 3 - @]
        /\ UNCHANGED <<bus, known, target, chosen, source, conflict, identity, beatReady, boundAlone>>
    BY <1>4 DEF KindChanges
  <2>2. kind' \in [Autopilots -> {1, 2}]
    BY <2>1 DEF TargetInv, TargetTypeInv
  <2> QED BY <2>1, <2>2 DEF TargetInv, TargetTypeInv
<1>5. CASE Tick
  BY <1>5, TickStep
<1>6. CASE ResetTargetState
  <2>1. /\ bus' = [p \in Autopilots |-> Unheard] /\ known' = <<>> /\ target' = NoPeer
        /\ chosen' = FALSE /\ source' = "none" /\ beatReady' = FALSE
        /\ kind' = kind /\ boundAlone' = boundAlone
    BY <1>6 DEF ResetTargetState
  <2>2. TargetTypeInv'
    BY <2>1, NobodyHeard DEF TargetInv, TargetTypeInv
  <2>3. Mirrors(known', bus')
    BY <2>1, NobodyMirrored
  <2>4. SteadyOn(bus') = {} /\ Cardinality(SteadyOn(bus')) <= 1
    BY <2>1, NobodySteady, NobodyHeard
  <2> QED BY <2>1, <2>2, <2>3, <2>4 DEF TargetInv
<1>7. CASE VehicleReboots \/ RebootSettles \/ HeartbeatLost
  BY <1>7 DEF VehicleReboots, RebootSettles, HeartbeatLost, TargetInv, TargetTypeInv
<1> QED BY <1>1, <1>2, <1>3, <1>4, <1>5, <1>6, <1>7 DEF TargetNext

(* Writes are possible only towards an autopilot that is unambiguous on the  *)
(* bus (refreshTargetConflict, handleHeartbeat, selectTarget).               *)
THEOREM TargetIsUnambiguous == TargetSpec => []TargetUnambiguous
<1>1. CASE Cardinality(Autopilots) <= MaxKnown
  <2>1. TargetInv => TargetUnambiguous
    <3> SUFFICES ASSUME TargetInv PROVE TargetUnambiguous
      OBVIOUS
    <3>1. MayWrite => conflict = NoConflict /\ beatReady
      BY DEF MayWrite, HasReadyTarget
    <3> QED BY <3>1 DEF TargetInv, TargetUnambiguous
  <2>2. TargetInv /\ [TargetNext]_targetVars => TargetInv'
    BY <1>1, TargetInvStep
  <2> QED BY <2>1, <2>2, TargetInvInit, PTL DEF TargetSpec
<1>2. CASE ~(Cardinality(Autopilots) <= MaxKnown)
  <2>1. TargetUnambiguous
    BY <1>2 DEF TargetUnambiguous
  <2> QED BY <2>1, PTL
<1> QED BY <1>1, <1>2
-----------------------------------------------------------------------------
(* FrameTrust.  A memory holds the youngest entries of its history.          *)
Recent(w, b) ==
    /\ Len(w) <= MaxTracked /\ Len(w) <= Len(b)
    /\ Len(w) < MaxTracked => Len(w) = Len(b)
    /\ \A i \in 1..Len(w) : w[i] = b[Len(b) - Len(w) + i]

LEMMA LeftOfMemory ==
    ASSUME NEW S, NEW w \in Seq(S)
    PROVE  /\ Evicted(w) \in Seq(S)
           /\ Len(w) < MaxTracked => Evicted(w) = w
           /\ Len(w) = MaxTracked =>
                 /\ Len(Evicted(w)) = MaxTracked - 1
                 /\ \A i \in 1..MaxTracked - 1 : i + 1 \in 1..Len(w) /\ Evicted(w)[i] = w[i + 1]
<1>1. Len(w) \in Nat /\ \A i \in 1..Len(w) : w[i] \in S
  BY LenProperties, ElementOfSeq
<1>2. CASE Len(w) < MaxTracked
  BY <1>1, <1>2, TrustAssumption DEF Evicted
<1>3. CASE ~(Len(w) < MaxTracked)
  <2> DEFINE n == Len(w) - MaxTracked + 2
             u == SubSeq(w, n, Len(w))
  <2>1. n \in 1..Len(w) + 1 /\ \A i \in n..Len(w) : w[i] \in S
    BY <1>1, <1>3, TrustAssumption
  <2>2. u \in Seq(S)
    BY <1>1, <2>1, SubSeqProperties
  <2>3. Len(u) = (IF n <= Len(w) THEN Len(w) - n + 1 ELSE 0)
    BY <1>1, <2>1, SubSeqProperties
  <2>4. \A i \in 1..Len(w) - n + 1 : u[i] = w[n + i - 1]
    BY <1>1, <2>1, SubSeqProperties
  <2>5. Evicted(w) = u
    BY <1>3 DEF Evicted
  <2>6. Len(w) = MaxTracked => Len(u) = MaxTracked - 1
    BY <1>1, <2>3, TrustAssumption
  <2>7. ASSUME Len(w) = MaxTracked, NEW i \in 1..MaxTracked - 1
        PROVE  i + 1 \in 1..Len(w) /\ u[i] = w[i + 1]
    <3>1. i \in 1..Len(w) - n + 1 /\ n + i - 1 = i + 1 /\ i + 1 \in 1..Len(w)
      BY <1>1, <2>7, TrustAssumption
    <3> QED BY <2>4, <3>1
  <2> HIDE DEF u
  <2> QED BY <1>3, <2>2, <2>5, <2>6, <2>7
<1> QED BY <1>2, <1>3

(* A new entry comes to both.                                                *)
LEMMA RecentNew ==
    ASSUME NEW S, NEW w \in Seq(S), NEW b \in Seq(S), Recent(w, b), NEW x \in S
    PROVE  Recent(Append(Evicted(w), x), Append(b, x))
<1> DEFINE e == Evicted(w)
           u == Append(e, x)
           c == Append(b, x)
<1>1. Len(w) \in Nat /\ Len(b) \in Nat /\ MaxTracked \in Nat \ {0}
  BY LenProperties, TrustAssumption
<1>2. /\ e \in Seq(S)
      /\ Len(w) < MaxTracked => e = w
      /\ Len(w) = MaxTracked =>
            /\ Len(e) = MaxTracked - 1
            /\ \A i \in 1..MaxTracked - 1 : i + 1 \in 1..Len(w) /\ e[i] = w[i + 1]
  BY LeftOfMemory
<1> HIDE DEF e
<1>3. /\ u \in Seq(S) /\ Len(u) = Len(e) + 1 /\ Len(e) \in Nat
      /\ \A i \in 1..Len(e) : u[i] = e[i]
      /\ u[Len(e) + 1] = x
      /\ \A i \in 1..Len(e) + 1 : i = Len(e) + 1 \/ i \in 1..Len(e)
  BY <1>2, Pushed
<1>4. /\ c \in Seq(S) /\ Len(c) = Len(b) + 1
      /\ \A i \in 1..Len(b) : c[i] = b[i]
      /\ c[Len(b) + 1] = x
  BY Pushed
<1> HIDE DEF u, c
<1>5. ASSUME Len(w) < MaxTracked PROVE Recent(u, c)
  <2>1. e = w /\ Len(w) = Len(b)
    BY <1>2, <1>5 DEF Recent
  <2>2. \A i \in 1..Len(w) : w[i] = b[i]
    BY <1>1, <2>1 DEF Recent
  <2>3. \A i \in 1..Len(u) : u[i] = c[i]
    BY <1>3, <1>4, <2>1, <2>2
  <2>4. Len(u) = Len(c) /\ Len(u) <= MaxTracked /\ Len(c) \in Nat
    BY <1>1, <1>3, <1>4, <1>5, <2>1
  <2>5. \A i \in 1..Len(u) : Len(c) - Len(u) + i = i
    BY <2>4
  <2>6. \A i \in 1..Len(u) : u[i] = c[Len(c) - Len(u) + i]
    BY <2>3, <2>5
  <2> QED BY <2>4, <2>6 DEF Recent
<1>6. ASSUME Len(w) = MaxTracked PROVE Recent(u, c)
  <2>1. Len(u) = MaxTracked /\ Len(w) <= Len(b)
    BY <1>1, <1>2, <1>3, <1>6 DEF Recent
  <2>2. ASSUME NEW i \in 1..Len(u) PROVE u[i] = c[Len(c) - Len(u) + i]
    <3>1. CASE i = Len(e) + 1
      <4>1. Len(c) - Len(u) + i = Len(b) + 1
        BY <1>1, <1>3, <1>4, <3>1
      <4> QED BY <1>3, <1>4, <3>1, <4>1
    <3>2. CASE i \in 1..Len(e)
      <4>1. i + 1 \in 1..Len(w) /\ u[i] = w[i + 1]
        BY <1>2, <1>3, <1>6, <3>2
      <4>2. w[i + 1] = b[Len(b) - Len(w) + (i + 1)]
        BY <4>1 DEF Recent
      <4>3. /\ Len(c) - Len(u) + i = Len(b) - Len(w) + (i + 1)
            /\ Len(b) - Len(w) + (i + 1) \in 1..Len(b)
        BY <1>1, <1>4, <1>6, <2>1, <4>1
      <4> QED BY <1>4, <4>1, <4>2, <4>3
    <3> QED BY <1>3, <3>1, <3>2
  <2>3. Len(u) <= MaxTracked /\ Len(u) <= Len(c) /\ ~(Len(u) < MaxTracked)
    BY <1>1, <1>4, <1>6, <2>1
  <2> QED BY <2>2, <2>3 DEF Recent
<1>7. Len(w) <= MaxTracked
  BY DEF Recent
<1>8. Recent(u, c)
  BY <1>1, <1>5, <1>6, <1>7
<1> QED BY <1>8 DEF e, u, c

(* An entry the memory has lost is renewed: it comes to both again.          *)
LEMMA RecentAgain ==
    ASSUME NEW S, NEW w \in Seq(S), NEW b \in Seq(S), Recent(w, b), NEW x \in S,
           NEW j \in 1..Len(b), j <= Len(b) - Len(w)
    PROVE  Recent(Append(Evicted(w), x), Append(RemoveAt(b, j), x))
<1> DEFINE e == Evicted(w)
           r == RemoveAt(b, j)
           u == Append(e, x)
           c == Append(r, x)
<1>1. Len(w) \in Nat /\ Len(b) \in Nat /\ MaxTracked \in Nat \ {0} /\ Len(w) <= MaxTracked
  BY LenProperties, TrustAssumption DEF Recent
<1>0. Len(w) = MaxTracked
  BY <1>1 DEF Recent
<1>2. /\ e \in Seq(S) /\ Len(e) = MaxTracked - 1
      /\ \A i \in 1..MaxTracked - 1 : i + 1 \in 1..Len(w) /\ e[i] = w[i + 1]
  BY <1>0, LeftOfMemory
<1>9. /\ r \in Seq(S) /\ Len(r) = Len(b) - 1
      /\ \A k \in 1..Len(b) - 1 : r[k] = IF k < j THEN b[k] ELSE b[k + 1]
  BY TakenOut
<1> HIDE DEF e, r
<1>3. /\ u \in Seq(S) /\ Len(u) = Len(e) + 1
      /\ \A i \in 1..Len(e) : u[i] = e[i]
      /\ u[Len(e) + 1] = x
      /\ \A i \in 1..Len(e) + 1 : i = Len(e) + 1 \/ i \in 1..Len(e)
  BY <1>2, Pushed
<1>4. /\ c \in Seq(S) /\ Len(c) = Len(r) + 1
      /\ \A i \in 1..Len(r) : c[i] = r[i]
      /\ c[Len(r) + 1] = x
  BY <1>9, Pushed
<1> HIDE DEF u, c
<1>5. Len(u) = MaxTracked /\ Len(c) = Len(b)
  BY <1>1, <1>2, <1>3, <1>4, <1>9
<1>6. ASSUME NEW i \in 1..Len(u) PROVE u[i] = c[Len(c) - Len(u) + i]
  <2>1. CASE i = Len(e) + 1
    <3>1. Len(c) - Len(u) + i = Len(r) + 1
      BY <1>1, <1>2, <1>3, <1>4, <1>9, <2>1
    <3> QED BY <1>3, <1>4, <2>1, <3>1
  <2>2. CASE i \in 1..Len(e)
    <3> DEFINE k == Len(c) - Len(u) + i
    <3>1. i + 1 \in 1..Len(w) /\ u[i] = w[i + 1]
      BY <1>2, <1>3, <2>2
    <3>2. w[i + 1] = b[Len(b) - Len(w) + (i + 1)]
      BY <3>1 DEF Recent
    <3>0. k = Len(b) - Len(w) + i /\ Len(w) <= Len(b) /\ i \in 1..Len(w) - 1
      BY <1>0, <1>1, <1>2, <1>5, <2>2 DEF Recent
    <3> HIDE DEF k
    <3>3. /\ k \in 1..Len(r) /\ k \in 1..Len(b) - 1 /\ ~(k < j)
          /\ k + 1 = Len(b) - Len(w) + (i + 1)
      BY <1>1, <1>9, <3>0
    <3>4. c[k] = b[k + 1]
      BY <1>4, <1>9, <3>3
    <3> QED BY <3>1, <3>2, <3>3, <3>4 DEF k
  <2> QED BY <1>3, <2>1, <2>2
<1>7. Recent(u, c)
  BY <1>0, <1>1, <1>5, <1>6 DEF Recent
<1> QED BY <1>7 DEF e, r, u, c

(* An entry that is remembered is renewed in both.                           *)
LEMMA RecentRenewed ==
    ASSUME NEW S, NEW w \in Seq(S), NEW b \in Seq(S), Recent(w, b), NEW x \in S, NEW n \in 1..Len(w)
    PROVE  /\ Len(b) - Len(w) + n \in 1..Len(b)
           /\ Recent(Append(Evicted(RemoveAt(w, n)), x),
                     Append(RemoveAt(b, Len(b) - Len(w) + n), x))
<1> DEFINE j == Len(b) - Len(w) + n
           e == RemoveAt(w, n)
           r == RemoveAt(b, j)
           u == Append(e, x)
           c == Append(r, x)
<1>1. /\ Len(w) \in Nat /\ Len(b) \in Nat /\ MaxTracked \in Nat \ {0}
      /\ Len(w) <= MaxTracked /\ Len(w) <= Len(b)
  BY LenProperties, TrustAssumption DEF Recent
<1>2. j \in 1..Len(b)
  BY <1>1
<1>3. /\ e \in Seq(S) /\ Len(e) = Len(w) - 1
      /\ \A k \in 1..Len(w) - 1 : e[k] = IF k < n THEN w[k] ELSE w[k + 1]
  BY TakenOut
<1>4. /\ r \in Seq(S) /\ Len(r) = Len(b) - 1
      /\ \A k \in 1..Len(b) - 1 : r[k] = IF k < j THEN b[k] ELSE b[k + 1]
  BY <1>2, TakenOut
<1> HIDE DEF e, r
<1>5. Evicted(e) = e
  BY <1>1, <1>3, LeftOfMemory
<1>6. /\ u \in Seq(S) /\ Len(u) = Len(e) + 1
      /\ \A i \in 1..Len(e) : u[i] = e[i]
      /\ u[Len(e) + 1] = x
      /\ \A i \in 1..Len(e) + 1 : i = Len(e) + 1 \/ i \in 1..Len(e)
  BY <1>3, Pushed
<1>7. /\ c \in Seq(S) /\ Len(c) = Len(r) + 1
      /\ \A i \in 1..Len(r) : c[i] = r[i]
      /\ c[Len(r) + 1] = x
  BY <1>4, Pushed
<1> HIDE DEF u, c
<1>8. Len(u) = Len(w) /\ Len(c) = Len(b)
  BY <1>1, <1>3, <1>4, <1>6, <1>7
<1>9. ASSUME NEW i \in 1..Len(u) PROVE u[i] = c[Len(c) - Len(u) + i]
  <2>1. CASE i = Len(e) + 1
    <3>1. Len(c) - Len(u) + i = Len(r) + 1
      BY <1>1, <1>3, <1>4, <1>8, <2>1
    <3> QED BY <1>6, <1>7, <2>1, <3>1
  <2>2. CASE i \in 1..Len(e)
    <3> DEFINE k == Len(c) - Len(u) + i
    <3>1. k \in 1..Len(r) /\ k \in 1..Len(b) - 1 /\ i \in 1..Len(w) - 1
      BY <1>1, <1>3, <1>4, <1>8, <2>2
    <3>2. c[k] = r[k] /\ u[i] = e[i]
      BY <1>6, <1>7, <2>2, <3>1
    <3>3. CASE i < n
      <4>1. k < j /\ k = Len(b) - Len(w) + i /\ i \in 1..Len(w)
        BY <1>1, <1>8, <3>1, <3>3
      <4>2. w[i] = b[k] /\ r[k] = b[k] /\ e[i] = w[i]
        BY <1>3, <1>4, <3>1, <3>3, <4>1 DEF Recent
      <4> QED BY <3>2, <4>2
    <3>4. CASE ~(i < n)
      <4>1. ~(k < j) /\ k + 1 = Len(b) - Len(w) + (i + 1) /\ i + 1 \in 1..Len(w)
        BY <1>1, <1>8, <3>1, <3>4
      <4>2. w[i + 1] = b[k + 1]
        <5> DEFINE h == i + 1
        <5>1. h \in 1..Len(w) /\ k + 1 = Len(b) - Len(w) + h
          BY <4>1
        <5> HIDE DEF h, k
        <5>2. w[h] = b[k + 1]
          BY <5>1 DEF Recent
        <5> QED BY <5>2 DEF h
      <4>3. r[k] = b[k + 1] /\ e[i] = w[i + 1]
        BY <1>3, <1>4, <3>1, <3>4, <4>1
      <4> QED BY <3>2, <4>2, <4>3
    <3> QED BY <3>3, <3>4
  <2> QED BY <1>6, <2>1, <2>2
<1>10. Recent(u, c)
  BY <1>1, <1>8, <1>9 DEF Recent
<1> QED BY <1>2, <1>5, <1>10 DEF e, r, u, c, j

(* The places of the last m of l entries.                                    *)
LEMMA LastPlaces ==
    ASSUME NEW l \in Nat, NEW m \in Nat, m <= MaxTracked, m <= l, m < MaxTracked => m = l
    PROVE  /\ \A k \in 1..m : l - m + k \in 1..l /\ l - m + k > l - MaxTracked
           /\ \A i \in 1..l : i > l - MaxTracked => \E k \in 1..m : l - m + k = i
<1>1. MaxTracked \in Nat
  BY TrustAssumption
<1>2. ASSUME NEW i \in 1..l, i > l - MaxTracked PROVE \E k \in 1..m : l - m + k = i
  <2>1. i - (l - m) \in 1..m /\ l - m + (i - (l - m)) = i
    BY <1>1, <1>2
  <2> QED BY <2>1
<1> QED BY <1>1, <1>2

(* What is in the memory is what was heard last.                             *)
LEMMA RecentIsLast ==
    ASSUME NEW S, NEW w \in Seq(S), NEW b \in Seq(S), Recent(w, b)
    PROVE  LastHeard(b) = Range(w)
<1> DEFINE m == Len(w)
           l == Len(b)
<1>1. /\ m \in Nat /\ l \in Nat /\ DOMAIN w = 1..m /\ DOMAIN b = 1..l
      /\ m <= MaxTracked /\ m <= l /\ (m < MaxTracked => m = l)
      /\ \A k \in 1..m : w[k] = b[l - m + k]
  BY LenProperties DEF Recent
<1>2. LastHeard(b) = {b[i] : i \in {j \in DOMAIN b : j > l - MaxTracked}}
  BY DEF LastHeard
<1> HIDE DEF m, l
<1>3. /\ \A k \in 1..m : l - m + k \in 1..l /\ l - m + k > l - MaxTracked
      /\ \A i \in 1..l : i > l - MaxTracked => \E k \in 1..m : l - m + k = i
  BY <1>1, LastPlaces
<1>4. ASSUME NEW i \in 1..l, i > l - MaxTracked
      PROVE  b[i] \in Range(w)
  <2>1. PICK k \in 1..m : l - m + k = i
    BY <1>3, <1>4
  <2>2. w[k] = b[i]
    BY <1>1, <2>1
  <2> QED BY <1>1, <2>2 DEF Range
<1>5. ASSUME NEW k \in 1..m PROVE w[k] \in LastHeard(b)
  <2> DEFINE i == l - m + k
  <2>1. i \in 1..l /\ i > l - MaxTracked /\ w[k] = b[i]
    BY <1>1, <1>3
  <2> HIDE DEF i
  <2> QED BY <1>1, <1>2, <2>1
<1> QED BY <1>1, <1>2, <1>4, <1>5 DEF Range

(* An entry goes, wherever it is, and comes again as the youngest.           *)
LEMMA Renewed ==
    ASSUME NEW S, NEW w \in Seq(S), NEW b \in Seq(S), Recent(w, b), NEW x \in S,
           NEW Q \in SUBSET (1..Len(b)), \A i, j \in Q : i = j,
           NEW P, P = {k \in 1..Len(w) : Len(b) - Len(w) + k \in Q}
    PROVE  Recent(Append(Evicted(Without(w, P)), x), Append(Without(b, Q), x))
<1>1. Len(w) \in Nat /\ Len(b) \in Nat /\ Len(w) <= Len(b)
  BY LenProperties DEF Recent
<1>2. CASE Q = {}
  <2>1. P = {}
    BY <1>2
  <2> QED BY <1>2, <2>1, RecentNew DEF Without
<1>3. CASE Q # {} /\ P = {}
  <2> DEFINE j == CHOOSE i \in Q : TRUE
  <2>1. j \in Q /\ Without(b, Q) = RemoveAt(b, j) /\ Without(w, P) = w
    BY <1>3 DEF Without
  <2> HIDE DEF j
  <2>2. j <= Len(b) - Len(w)
    <3> SUFFICES ASSUME ~(j <= Len(b) - Len(w)) PROVE FALSE
      OBVIOUS
    <3>1. j \in 1..Len(b)
      BY <2>1
    <3>2. j - (Len(b) - Len(w)) \in 1..Len(w) /\ Len(b) - Len(w) + (j - (Len(b) - Len(w))) = j
      BY <1>1, <3>1
    <3> QED BY <1>3, <2>1, <3>2
  <2>3. j \in 1..Len(b)
    BY <2>1
  <2>4. Recent(Append(Evicted(w), x), Append(RemoveAt(b, j), x))
    BY <2>2, <2>3, RecentAgain
  <2> QED BY <2>1, <2>4
<1>4. CASE P # {}
  <2> DEFINE n == CHOOSE i \in P : TRUE
             j == CHOOSE i \in Q : TRUE
  <2>1. n \in P /\ Without(w, P) = RemoveAt(w, n)
    BY <1>4 DEF Without
  <2>2. n \in 1..Len(w) /\ Len(b) - Len(w) + n \in Q
    BY <2>1
  <2>3. j \in Q /\ Without(b, Q) = RemoveAt(b, j)
    BY <2>2 DEF Without
  <2> HIDE DEF j, n
  <2>4. j = Len(b) - Len(w) + n
    BY <2>2, <2>3
  <2>5. Recent(Append(Evicted(RemoveAt(w, n)), x), Append(RemoveAt(b, Len(b) - Len(w) + n), x))
    BY <2>2, RecentRenewed
  <2> QED BY <2>1, <2>3, <2>4, <2>5
<1> QED BY <1>2, <1>3, <1>4

(* u is b with x as its youngest and without what stood at Q.                *)
RenewedFrom(u, b, x, Q) ==
    /\ Len(u) \in Nat \ {0} /\ u[Len(u)] = x
    /\ \A i \in 1..Len(b) : i \notin Q => \E k \in 1..Len(u) : u[k] = b[i]
    /\ \E g \in [1..Len(u) - 1 -> 1..Len(b)] :
          /\ \A k \in 1..Len(u) - 1 : g[k] \notin Q /\ u[k] = b[g[k]]
          /\ \A k, l \in 1..Len(u) - 1 : g[k] = g[l] => k = l

LEMMA RenewedEntries ==
    ASSUME NEW S, NEW b \in Seq(S), NEW x \in S,
           NEW Q \in SUBSET (1..Len(b)), \A i, j \in Q : i = j,
           NEW u, u = Append(Without(b, Q), x)
    PROVE  u \in Seq(S) /\ RenewedFrom(u, b, x, Q)
<1> DEFINE r == Without(b, Q)
<1>0. u = Append(r, x)
  OBVIOUS
<1>1. Len(b) \in Nat
  BY LenProperties
<1>2. /\ r \in Seq(S)
      /\ \A i \in 1..Len(b) : i \notin Q => \E k \in 1..Len(r) : r[k] = b[i]
      /\ \E g \in [1..Len(r) -> 1..Len(b)] :
            /\ \A k \in 1..Len(r) : g[k] \notin Q /\ r[k] = b[g[k]]
            /\ \A k, l \in 1..Len(r) : g[k] = g[l] => k = l
  <2>1. CASE Q = {}
    <3>1. r = b
      BY <2>1 DEF Without
    <3> DEFINE g == [k \in 1..Len(b) |-> k]
    <3>2. /\ g \in [1..Len(b) -> 1..Len(b)]
          /\ \A k \in 1..Len(b) : g[k] \notin Q /\ b[k] = b[g[k]]
          /\ \A k, l \in 1..Len(b) : g[k] = g[l] => k = l
      BY <2>1
    <3> HIDE DEF g, r
    <3>3. \A i \in 1..Len(b) : i \notin Q => \E k \in 1..Len(r) : r[k] = b[i]
      BY <3>1
    <3>4. \E h \in [1..Len(r) -> 1..Len(b)] :
             /\ \A k \in 1..Len(r) : h[k] \notin Q /\ r[k] = b[h[k]]
             /\ \A k, l \in 1..Len(r) : h[k] = h[l] => k = l
      BY <3>1, <3>2
    <3>5. r \in Seq(S)
      BY <3>1
    <3> QED BY <3>3, <3>4, <3>5
  <2>2. CASE Q # {}
    <3> DEFINE j == CHOOSE i \in Q : TRUE
    <3>1. j \in Q /\ r = RemoveAt(b, j)
      BY <2>2 DEF Without
    <3> HIDE DEF j
    <3>2. j \in 1..Len(b) /\ \A i \in Q : i = j
      BY <3>1
    <3>3. /\ r \in Seq(S) /\ Len(r) = Len(b) - 1
          /\ \A k \in 1..Len(b) - 1 : r[k] = IF k < j THEN b[k] ELSE b[k + 1]
      BY <3>1, <3>2, TakenOut
    <3> HIDE DEF r
    <3> DEFINE at(k) == IF k < j THEN k ELSE k + 1
               g == [k \in 1..Len(r) |-> at(k)]
    <3>4. \A k \in 1..Len(r) : at(k) \in 1..Len(b) /\ at(k) # j /\ r[k] = b[at(k)]
      BY <1>1, <3>2, <3>3
    <3>5. \A k, l \in 1..Len(r) : at(k) = at(l) => k = l
      BY <1>1, <3>2, <3>3
    <3>6. ASSUME NEW i \in 1..Len(b), i # j PROVE \E k \in 1..Len(r) : at(k) = i
      <4>1. CASE i < j
        <5>1. i \in 1..Len(r) /\ at(i) = i
          BY <1>1, <3>2, <3>3, <4>1
        <5> QED BY <5>1
      <4>2. CASE ~(i < j)
        <5>1. i - 1 \in 1..Len(r) /\ ~(i - 1 < j) /\ (i - 1) + 1 = i
          BY <1>1, <3>2, <3>3, <3>6, <4>2
        <5>2. at(i - 1) = i
          BY <5>1
        <5> QED BY <5>1, <5>2
      <4> QED BY <4>1, <4>2
    <3> HIDE DEF at
    <3>7. g \in [1..Len(r) -> 1..Len(b)] /\ \A k \in 1..Len(r) : g[k] = at(k)
      BY <3>4
    <3> HIDE DEF g
    <3>8. /\ \A k \in 1..Len(r) : g[k] \notin Q /\ r[k] = b[g[k]]
          /\ \A k, l \in 1..Len(r) : g[k] = g[l] => k = l
      BY <3>2, <3>4, <3>5, <3>7
    <3>9. \A i \in 1..Len(b) : i \notin Q => \E k \in 1..Len(r) : r[k] = b[i]
      BY <3>1, <3>4, <3>6
    <3> QED BY <3>3, <3>7, <3>8, <3>9
  <2> QED BY <2>1, <2>2
<1> HIDE DEF r
<1>3. /\ u \in Seq(S) /\ Len(u) = Len(r) + 1 /\ Len(r) \in Nat
      /\ \A i \in 1..Len(r) : i \in 1..Len(r) + 1 /\ u[i] = r[i]
      /\ u[Len(r) + 1] = x
  BY <1>0, <1>2, Pushed
<1>4. Len(u) \in Nat \ {0} /\ Len(u) - 1 = Len(r)
  BY <1>3
<1>5. \A i \in 1..Len(b) : i \notin Q => \E k \in 1..Len(u) : u[k] = b[i]
  BY <1>2, <1>3
<1>6. u[Len(u)] = x
  BY <1>3
<1> PICK g \in [1..Len(r) -> 1..Len(b)] :
            /\ \A k \in 1..Len(r) : g[k] \notin Q /\ r[k] = b[g[k]]
            /\ \A k, l \in 1..Len(r) : g[k] = g[l] => k = l
  BY <1>2
<1>7. /\ g \in [1..Len(u) - 1 -> 1..Len(b)]
      /\ \A k \in 1..Len(u) - 1 : g[k] \notin Q /\ u[k] = b[g[k]]
      /\ \A k, l \in 1..Len(u) - 1 : g[k] = g[l] => k = l
  BY <1>3, <1>4
<1> QED BY <1>3, <1>4, <1>5, <1>6, <1>7 DEF RenewedFrom
-----------------------------------------------------------------------------
(* The tables are the youngest entries of what was believed and learned; no  *)
(* key stands twice, no stamp lies too far ahead, every source is known.     *)
Stamps == [key : Keys, stamp : Nat]
Once(b) == \A i, j \in 1..Len(b) : b[i].key = b[j].key => i = j
OnceEach(b) == \A i, j \in 1..Len(b) : b[i] = b[j] => i = j

TrustInv ==
    /\ now \in 0..MaxTime /\ downgraded \in SUBSET Sources
    /\ believed \in Seq(Stamps) /\ watermarks \in Seq(Stamps)
    /\ Recent(watermarks, believed) /\ Once(believed)
    /\ \A i \in 1..Len(believed) :
          believed[i].stamp <= now + MaxFuture /\ believed[i].key[1] \in Range(learned)
    /\ learned \in Seq(Sources) /\ signers \in Seq(Sources)
    /\ Recent(signers, learned) /\ OnceEach(learned)

LEMMA WatermarksOnce ==
    ASSUME NEW w \in Seq(Stamps), NEW b \in Seq(Stamps), Recent(w, b), Once(b)
    PROVE  /\ Once(w)
           /\ \A k \in 1..Len(w) : Len(b) - Len(w) + k \in 1..Len(b) /\ w[k] = b[Len(b) - Len(w) + k]
<1> DEFINE m == Len(w)
           l == Len(b)
<1>1. /\ m \in Nat /\ l \in Nat /\ m <= MaxTracked /\ m <= l /\ (m < MaxTracked => m = l)
      /\ \A k \in 1..m : w[k] = b[l - m + k]
      /\ \A i, j \in 1..l : b[i].key = b[j].key => i = j
  BY LenProperties DEF Recent, Once
<1>2. Once(w) <=> \A i, j \in 1..m : w[i].key = w[j].key => i = j
  BY DEF Once
<1>3. (\A k \in 1..Len(w) : Len(b) - Len(w) + k \in 1..Len(b) /\ w[k] = b[Len(b) - Len(w) + k])
         <=> (\A k \in 1..m : l - m + k \in 1..l /\ w[k] = b[l - m + k])
  OBVIOUS
<1> HIDE DEF m, l
<1>4. \A k \in 1..m : l - m + k \in 1..l
  BY <1>1, LastPlaces
<1>5. ASSUME NEW i \in 1..m, NEW j \in 1..m, w[i].key = w[j].key PROVE i = j
  <2>1. l - m + i = l - m + j
    BY <1>1, <1>4, <1>5, SMTT(30)
  <2> QED BY <1>1, <2>1
<1> QED BY <1>1, <1>2, <1>3, <1>4, <1>5

LEMMA TrustInvInit == TrustInit => TrustInv
<1> SUFFICES ASSUME TrustInit PROVE TrustInv
  OBVIOUS
<1>1. <<>> \in Seq(Stamps) /\ <<>> \in Seq(Sources) /\ Len(<<>>) = 0 /\ 1..0 = {}
  BY EmptySeq
<1>2. Recent(<<>>, <<>>) /\ Once(<<>>) /\ OnceEach(<<>>)
  BY <1>1, TrustAssumption DEF Recent, Once, OnceEach
<1> QED BY <1>1, <1>2, TrustAssumption DEF TrustInit, TrustInv

LEMMA TrustInvKept == TrustInv => TrustKept
<1> SUFFICES ASSUME TrustInv PROVE TrustKept
  OBVIOUS
<1>1. /\ DOMAIN watermarks = 1..Len(watermarks) /\ Len(watermarks) \in Nat
      /\ Len(watermarks) <= MaxTracked /\ Len(signers) <= MaxTracked
  BY LenProperties DEF TrustInv, Recent
<1>2. /\ Once(watermarks)
      /\ \A k \in 1..Len(watermarks) :
            /\ Len(believed) - Len(watermarks) + k \in 1..Len(believed)
            /\ watermarks[k] = believed[Len(believed) - Len(watermarks) + k]
  BY WatermarksOnce DEF TrustInv
<1>3. TrustTypeOK
  BY <1>1, <1>2 DEF TrustTypeOK, TrustInv, Once
<1>4. LastHeard(believed) = Range(watermarks) /\ LastHeard(learned) = Range(signers)
  BY RecentIsLast DEF TrustInv
<1>5. \A e \in Range(watermarks) : e.stamp <= now + MaxFuture /\ e.key[1] \in Range(learned)
  <2> TAKE e \in Range(watermarks)
  <2> PICK k \in 1..Len(watermarks) : e = watermarks[k]
    BY <1>1 DEF Range
  <2> QED BY <1>2 DEF TrustInv
<1> QED BY <1>3, <1>4, <1>5 DEF TrustKept

LEMMA LearnStep ==
    ASSUME TrustInv, NEW src \in Sources, LearnSigned(src)
    PROVE  /\ learned' \in Seq(Sources) /\ signers' \in Seq(Sources)
           /\ Recent(signers', learned') /\ OnceEach(learned')
           /\ Range(learned) \in SUBSET Range(learned') /\ src \in Range(learned')
<1>1. LastHeard(learned) = Range(signers) /\ DOMAIN learned = 1..Len(learned)
  BY RecentIsLast, LenProperties DEF TrustInv
<1>2. CASE src \in Range(signers)
  <2>1. learned' = learned /\ signers' = signers
    BY <1>2 DEF LearnSigned
  <2>2. src \in Range(learned)
    BY <1>1, <1>2 DEF LastHeard, Range
  <2> QED BY <2>1, <2>2 DEF TrustInv
<1>3. CASE src \notin Range(signers)
  <2> DEFINE Q == {i \in DOMAIN learned : learned[i] = src}
             u == Append(Without(learned, Q), src)
  <2>1. signers' = Append(Evicted(signers), src) /\ learned' = u
    BY <1>3 DEF LearnSigned
  <2>2. Q \in SUBSET (1..Len(learned)) /\ \A i, j \in Q : i = j
    BY <1>1 DEF TrustInv, OnceEach
  <2>3. \A i \in 1..Len(learned) : i \in Q <=> learned[i] = src
    BY <1>1
  <2> HIDE DEF Q
  <2>4. {k \in 1..Len(signers) : Len(learned) - Len(signers) + k \in Q} = {}
    <3> SUFFICES ASSUME NEW k \in 1..Len(signers), Len(learned) - Len(signers) + k \in Q
                 PROVE  FALSE
      OBVIOUS
    <3>1. signers[k] = src
      BY <2>2, <2>3 DEF TrustInv, Recent
    <3>2. DOMAIN signers = 1..Len(signers)
      BY LenProperties DEF TrustInv
    <3> QED BY <1>3, <3>1, <3>2 DEF Range
  <2>5. Recent(Append(Evicted(Without(signers, {})), src), Append(Without(learned, Q), src))
    BY <2>2, <2>4, Renewed DEF TrustInv
  <2>6. Recent(signers', learned')
    BY <2>1, <2>5 DEF Without
  <2>0. learned \in Seq(Sources) /\ u = Append(Without(learned, Q), src)
    BY DEF TrustInv
  <2> HIDE DEF u
  <2>7. /\ u \in Seq(Sources) /\ Len(u) \in Nat \ {0} /\ u[Len(u)] = src
        /\ \A i \in 1..Len(learned) : i \notin Q => \E k \in 1..Len(u) : u[k] = learned[i]
        /\ \E g \in [1..Len(u) - 1 -> 1..Len(learned)] :
              /\ \A k \in 1..Len(u) - 1 : g[k] \notin Q /\ u[k] = learned[g[k]]
              /\ \A k, l \in 1..Len(u) - 1 : g[k] = g[l] => k = l
    <3>1. u \in Seq(Sources) /\ RenewedFrom(u, learned, src, Q)
      BY <2>0, <2>2, RenewedEntries
    <3> QED BY <3>1 DEF RenewedFrom
  <2>8. signers' \in Seq(Sources)
    <3>1. Evicted(signers) \in Seq(Sources)
      BY LeftOfMemory DEF TrustInv
    <3> QED BY <2>1, <3>1, Pushed
  <2>9. OnceEach(u)
    <3> PICK g \in [1..Len(u) - 1 -> 1..Len(learned)] :
              /\ \A k \in 1..Len(u) - 1 : g[k] \notin Q /\ u[k] = learned[g[k]]
              /\ \A k, l \in 1..Len(u) - 1 : g[k] = g[l] => k = l
      BY <2>7
    <3>1. \A k \in 1..Len(u) : k = Len(u) \/ k \in 1..Len(u) - 1
      BY <2>7
    <3>2. \A k \in 1..Len(u) - 1 : u[k] # src
      BY <2>3
    <3>3. \A k, l \in 1..Len(u) - 1 : u[k] = u[l] => k = l
      <4> TAKE k, l \in 1..Len(u) - 1
      <4> HAVE u[k] = u[l]
      <4>1. learned[g[k]] = learned[g[l]] /\ g[k] \in 1..Len(learned) /\ g[l] \in 1..Len(learned)
        OBVIOUS
      <4>2. g[k] = g[l]
        BY <4>1 DEF TrustInv, OnceEach
      <4> QED BY <4>2
    <3> QED BY <2>7, <3>1, <3>2, <3>3 DEF OnceEach
  <2>10. DOMAIN u = 1..Len(u)
    BY <2>7, LenProperties
  <2>11. src \in Range(u)
    <3>1. Len(u) \in 1..Len(u)
      BY <2>7
    <3> QED BY <2>7, <2>10, <3>1 DEF Range
  <2>12. ASSUME NEW y \in Range(learned) PROVE y \in Range(u)
    <3> PICK i \in 1..Len(learned) : y = learned[i]
      BY <1>1 DEF Range
    <3>1. CASE i \in Q
      BY <2>3, <2>11, <3>1
    <3>2. CASE i \notin Q
      BY <2>7, <2>10, <3>2 DEF Range
    <3> QED BY <3>1, <3>2
  <2> QED BY <2>1, <2>6, <2>7, <2>8, <2>9, <2>11, <2>12
<1> QED BY <1>2, <1>3

LEMMA WithoutOf ==
    ASSUME NEW S, NEW b \in Seq(S), NEW Q \in SUBSET (1..Len(b))
    PROVE  Without(b, Q) \in Seq(S)
<1>1. CASE Q = {}
  BY <1>1 DEF Without
<1>2. CASE Q # {}
  <2> DEFINE j == CHOOSE i \in Q : TRUE
  <2>1. j \in 1..Len(b) /\ Without(b, Q) = RemoveAt(b, j)
    BY <1>2 DEF Without
  <2> HIDE DEF j
  <2> QED BY <2>1, TakenOut
<1> QED BY <1>1, <1>2

LEMMA FrameData ==
    ASSUME NEW f \in Frames
    PROVE  /\ f.source \in Sources /\ f.link \in SigningLinks /\ f.stamp \in Nat
           /\ KeyOf(f) = <<f.source, f.link>> /\ KeyOf(f)[1] = f.source
           /\ [key |-> KeyOf(f), stamp |-> f.stamp] \in Stamps
<1>1. f.source \in Sources /\ f.link \in SigningLinks /\ f.stamp \in Nat
  BY TrustAssumption DEF Frames
<1> QED BY <1>1 DEF KeyOf, Stamps, Keys

(* A frame that is believed renews its key in the table and in the history.  *)
LEMMA BelieveStep ==
    ASSUME TrustInv, NEW f \in Frames, HandleSigned(f), f.valid,
           ~(Stale(f) \/ Future(f) \/ Replayed(f))
    PROVE  LET x == [key |-> KeyOf(f), stamp |-> f.stamp]
           IN  /\ watermarks' \in Seq(Stamps) /\ believed' \in Seq(Stamps)
               /\ Recent(watermarks', believed') /\ Once(believed')
               /\ Len(believed') \in Nat \ {0} /\ believed'[Len(believed')] = x
               /\ \A i \in 1..Len(believed') :
                     believed'[i] = x \/ \E j \in 1..Len(believed) : believed'[i] = believed[j]
<1> DEFINE x == [key |-> KeyOf(f), stamp |-> f.stamp]
           Q == Marks(believed, KeyOf(f))
           P == Marks(watermarks, KeyOf(f))
<1>1. x \in Stamps /\ x.key = KeyOf(f)
  BY FrameData
<1>2. /\ believed' = Append(Without(believed, Q), x)
      /\ watermarks' = Append(Evicted(Without(watermarks, P)), x)
  BY DEF HandleSigned, Remembered
<1>3. /\ believed \in Seq(Stamps) /\ watermarks \in Seq(Stamps)
      /\ Recent(watermarks, believed) /\ Once(believed)
      /\ DOMAIN believed = 1..Len(believed) /\ DOMAIN watermarks = 1..Len(watermarks)
  BY LenProperties DEF TrustInv
<1>4. /\ Q \in SUBSET (1..Len(believed)) /\ P \in SUBSET (1..Len(watermarks))
      /\ \A i \in 1..Len(believed) : i \in Q <=> believed[i].key = KeyOf(f)
      /\ \A i \in 1..Len(watermarks) : i \in P <=> watermarks[i].key = KeyOf(f)
  BY <1>3 DEF Marks
<1> HIDE DEF x, Q, P
<1>5. \A i, j \in Q : i = j
  BY <1>3, <1>4 DEF Once
<1>6. \A k \in 1..Len(watermarks) :
         /\ Len(believed) - Len(watermarks) + k \in 1..Len(believed)
         /\ watermarks[k] = believed[Len(believed) - Len(watermarks) + k]
  BY <1>3, WatermarksOnce
<1>7. P = {k \in 1..Len(watermarks) : Len(believed) - Len(watermarks) + k \in Q}
  <2>1. \A k \in 1..Len(watermarks) :
           k \in P <=> Len(believed) - Len(watermarks) + k \in Q
    BY <1>4, <1>6
  <2> QED BY <1>4, <2>1
<1>8. Recent(watermarks', believed')
  BY <1>1, <1>2, <1>3, <1>4, <1>5, <1>7, Renewed
<1>9. believed' \in Seq(Stamps) /\ RenewedFrom(believed', believed, x, Q)
  BY <1>1, <1>2, <1>3, <1>4, <1>5, RenewedEntries
<1>10. watermarks' \in Seq(Stamps)
  <2>1. Without(watermarks, P) \in Seq(Stamps)
    BY <1>3, <1>4, WithoutOf
  <2>2. Evicted(Without(watermarks, P)) \in Seq(Stamps)
    BY <2>1, LeftOfMemory
  <2> QED BY <1>1, <1>2, <2>2, Pushed
<1> DEFINE u == believed'
<1> PICK g \in [1..Len(u) - 1 -> 1..Len(believed)] :
          /\ \A k \in 1..Len(u) - 1 : g[k] \notin Q /\ u[k] = believed[g[k]]
          /\ \A k, l \in 1..Len(u) - 1 : g[k] = g[l] => k = l
  BY <1>9 DEF RenewedFrom
<1>11. /\ Len(u) \in Nat \ {0} /\ u[Len(u)] = x
       /\ \A k \in 1..Len(u) : k = Len(u) \/ k \in 1..Len(u) - 1
  <2>1. Len(u) \in Nat \ {0} /\ u[Len(u)] = x
    BY <1>9 DEF RenewedFrom
  <2> QED BY <2>1
<1> HIDE DEF u
<1>12. \A k \in 1..Len(u) - 1 : u[k].key # KeyOf(f)
  BY <1>4
<1>13. \A k, l \in 1..Len(u) - 1 : u[k].key = u[l].key => k = l
  <2> TAKE k, l \in 1..Len(u) - 1
  <2> HAVE u[k].key = u[l].key
  <2>1. /\ believed[g[k]].key = believed[g[l]].key
        /\ g[k] \in 1..Len(believed) /\ g[l] \in 1..Len(believed)
    OBVIOUS
  <2>2. g[k] = g[l]
    BY <1>3, <2>1 DEF Once
  <2> QED BY <2>2
<1>14. Once(u)
  BY <1>1, <1>11, <1>12, <1>13 DEF Once
<1>15. \A i \in 1..Len(u) : u[i] = x \/ \E j \in 1..Len(believed) : u[i] = believed[j]
  BY <1>11
<1> QED BY <1>8, <1>9, <1>10, <1>11, <1>14, <1>15 DEF u, x

LEMMA SignedStep ==
    ASSUME TrustInv, NEW f \in Frames, HandleSigned(f), UNCHANGED now
    PROVE  TrustInv'
<1>1. CASE ~f.valid
  <2>1. UNCHANGED trustVars
    BY <1>1 DEF HandleSigned, trustVars
  <2> QED BY <2>1 DEF TrustInv, trustVars
<1>2. CASE f.valid
  <2>1. LearnSigned(f.source) /\ downgraded' = downgraded \ {f.source}
    BY <1>2 DEF HandleSigned
  <2>2. f.source \in Sources /\ f.stamp \in Nat /\ KeyOf(f)[1] = f.source
    BY FrameData
  <2>3. /\ learned' \in Seq(Sources) /\ signers' \in Seq(Sources)
        /\ Recent(signers', learned') /\ OnceEach(learned')
        /\ Range(learned) \in SUBSET Range(learned') /\ f.source \in Range(learned')
    BY <2>1, <2>2, LearnStep
  <2>4. now' \in 0..MaxTime /\ downgraded' \in SUBSET Sources
    BY <2>1 DEF TrustInv
  <2>5. CASE Stale(f) \/ Future(f) \/ Replayed(f)
    <3>1. UNCHANGED <<watermarks, believed>>
      BY <1>2, <2>5 DEF HandleSigned
    <3>2. \A i \in 1..Len(believed') :
             believed'[i].stamp <= now' + MaxFuture /\ believed'[i].key[1] \in Range(learned')
      BY <2>3, <3>1 DEF TrustInv
    <3> QED BY <2>3, <2>4, <3>1, <3>2 DEF TrustInv
  <2>6. CASE ~(Stale(f) \/ Future(f) \/ Replayed(f))
    <3> DEFINE x == [key |-> KeyOf(f), stamp |-> f.stamp]
    <3>1. /\ watermarks' \in Seq(Stamps) /\ believed' \in Seq(Stamps)
          /\ Recent(watermarks', believed') /\ Once(believed')
          /\ \A i \in 1..Len(believed') :
                believed'[i] = x \/ \E j \in 1..Len(believed) : believed'[i] = believed[j]
      BY <1>2, <2>6, BelieveStep
    <3>2. x.stamp <= now' + MaxFuture /\ x.key[1] \in Range(learned')
      BY <2>2, <2>3, <2>4, <2>6, TrustAssumption DEF Future, TrustInv
    <3> HIDE DEF x
    <3>3. \A i \in 1..Len(believed') :
             believed'[i].stamp <= now' + MaxFuture /\ believed'[i].key[1] \in Range(learned')
      <4> TAKE i \in 1..Len(believed')
      <4>1. CASE believed'[i] = x
        BY <3>2, <4>1
      <4>2. CASE \E j \in 1..Len(believed) : believed'[i] = believed[j]
        BY <2>3, <4>2 DEF TrustInv
      <4> QED BY <3>1, <4>1, <4>2
    <3> QED BY <2>3, <2>4, <3>1, <3>3 DEF TrustInv
  <2> QED BY <2>5, <2>6
<1> QED BY <1>1, <1>2

LEMMA TrustInvStep == TrustInv /\ [TrustNext]_trustVars => TrustInv'
<1> SUFFICES ASSUME TrustInv, [TrustNext]_trustVars PROVE TrustInv'
  OBVIOUS
<1>1. ASSUME NEW f \in Frames, HandleSigned(f), UNCHANGED now PROVE TrustInv'
  BY <1>1, SignedStep
<1>2. ASSUME NEW f \in Frames, HandleUnsigned(f), UNCHANGED now PROVE TrustInv'
  <2>1. downgraded' \in SUBSET Sources
    BY <1>2, FrameData DEF HandleUnsigned, TrustInv
  <2> QED BY <1>2, <2>1 DEF HandleUnsigned, TrustInv
<1>3. CASE Ticks
  <2>1. now' \in 0..MaxTime /\ now' = now + 1
    BY <1>3, TrustAssumption DEF Ticks, TrustInv
  <2>2. \A i \in 1..Len(believed) : believed[i].stamp <= now' + MaxFuture
    <3> TAKE i \in 1..Len(believed)
    <3>1. believed[i].stamp \in Nat /\ believed[i].stamp <= now + MaxFuture
      <4>1. believed[i] \in Stamps /\ believed[i].stamp <= now + MaxFuture
        BY ElementOfSeq DEF TrustInv
      <4> QED BY <4>1 DEF Stamps
    <3>2. now \in Nat /\ MaxFuture \in Nat
      BY TrustAssumption DEF TrustInv
    <3> QED BY <2>1, <3>1, <3>2
  <2> QED BY <1>3, <2>1, <2>2 DEF Ticks, TrustInv
<1>4. CASE UNCHANGED trustVars
  BY <1>4 DEF trustVars, TrustInv
<1> QED BY <1>1, <1>2, <1>3, <1>4 DEF TrustNext, HandleFrame

(* What NoReplayNoDowngrade says of one step.                                *)
LEMMA TrustActionStep ==
    TrustInv /\ [TrustNext]_trustVars =>
        [/\ believed' # believed =>
                \A e \in LastHeard(believed) :
                    e.key = Last(believed').key => Last(believed').stamp > e.stamp
         /\ \A s \in downgraded' \ downgraded : s \notin LastHeard(learned)]_trustVars
<1> SUFFICES ASSUME TrustInv, TrustNext
             PROVE  /\ believed' # believed =>
                           \A e \in LastHeard(believed) :
                              e.key = Last(believed').key => Last(believed').stamp > e.stamp
                    /\ \A s \in downgraded' \ downgraded : s \notin LastHeard(learned)
  OBVIOUS
<1>1. LastHeard(believed) = Range(watermarks) /\ LastHeard(learned) = Range(signers)
  BY RecentIsLast DEF TrustInv
<1>2. \A s \in downgraded' \ downgraded : s \notin LastHeard(learned)
  <2>1. ASSUME NEW f \in Frames, HandleUnsigned(f)
        PROVE  \A s \in downgraded' \ downgraded : s \notin Range(signers)
    BY <2>1 DEF HandleUnsigned
  <2>2. ASSUME NEW f \in Frames, HandleSigned(f) PROVE downgraded' \ downgraded = {}
    BY <2>2 DEF HandleSigned
  <2> QED BY <1>1, <2>1, <2>2 DEF TrustNext, HandleFrame, Ticks
<1>3. ASSUME believed' # believed, NEW e \in LastHeard(believed), e.key = Last(believed').key
      PROVE  Last(believed').stamp > e.stamp
  <2> PICK f \in Frames : HandleSigned(f)
    BY <1>3 DEF TrustNext, HandleFrame, HandleUnsigned, Ticks
  <2>1. f.valid /\ ~(Stale(f) \/ Future(f) \/ Replayed(f))
    BY <1>3 DEF HandleSigned
  <2>2. believed'[Len(believed')] = [key |-> KeyOf(f), stamp |-> f.stamp]
    BY <2>1, BelieveStep
  <2>3. Last(believed').key = KeyOf(f) /\ Last(believed').stamp = f.stamp
    BY <2>2 DEF Last
  <2>4. /\ DOMAIN watermarks = 1..Len(watermarks) /\ Once(watermarks)
        /\ watermarks \in Seq(Stamps)
    BY WatermarksOnce, LenProperties DEF TrustInv
  <2> PICK k \in 1..Len(watermarks) : e = watermarks[k]
    BY <1>1, <1>3, <2>4 DEF Range
  <2>5. watermarks[k].key = KeyOf(f)
    BY <1>3, <2>3
  <2>6. Tracked(KeyOf(f))
    BY <2>4, <2>5 DEF Tracked
  <2>7. Previous(KeyOf(f)) = k
    BY <2>4, <2>5 DEF Previous, Once
  <2>8. ~(f.stamp <= watermarks[k].stamp)
    BY <2>1, <2>6, <2>7 DEF Replayed
  <2>9. f.stamp \in Nat /\ watermarks[k].stamp \in Nat
    <3>1. watermarks[k] \in Stamps
      BY <2>4, ElementOfSeq
    <3> QED BY <3>1, FrameData DEF Stamps
  <2> QED BY <2>3, <2>8, <2>9
<1> QED BY <1>2, <1>3

(* The codec forgets no stamp and no signer it heard lately, believes no     *)
(* stamp of such a key twice, and believes no such signer unsigned.          *)
THEOREM TrustIsKept == TrustSpec => TrustHolds
<1>1. TrustInv /\ [TrustNext]_trustVars => TrustInv'
  BY TrustInvStep
<1>2. TrustSpec => []TrustInv
  BY TrustInvInit, <1>1, PTL DEF TrustSpec
<1>3. TrustSpec => NoReplayNoDowngrade
  BY <1>1, TrustInvInit, TrustActionStep, PTL DEF TrustSpec, NoReplayNoDowngrade
<1> QED BY <1>2, <1>3, TrustInvKept, PTL DEF TrustHolds
-----------------------------------------------------------------------------
(* The parameter list of the page.  What the Worker tells it.                *)
Tellings ==
    [kind : {"connection"}, wire : {w \in Wires : (w.ready => w.open /\ ~w.raw) /\ (w.raw => w.open)}]
    \cup [kind : {"target"}, known : BOOLEAN]
    \cup [kind : {"sync"}, status : {"started", "cancelled", "complete", "failed"}, gen : 1..MaxGens]
    \cup [kind : {"batch"}, gen : 0..MaxGens, values : SUBSET Values]
    \cup [kind : {"complete", "failed"}, gen : 0..MaxGens]
    \cup [kind : {"refused"}, id : Nat, retryable : BOOLEAN]
Linking(e) == e.kind = "connection"
Starting(e) == e.kind = "sync" /\ e.status = "started"
Stopping(e) == e.kind = "sync" /\ e.status # "started"
Numbered(e) == e.kind \in {"sync", "batch", "complete", "failed"} /\ e.gen # NoGen

(* What the Worker is when it has told all of it.                            *)
Tellers == [wire : Wires, gen : Nat, gens : Nat, told : SUBSET Values, left : SUBSET Indices,
            asked : SUBSET Nat]
TellerOf(w, g, gs, t, l, a) == [wire |-> w, gen |-> g, gens |-> gs, told |-> t, left |-> l, asked |-> a]
Teller == TellerOf(wire, gen, gens, told, left, asked)

(* Of two numbered events the later one is of no earlier generation; what    *)
(* starts one comes before all of it and what stops one after; a snapshot    *)
(* comes before a generation or after it.                                    *)
StartedIn(q, g, i, j) == \E s \in i..j : Starting(q[s]) /\ q[s].gen = g
SyncsInOrder(q) ==
    /\ \A i, j \in 1..Len(q) : i < j /\ Numbered(q[i]) /\ Numbered(q[j]) =>
         /\ q[i].gen <= q[j].gen
         /\ Starting(q[j]) \/ Stopping(q[i]) => q[i].gen < q[j].gen
    /\ \A i, j \in 1..Len(q) : i < j /\ Linking(q[i]) /\ Numbered(q[j]) => StartedIn(q, q[j].gen, i + 1, j)

(* The same of what the Worker has still to tell, and of what the page has   *)
(* heard.                                                                    *)
OrderGoesOn(q, c) ==
    /\ c.gen = NoGen \/ c.gen = c.gens
    /\ c.asked \subseteq 1..c.gens
    /\ \A i \in 1..Len(q) : Numbered(q[i]) => q[i].gen <= c.gens
    /\ c.gen # NoGen => \A i \in 1..Len(q) :
         /\ Numbered(q[i]) /\ Stopping(q[i]) => q[i].gen < c.gen
         /\ Linking(q[i]) => StartedIn(q, c.gen, i + 1, Len(q))
OrderWentOn(q) == \A j \in 1..Len(q) : Numbered(q[j]) =>
    pageGen <= q[j].gen /\ (Starting(q[j]) => pageGen < q[j].gen)

(* The snapshot that is known when events 1 to j are heard, and that it is   *)
(* the latest before event i; what may follow it.                            *)
WireAt(q, w0, j) == IF j = 0 THEN w0 ELSE q[j].wire
LatestWire(q, j, i) ==
    /\ j < i /\ (j # 0 => Linking(q[j]))
    /\ \A k \in 1..Len(q) : j < k /\ k < i => ~Linking(q[k])
SameLink(v, w) == v.open = w.open /\ v.link = w.link
Fits(w, e) ==
    /\ Linking(e) => IF e.wire.link = w.link THEN w.open \/ ~e.wire.open ELSE ~w.open
    /\ e.kind = "batch" => \A v \in e.values : w.open /\ v[2] = w.link
    /\ e.kind = "complete" => w.open
InLink(q, w0, w) ==
    /\ \A j \in 0..Len(q) : LatestWire(q, j, Len(q) + 1) => SameLink(WireAt(q, w0, j), w)
    /\ \A j \in 0..Len(q), i \in 1..Len(q) : LatestWire(q, j, i) => Fits(WireAt(q, w0, j), q[i])

(* What has come of parameter x of generation g with the events before n: it *)
(* is in a batch among them; or the page has it, or cleared it, or follows   *)
(* another generation.                                                       *)
Fed(q, n, g, x) == \E k \in 1..(n - 1) :
    q[k].kind = "batch" /\ q[k].gen = g /\ \E v \in q[k].values : v[1] = x
Held(x) == \E v \in list \cup batch : v[1] = x
Came(q, n, g, x) ==
    \/ Fed(q, n, g, x)
    \/ ~StartedIn(q, g, 1, n - 1) /\ (pageGen # g \/ wiped = g \/ Held(x))
AllCome(q, c) ==
    /\ \A n \in 1..Len(q) : q[n].kind = "complete" /\ q[n].gen \in c.asked =>
         \A x \in Indices : Came(q, n, q[n].gen, x)
    /\ c.gen \in c.asked => \A x \in Indices \ c.left :
         Came(q, Len(q) + 1, c.gen, x) \/ \E v \in c.told : v[1] = x

(* A link that was closed is not open again; a raw or closed link is heard   *)
(* of before the next one is ready.                                          *)
NotBefore(v, w) == v.link <= w.link /\ (v.link = w.link /\ ~v.open => ~w.open)
Away(w) == w.raw \/ ~w.open
AwayHeard(q, i) == ~seen.open /\ \A k \in 1..i : Linking(q[k]) => ~q[k].wire.open
LinksInTurn(q, w) ==
    /\ \A i, j \in 1..Len(q) : i < j /\ Linking(q[i]) /\ Linking(q[j]) =>
         /\ NotBefore(q[i].wire, q[j].wire)
         /\ Away(q[i].wire) /\ q[j].wire.ready => AwayHeard(q, i)
    /\ \A i \in 1..Len(q) : Linking(q[i]) =>
         /\ NotBefore(seen, q[i].wire) /\ NotBefore(q[i].wire, w)
         /\ Away(q[i].wire) /\ ~Away(w) => AwayHeard(q, i)
    /\ NotBefore(seen, w)

QueueInv(q, c) ==
    /\ SyncsInOrder(q) /\ OrderGoesOn(q, c) /\ OrderWentOn(q) /\ pageGen <= c.gens
    /\ InLink(q, seen, c.wire) /\ AllCome(q, c) /\ LinksInTurn(q, c.wire)

(* A user's request is on its way or its generation runs.                    *)
UserWaits == (\E k \in 1..Len(commands) : commands[k] = NoId) \/ gen \in users

WorkerSound ==
    /\ gen # NoGen => wire.ready
    /\ wire.ready => wire.open /\ ~wire.raw
    /\ wire.raw \/ loading => wire.open
    /\ wire.open => wire.link > 0
    /\ gen \in 0..gens /\ by <= gens
    /\ \A v \in told : wire.open /\ v[2] = wire.link

PageSound ==
    /\ auto.pending /\ ~auto.inFlight => auto.tries < MaxAttempts
    /\ WantedIsComing /\ NothingOfLostLink
    /\ by \in asked /\ by # wiped => \A x \in Indices : \E v \in list : v[1] = x
    /\ last = seen.ready /\ (last \/ preserve => seen.open /\ ~seen.raw)

(* Whoever waits for a list is not disturbed: nothing is asked for, and no   *)
(* snapshot that the page has not heard makes it ask.                        *)
WaitsUndisturbed ==
    UserWaits => /\ auto = AutoIdle
                 /\ \/ last \/ preserve
                    \/ Away(wire) /\ \A i \in 1..Len(events) : Linking(events[i]) => ~events[i].wire.ready

PageInv ==
    /\ PageTypeOK /\ events \in Seq(Tellings) /\ commands \in Seq(Nat) /\ requests \in Nat
    /\ QueueInv(events, Teller) /\ WorkerSound /\ PageSound /\ WaitsUndisturbed

(* Telling e takes the Worker from c to d.                                   *)
Goes(c, e, d) ==
    /\ IF Linking(e)
       THEN /\ d.wire = e.wire /\ c.gen = NoGen /\ NotBefore(c.wire, e.wire)
            /\ e.wire.ready => ~Away(c.wire)
            /\ Away(c.wire) /\ ~Away(e.wire) => ~seen.open /\ seen.link = c.wire.link
       ELSE d.wire = c.wire
    /\ Fits(c.wire, e)
    /\ IF Numbered(e) /\ Starting(e)
       THEN /\ e.gen = c.gens + 1 /\ d.gens = e.gen /\ d.gen = e.gen
            /\ \/ d.asked = c.asked
               \/ d.asked = c.asked \cup {e.gen} /\ d.left = Indices
       ELSE /\ Numbered(e) => e.gen = c.gen
            /\ d.gens = c.gens /\ d.gen = (IF Numbered(e) /\ Stopping(e) THEN NoGen ELSE c.gen)
            /\ d.asked = c.asked /\ d.left = c.left
            /\ IF e.kind = "batch" THEN e.gen = c.gen /\ e.values = c.told ELSE d.told = c.told
    /\ e.kind = "complete" => e.gen = c.gen /\ c.left = {} /\ c.told = {}

LEMMA Grown ==
    ASSUME NEW q \in Seq(Tellings), NEW e \in Tellings
    PROVE  /\ q \o <<e>> \in Seq(Tellings) /\ Len(q) \in Nat /\ Len(q \o <<e>>) = Len(q) + 1
           /\ (q \o <<e>>)[Len(q) + 1] = e /\ \A k \in 1..Len(q) : (q \o <<e>>)[k] = q[k]
BY LenProperties, ConcatProperties

LEMMA TellingTypes ==
    ASSUME NEW e \in Tellings
    PROVE  /\ Linking(e) => e.wire \in Wires /\ (e.wire.ready => e.wire.open /\ ~e.wire.raw) /\ (e.wire.raw => e.wire.open)
           /\ Linking(e) => ~Numbered(e)
           /\ Numbered(e) => e.gen \in Nat /\ e.gen > 0 /\ e.gen <= MaxGens
           /\ Starting(e) \/ Stopping(e) => Numbered(e)
           /\ ~(Starting(e) /\ Stopping(e))
           /\ e.kind = "batch" => e.gen \in 0..MaxGens /\ e.values \in SUBSET Values
           /\ e.kind = "complete" => e.gen \in 0..MaxGens
           /\ e.kind \in {"connection", "target", "sync", "batch", "complete", "failed", "refused"}
BY PageAssumption DEF Tellings, Linking, Starting, Stopping, Numbered, NoGen

LEMMA OrderTold ==
    ASSUME NEW q \in Seq(Tellings), NEW c \in Tellers, NEW e \in Tellings, NEW d \in Tellers,
           SyncsInOrder(q), OrderGoesOn(q, c), Goes(c, e, d)
    PROVE  SyncsInOrder(q \o <<e>>) /\ OrderGoesOn(q \o <<e>>, d)
<1> DEFINE r == q \o <<e>>
           n == Len(q)
<1>1. n \in Nat /\ Len(r) = n + 1 /\ r[n + 1] = e /\ \A k \in 1..n : r[k] = q[k] /\ q[k] \in Tellings
  BY Grown, ElementOfSeq
<1> HIDE DEF r
<1>2. /\ c.gen \in Nat /\ c.gens \in Nat /\ d.gen \in Nat /\ d.gens \in Nat
      /\ Numbered(e) => e.gen \in Nat /\ e.gen > 0
      /\ Linking(e) => ~Numbered(e)
      /\ \A k \in 1..n : Numbered(q[k]) => q[k].gen \in Nat /\ q[k].gen > 0
      /\ \A k \in 1..n : Linking(q[k]) => ~Numbered(q[k])
  BY <1>1, TellingTypes DEF Tellers
<1>3. \A g, i, j : j \in 0..n /\ i \in Nat \ {0} => (StartedIn(r, g, i, j) <=> StartedIn(q, g, i, j))
  BY <1>1 DEF StartedIn
<1>4. \A g, i : i \in 1..(n + 1) /\ StartedIn(r, g, i, n) => StartedIn(r, g, i, n + 1)
  BY <1>1 DEF StartedIn
<1>5. ASSUME NEW i \in 1..(n + 1), NEW j \in 1..(n + 1), i < j, Numbered(r[i]), Numbered(r[j])
      PROVE  r[i].gen <= r[j].gen /\ (Starting(r[j]) \/ Stopping(r[i]) => r[i].gen < r[j].gen)
  <2>1. i \in 1..n /\ r[i] = q[i]
    BY <1>1, <1>5
  <2>2. CASE j = n + 1
    <3>1. q[i].gen <= c.gens /\ q[i].gen \in Nat /\ r[j] = e
      BY <1>1, <1>2, <1>5, <2>1, <2>2 DEF OrderGoesOn
    <3>2. CASE Starting(e)
      <4>1. e.gen = c.gens + 1
        BY <1>5, <3>1, <3>2 DEF Goes
      <4>2. QED BY <1>2, <2>1, <3>1, <4>1
    <3>3. CASE ~Starting(e)
      <4>1. e.gen = c.gen /\ c.gen # NoGen /\ c.gen = c.gens
        BY <1>5, <3>1, <3>3 DEF Goes, OrderGoesOn, Numbered
      <4>2. Stopping(q[i]) => q[i].gen < c.gen
        BY <1>5, <2>1, <4>1 DEF OrderGoesOn
      <4>3. QED BY <1>2, <2>1, <3>1, <3>3, <4>1, <4>2
    <3>4. QED BY <3>2, <3>3
  <2>3. CASE j # n + 1
    <3>1. j \in 1..n /\ r[j] = q[j]
      BY <1>1, <2>3
    <3>2. QED BY <1>5, <2>1, <3>1 DEF SyncsInOrder
  <2>4. QED BY <2>2, <2>3
<1>6. ASSUME NEW i \in 1..(n + 1), NEW j \in 1..(n + 1), i < j, Linking(r[i]), Numbered(r[j])
      PROVE  StartedIn(r, r[j].gen, i + 1, j)
  <2>1. i \in 1..n /\ r[i] = q[i]
    BY <1>1, <1>6
  <2>2. CASE j = n + 1
    <3>1. r[j] = e
      BY <1>1, <2>2
    <3>2. CASE Starting(e)
      BY <1>1, <1>6, <2>2, <3>1, <3>2 DEF StartedIn
    <3>3. CASE ~Starting(e)
      <4>1. e.gen = c.gen /\ c.gen # NoGen
        BY <1>6, <3>1, <3>3 DEF Goes, Numbered
      <4>2. StartedIn(q, c.gen, i + 1, n)
        BY <1>6, <2>1, <4>1 DEF OrderGoesOn
      <4>3. StartedIn(r, c.gen, i + 1, n)
        BY <1>1, <1>3, <2>1, <4>2
      <4>4. QED BY <1>1, <1>4, <2>1, <2>2, <3>1, <4>1, <4>3
    <3>4. QED BY <3>2, <3>3
  <2>3. CASE j # n + 1
    <3>1. j \in 1..n /\ r[j] = q[j]
      BY <1>1, <2>3
    <3>2. StartedIn(q, q[j].gen, i + 1, j)
      BY <1>6, <2>1, <3>1 DEF SyncsInOrder
    <3>3. QED BY <1>1, <1>3, <2>1, <3>1, <3>2
  <2>4. QED BY <2>2, <2>3
<1>7. SyncsInOrder(r)
  <2> HIDE DEF n
  <2>1. Len(r) = n + 1
    BY <1>1
  <2>2. QED BY <1>5, <1>6, <2>1 DEF SyncsInOrder
<1>8. (d.gen = NoGen \/ d.gen = d.gens) /\ d.asked \subseteq 1..d.gens /\ c.gens <= d.gens
  <2>1. CASE Numbered(e) /\ Starting(e)
    BY <1>2, <2>1 DEF Goes, OrderGoesOn
  <2>2. CASE ~(Numbered(e) /\ Starting(e))
    BY <1>2, <2>2 DEF Goes, OrderGoesOn
  <2>3. QED BY <2>1, <2>2
<1>9. ASSUME NEW i \in 1..(n + 1), Numbered(r[i]) PROVE r[i].gen <= d.gens
  <2>1. CASE i = n + 1
    <3>1. r[i] = e
      BY <1>1, <2>1
    <3>2. CASE Starting(e)
      BY <1>2, <1>9, <3>1, <3>2 DEF Goes
    <3>3. CASE ~Starting(e)
      <4>1. e.gen = c.gen /\ c.gen = c.gens /\ d.gens = c.gens
        BY <1>9, <3>1, <3>3 DEF Goes, OrderGoesOn, Numbered
      <4>2. QED BY <1>2, <3>1, <4>1
    <3>4. QED BY <3>2, <3>3
  <2>2. CASE i # n + 1
    <3>1. i \in 1..n /\ r[i] = q[i]
      BY <1>1, <2>2
    <3>2. q[i].gen <= c.gens
      BY <1>9, <3>1 DEF OrderGoesOn
    <3>3. QED BY <1>2, <1>8, <1>9, <3>1, <3>2
  <2>3. QED BY <2>1, <2>2
<1>10. ASSUME d.gen # NoGen, NEW i \in 1..(n + 1)
       PROVE  /\ Numbered(r[i]) /\ Stopping(r[i]) => r[i].gen < d.gen
              /\ Linking(r[i]) => StartedIn(r, d.gen, i + 1, n + 1)
  <2>1. CASE Numbered(e) /\ Starting(e)
    <3>1. d.gen = e.gen /\ e.gen = c.gens + 1 /\ ~Stopping(e) /\ ~Linking(e)
      BY <1>2, <2>1, TellingTypes DEF Goes
    <3>2. CASE i = n + 1
      BY <1>1, <3>1, <3>2
    <3>3. CASE i # n + 1
      <4>1. i \in 1..n /\ r[i] = q[i]
        BY <1>1, <3>3
      <4>2. Numbered(q[i]) => q[i].gen <= c.gens
        BY <4>1 DEF OrderGoesOn
      <4>3. StartedIn(r, d.gen, i + 1, n + 1)
        BY <1>1, <2>1, <3>1, <4>1 DEF StartedIn
      <4>4. QED BY <1>2, <3>1, <4>1, <4>2, <4>3
    <3>4. QED BY <3>2, <3>3
  <2>2. CASE ~(Numbered(e) /\ Starting(e))
    <3>1. d.gen = c.gen /\ ~(Numbered(e) /\ Stopping(e)) /\ ~Linking(e)
      BY <1>10, <2>2 DEF Goes
    <3>2. CASE i = n + 1
      BY <1>1, <3>1, <3>2
    <3>3. CASE i # n + 1
      <4>1. i \in 1..n /\ r[i] = q[i]
        BY <1>1, <3>3
      <4>2. /\ Numbered(q[i]) /\ Stopping(q[i]) => q[i].gen < c.gen
            /\ Linking(q[i]) => StartedIn(q, c.gen, i + 1, n)
        BY <1>10, <3>1, <4>1 DEF OrderGoesOn
      <4>3. StartedIn(q, c.gen, i + 1, n) => StartedIn(r, c.gen, i + 1, n)
        BY <1>1, <1>3, <4>1
      <4>4. StartedIn(r, c.gen, i + 1, n) => StartedIn(r, c.gen, i + 1, n + 1)
        BY <1>4, <4>1
      <4>5. QED BY <3>1, <4>1, <4>2, <4>3, <4>4
    <3>4. QED BY <3>2, <3>3
  <2>3. QED BY <2>1, <2>2
<1>11. OrderGoesOn(r, d)
  <2> HIDE DEF n
  <2>1. Len(r) = n + 1
    BY <1>1
  <2>2. QED BY <1>8, <1>9, <1>10, <2>1 DEF OrderGoesOn
<1>12. QED BY <1>7, <1>11 DEF r

LEMMA LinkTold ==
    ASSUME NEW q \in Seq(Tellings), NEW c \in Tellers, NEW e \in Tellings, NEW d \in Tellers, NEW w0,
           InLink(q, w0, c.wire), Goes(c, e, d)
    PROVE  InLink(q \o <<e>>, w0, d.wire)
<1> DEFINE r == q \o <<e>>
           n == Len(q)
           w == d.wire
           v == c.wire
<1>1. /\ n \in Nat /\ Len(r) = n + 1 /\ r[n + 1] = e
      /\ \A k \in 1..n : r[k] = q[k]
  BY Grown
<1> HIDE DEF r
<1>0. Fits(v, e) /\ w = IF Linking(e) THEN e.wire ELSE v
  BY DEF Goes
<1> HIDE DEF w, v
<1>2. \A j \in 0..n : WireAt(r, w0, j) = WireAt(q, w0, j)
  BY <1>1 DEF WireAt
<1>3. \A j \in 0..n, i \in 1..(n + 1) : LatestWire(r, j, i) => LatestWire(q, j, i)
  BY <1>1 DEF LatestWire
<1>4. ASSUME NEW j \in 0..(n + 1), LatestWire(r, j, n + 2) PROVE SameLink(WireAt(r, w0, j), w)
  <2>1. CASE j = n + 1
    BY <1>0, <1>1, <1>4, <2>1 DEF LatestWire, WireAt, SameLink
  <2>2. CASE j # n + 1
    <3>1. j \in 0..n /\ ~Linking(e)
      BY <1>1, <1>4, <2>2 DEF LatestWire
    <3>2. LatestWire(q, j, n + 1)
      BY <1>1, <1>4, <3>1 DEF LatestWire
    <3>3. QED BY <1>0, <1>2, <3>1, <3>2 DEF InLink, v
  <2>3. QED BY <2>1, <2>2
<1>5. ASSUME NEW j \in 0..(n + 1), NEW i \in 1..(n + 1), LatestWire(r, j, i)
      PROVE  Fits(WireAt(r, w0, j), r[i])
  <2>1. j \in 0..n
    BY <1>1, <1>5 DEF LatestWire
  <2>2. LatestWire(q, j, i) /\ WireAt(r, w0, j) = WireAt(q, w0, j)
    BY <1>2, <1>3, <1>5, <2>1
  <2>3. CASE i = n + 1
    <3>1. SameLink(WireAt(q, w0, j), v) /\ r[i] = e
      BY <1>1, <2>1, <2>2, <2>3 DEF InLink, v
    <3>2. QED BY <1>0, <2>2, <3>1 DEF Fits, SameLink
  <2>4. CASE i # n + 1
    <3>1. i \in 1..n /\ r[i] = q[i]
      BY <1>1, <2>4
    <3>2. QED BY <2>1, <2>2, <3>1 DEF InLink
  <2>5. QED BY <2>3, <2>4
<1>6. InLink(r, w0, w)
  <2>1. Len(r) = n + 1 /\ Len(r) + 1 = n + 2
    BY <1>1
  <2> HIDE DEF n
  <2>2. QED BY <1>4, <1>5, <2>1 DEF InLink
<1>7. QED BY <1>6 DEF r, w

LEMMA NotBeforeLinks ==
    ASSUME NEW u \in Wires, NEW v \in Wires, NEW w \in Wires, NotBefore(u, v), NotBefore(v, w)
    PROVE  NotBefore(u, w)
BY PageAssumption DEF Wires, NotBefore

LEMMA TurnTold ==
    ASSUME NEW q \in Seq(Tellings), NEW c \in Tellers, NEW e \in Tellings, NEW d \in Tellers,
           seen \in Wires, LinksInTurn(q, c.wire), Goes(c, e, d)
    PROVE  LinksInTurn(q \o <<e>>, d.wire)
<1> DEFINE r == q \o <<e>>
           n == Len(q)
<1>1. n \in Nat /\ Len(r) = n + 1 /\ r[n + 1] = e /\ \A k \in 1..n : r[k] = q[k] /\ q[k] \in Tellings
  BY Grown, ElementOfSeq
<1> HIDE DEF r
<1>2. /\ c.wire \in Wires /\ d.wire \in Wires
      /\ \A k \in 1..n : Linking(q[k]) => q[k].wire \in Wires
      /\ Linking(e) => e.wire \in Wires
  BY <1>1, TellingTypes DEF Tellers
<1>3. \A i \in 1..n : AwayHeard(q, i) => AwayHeard(r, i)
  BY <1>1 DEF AwayHeard
<1>4. CASE ~Linking(e)
  <2>1. d.wire = c.wire
    BY <1>4 DEF Goes
  <2>2. ASSUME NEW i \in 1..(n + 1), Linking(r[i]) PROVE i \in 1..n /\ r[i] = q[i] /\ Linking(q[i])
    BY <1>1, <1>4, <2>2
  <2>3. ASSUME NEW i \in 1..(n + 1), NEW j \in 1..(n + 1), i < j, Linking(r[i]), Linking(r[j])
        PROVE  /\ NotBefore(r[i].wire, r[j].wire)
               /\ Away(r[i].wire) /\ r[j].wire.ready => AwayHeard(r, i)
    BY <1>3, <2>2, <2>3 DEF LinksInTurn
  <2>4. ASSUME NEW i \in 1..(n + 1), Linking(r[i])
        PROVE  /\ NotBefore(seen, r[i].wire) /\ NotBefore(r[i].wire, d.wire)
               /\ Away(r[i].wire) /\ ~Away(d.wire) => AwayHeard(r, i)
    BY <1>3, <2>1, <2>2, <2>4 DEF LinksInTurn
  <2>5. NotBefore(seen, d.wire) /\ Len(r) = n + 1
    BY <1>1, <2>1 DEF LinksInTurn
  <2> HIDE DEF n
  <2>6. LinksInTurn(r, d.wire)
    BY <2>3, <2>4, <2>5 DEF LinksInTurn
  <2>7. QED BY <2>6 DEF r
<1>5. CASE Linking(e)
  <2>1. /\ d.wire = e.wire /\ NotBefore(c.wire, e.wire) /\ (e.wire.ready => ~Away(c.wire))
        /\ Away(c.wire) /\ ~Away(e.wire) => ~seen.open /\ seen.link = c.wire.link
    BY <1>5 DEF Goes
  <2>2. ASSUME NEW i \in 1..n, Linking(q[i])
        PROVE  /\ NotBefore(q[i].wire, e.wire) /\ NotBefore(seen, q[i].wire)
               /\ Away(q[i].wire) /\ ~Away(e.wire) => AwayHeard(r, i)
    <3>1. NotBefore(q[i].wire, c.wire) /\ NotBefore(seen, q[i].wire)
      BY <2>2 DEF LinksInTurn
    <3>2. NotBefore(q[i].wire, e.wire)
      BY <1>2, <1>5, <2>1, <2>2, <3>1, NotBeforeLinks
    <3>3. ASSUME Away(q[i].wire), ~Away(c.wire) PROVE AwayHeard(r, i)
      BY <1>3, <2>2, <3>3 DEF LinksInTurn
    <3>4. ASSUME Away(c.wire), ~Away(e.wire) PROVE AwayHeard(r, i)
      <4>1. ASSUME NEW k \in 1..i, Linking(q[k]) PROVE ~q[k].wire.open
        <5>1. k \in 1..n
          BY <1>1, <4>1
        <5>2. NotBefore(q[k].wire, c.wire) /\ NotBefore(seen, q[k].wire) /\ q[k].wire \in Wires
          BY <1>2, <4>1, <5>1 DEF LinksInTurn
        <5>3. q[k].wire.link = seen.link
          BY <1>2, <2>1, <3>4, <5>2, PageAssumption DEF NotBefore, Wires
        <5>4. QED BY <2>1, <3>4, <5>2, <5>3 DEF NotBefore
      <4>2. AwayHeard(q, i)
        BY <2>1, <3>4, <4>1 DEF AwayHeard
      <4>3. QED BY <1>3, <4>2
    <3>5. QED BY <3>1, <3>2, <3>3, <3>4
  <2>3. NotBefore(seen, e.wire) /\ NotBefore(e.wire, e.wire)
    <3>1. NotBefore(seen, c.wire)
      BY DEF LinksInTurn
    <3>2. NotBefore(e.wire, e.wire)
      BY <1>2, <1>5, PageAssumption DEF NotBefore, Wires
    <3>3. QED BY <1>2, <1>5, <2>1, <3>1, <3>2, NotBeforeLinks
  <2>4. ASSUME NEW i \in 1..(n + 1), Linking(r[i])
        PROVE  /\ NotBefore(seen, r[i].wire) /\ NotBefore(r[i].wire, e.wire)
               /\ Away(r[i].wire) /\ ~Away(e.wire) => AwayHeard(r, i)
    <3>1. CASE i = n + 1
      BY <1>1, <2>3, <3>1
    <3>2. CASE i # n + 1
      <4>1. i \in 1..n /\ r[i] = q[i]
        BY <1>1, <3>2
      <4>2. QED BY <2>2, <2>4, <4>1
    <3>3. QED BY <3>1, <3>2
  <2>5. ASSUME NEW i \in 1..(n + 1), NEW j \in 1..(n + 1), i < j, Linking(r[i]), Linking(r[j])
        PROVE  /\ NotBefore(r[i].wire, r[j].wire)
               /\ Away(r[i].wire) /\ r[j].wire.ready => AwayHeard(r, i)
    <3>1. i \in 1..n /\ r[i] = q[i]
      BY <1>1, <2>5
    <3>2. CASE j = n + 1
      <4>1. e.wire.ready => ~Away(e.wire)
        BY <1>5, TellingTypes DEF Away
      <4>2. QED BY <1>1, <2>2, <2>5, <3>1, <3>2, <4>1
    <3>3. CASE j # n + 1
      <4>1. j \in 1..n /\ r[j] = q[j]
        BY <1>1, <3>3
      <4>2. NotBefore(q[i].wire, q[j].wire) /\ (Away(q[i].wire) /\ q[j].wire.ready => AwayHeard(q, i))
        BY <2>5, <3>1, <4>1 DEF LinksInTurn
      <4>3. QED BY <1>3, <3>1, <4>1, <4>2
    <3>4. QED BY <3>2, <3>3
  <2>6. Len(r) = n + 1 /\ d.wire = e.wire
    BY <1>1, <2>1
  <2> HIDE DEF n
  <2>7. LinksInTurn(r, d.wire)
    BY <2>3, <2>4, <2>5, <2>6 DEF LinksInTurn
  <2>8. QED BY <2>7 DEF r
<1>6. QED BY <1>4, <1>5 DEF r

LEMMA CameTold ==
    ASSUME NEW q \in Seq(Tellings), NEW c \in Tellers, NEW e \in Tellings, NEW d \in Tellers,
           AllCome(q, c), OrderGoesOn(q, c), Goes(c, e, d)
    PROVE  AllCome(q \o <<e>>, d)
<1> DEFINE r == q \o <<e>>
           n == Len(q)
<1>1. n \in Nat /\ Len(r) = n + 1 /\ r[n + 1] = e /\ \A k \in 1..n : r[k] = q[k] /\ q[k] \in Tellings
  BY Grown, ElementOfSeq
<1> HIDE DEF r
<1>2. /\ c.gen \in Nat /\ c.gens \in Nat /\ c.asked \subseteq 1..c.gens /\ NoGen \notin c.asked
      /\ \A x \in d.asked : x \in c.asked \/ (x = c.gens + 1 /\ Numbered(e) /\ Starting(e) /\ d.left = Indices)
  BY DEF Tellers, OrderGoesOn, Goes, NoGen
<1>3. \A k, g, x : k \in 1..(n + 1) /\ Came(q, k, g, x) => Came(r, k, g, x)
  <2>1. SUFFICES ASSUME NEW k \in 1..(n + 1), NEW g, NEW x, Came(q, k, g, x) PROVE Came(r, k, g, x)
    OBVIOUS
  <2>2. \A s \in 1..(k - 1) : s \in 1..n /\ r[s] = q[s]
    BY <1>1
  <2>3. Fed(q, k, g, x) => Fed(r, k, g, x)
    BY <2>2 DEF Fed
  <2>4. StartedIn(r, g, 1, k - 1) => StartedIn(q, g, 1, k - 1)
    BY <2>2 DEF StartedIn
  <2>5. QED BY <2>1, <2>3, <2>4 DEF Came
<1>4. ASSUME NEW k \in 1..(n + 1), r[k].kind = "complete", r[k].gen \in d.asked, NEW x \in Indices
      PROVE  Came(r, k, r[k].gen, x)
  <2>1. CASE k = n + 1
    <3>1. r[k] = e /\ e.kind = "complete"
      BY <1>1, <1>4, <2>1
    <3>2. e.gen = c.gen /\ c.left = {} /\ c.told = {} /\ ~Starting(e)
      BY <3>1 DEF Goes, Starting
    <3>3. c.gen \in c.asked
      BY <1>2, <1>4, <3>1, <3>2
    <3>4. Came(q, n + 1, c.gen, x)
      BY <3>2, <3>3 DEF AllCome
    <3>5. QED BY <1>1, <1>3, <2>1, <3>1, <3>2, <3>4
  <2>2. CASE k # n + 1
    <3>1. k \in 1..n /\ r[k] = q[k] /\ q[k] \in Tellings
      BY <1>1, <2>2
    <3>2. q[k].gen \in c.asked
      <4>1. CASE q[k].gen = NoGen
        BY <1>2, <1>4, <3>1, <4>1 DEF NoGen
      <4>2. CASE q[k].gen # NoGen
        <5>1. Numbered(q[k]) /\ q[k].gen \in Nat
          BY <1>4, <3>1, <4>2, TellingTypes DEF Numbered
        <5>2. q[k].gen <= c.gens
          BY <3>1, <5>1 DEF OrderGoesOn
        <5>3. QED BY <1>2, <1>4, <3>1, <5>1, <5>2
      <4>3. QED BY <4>1, <4>2
    <3>3. Came(q, k, q[k].gen, x)
      BY <1>4, <3>1, <3>2 DEF AllCome
    <3>4. QED BY <1>3, <3>1, <3>3
  <2>3. QED BY <2>1, <2>2
<1>5. ASSUME d.gen \in d.asked, NEW x \in Indices \ d.left
      PROVE  Came(r, n + 2, d.gen, x) \/ \E v \in d.told : v[1] = x
  <2>1. CASE Numbered(e) /\ Starting(e)
    <3>1. d.gen = c.gens + 1 /\ d.gen \notin c.asked
      BY <1>2, <2>1 DEF Goes
    <3>2. QED BY <1>2, <1>5, <3>1
  <2>2. CASE ~(Numbered(e) /\ Starting(e))
    <3>1. d.asked = c.asked /\ d.left = c.left /\ d.gen # NoGen
      BY <1>2, <1>5, <2>2 DEF Goes
    <3>2. d.gen = c.gen
      BY <2>2, <3>1 DEF Goes
    <3>3. Came(q, n + 1, c.gen, x) \/ \E v \in c.told : v[1] = x
      BY <1>5, <3>1, <3>2 DEF AllCome
    <3>4. CASE Came(q, n + 1, c.gen, x)
      <4>1. Came(r, n + 1, c.gen, x)
        BY <1>1, <1>3, <3>4
      <4>2. Fed(r, n + 1, c.gen, x) => Fed(r, n + 2, c.gen, x)
        <5>1. \A k \in 1..(n + 1 - 1) : k \in 1..(n + 2 - 1)
          BY <1>1
        <5>2. QED BY <5>1 DEF Fed
      <4>3. StartedIn(r, c.gen, 1, n + 2 - 1) => StartedIn(r, c.gen, 1, n + 1 - 1)
        <5>1. SUFFICES ASSUME NEW s \in 1..(n + 1), Starting(r[s]), r[s].gen = c.gen
                       PROVE  s \in 1..n
          BY <1>1 DEF StartedIn
        <5>2. s = n + 1 => Starting(e) /\ Numbered(e)
          BY <1>1, <5>1, TellingTypes
        <5>3. QED BY <1>1, <2>2, <5>2
      <4>4. QED BY <3>2, <4>1, <4>2, <4>3 DEF Came
    <3>5. CASE \E v \in c.told : v[1] = x
      <4>1. CASE e.kind = "batch"
        <5>1. e.gen = c.gen /\ e.values = c.told
          BY <2>2, <4>1 DEF Goes
        <5>2. Fed(r, n + 2, c.gen, x)
          BY <1>1, <3>5, <4>1, <5>1 DEF Fed
        <5>3. QED BY <3>2, <5>2 DEF Came
      <4>2. CASE e.kind # "batch"
        BY <2>2, <3>5, <4>2 DEF Goes
      <4>3. QED BY <4>1, <4>2
    <3>6. QED BY <3>3, <3>4, <3>5
  <2>3. QED BY <2>1, <2>2
<1>6. AllCome(r, d)
  <2>1. Len(r) = n + 1 /\ Len(r) + 1 = n + 2
    BY <1>1
  <2> HIDE DEF n
  <2>2. QED BY <1>4, <1>5, <2>1 DEF AllCome
<1>7. QED BY <1>6 DEF r

LEMMA WentTold ==
    ASSUME NEW q \in Seq(Tellings), NEW c \in Tellers, NEW e \in Tellings, NEW d \in Tellers,
           pageGen \in Nat, pageGen <= c.gens, OrderWentOn(q), OrderGoesOn(q, c), Goes(c, e, d)
    PROVE  OrderWentOn(q \o <<e>>) /\ pageGen <= d.gens
<1> DEFINE r == q \o <<e>>
           n == Len(q)
<1>1. n \in Nat /\ Len(r) = n + 1 /\ r[n + 1] = e /\ \A k \in 1..n : r[k] = q[k]
  BY Grown
<1> HIDE DEF r
<1>2. c.gen \in Nat /\ c.gens \in Nat /\ d.gens \in Nat /\ (Starting(e) \/ Stopping(e) => Numbered(e))
  BY TellingTypes DEF Tellers
<1>3. Numbered(e) => pageGen <= e.gen /\ (Starting(e) => pageGen < e.gen)
  BY <1>2 DEF Goes, OrderGoesOn, Numbered
<1>4. ASSUME NEW j \in 1..(n + 1), Numbered(r[j])
      PROVE  pageGen <= r[j].gen /\ (Starting(r[j]) => pageGen < r[j].gen)
  <2>1. CASE j = n + 1
    BY <1>1, <1>3, <1>4, <2>1
  <2>2. CASE j # n + 1
    <3>1. j \in 1..n /\ r[j] = q[j]
      BY <1>1, <2>2
    <3>2. QED BY <1>4, <3>1 DEF OrderWentOn
  <2>3. QED BY <2>1, <2>2
<1>5. pageGen <= d.gens
  BY <1>2 DEF Goes
<1>6. OrderWentOn(r)
  <2>1. Len(r) = n + 1
    BY <1>1
  <2> HIDE DEF n
  <2>2. QED BY <1>4, <2>1 DEF OrderWentOn
<1>7. QED BY <1>5, <1>6 DEF r

LEMMA QueueTold ==
    ASSUME NEW q \in Seq(Tellings), NEW c \in Tellers, NEW e \in Tellings, NEW d \in Tellers,
           seen \in Wires, pageGen \in Nat, QueueInv(q, c), Goes(c, e, d)
    PROVE  QueueInv(q \o <<e>>, d)
BY OrderTold, LinkTold, TurnTold, CameTold, WentTold DEF QueueInv

(* Telling es takes the Worker from c to d.                                  *)
Leads(es, c, d) ==
    es \in Seq(Tellings) /\ \A q \in Seq(Tellings) : QueueInv(q, c) => QueueInv(q \o es, d)

LEMMA LeadsBy ==
    ASSUME seen \in Wires, pageGen \in Nat,
           NEW c \in Tellers, NEW d \in Tellers, NEW e \in Tellings, Goes(c, e, d)
    PROVE  Leads(<<e>>, c, d)
BY QueueTold, SeqDef DEF Leads

LEMMA LeadsOn ==
    ASSUME NEW es, NEW fs, NEW c, NEW d, NEW f, Leads(es, c, d), Leads(fs, d, f)
    PROVE  Leads(es \o fs, c, f)
<1>1. es \in Seq(Tellings) /\ fs \in Seq(Tellings) /\ es \o fs \in Seq(Tellings)
  BY ConcatProperties DEF Leads
<1>2. ASSUME NEW q \in Seq(Tellings), QueueInv(q, c) PROVE QueueInv(q \o (es \o fs), f)
  <2>1. QueueInv(q \o es, d) /\ q \o es \in Seq(Tellings)
    BY <1>1, <1>2, ConcatProperties DEF Leads
  <2>2. QueueInv((q \o es) \o fs, f)
    BY <2>1 DEF Leads
  <2>3. (q \o es) \o fs = q \o (es \o fs)
    BY <1>1, ConcatAssociative, SMTT(30)
  <2>4. QED BY <2>2, <2>3
<1>3. QED BY <1>1, <1>2 DEF Leads

LEMMA OneByOne ==
    ASSUME NEW S, NEW e \in S, NEW f \in S
    PROVE  <<e>> \o <<f>> = <<e, f>>
<1>1. <<e>> \in Seq(S) /\ <<f>> \in Seq(S) /\ <<e, f>> \in Seq(S)
  OBVIOUS
<1>2. Len(<<e>>) = 1 /\ Len(<<f>>) = 1 /\ Len(<<e, f>>) = 2
  OBVIOUS
<1>3. /\ <<e>> \o <<f>> \in Seq(S) /\ Len(<<e>> \o <<f>>) = 2
      /\ (<<e>> \o <<f>>)[1] = e /\ (<<e>> \o <<f>>)[2] = f
  BY <1>1, <1>2, ConcatProperties
<1>4. \A k \in 1..2 : <<e, f>>[k] = (<<e>> \o <<f>>)[k]
  BY <1>3
<1>5. QED BY <1>1, <1>2, <1>3, <1>4, SeqEqual

(* What happens to the Worker without a word.                                *)
Quiet(c, d) ==
    /\ d.wire = c.wire /\ d.gens = c.gens /\ d.asked = c.asked /\ d.gen \in {c.gen, NoGen}
    /\ d.gen \in d.asked =>
         c.told \subseteq d.told /\ \A x \in c.left \ d.left : \E v \in d.told : v[1] = x

LEMMA LeadsQuietly ==
    ASSUME NEW c \in Tellers, NEW d \in Tellers, Quiet(c, d)
    PROVE  Leads(<<>>, c, d)
<1>1. ASSUME NEW q \in Seq(Tellings), QueueInv(q, c) PROVE QueueInv(q \o <<>>, d)
  <2>1. OrderGoesOn(q, c) /\ AllCome(q, c) /\ c.gens \in Nat
    BY <1>1 DEF QueueInv, Tellers
  <2>2. OrderGoesOn(q, d)
    BY <2>1 DEF OrderGoesOn, Quiet
  <2>3. AllCome(q, d)
    <3>1. ASSUME d.gen \in d.asked PROVE d.gen = c.gen
      BY <2>1, <3>1 DEF Quiet, OrderGoesOn, NoGen
    <3>2. ASSUME d.gen \in d.asked, NEW x \in Indices \ d.left
          PROVE  Came(q, Len(q) + 1, d.gen, x) \/ \E v \in d.told : v[1] = x
      <4>1. d.gen = c.gen /\ c.gen \in c.asked /\ c.told \subseteq d.told
        BY <3>1, <3>2 DEF Quiet
      <4>2. CASE x \in c.left
        BY <3>2, <4>2 DEF Quiet
      <4>3. CASE x \notin c.left
        BY <2>1, <3>2, <4>1, <4>3 DEF AllCome
      <4>4. QED BY <4>2, <4>3
    <3>3. QED BY <2>1, <3>2 DEF AllCome, Quiet
  <2>4. QueueInv(q, d)
    BY <1>1, <2>2, <2>3 DEF QueueInv, Quiet
  <2>5. QED BY <2>4, ConcatEmptySeq
<1>2. QED BY <1>1, EmptySeq DEF Leads

LEMMA TellersAre ==
    ASSUME NEW w, NEW g, NEW gs, NEW t, NEW l, NEW a
    PROVE  TellerOf(w, g, gs, t, l, a) \in Tellers
           <=> /\ w \in Wires /\ g \in Nat /\ gs \in Nat /\ t \in SUBSET Values /\ l \in SUBSET Indices
               /\ a \in SUBSET Nat
BY DEF TellerOf, Tellers

(* The parts a telling is made of: a flush, the end of a generation, its     *)
(* start, a pair of snapshots.                                               *)
LEMMA FlushLeads ==
    ASSUME seen \in Wires, pageGen \in Nat,
           NEW w, NEW g \in 0..MaxGens, NEW gs, NEW t, NEW l, NEW a,
           TellerOf(w, g, gs, t, l, a) \in Tellers, \A v \in t : w.open /\ v[2] = w.link
    PROVE  Leads(IF t = {} THEN <<>> ELSE <<Batch(g, t)>>,
                 TellerOf(w, g, gs, t, l, a), TellerOf(w, g, gs, {}, l, a))
<1> DEFINE c == TellerOf(w, g, gs, t, l, a)
           d == TellerOf(w, g, gs, {}, l, a)
<1>1. c \in Tellers /\ d \in Tellers
  BY TellersAre
<1>2. CASE t = {}
  <2>1. Quiet(c, d)
    BY <1>2 DEF Quiet, TellerOf
  <2>2. QED BY <1>1, <1>2, <2>1, LeadsQuietly
<1>3. CASE t # {}
  <2>1. Batch(g, t) \in Tellings
    BY TellersAre DEF Batch, Tellings
  <2>2. Goes(c, Batch(g, t), d)
    BY DEF Goes, Batch, TellerOf, Linking, Fits, Numbered, Starting, Stopping
  <2>3. QED BY <1>1, <1>3, <2>1, <2>2, LeadsBy
<1>4. QED BY <1>2, <1>3

LEMMA EndLeads ==
    ASSUME seen \in Wires, pageGen \in Nat,
           NEW w, NEW g \in 1..MaxGens, NEW gs, NEW t, NEW l, NEW a, NEW status \in {"cancelled", "complete", "failed"},
           TellerOf(w, g, gs, t, l, a) \in Tellers
    PROVE  Leads(<<Sync(status, g)>>, TellerOf(w, g, gs, t, l, a), TellerOf(w, NoGen, gs, t, l, a))
<1> DEFINE c == TellerOf(w, g, gs, t, l, a)
           d == TellerOf(w, NoGen, gs, t, l, a)
<1>1. c \in Tellers /\ d \in Tellers
  BY TellersAre DEF NoGen
<1>2. Sync(status, g) \in Tellings
  BY DEF Sync, Tellings
<1>3. Goes(c, Sync(status, g), d)
  BY DEF Goes, Sync, TellerOf, Linking, Fits, Numbered, Starting, Stopping
<1>4. QED BY <1>1, <1>2, <1>3, LeadsBy

LEMMA FinishLeads ==
    ASSUME seen \in Wires, pageGen \in Nat,
           NEW w, NEW g \in 0..MaxGens, NEW gs, NEW t, NEW l, NEW a, NEW status \in {"cancelled", "complete", "failed"},
           TellerOf(w, g, gs, t, l, a) \in Tellers, \A v \in t : w.open /\ v[2] = w.link
    PROVE  Leads(IF g = NoGen THEN <<>> ELSE (IF t = {} THEN <<>> ELSE <<Batch(g, t)>>) \o <<Sync(status, g)>>,
                 TellerOf(w, g, gs, t, l, a), TellerOf(w, NoGen, gs, IF g = NoGen THEN t ELSE {}, l, a))
<1>1. TellerOf(w, g, gs, t, l, a) \in Tellers /\ TellerOf(w, g, gs, {}, l, a) \in Tellers
  BY TellersAre
<1>2. CASE g = NoGen
  <2>1. Quiet(TellerOf(w, g, gs, t, l, a), TellerOf(w, g, gs, t, l, a))
    BY DEF Quiet
  <2>2. QED BY <1>1, <1>2, <2>1, LeadsQuietly
<1>3. CASE g # NoGen
  <2>1. Leads(IF t = {} THEN <<>> ELSE <<Batch(g, t)>>,
              TellerOf(w, g, gs, t, l, a), TellerOf(w, g, gs, {}, l, a))
    BY FlushLeads
  <2>2. g \in 1..MaxGens
    BY <1>3 DEF NoGen
  <2>3. Leads(<<Sync(status, g)>>, TellerOf(w, g, gs, {}, l, a), TellerOf(w, NoGen, gs, {}, l, a))
    BY <1>1, <2>2, EndLeads
  <2>4. QED BY <1>3, <2>1, <2>3, LeadsOn
<1>4. QED BY <1>2, <1>3

LEMMA StartLeads ==
    ASSUME seen \in Wires, pageGen \in Nat,
           NEW w, NEW g, NEW gs, NEW t, NEW l, NEW a, NEW s, NEW m, NEW b,
           TellerOf(w, g, gs, t, l, a) \in Tellers, s \in SUBSET Values, m \in SUBSET Indices, gs + 1 <= MaxGens,
           b = a \/ (b = a \cup {gs + 1} /\ m = Indices)
    PROVE  Leads(<<Sync("started", gs + 1)>>,
                 TellerOf(w, g, gs, t, l, a), TellerOf(w, gs + 1, gs + 1, s, m, b))
<1> DEFINE c == TellerOf(w, g, gs, t, l, a)
           d == TellerOf(w, gs + 1, gs + 1, s, m, b)
<1>1. c \in Tellers /\ d \in Tellers /\ gs \in Nat
  BY TellersAre
<1>2. Sync("started", gs + 1) \in Tellings
  BY <1>1, PageAssumption DEF Sync, Tellings
<1>3. Goes(c, Sync("started", gs + 1), d)
  BY <1>1 DEF Goes, Sync, TellerOf, Linking, Fits, Numbered, Starting, Stopping, NoGen
<1>4. QED BY <1>1, <1>2, <1>3, LeadsBy

LEMMA SnapshotsLead ==
    ASSUME seen \in Wires, pageGen \in Nat,
           NEW v, NEW w, NEW gs, NEW t, NEW l, NEW a,
           TellerOf(v, NoGen, gs, t, l, a) \in Tellers, w \in Wires,
           w.ready => w.open /\ ~w.raw, w.raw => w.open,
           NotBefore(v, w), w.ready => ~Away(v), Away(v) /\ ~Away(w) => ~seen.open /\ seen.link = v.link,
           IF w.link = v.link THEN v.open \/ ~w.open ELSE ~v.open
    PROVE  Leads(Snapshots(w), TellerOf(v, NoGen, gs, t, l, a), TellerOf(w, NoGen, gs, t, l, a))
<1> DEFINE c == TellerOf(v, NoGen, gs, t, l, a)
           d == TellerOf(w, NoGen, gs, t, l, a)
<1>1. c \in Tellers /\ d \in Tellers
  BY TellersAre
<1>2. Snapshot(w) \in Tellings
  BY DEF Snapshot, Tellings
<1>3. NotBefore(w, w) /\ (w.ready => ~Away(w))
  BY PageAssumption DEF NotBefore, Wires, Away
<1>4. Goes(c, Snapshot(w), d)
  BY DEF Goes, Snapshot, TellerOf, Linking, Fits, Numbered, Starting, Stopping
<1>5. Goes(d, Snapshot(w), d)
  BY <1>3 DEF Goes, Snapshot, TellerOf, Linking, Fits, Numbered, Starting, Stopping
<1>6. Leads(<<Snapshot(w)>>, c, d) /\ Leads(<<Snapshot(w)>>, d, d)
  BY <1>1, <1>2, <1>4, <1>5, LeadsBy
<1>7. Leads(<<Snapshot(w)>> \o <<Snapshot(w)>>, c, d)
  BY <1>6, LeadsOn
<1>8. <<Snapshot(w)>> \o <<Snapshot(w)>> = Snapshots(w)
  BY <1>2, OneByOne DEF Snapshots
<1>9. QED BY <1>7, <1>8

(* The others change nothing.                                                *)
LEMMA PlainLeads ==
    ASSUME seen \in Wires, pageGen \in Nat,
           NEW w, NEW g \in Nat, NEW gs, NEW t, NEW l, NEW a, NEW e \in Tellings,
           TellerOf(w, g, gs, t, l, a) \in Tellers,
           \/ e.kind \in {"target", "refused"}
           \/ e.kind = "failed" /\ e.gen \in {NoGen, g}
           \/ e.kind = "complete" /\ e.gen = g /\ w.open /\ l = {} /\ t = {}
    PROVE  Leads(<<e>>, TellerOf(w, g, gs, t, l, a), TellerOf(w, g, gs, t, l, a))
<1>1. Goes(TellerOf(w, g, gs, t, l, a), e, TellerOf(w, g, gs, t, l, a))
  BY DEF Goes, TellerOf, Linking, Fits, Numbered, Starting, Stopping
<1>2. QED BY <1>1, LeadsBy

LEMMA QuietFirst ==
    ASSUME NEW c \in Tellers, NEW d \in Tellers, NEW f, NEW es, Quiet(c, d), Leads(es, d, f)
    PROVE  Leads(es, c, f)
<1>1. Leads(<<>> \o es, c, f)
  BY LeadsQuietly, LeadsOn
<1>2. <<>> \o es = es
  BY ConcatEmptySeq DEF Leads
<1>3. QED BY <1>1, <1>2

LEMMA QuietLast ==
    ASSUME NEW c, NEW d \in Tellers, NEW f \in Tellers, NEW es, Leads(es, c, d), Quiet(d, f)
    PROVE  Leads(es, c, f)
<1>1. Leads(es \o <<>>, c, f)
  BY LeadsQuietly, LeadsOn
<1>2. es \o <<>> = es
  BY ConcatEmptySeq DEF Leads
<1>3. QED BY <1>1, <1>2

(* The Worker has told es and is what they lead to.                          *)
Speaks(es) == events' = events \o es /\ Leads(es, Teller, Teller')

LEMMA WorkerTypes ==
    ASSUME PageTypeOK, WorkerSound
    PROVE  /\ Teller \in Tellers /\ seen \in Wires /\ pageGen \in Nat
           /\ wire \in Wires /\ gen \in 0..MaxGens /\ gens \in 0..MaxGens /\ gen \in Nat /\ gens \in Nat
           /\ told \in SUBSET Values /\ left \in SUBSET Indices /\ asked \in SUBSET (1..MaxGens)
           /\ asked \in SUBSET Nat /\ NoGen \notin asked /\ NoGen \in 0..MaxGens
           /\ \A v \in told : wire.open /\ v[2] = wire.link
<1>1. asked \in SUBSET Nat /\ NoGen \notin asked /\ gen \in Nat /\ gens \in Nat /\ NoGen \in 0..MaxGens
  BY PageAssumption DEF PageTypeOK, NoGen
<1>2. /\ wire \in Wires /\ seen \in Wires /\ pageGen \in Nat /\ gen \in 0..MaxGens /\ gens \in 0..MaxGens
      /\ told \in SUBSET Values /\ left \in SUBSET Indices /\ asked \in SUBSET (1..MaxGens)
  BY PageAssumption DEF PageTypeOK
<1>3. Teller \in Tellers
  BY <1>1, <1>2, TellersAre DEF Teller
<1>4. \A v \in told : wire.open /\ v[2] = wire.link
  BY DEF WorkerSound
<1>5. QED BY ONLY <1>1, <1>2, <1>3, <1>4

LEMMA WireTypes ==
    ASSUME NEW w \in Wires, MaxLinks \in Nat
    PROVE  /\ w = [open |-> w.open, ready |-> w.ready, raw |-> w.raw, target |-> w.target, link |-> w.link]
           /\ w.open \in BOOLEAN /\ w.ready \in BOOLEAN /\ w.raw \in BOOLEAN /\ w.target \in BOOLEAN
           /\ w.link \in 0..MaxLinks /\ w.link \in Nat
BY DEF Wires

LEMMA OpenSpeaks ==
    ASSUME PageTypeOK, WorkerSound, Open
    PROVE  Speaks(Snapshots(wire')) /\ PageTypeOK' /\ WorkerSound'
<1> DEFINE c == TellerOf(wire, NoGen, gens, {}, {}, asked)
<1>1. /\ ~wire.open /\ wire.link < MaxLinks /\ ~seen.open /\ seen.link = wire.link
      /\ wire' = [NoLink EXCEPT !.open = TRUE, !.link = wire.link + 1]
      /\ gen' = NoGen /\ loading' = FALSE /\ left' = {} /\ told' = {} /\ events' = events \o Snapshots(wire')
      /\ UNCHANGED <<gens, asked, drops, silent, users, pageVars>>
  BY DEF Open, Post
<1>2. /\ wire' \in Wires /\ wire'.open /\ ~wire'.ready /\ ~wire'.raw /\ wire'.link = wire.link + 1 /\ wire.link \in Nat
      /\ wire'.link > 0
  <2>1. wire.link \in 0..MaxLinks /\ wire.link \in Nat /\ wire.link + 1 \in 0..MaxLinks
    BY <1>1, WorkerTypes, WireTypes, PageAssumption, SMTT(30)
  <2>2. wire' = [open |-> TRUE, ready |-> FALSE, raw |-> FALSE, target |-> FALSE, link |-> wire.link + 1]
    BY <1>1 DEF NoLink
  <2>3. QED BY ONLY <2>1, <2>2 DEF Wires
<1>3. Teller \in Tellers /\ c \in Tellers /\ Quiet(Teller, c)
  BY WorkerTypes, TellersAre DEF Quiet, TellerOf, Teller
<1>4. Leads(Snapshots(wire'), c, TellerOf(wire', NoGen, gens, {}, {}, asked))
  <2>1. NotBefore(wire, wire') /\ wire'.link # wire.link
    BY <1>2 DEF NotBefore
  <2>2. seen \in Wires /\ pageGen \in Nat
    BY WorkerTypes
  <2>3. QED BY <1>1, <1>2, <1>3, <2>1, <2>2, SnapshotsLead
<1>5. Leads(Snapshots(wire'), Teller, Teller')
  <2>1. Teller' = TellerOf(wire', NoGen, gens, {}, {}, asked)
    BY <1>1 DEF Teller
  <2>2. QED BY <1>3, <1>4, <2>1, QuietFirst
<1>6. PageTypeOK' /\ WorkerSound'
  <2>1. NoGen \in 0..MaxGens /\ NoGen \in 0..gens
    BY WorkerTypes DEF NoGen
  <2>2. PageTypeOK'
    BY <1>1, <1>2, <2>1 DEF PageTypeOK, pageVars, storeVars
  <2>3. WorkerSound'
    BY <1>1, <1>2, <2>1 DEF WorkerSound, pageVars, storeVars
  <2>4. QED BY <2>2, <2>3
<1>7. QED BY <1>1, <1>5, <1>6 DEF Speaks

LEMMA CloseSpeaks ==
    ASSUME PageTypeOK, WorkerSound, Close
    PROVE  Speaks((IF loading THEN <<Ends("failed", NoGen)>> ELSE <<>>) \o Snapshots(wire')) /\ PageTypeOK' /\ WorkerSound'
<1> DEFINE c == TellerOf(wire, NoGen, gens, {}, {}, asked)
           es == IF loading THEN <<Ends("failed", NoGen)>> ELSE <<>>
<1>1. /\ wire.open /\ wire' = [NoLink EXCEPT !.link = wire.link]
      /\ gen' = NoGen /\ loading' = FALSE /\ left' = {} /\ told' = {}
      /\ events' = events \o (es \o Snapshots(wire'))
      /\ UNCHANGED <<gens, asked, drops, silent, users, pageVars>>
  BY DEF Close, Post
<1>2. wire' \in Wires /\ ~wire'.open /\ ~wire'.ready /\ ~wire'.raw /\ wire'.link = wire.link /\ wire.link \in Nat
  <2>1. wire.link \in 0..MaxLinks /\ wire.link \in Nat
    BY <1>1, WorkerTypes, WireTypes, PageAssumption
  <2>2. wire' = [open |-> FALSE, ready |-> FALSE, raw |-> FALSE, target |-> FALSE, link |-> wire.link]
    BY <1>1 DEF NoLink
  <2>3. QED BY ONLY <2>1, <2>2 DEF Wires
<1>3. Teller \in Tellers /\ c \in Tellers /\ Quiet(Teller, c)
  BY WorkerTypes, TellersAre DEF Quiet, TellerOf, Teller
<1>4. Leads(es, c, c)
  <2>1. CASE loading
    <3>1. Ends("failed", NoGen) \in Tellings
      BY WorkerTypes DEF Ends, Tellings
    <3>2. NoGen \in Nat /\ Ends("failed", NoGen).kind = "failed" /\ Ends("failed", NoGen).gen = NoGen
      BY DEF Ends, NoGen
    <3>3. QED BY <1>3, <2>1, <3>1, <3>2, WorkerTypes, PlainLeads
  <2>2. CASE ~loading
    BY <1>3, <2>2, LeadsQuietly DEF Quiet
  <2>3. QED BY <2>1, <2>2
<1>5. Leads(Snapshots(wire'), c, TellerOf(wire', NoGen, gens, {}, {}, asked))
  <2>1. NotBefore(wire, wire') /\ Away(wire')
    BY <1>2 DEF NotBefore, Away
  <2>2. seen \in Wires /\ pageGen \in Nat
    BY WorkerTypes
  <2>3. QED BY <1>1, <1>2, <1>3, <2>1, <2>2, SnapshotsLead
<1>6. Leads(es \o Snapshots(wire'), Teller, Teller')
  <2>1. Teller' = TellerOf(wire', NoGen, gens, {}, {}, asked)
    BY <1>1 DEF Teller
  <2>2. Leads(es \o Snapshots(wire'), c, Teller')
    BY <1>4, <1>5, <2>1, LeadsOn
  <2>3. QED BY <1>3, <2>2, QuietFirst
<1>7. PageTypeOK' /\ WorkerSound'
  <2>1. NoGen \in 0..MaxGens /\ NoGen \in 0..gens
    BY WorkerTypes DEF NoGen
  <2>2. PageTypeOK'
    BY <1>1, <1>2, <2>1 DEF PageTypeOK, pageVars, storeVars
  <2>3. WorkerSound'
    BY <1>1, <1>2, <2>1 DEF WorkerSound, pageVars, storeVars
  <2>4. QED BY <2>2, <2>3
<1>8. QED BY <1>1, <1>6, <1>7 DEF Speaks

LEMMA BecomesReadySpeaks ==
    ASSUME PageTypeOK, WorkerSound, BecomesReady
    PROVE  Speaks(<<Target(TRUE)>> \o Snapshots(wire')) /\ PageTypeOK' /\ WorkerSound'
<1>1. /\ wire.open /\ ~wire.ready /\ ~wire.raw /\ wire' = [wire EXCEPT !.ready = TRUE, !.target = TRUE]
      /\ events' = events \o (<<Target(TRUE)>> \o Snapshots(wire')) /\ gen = NoGen
      /\ UNCHANGED <<gen, gens, asked, told, left, drops, silent, users, loading, pageVars>>
  BY DEF BecomesReady, Post, WorkerSound
<1>2. /\ wire' \in Wires /\ wire'.open = wire.open /\ wire'.ready /\ ~wire'.raw /\ wire'.link = wire.link
      /\ wire.link \in Nat
  <2>1. /\ wire = [open |-> wire.open, ready |-> wire.ready, raw |-> wire.raw, target |-> wire.target, link |-> wire.link]
        /\ wire.link \in 0..MaxLinks /\ wire.link \in Nat /\ wire.open \in BOOLEAN /\ wire.raw \in BOOLEAN
    BY <1>1, WorkerTypes, WireTypes, PageAssumption
  <2>2. wire' = [open |-> wire.open, ready |-> TRUE, raw |-> wire.raw, target |-> TRUE, link |-> wire.link]
    BY <1>1, <2>1
  <2>3. ~wire.raw /\ wire.open
    BY <1>1
  <2>4. QED BY ONLY <2>1, <2>2, <2>3 DEF Wires
<1>3. Teller = TellerOf(wire, NoGen, gens, told, left, asked) /\ Teller' = TellerOf(wire', NoGen, gens, told, left, asked)
  BY <1>1 DEF Teller
<1>4. Leads(<<Target(TRUE)>>, Teller, Teller)
  <2>1. Target(TRUE) \in Tellings /\ Target(TRUE).kind = "target" /\ NoGen \in Nat
    BY DEF Target, Tellings, NoGen
  <2>2. QED BY <1>3, <2>1, WorkerTypes, PlainLeads
<1>5. Leads(Snapshots(wire'), Teller, Teller')
  <2>1. NotBefore(wire, wire') /\ ~Away(wire)
    BY <1>1, <1>2 DEF NotBefore, Away
  <2>2. seen \in Wires /\ pageGen \in Nat /\ Teller \in Tellers
    BY WorkerTypes
  <2>3. QED BY <1>1, <1>2, <1>3, <2>1, <2>2, SnapshotsLead
<1>6. PageTypeOK' /\ WorkerSound'
  <2>1. NoGen \in 0..MaxGens /\ NoGen \in 0..gens
    BY WorkerTypes DEF NoGen
  <2>2. PageTypeOK'
    BY <1>1, <1>2, <2>1 DEF PageTypeOK, pageVars, storeVars
  <2>3. WorkerSound'
    BY <1>1, <1>2, <2>1 DEF WorkerSound, pageVars, storeVars
  <2>4. QED BY <2>2, <2>3
<1>7. QED BY <1>1, <1>4, <1>5, <1>6, LeadsOn DEF Speaks

LEMMA SoftLossSpeaks ==
    ASSUME PageTypeOK, WorkerSound, SoftLoss
    PROVE  Speaks(Finished("cancelled") \o Snapshots(wire')) /\ PageTypeOK' /\ WorkerSound'
<1> DEFINE s == IF gen = NoGen THEN told ELSE {}
<1>1. /\ wire.ready /\ wire' = [wire EXCEPT !.ready = FALSE] /\ gen' = NoGen /\ told' = s
      /\ drops' = drops + 1 /\ drops < MaxDrops
      /\ events' = events \o (Finished("cancelled") \o Snapshots(wire'))
      /\ UNCHANGED <<gens, asked, left, silent, users, loading, pageVars>>
  BY DEF SoftLoss, Post
<1>2. /\ wire' \in Wires /\ wire.open /\ ~wire.raw /\ wire'.open /\ ~wire'.ready /\ ~wire'.raw
      /\ wire'.link = wire.link /\ wire.link \in Nat
  <2>1. /\ wire = [open |-> wire.open, ready |-> wire.ready, raw |-> wire.raw, target |-> wire.target, link |-> wire.link]
        /\ wire.link \in 0..MaxLinks /\ wire.link \in Nat /\ wire.open \in BOOLEAN /\ wire.raw \in BOOLEAN
        /\ wire.target \in BOOLEAN
    BY <1>1, WorkerTypes, WireTypes, PageAssumption
  <2>2. wire' = [open |-> wire.open, ready |-> FALSE, raw |-> wire.raw, target |-> wire.target, link |-> wire.link]
    BY <1>1, <2>1
  <2>3. wire.open /\ ~wire.raw
    BY <1>1 DEF WorkerSound
  <2>4. QED BY ONLY <2>1, <2>2, <2>3 DEF Wires
<1>3. Leads(Finished("cancelled"), Teller, TellerOf(wire, NoGen, gens, s, left, asked))
  BY WorkerTypes, FinishLeads DEF Teller, Finished, Flushed
<1>4. Leads(Snapshots(wire'), TellerOf(wire, NoGen, gens, s, left, asked), Teller')
  <2>1. Teller' = TellerOf(wire', NoGen, gens, s, left, asked)
    BY <1>1 DEF Teller
  <2>2. TellerOf(wire, NoGen, gens, s, left, asked) \in Tellers
    BY WorkerTypes, TellersAre
  <2> HIDE DEF s
  <2>3. NotBefore(wire, wire') /\ ~Away(wire)
    BY <1>2 DEF NotBefore, Away
  <2>4. seen \in Wires /\ pageGen \in Nat
    BY WorkerTypes
  <2>5. QED BY <1>2, <2>1, <2>2, <2>3, <2>4, SnapshotsLead
<1>5. PageTypeOK' /\ WorkerSound'
  <2>1. drops \in 0..MaxDrops /\ MaxDrops \in Nat
    BY PageAssumption DEF PageTypeOK
  <2>2. drops' \in 0..MaxDrops
    BY <1>1, <2>1
  <2>3. NoGen \in 0..MaxGens /\ NoGen \in 0..gens /\ told' \in SUBSET Values
        /\ (\A v \in told' : wire.open /\ v[2] = wire.link)
    BY <1>1, WorkerTypes DEF NoGen
  <2>4. PageTypeOK'
    BY <1>1, <1>2, <2>2, <2>3 DEF PageTypeOK, pageVars, storeVars
  <2>5. WorkerSound'
    BY <1>1, <1>2, <2>3 DEF WorkerSound, pageVars, storeVars
  <2>6. QED BY <2>4, <2>5
<1>6. QED BY <1>1, <1>3, <1>4, <1>5, LeadsOn DEF Speaks

LEMMA RawBeginsSpeaks ==
    ASSUME PageTypeOK, WorkerSound, RawBegins
    PROVE  /\ Speaks((IF loading THEN Flushed \o <<Ends("failed", NoGen)>> ELSE <<>>)
                     \o <<Target(FALSE)>> \o Snapshots(wire'))
           /\ PageTypeOK' /\ WorkerSound'
<1> DEFINE s == IF loading THEN {} ELSE told
           es == IF loading THEN Flushed \o <<Ends("failed", NoGen)>> ELSE <<>>
           c == TellerOf(wire, NoGen, gens, s, left, asked)
           d == TellerOf(wire', NoGen, gens, s, left, asked)
<1>1. /\ wire.ready /\ wire' = [wire EXCEPT !.ready = FALSE, !.raw = TRUE, !.target = FALSE] /\ gen = NoGen
      /\ told' = s /\ drops' = drops + 1 /\ drops < MaxDrops /\ loading' = FALSE /\ left' = {}
      /\ events' = events \o (es \o <<Target(FALSE)>> \o Snapshots(wire'))
      /\ UNCHANGED <<gen, gens, asked, silent, users, pageVars>>
  BY DEF RawBegins, Post
<1>2. /\ wire' \in Wires /\ wire.open /\ ~wire.raw /\ wire'.open /\ ~wire'.ready /\ wire'.raw
      /\ wire'.link = wire.link /\ wire.link \in Nat
  <2>1. /\ wire = [open |-> wire.open, ready |-> wire.ready, raw |-> wire.raw, target |-> wire.target, link |-> wire.link]
        /\ wire.link \in 0..MaxLinks /\ wire.link \in Nat /\ wire.open \in BOOLEAN
    BY <1>1, WorkerTypes, WireTypes, PageAssumption
  <2>2. wire' = [open |-> wire.open, ready |-> FALSE, raw |-> TRUE, target |-> FALSE, link |-> wire.link]
    BY <1>1, <2>1
  <2>3. wire.open /\ ~wire.raw
    BY <1>1 DEF WorkerSound
  <2>4. QED BY ONLY <2>1, <2>2, <2>3 DEF Wires
<1>3. c \in Tellers /\ d \in Tellers /\ Teller \in Tellers /\ Teller = TellerOf(wire, NoGen, gens, told, left, asked)
  BY <1>1, <1>2, WorkerTypes, TellersAre DEF Teller
<1>4. Leads(es, Teller, c)
  <2>1. CASE loading
    <3>1. Leads(Flushed, Teller, c)
      BY <1>1, <2>1, WorkerTypes, FlushLeads DEF Teller, Flushed
    <3>2. Ends("failed", NoGen) \in Tellings
      BY WorkerTypes DEF Ends, Tellings
    <3>3. NoGen \in Nat /\ Ends("failed", NoGen).kind = "failed" /\ Ends("failed", NoGen).gen = NoGen
      BY DEF Ends, NoGen
    <3>4. Leads(<<Ends("failed", NoGen)>>, c, c)
      <4> HIDE DEF s
      <4>1. QED BY <1>3, <3>2, <3>3, WorkerTypes, PlainLeads
    <3>5. QED BY <2>1, <3>1, <3>4, LeadsOn
  <2>2. CASE ~loading
    BY <1>3, <2>2, LeadsQuietly DEF Quiet
  <2>3. QED BY <2>1, <2>2
<1>5. Leads(<<Target(FALSE)>>, c, c)
  <2>1. Target(FALSE) \in Tellings /\ Target(FALSE).kind = "target" /\ NoGen \in Nat
    BY DEF Target, Tellings, NoGen
  <2> HIDE DEF s
  <2>2. QED BY <1>3, <2>1, WorkerTypes, PlainLeads
<1>6. Leads(Snapshots(wire'), c, d)
  <2>1. NotBefore(wire, wire') /\ ~Away(wire)
    BY <1>2 DEF NotBefore, Away
  <2>2. seen \in Wires /\ pageGen \in Nat
    BY WorkerTypes
  <2> HIDE DEF s
  <2>3. QED BY <1>2, <1>3, <2>1, <2>2, SnapshotsLead
<1>7. Leads(es \o <<Target(FALSE)>> \o Snapshots(wire'), Teller, d)
  <2> HIDE DEF es, c, d
  <2>1. QED BY <1>4, <1>5, <1>6, LeadsOn
<1>8. Leads(es \o <<Target(FALSE)>> \o Snapshots(wire'), Teller, Teller')
  <2>1. Teller' = TellerOf(wire', NoGen, gens, s, {}, asked)
    BY <1>1 DEF Teller
  <2>2. Teller' \in Tellers /\ Quiet(d, Teller')
    BY <1>2, <2>1, WorkerTypes, TellersAre DEF Quiet, TellerOf
  <2> HIDE DEF es, d
  <2>3. QED BY <1>3, <1>7, <2>2, QuietLast
<1>9. PageTypeOK' /\ WorkerSound'
  <2>1. drops \in 0..MaxDrops /\ MaxDrops \in Nat
    BY PageAssumption DEF PageTypeOK
  <2>2. drops' \in 0..MaxDrops
    BY <1>1, <2>1
  <2>3. told' \in SUBSET Values /\ (\A v \in told' : wire.open /\ v[2] = wire.link)
    BY <1>1, WorkerTypes
  <2>4. PageTypeOK'
    BY <1>1, <1>2, <2>2, <2>3 DEF PageTypeOK, pageVars, storeVars
  <2>5. WorkerSound'
    BY <1>1, <1>2, <2>3 DEF WorkerSound, pageVars, storeVars
  <2>6. QED BY <2>4, <2>5
<1>10. QED BY <1>1, <1>8, <1>9 DEF Speaks

(* A generation is opened, with a request or without one.                    *)
LEMMA BegunLeads ==
    ASSUME PageTypeOK, WorkerSound, gens < MaxGens,
           NEW s \in SUBSET Values, NEW m \in SUBSET Indices, NEW b, b = asked \/ (b = asked \cup {gens + 1} /\ m = Indices)
    PROVE  Leads(Begun, Teller, TellerOf(wire, gens + 1, gens + 1, s, m, b))
<1> DEFINE t == IF gen = NoGen THEN told ELSE {}
           c == TellerOf(wire, NoGen, gens, t, left, asked)
<1>1. Leads(Finished("cancelled"), Teller, c)
  BY WorkerTypes, FinishLeads DEF Teller, Finished, Flushed
<1>2. c \in Tellers
  BY WorkerTypes, TellersAre
<1>3. gens + 1 <= MaxGens
  BY WorkerTypes, PageAssumption
<1>4. Leads(<<Sync("started", gens + 1)>>, c, TellerOf(wire, gens + 1, gens + 1, s, m, b))
  <2> HIDE DEF t
  <2>1. QED BY <1>2, <1>3, WorkerTypes, StartLeads
<1>5. QED BY <1>1, <1>4, LeadsOn DEF Begun

LEMMA BeginsSilentlySpeaks ==
    ASSUME PageTypeOK, WorkerSound, BeginsSilently
    PROVE  Speaks(Begun) /\ PageTypeOK' /\ WorkerSound'
<1>1. /\ wire.ready /\ silent < MaxSilent /\ silent' = silent + 1 /\ gens < MaxGens /\ gens' = gens + 1 /\ gen' = gens + 1
      /\ events' = events \o Begun
      /\ IF gen = NoGen THEN UNCHANGED <<left, loading, told>>
         ELSE loading' = FALSE /\ left' = {} /\ told' = {}
      /\ UNCHANGED <<wire, drops, asked, users, pageVars>>
  BY DEF BeginsSilently, BeginSync, Post
<1>2. /\ told' \in SUBSET Values /\ left' \in SUBSET Indices /\ (loading' => loading) /\ loading' \in BOOLEAN
      /\ \A v \in told' : wire.open /\ v[2] = wire.link
  <2>1. told \in SUBSET Values /\ left \in SUBSET Indices /\ loading \in BOOLEAN
    BY DEF PageTypeOK
  <2>2. QED BY <1>1, <2>1, WorkerTypes
<1>3. Leads(Begun, Teller, Teller')
  BY <1>1, <1>2, BegunLeads DEF Teller
<1>4. gens' \in 0..MaxGens /\ gen' \in 0..MaxGens /\ gen' \in 0..gens' /\ silent' \in 0..MaxSilent /\ gens <= gens'
  BY <1>1, WorkerTypes, PageAssumption DEF PageTypeOK
<1>5. PageTypeOK'
  BY <1>1, <1>2, <1>4 DEF PageTypeOK, pageVars, storeVars
<1>6. WorkerSound'
  <2>1. by <= gens' /\ (wire.ready => wire.open /\ ~wire.raw) /\ (wire.raw \/ loading => wire.open)
    BY <1>1, <1>4, WorkerTypes, PageAssumption DEF WorkerSound, PageTypeOK
  <2>2. QED BY <1>1, <1>2, <1>4, <2>1 DEF WorkerSound, pageVars, storeVars
<1>7. QED BY <1>1, <1>3, <1>5, <1>6 DEF Speaks

LEMMA DownloadsSpeaks ==
    ASSUME PageTypeOK, WorkerSound, Downloads
    PROVE  Speaks(Begun) /\ PageTypeOK' /\ WorkerSound'
<1>1. /\ wire.ready /\ gens < MaxGens /\ gens' = gens + 1 /\ gen' = gens + 1
      /\ events' = events \o Begun
      /\ asked' = asked \cup {gens + 1} /\ users' \in {users, users \cup {gens + 1}}
      /\ left' = Indices /\ loading' = TRUE /\ told' = (IF gen = NoGen THEN told ELSE {})
      /\ UNCHANGED <<wire, drops, silent, pageVars>>
  BY DEF Downloads, BeginSync, Post
<1>2. told' \in SUBSET Values /\ \A v \in told' : wire.open /\ v[2] = wire.link
  BY <1>1, WorkerTypes
<1>3. Leads(Begun, Teller, Teller')
  <2>1. Indices \in SUBSET Indices /\ told' \in SUBSET Values
    BY <1>2
  <2>2. Leads(Begun, Teller, TellerOf(wire, gens + 1, gens + 1, told', Indices, asked'))
    BY <1>1, <2>1, BegunLeads
  <2>3. QED BY <1>1, <2>2 DEF Teller
<1>4. gens' \in 0..MaxGens /\ gen' \in 0..MaxGens /\ gen' \in 0..gens' /\ gens <= gens' /\ gens + 1 \in 1..MaxGens
  BY <1>1, WorkerTypes, PageAssumption
<1>5. PageTypeOK'
  <2>1. users' \subseteq asked' /\ asked' \subseteq 1..MaxGens
    BY <1>1, <1>4 DEF PageTypeOK
  <2>2. QED BY <1>1, <1>2, <1>4, <2>1 DEF PageTypeOK, pageVars, storeVars
<1>6. WorkerSound'
  <2>1. by <= gens' /\ wire.open /\ ~wire.raw
    BY <1>1, <1>4, WorkerTypes, PageAssumption DEF WorkerSound, PageTypeOK
  <2>2. wire.open => wire.link > 0
    BY DEF WorkerSound
  <2>3. QED BY <1>1, <1>2, <1>4, <2>1, <2>2 DEF WorkerSound, pageVars, storeVars
<1>7. QED BY <1>1, <1>3, <1>5, <1>6 DEF Speaks

LEMMA GateRefusesSpeaks ==
    ASSUME PageTypeOK, WorkerSound, commands \in Seq(Nat), GateRefuses
    PROVE  Speaks(<<Refused(Head(commands), TRUE)>>) /\ PageTypeOK' /\ WorkerSound'
<1>1. commands # <<>> /\ events' = events \o <<Refused(Head(commands), TRUE)>> /\ UNCHANGED <<workerVars, pageVars>>
  BY DEF GateRefuses, Post
<1>2. Head(commands) \in Nat
  BY <1>1, HeadTailProperties
<1>3. Refused(Head(commands), TRUE) \in Tellings /\ Refused(Head(commands), TRUE).kind = "refused"
  BY <1>2 DEF Refused, Tellings
<1>4. Leads(<<Refused(Head(commands), TRUE)>>, Teller, Teller)
  BY <1>3, WorkerTypes, PlainLeads DEF Teller
<1>5. Teller' = Teller /\ PageTypeOK' /\ WorkerSound'
  BY <1>1, SMTT(30) DEF workerVars, pageVars, storeVars, Teller, TellerOf, PageTypeOK, WorkerSound
<1>6. QED BY <1>1, <1>4, <1>5 DEF Speaks

LEMMA BridgeRefusesSpeaks ==
    ASSUME PageTypeOK, WorkerSound, commands \in Seq(Nat), BridgeRefuses
    PROVE  /\ \E retryable \in BOOLEAN : Speaks(Begun \o <<Refused(Head(commands), retryable)>>)
           /\ PageTypeOK' /\ WorkerSound'
<1>1. /\ commands # <<>> /\ wire.ready /\ gens < MaxGens /\ gens' = gens + 1 /\ gen' = gens + 1
      /\ IF gen = NoGen THEN UNCHANGED <<left, loading, told>>
         ELSE loading' = FALSE /\ left' = {} /\ told' = {}
      /\ UNCHANGED <<wire, drops, silent, asked, users, pageVars>>
  BY DEF BridgeRefuses, BeginSync
<1>2. PICK retryable \in BOOLEAN : events' = events \o (Begun \o <<Refused(Head(commands), retryable)>>)
  BY DEF BridgeRefuses, Post
<1>3. /\ told' \in SUBSET Values /\ left' \in SUBSET Indices /\ (loading' => loading) /\ loading' \in BOOLEAN
      /\ \A v \in told' : wire.open /\ v[2] = wire.link
  <2>1. told \in SUBSET Values /\ left \in SUBSET Indices /\ loading \in BOOLEAN
    BY DEF PageTypeOK
  <2>2. QED BY <1>1, <2>1, WorkerTypes
<1>4. Leads(Begun, Teller, Teller')
  BY <1>1, <1>3, BegunLeads DEF Teller
<1>5. gens' \in 0..MaxGens /\ gen' \in 0..MaxGens /\ gen' \in 0..gens' /\ gens <= gens'
  BY <1>1, WorkerTypes, PageAssumption DEF PageTypeOK
<1>6. Leads(<<Refused(Head(commands), retryable)>>, Teller', Teller')
  <2>1. Head(commands) \in Nat
    BY <1>1, HeadTailProperties
  <2>2. Refused(Head(commands), retryable) \in Tellings /\ Refused(Head(commands), retryable).kind = "refused"
    BY <2>1 DEF Refused, Tellings
  <2>3. TellerOf(wire', gen', gens', told', left', asked') \in Tellers /\ gen' \in Nat
    <3>1. wire' \in Wires /\ gen' \in Nat /\ gens' \in Nat /\ asked' \in SUBSET Nat
      BY <1>1, WorkerTypes
    <3>2. QED BY <1>3, <3>1, TellersAre
  <2>4. QED BY <2>2, <2>3, WorkerTypes, PlainLeads DEF Teller
<1>7. PageTypeOK'
  BY <1>1, <1>3, <1>5 DEF PageTypeOK, pageVars, storeVars
<1>8. WorkerSound'
  <2>1. by <= gens' /\ (wire.ready => wire.open /\ ~wire.raw) /\ (wire.raw \/ loading => wire.open)
    BY <1>1, <1>5, WorkerTypes, PageAssumption DEF WorkerSound, PageTypeOK
  <2>2. QED BY <1>1, <1>3, <1>5, <2>1 DEF WorkerSound, pageVars, storeVars
<1>9. Leads(Begun \o <<Refused(Head(commands), retryable)>>, Teller, Teller')
  BY <1>4, <1>6, LeadsOn
<1>10. QED BY <1>2, <1>7, <1>8, <1>9 DEF Speaks

LEMMA FlushParamsSpeaks ==
    ASSUME PageTypeOK, WorkerSound, FlushParams
    PROVE  Speaks(Flushed) /\ PageTypeOK' /\ WorkerSound'
<1>1. /\ told' = {} /\ events' = events \o Flushed
      /\ UNCHANGED <<wire, drops, gen, gens, silent, asked, users, left, loading, pageVars>>
  BY DEF FlushParams, Post
<1>2. Leads(Flushed, Teller, Teller')
  BY <1>1, WorkerTypes, FlushLeads DEF Teller, Flushed
<1>3. PageTypeOK' /\ WorkerSound'
  BY <1>1 DEF PageTypeOK, WorkerSound, pageVars, storeVars
<1>4. QED BY <1>1, <1>2, <1>3 DEF Speaks

LEMMA SyncTimesOutSpeaks ==
    ASSUME PageTypeOK, WorkerSound, SyncTimesOut
    PROVE  Speaks(Finished("cancelled")) /\ PageTypeOK' /\ WorkerSound'
<1>1. /\ gen # NoGen /\ gen' = NoGen /\ told' = {} /\ left' = {} /\ loading' = FALSE
      /\ events' = events \o Finished("cancelled")
      /\ UNCHANGED <<wire, drops, gens, silent, asked, users, pageVars>>
  BY DEF SyncTimesOut, Post
<1>2. Leads(Finished("cancelled"), Teller, TellerOf(wire, NoGen, gens, {}, left, asked))
  <2>1. Leads(Finished("cancelled"), Teller, TellerOf(wire, NoGen, gens, IF gen = NoGen THEN told ELSE {}, left, asked))
    BY WorkerTypes, FinishLeads DEF Teller, Finished, Flushed
  <2>2. (IF gen = NoGen THEN told ELSE {}) = {}
    BY <1>1
  <2>3. QED BY <2>1, <2>2
<1>3. Teller' = TellerOf(wire, NoGen, gens, {}, {}, asked)
  BY <1>1 DEF Teller
<1>4. /\ TellerOf(wire, NoGen, gens, {}, left, asked) \in Tellers /\ Teller' \in Tellers
      /\ Quiet(TellerOf(wire, NoGen, gens, {}, left, asked), Teller')
  BY <1>3, WorkerTypes, TellersAre DEF Quiet, TellerOf
<1>5. Leads(Finished("cancelled"), Teller, Teller')
  BY <1>2, <1>4, QuietLast
<1>6. PageTypeOK' /\ WorkerSound'
  <2>1. NoGen \in 0..MaxGens /\ NoGen \in 0..gens
    BY WorkerTypes DEF NoGen
  <2>2. QED BY <1>1, <2>1 DEF PageTypeOK, WorkerSound, pageVars, storeVars
<1>7. QED BY <1>1, <1>5, <1>6 DEF Speaks

(* What ends a download, with the end of its generation if it has one.       *)
LEMMA EndingLeads ==
    ASSUME seen \in Wires, pageGen \in Nat,
           NEW w, NEW g \in 0..MaxGens, NEW gs, NEW l, NEW a, NEW status \in {"complete", "failed"},
           TellerOf(w, g, gs, {}, l, a) \in Tellers, w.open, status = "complete" => l = {}
    PROVE  /\ Leads(<<Ends(status, g)>>, TellerOf(w, g, gs, {}, l, a), TellerOf(w, g, gs, {}, l, a))
           /\ Leads(IF g = NoGen THEN <<>> ELSE <<Sync(status, g)>>,
                    TellerOf(w, g, gs, {}, l, a), TellerOf(w, NoGen, gs, {}, l, a))
<1> DEFINE c == TellerOf(w, g, gs, {}, l, a)
<1>1. Leads(<<Ends(status, g)>>, c, c)
  <2>1. Ends(status, g) \in Tellings
    BY DEF Ends, Tellings
  <2>2. Ends(status, g).kind = status /\ Ends(status, g).gen = g /\ g \in Nat
    BY PageAssumption DEF Ends
  <2>3. QED BY <2>1, <2>2, PlainLeads
<1>2. CASE g = NoGen
  BY <1>1, <1>2, LeadsQuietly DEF Quiet
<1>3. CASE g # NoGen
  <2>1. g \in 1..MaxGens
    BY <1>3 DEF NoGen
  <2>2. QED BY <1>1, <1>3, <2>1, EndLeads
<1>4. QED BY <1>2, <1>3

LEMMA DownloadFailsSpeaks ==
    ASSUME PageTypeOK, WorkerSound, DownloadFails
    PROVE  /\ Speaks(Flushed \o <<Ends("failed", gen)>> \o (IF gen = NoGen THEN <<>> ELSE <<Sync("failed", gen)>>))
           /\ PageTypeOK' /\ WorkerSound'
<1> DEFINE c == TellerOf(wire, gen, gens, {}, left, asked)
           d == TellerOf(wire, NoGen, gens, {}, left, asked)
           fs == IF gen = NoGen THEN <<>> ELSE <<Sync("failed", gen)>>
<1>1. /\ loading /\ gen' = NoGen /\ told' = {} /\ left' = {} /\ loading' = FALSE
      /\ events' = events \o (Flushed \o <<Ends("failed", gen)>> \o fs)
      /\ UNCHANGED <<wire, drops, gens, silent, asked, users, pageVars>>
  BY DEF DownloadFails, Post
<1>2. Leads(Flushed, Teller, c)
  BY WorkerTypes, FlushLeads DEF Teller, Flushed
<1>3. c \in Tellers /\ d \in Tellers /\ wire.open
  <2>1. c \in Tellers /\ d \in Tellers
    BY WorkerTypes, TellersAre
  <2>2. QED BY <1>1, <2>1 DEF WorkerSound
<1>4. Leads(<<Ends("failed", gen)>>, c, c) /\ Leads(fs, c, d)
  BY <1>3, WorkerTypes, EndingLeads
<1>5. Leads(Flushed \o <<Ends("failed", gen)>> \o fs, Teller, d)
  <2> HIDE DEF fs, c, d
  <2>1. QED BY <1>2, <1>4, LeadsOn
<1>6. Teller' = TellerOf(wire, NoGen, gens, {}, {}, asked)
  BY <1>1 DEF Teller
<1>7. Teller' \in Tellers /\ Quiet(d, Teller')
  BY <1>6, WorkerTypes, TellersAre DEF Quiet, TellerOf
<1>8. Leads(Flushed \o <<Ends("failed", gen)>> \o fs, Teller, Teller')
  <2> HIDE DEF fs, d
  <2>1. QED BY <1>3, <1>5, <1>7, QuietLast
<1>9. PageTypeOK' /\ WorkerSound'
  <2>1. NoGen \in 0..MaxGens /\ NoGen \in 0..gens
    BY WorkerTypes DEF NoGen
  <2>2. QED BY <1>1, <2>1 DEF PageTypeOK, WorkerSound, pageVars, storeVars
<1>10. QED BY <1>1, <1>8, <1>9 DEF Speaks

LEMMA TellsSpeaks ==
    ASSUME PageTypeOK, WorkerSound, events \in Seq(Tellings), NEW i \in Indices, Tells(i)
    PROVE  (\E es : Speaks(es)) /\ PageTypeOK' /\ WorkerSound'
<1> DEFINE s == told \cup {<<i, wire.link>>}
           b == Batch(gen, s)
           e == Ends("complete", gen)
           fs == IF gen = NoGen THEN <<>> ELSE <<Sync("complete", gen)>>
           l == left \ {i}
           c == TellerOf(wire, gen, gens, s, l, asked)
<1>1. /\ loading /\ i \in left /\ left' = l
      /\ UNCHANGED <<wire, drops, gens, silent, asked, users, pageVars>>
  BY DEF Tells
<1>2. wire.open /\ <<i, wire.link>> \in Values /\ s \in SUBSET Values /\ \A v \in s : wire.open /\ v[2] = wire.link
  <2>1. wire.open /\ wire.link > 0 /\ wire.link \in 0..MaxLinks
    BY <1>1, WorkerTypes, WireTypes, PageAssumption DEF WorkerSound
  <2>2. <<i, wire.link>> \in Values
    BY <2>1, PageAssumption DEF Values
  <2>3. QED BY <2>1, <2>2, WorkerTypes
<1>3. Teller \in Tellers /\ c \in Tellers /\ l \in SUBSET Indices
  BY <1>2, WorkerTypes, TellersAre
<1>4. Quiet(Teller, c)
  <2>1. told \subseteq s /\ \A x \in left \ l : \E v \in s : v[1] = x
    <3>1. <<i, wire.link>> \in s /\ <<i, wire.link>>[1] = i
      OBVIOUS
    <3>2. QED BY <3>1
  <2> HIDE DEF s, l
  <2>2. QED BY <2>1 DEF Quiet, TellerOf, Teller
<1> HIDE DEF s
<1>5. CASE l # {}
  <2>1. told' = s /\ UNCHANGED <<loading, gen, events>>
    BY <1>1, <1>5 DEF Tells, s
  <2>2. Teller' = c
    BY <1>1, <2>1 DEF Teller
  <2>3. Leads(<<>>, Teller, Teller')
    BY <1>3, <1>4, <2>2, LeadsQuietly
  <2>4. events = events \o <<>>
    BY ConcatEmptySeq
  <2>5. PageTypeOK'
    BY <1>1, <1>2, <1>3, <2>1 DEF PageTypeOK, pageVars, storeVars
  <2>6. WorkerSound'
    BY <1>1, <1>2, <2>1 DEF WorkerSound, pageVars, storeVars
  <2>7. QED BY <2>1, <2>3, <2>4, <2>5, <2>6 DEF Speaks
<1>6. CASE l = {}
  <2>1. /\ told' = {} /\ loading' = FALSE /\ gen' = NoGen
        /\ events' = events \o (<<b, e>> \o fs)
    <3>1. /\ told' = {} /\ loading' = FALSE /\ gen' = NoGen
          /\ events' = events \o (IF gen = NoGen THEN <<b, e>> ELSE <<b, e>> \o <<Sync("complete", gen)>>)
      BY <1>1, <1>6 DEF Tells, Post, s
    <3>2. b \in Tellings /\ e \in Tellings
      BY <1>2, WorkerTypes DEF Batch, Ends, Tellings
    <3>3. <<b, e>> \in Seq(Tellings)
      BY <3>2
    <3>4. <<b, e>> \o <<>> = <<b, e>>
      BY <3>3, ConcatEmptySeq
    <3>5. QED BY <3>1, <3>4
  <2>2. b \in Tellings /\ e \in Tellings
    BY <1>2, WorkerTypes DEF Batch, Ends, Tellings
  <2> DEFINE d == TellerOf(wire, gen, gens, {}, {}, asked)
             f == TellerOf(wire, NoGen, gens, {}, {}, asked)
  <2>3. Leads(<<b>>, c, d)
    <3>1. s # {}
      BY DEF s
    <3>2. Leads(IF s = {} THEN <<>> ELSE <<Batch(gen, s)>>, c, d)
      BY <1>2, <1>3, <1>6, WorkerTypes, FlushLeads
    <3>3. QED BY <3>1, <3>2
  <2>4. d \in Tellers
    BY WorkerTypes, TellersAre
  <2>5. Leads(<<e>>, d, d) /\ Leads(fs, d, f)
    BY <1>2, <2>4, WorkerTypes, EndingLeads
  <2>6. Teller' = f
    BY <1>1, <1>6, <2>1 DEF Teller
  <2>7. Leads(<<b, e>> \o fs, c, f)
    <3>1. <<b>> \o <<e>> = <<b, e>>
      BY <2>2, OneByOne
    <3> HIDE DEF b, e, fs, c, d, f
    <3>2. Leads((<<b>> \o <<e>>) \o fs, c, f)
      BY <2>3, <2>5, LeadsOn
    <3>3. QED BY <3>1, <3>2
  <2>8. Leads(<<b, e>> \o fs, Teller, Teller')
    <3> HIDE DEF b, e, fs, c, d, f
    <3>1. QED BY <1>3, <1>4, <2>6, <2>7, QuietFirst
  <2>9. NoGen \in 0..MaxGens /\ NoGen \in 0..gens
    BY WorkerTypes DEF NoGen
  <2>10. PageTypeOK' /\ WorkerSound'
    BY <1>1, <1>3, <2>1, <2>9 DEF PageTypeOK, WorkerSound, pageVars, storeVars
  <2>11. QED BY <2>1, <2>8, <2>10 DEF Speaks
<1>7. QED BY <1>5, <1>6

LEMMA RawEndsKeeps ==
    ASSUME PageTypeOK, WorkerSound, events \in Seq(Tellings), QueueInv(events, Teller), RawEnds
    PROVE  PageTypeOK' /\ WorkerSound' /\ events' \in Seq(Tellings) /\ QueueInv(events', Teller')
<1>1. /\ events = <<>> /\ wire.raw /\ wire' = [wire EXCEPT !.raw = FALSE]
      /\ UNCHANGED <<drops, gen, gens, silent, asked, users, left, loading, told, events, pageVars>>
  BY DEF RawEnds
<1>2. wire' \in Wires /\ wire'.open = wire.open /\ wire'.ready = wire.ready /\ ~wire'.raw /\ wire'.link = wire.link
  BY <1>1, WorkerTypes DEF Wires
<1>3. PageTypeOK'
  BY <1>1, <1>2 DEF PageTypeOK, pageVars, storeVars
<1>4. WorkerSound'
  BY <1>1, <1>2 DEF WorkerSound, pageVars, storeVars
<1>5. events' = <<>> /\ Len(<<>>) = 0
  BY <1>1
<1>6. SyncsInOrder(events') /\ OrderGoesOn(events', Teller') /\ OrderWentOn(events') /\ pageGen <= Teller'.gens
  BY <1>1 DEF QueueInv, SyncsInOrder, OrderGoesOn, OrderWentOn, Teller, TellerOf
<1>7. AllCome(events', Teller')
  BY <1>1 DEF QueueInv, AllCome, Teller, TellerOf
<1>8. LinksInTurn(events', Teller'.wire)
  <2>1. NotBefore(seen, wire')
    <3>1. NotBefore(seen, wire)
      BY DEF QueueInv, LinksInTurn, Teller, TellerOf
    <3>2. QED BY <1>2, <3>1 DEF NotBefore
  <2>2. \A i \in 1..Len(events') : FALSE
    BY <1>5
  <2>3. Teller'.wire = wire'
    BY DEF Teller, TellerOf
  <2>4. QED BY <2>1, <2>2, <2>3 DEF LinksInTurn
<1>9. InLink(events', seen, Teller'.wire)
  BY <1>1, <1>2, <1>5 DEF QueueInv, InLink, SameLink, Teller, TellerOf
<1>10. QED BY <1>1, <1>3, <1>4, <1>6, <1>7, <1>8, <1>9 DEF QueueInv

LEMMA WorkerKeeps ==
    ASSUME PageTypeOK, WorkerSound, events \in Seq(Tellings), commands \in Seq(Nat), QueueInv(events, Teller),
           WorkerStep
    PROVE  PageTypeOK' /\ WorkerSound' /\ events' \in Seq(Tellings) /\ QueueInv(events', Teller')
<1>1. CASE RawEnds
  BY <1>1, RawEndsKeeps
<1>2. CASE ~RawEnds
  <2>1. (\E es : Speaks(es)) /\ PageTypeOK' /\ WorkerSound'
    <3>1. CASE Open
      BY <3>1, OpenSpeaks
    <3>2. CASE Close
      BY <3>2, CloseSpeaks
    <3>3. CASE BecomesReady
      BY <3>3, BecomesReadySpeaks
    <3>4. CASE SoftLoss
      BY <3>4, SoftLossSpeaks
    <3>5. CASE RawBegins
      BY <3>5, RawBeginsSpeaks
    <3>6. CASE BeginsSilently
      BY <3>6, BeginsSilentlySpeaks
    <3>7. CASE Downloads
      BY <3>7, DownloadsSpeaks
    <3>8. CASE GateRefuses
      BY <3>8, GateRefusesSpeaks
    <3>9. CASE BridgeRefuses
      BY <3>9, BridgeRefusesSpeaks
    <3>10. CASE \E i \in Indices : Tells(i)
      BY <3>10, TellsSpeaks
    <3>11. CASE FlushParams
      BY <3>11, FlushParamsSpeaks
    <3>12. CASE DownloadFails
      BY <3>12, DownloadFailsSpeaks
    <3>13. CASE SyncTimesOut
      BY <3>13, SyncTimesOutSpeaks
    <3>14. QED BY <1>2, <3>1, <3>2, <3>3, <3>4, <3>5, <3>6, <3>7, <3>8, <3>9, <3>10, <3>11, <3>12, <3>13 DEF WorkerStep
  <2>2. PICK es : Speaks(es)
    BY <2>1
  <2>3. es \in Seq(Tellings) /\ events' = events \o es /\ QueueInv(events \o es, Teller')
    BY <2>2 DEF Speaks, Leads
  <2>4. events' \in Seq(Tellings)
    BY <2>3, ConcatProperties
  <2>5. QED BY <2>1, <2>3, <2>4
<1>3. QED BY <1>1, <1>2

(* The queue is read with what the page is, which a step of the Worker keeps.*)
LEMMA SamePage ==
    ASSUME UNCHANGED pageVars, QueueInv(events', Teller')
    PROVE  QueueInv(events, Teller)'
<1>1. seen' = seen /\ pageGen' = pageGen /\ list' = list /\ batch' = batch /\ wiped' = wiped
  BY DEF pageVars, storeVars
<1>2. SyncsInOrder(events)' /\ OrderGoesOn(events, Teller)' /\ OrderWentOn(events)' /\ (pageGen <= Teller.gens)'
  BY <1>1 DEF QueueInv, SyncsInOrder, OrderGoesOn, OrderWentOn, StartedIn
<1>3. InLink(events, seen, Teller.wire)'
  BY <1>1 DEF QueueInv, InLink, LatestWire, WireAt
<1>4. AllCome(events, Teller)'
  BY <1>1 DEF QueueInv, AllCome, Came, Held, Fed, StartedIn
<1>5. LinksInTurn(events, Teller.wire)'
  BY <1>1 DEF QueueInv, LinksInTurn, AwayHeard
<1>6. QED BY <1>2, <1>3, <1>4, <1>5 DEF QueueInv

(* The page hears e: what it knows of the link, the generation it follows    *)
(* and what it keeps of it.                                                  *)
HeardOf(e) ==
    /\ Linking(e) => SameLink(seen', e.wire) /\ pageGen' = pageGen
    /\ ~Linking(e) => SameLink(seen', seen)
    /\ pageGen' \in {pageGen, NoGen} \/ (Starting(e) /\ pageGen' = e.gen)
    /\ ~Linking(e) /\ pageGen' = pageGen =>
         wiped' = pageGen \/ (wiped' = wiped /\ list \cup batch \subseteq list' \cup batch')
    /\ e.kind = "batch" => pageGen' = pageGen /\ (e.gen = pageGen => e.values \subseteq list' \cup batch')

LEMMA EventsTail ==
    ASSUME events \in Seq(Tellings), events # <<>>, events' = Tail(events)
    PROVE  /\ events' \in Seq(Tellings) /\ Len(events) \in Nat /\ Len(events) > 0 /\ Len(events') = Len(events) - 1
           /\ Head(events) = events[1] /\ \A k \in 1..Len(events) : events[k] \in Tellings
           /\ \A k \in 1..(Len(events) - 1) : events'[k] = events[k + 1]
           /\ \A k \in 2..Len(events) : events[k] = events'[k - 1]
<1>1. Len(events) \in Nat /\ Len(events) > 0 /\ Head(events) = events[1] /\ \A k \in 1..Len(events) : events[k] \in Tellings
  BY LenProperties, EmptySeq, ElementOfSeq
<1>2. events' \in Seq(Tellings) /\ Len(events') = Len(events) - 1 /\ \A k \in 1..(Len(events) - 1) : events'[k] = events[k + 1]
  BY HeadTailProperties
<1>3. \A k \in 2..Len(events) : k - 1 \in 1..(Len(events) - 1) /\ (k - 1) + 1 = k
  BY <1>1
<1>4. QED BY <1>1, <1>2, <1>3

LEMMA HeardOrder ==
    ASSUME events \in Seq(Tellings), events # <<>>, events' = Tail(events), QueueInv(events, Teller), Teller' = Teller,
           pageGen \in Nat, gens \in Nat, HeardOf(events[1])
    PROVE  /\ SyncsInOrder(events)' /\ OrderGoesOn(events, Teller)' /\ OrderWentOn(events)'
           /\ (pageGen <= Teller.gens)'
<1> DEFINE p == events
           q == events'
           n == Len(events)
           c == Teller
<1>1. /\ n \in Nat /\ n > 0 /\ Len(q) = n - 1 /\ \A k \in 1..n : p[k] \in Tellings
      /\ \A k \in 1..(n - 1) : q[k] = p[k + 1] /\ k + 1 \in 1..n
      /\ \A k \in 2..n : p[k] = q[k - 1]
  BY EventsTail
<1>2. /\ SyncsInOrder(p) /\ OrderGoesOn(p, c) /\ OrderWentOn(p) /\ pageGen <= c.gens /\ c.gens = gens
      /\ \A k \in 1..n : Numbered(p[k]) => p[k].gen \in Nat /\ p[k].gen > 0
      /\ \A k \in 1..n : Starting(p[k]) => Numbered(p[k])
  BY <1>1, TellingTypes DEF QueueInv, Teller, TellerOf
<1> HIDE DEF c
<1>3. ASSUME NEW g, NEW i \in 1..n, NEW j \in 0..(n - 1), StartedIn(p, g, i + 1, j + 1) PROVE StartedIn(q, g, i, j)
  <2>1. PICK s \in (i + 1)..(j + 1) : Starting(p[s]) /\ p[s].gen = g
    BY <1>3 DEF StartedIn
  <2>2. s \in 2..n /\ s - 1 \in i..j
    BY <1>1, <2>1
  <2>3. q[s - 1] = p[s]
    BY <1>1, <2>2
  <2>4. QED BY <2>1, <2>2, <2>3 DEF StartedIn
<1>4. SyncsInOrder(q)
  <2>1. ASSUME NEW i \in 1..(n - 1), NEW j \in 1..(n - 1), i < j, Numbered(q[i]), Numbered(q[j])
        PROVE  q[i].gen <= q[j].gen /\ (Starting(q[j]) \/ Stopping(q[i]) => q[i].gen < q[j].gen)
    <3>1. q[i] = p[i + 1] /\ q[j] = p[j + 1] /\ i + 1 \in 1..n /\ j + 1 \in 1..n /\ i + 1 < j + 1
      BY <1>1, <2>1
    <3>2. QED BY <1>2, <2>1, <3>1 DEF SyncsInOrder
  <2>2. ASSUME NEW i \in 1..(n - 1), NEW j \in 1..(n - 1), i < j, Linking(q[i]), Numbered(q[j])
        PROVE  StartedIn(q, q[j].gen, i + 1, j)
    <3>1. q[i] = p[i + 1] /\ q[j] = p[j + 1] /\ i + 1 \in 1..n /\ j + 1 \in 1..n /\ i + 1 < j + 1
      BY <1>1, <2>2
    <3>2. StartedIn(p, q[j].gen, (i + 1) + 1, j + 1)
      BY <1>2, <2>2, <3>1 DEF SyncsInOrder
    <3>3. QED BY <1>1, <1>3, <3>1, <3>2
  <2>3. Len(q) = n - 1
    BY <1>1
  <2> HIDE DEF n, q
  <2>4. QED BY <2>1, <2>2, <2>3 DEF SyncsInOrder
<1>5. OrderGoesOn(q, c)
  <2>1. ASSUME NEW i \in 1..(n - 1), Numbered(q[i]) PROVE q[i].gen <= c.gens
    BY <1>1, <1>2, <2>1 DEF OrderGoesOn
  <2>2. ASSUME c.gen # NoGen, NEW i \in 1..(n - 1)
        PROVE  /\ Numbered(q[i]) /\ Stopping(q[i]) => q[i].gen < c.gen
               /\ Linking(q[i]) => StartedIn(q, c.gen, i + 1, n - 1)
    <3>1. q[i] = p[i + 1] /\ i + 1 \in 1..n
      BY <1>1
    <3>2. /\ Numbered(q[i]) /\ Stopping(q[i]) => q[i].gen < c.gen
          /\ Linking(q[i]) => StartedIn(p, c.gen, (i + 1) + 1, n)
      BY <1>2, <2>2, <3>1 DEF OrderGoesOn
    <3>3. n - 1 \in 0..(n - 1) /\ (n - 1) + 1 = n
      BY <1>1
    <3>4. QED BY <1>3, <3>1, <3>2, <3>3
  <2>3. Len(q) = n - 1 /\ (c.gen = NoGen \/ c.gen = c.gens) /\ c.asked \subseteq 1..c.gens
    BY <1>1, <1>2 DEF OrderGoesOn
  <2> HIDE DEF n, q
  <2>4. QED BY <2>1, <2>2, <2>3 DEF OrderGoesOn
<1>6. pageGen' \in Nat /\ pageGen' <= c.gens
  <2>1. CASE pageGen' \in {pageGen, NoGen}
    BY <1>2, <2>1 DEF NoGen
  <2>2. CASE Starting(p[1]) /\ pageGen' = p[1].gen
    BY <1>1, <1>2, <2>2 DEF OrderGoesOn
  <2>3. QED BY <2>1, <2>2 DEF HeardOf
<1>7. ASSUME NEW j \in 1..(n - 1), Numbered(q[j])
      PROVE  pageGen' <= q[j].gen /\ (Starting(q[j]) => pageGen' < q[j].gen)
  <2>1. q[j] = p[j + 1] /\ j + 1 \in 1..n /\ 1 < j + 1 /\ 1 \in 1..n
    BY <1>1
  <2>2. CASE pageGen' = pageGen
    BY <1>2, <1>7, <2>1, <2>2 DEF OrderWentOn
  <2>3. CASE pageGen' = NoGen
    BY <1>2, <1>7, <2>1, <2>3 DEF NoGen
  <2>4. CASE Starting(p[1]) /\ pageGen' = p[1].gen
    BY <1>2, <1>7, <2>1, <2>4 DEF SyncsInOrder
  <2>5. QED BY <2>2, <2>3, <2>4 DEF HeardOf
<1>8. OrderWentOn(events)'
  <2>1. Len(events') = n - 1
    BY <1>1
  <2> HIDE DEF n
  <2>2. QED BY <1>7, <2>1 DEF OrderWentOn
<1>9. Teller' = c
  BY DEF c
<1>10. SyncsInOrder(events)'
  BY ONLY <1>4 DEF SyncsInOrder, StartedIn
<1>11. OrderGoesOn(events, Teller)'
  BY ONLY <1>5, <1>9 DEF OrderGoesOn, StartedIn
<1>12. pageGen' <= Teller.gens'
  BY ONLY <1>6, <1>9
<1>13. QED BY ONLY <1>8, <1>10, <1>11, <1>12

LEMMA HeardLink ==
    ASSUME events \in Seq(Tellings), events # <<>>, events' = Tail(events), QueueInv(events, Teller), Teller' = Teller,
           HeardOf(events[1])
    PROVE  InLink(events, seen, Teller.wire)'
<1> DEFINE p == events
           q == events'
           n == Len(events)
           w == Teller.wire
           e == events[1]
           J(j) == IF j = 0 THEN IF Linking(e) THEN 1 ELSE 0 ELSE j + 1
<1>1. /\ n \in Nat /\ n > 0 /\ Len(q) = n - 1
      /\ \A k \in 1..(n - 1) : q[k] = p[k + 1] /\ k + 1 \in 1..n
      /\ \A k \in 2..n : p[k] = q[k - 1]
  BY EventsTail
<1>2. InLink(p, seen, w)
  BY DEF QueueInv
<1>3. (Linking(e) => SameLink(seen', e.wire)) /\ (~Linking(e) => SameLink(seen', seen))
  BY DEF HeardOf
<1> HIDE DEF w, e
<1>4. ASSUME NEW j \in 0..(n - 1), NEW i \in 1..n, LatestWire(q, j, i)
      PROVE  J(j) \in 0..n /\ LatestWire(p, J(j), i + 1) /\ SameLink(WireAt(q, seen', j), WireAt(p, seen, J(j)))
  <2>1. ASSUME NEW k \in 2..n, j + 1 < k, k < i + 1 PROVE ~Linking(p[k])
    <3>1. k - 1 \in 1..Len(q) /\ j < k - 1 /\ k - 1 < i /\ p[k] = q[k - 1]
      BY <1>1, <2>1
    <3>2. QED BY <1>4, <3>1 DEF LatestWire
  <2>2. CASE j = 0
    <3>1. \A k \in 1..n : k = 1 \/ k \in 2..n
      BY <1>1
    <3>2. CASE Linking(e)
      <4>1. J(j) = 1 /\ J(j) \in 0..n
        BY <1>1, <2>2, <3>2
      <4>2. LatestWire(p, 1, i + 1)
        BY <2>1, <2>2, <3>1, <3>2 DEF LatestWire, e
      <4>3. WireAt(q, seen', j) = seen' /\ WireAt(p, seen, 1) = e.wire
        BY <2>2 DEF WireAt, e
      <4>4. QED BY <1>3, <3>2, <4>1, <4>2, <4>3
    <3>3. CASE ~Linking(e)
      <4>1. J(j) = 0 /\ J(j) \in 0..n
        BY <1>1, <2>2, <3>3
      <4>2. LatestWire(p, 0, i + 1)
        BY <2>1, <2>2, <3>1, <3>3 DEF LatestWire, e
      <4>3. WireAt(q, seen', j) = seen' /\ WireAt(p, seen, 0) = seen
        BY <2>2 DEF WireAt
      <4>4. QED BY <1>3, <3>3, <4>1, <4>2, <4>3
    <3>4. QED BY <3>2, <3>3
  <2>3. CASE j # 0
    <3>1. J(j) = j + 1 /\ j + 1 \in 0..n /\ j \in 1..(n - 1) /\ q[j] = p[j + 1]
      BY <1>1, <2>3
    <3>2. LatestWire(p, j + 1, i + 1)
      <4>1. j + 1 < i + 1 /\ Linking(p[j + 1])
        BY <1>4, <2>3, <3>1 DEF LatestWire
      <4>2. \A k \in 1..n : j + 1 < k => k \in 2..n
        BY <1>1
      <4>3. QED BY <2>1, <4>1, <4>2 DEF LatestWire
    <3>3. WireAt(q, seen', j) = WireAt(p, seen, j + 1)
      BY <2>3, <3>1 DEF WireAt
    <3>4. QED BY <3>1, <3>2, <3>3 DEF SameLink
  <2>4. QED BY <2>2, <2>3
<1> HIDE DEF J
<1>5. ASSUME NEW j \in 0..(n - 1), LatestWire(q, j, n) PROVE SameLink(WireAt(q, seen', j), w)
  <2>1. J(j) \in 0..n /\ LatestWire(p, J(j), n + 1) /\ SameLink(WireAt(q, seen', j), WireAt(p, seen, J(j)))
    BY <1>1, <1>4, <1>5
  <2>2. SameLink(WireAt(p, seen, J(j)), w)
    BY <1>2, <2>1 DEF InLink
  <2>3. QED BY <2>1, <2>2 DEF SameLink
<1>6. ASSUME NEW j \in 0..(n - 1), NEW i \in 1..(n - 1), LatestWire(q, j, i)
      PROVE  Fits(WireAt(q, seen', j), q[i])
  <2>1. J(j) \in 0..n /\ LatestWire(p, J(j), i + 1) /\ SameLink(WireAt(q, seen', j), WireAt(p, seen, J(j)))
    BY <1>1, <1>4, <1>6
  <2>2. q[i] = p[i + 1] /\ i + 1 \in 1..n
    BY <1>1
  <2>3. Fits(WireAt(p, seen, J(j)), p[i + 1])
    BY <1>2, <2>1, <2>2 DEF InLink
  <2>4. QED BY <2>1, <2>2, <2>3 DEF SameLink, Fits
<1>7. InLink(q, seen', w)
  <2>1. Len(q) = n - 1 /\ Len(q) + 1 = n
    BY <1>1
  <2> HIDE DEF n, q
  <2>2. QED BY <1>5, <1>6, <2>1 DEF InLink
<1>8. Teller'.wire = w
  BY DEF w
<1>9. QED BY <1>7, <1>8 DEF InLink, LatestWire, WireAt

LEMMA HeardTurn ==
    ASSUME events \in Seq(Tellings), events # <<>>, events' = Tail(events), QueueInv(events, Teller), Teller' = Teller,
           HeardOf(events[1])
    PROVE  LinksInTurn(events, Teller.wire)'
<1> DEFINE p == events
           q == events'
           n == Len(events)
           w == Teller.wire
           e == events[1]
<1>1. /\ n \in Nat /\ n > 0 /\ Len(q) = n - 1
      /\ \A k \in 1..(n - 1) : q[k] = p[k + 1] /\ k + 1 \in 1..n
  BY EventsTail
<1>2. LinksInTurn(p, w)
  BY DEF QueueInv
<1>3. (Linking(e) => SameLink(seen', e.wire)) /\ (~Linking(e) => SameLink(seen', seen))
  BY DEF HeardOf
<1> HIDE DEF w
<1>4. ASSUME NEW i \in 1..(n - 1), AwayHeard(p, i + 1)
      PROVE  ~seen'.open /\ \A k \in 1..i : Linking(q[k]) => ~q[k].wire.open
  <2>1. ~seen.open /\ \A k \in 1..(i + 1) : Linking(p[k]) => ~p[k].wire.open
    BY <1>4 DEF AwayHeard
  <2>2. ~seen'.open
    BY <1>1, <1>3, <2>1 DEF SameLink
  <2>3. ASSUME NEW k \in 1..i, Linking(q[k]) PROVE ~q[k].wire.open
    <3>1. k \in 1..(n - 1) /\ q[k] = p[k + 1] /\ k + 1 \in 1..(i + 1)
      BY <1>1
    <3>2. QED BY <2>1, <2>3, <3>1
  <2>4. QED BY <2>2, <2>3
<1>5. ASSUME NEW v, NotBefore(seen, v), Linking(e) => NotBefore(e.wire, v) PROVE NotBefore(seen', v)
  BY <1>3, <1>5 DEF NotBefore, SameLink
<1>6. NotBefore(seen', w)
  BY <1>1, <1>2, <1>5 DEF LinksInTurn
<1>7. ASSUME NEW i \in 1..(n - 1), Linking(q[i])
      PROVE  /\ NotBefore(seen', q[i].wire) /\ NotBefore(q[i].wire, w)
             /\ Away(q[i].wire) /\ ~Away(w) => AwayHeard(p, i + 1)
  <2>1. q[i] = p[i + 1] /\ i + 1 \in 1..n /\ 1 \in 1..n /\ 1 < i + 1
    BY <1>1
  <2>2. NotBefore(seen, q[i].wire) /\ NotBefore(q[i].wire, w) /\ (Away(q[i].wire) /\ ~Away(w) => AwayHeard(p, i + 1))
    BY <1>2, <1>7, <2>1 DEF LinksInTurn
  <2>3. Linking(e) => NotBefore(e.wire, q[i].wire)
    BY <1>2, <1>7, <2>1 DEF LinksInTurn
  <2>4. QED BY <1>5, <2>2, <2>3
<1>8. ASSUME NEW i \in 1..(n - 1), NEW j \in 1..(n - 1), i < j, Linking(q[i]), Linking(q[j])
      PROVE  NotBefore(q[i].wire, q[j].wire) /\ (Away(q[i].wire) /\ q[j].wire.ready => AwayHeard(p, i + 1))
  <2>1. q[i] = p[i + 1] /\ i + 1 \in 1..n /\ q[j] = p[j + 1] /\ j + 1 \in 1..n /\ i + 1 < j + 1
    BY <1>1, <1>8
  <2>2. QED BY <1>2, <1>8, <2>1 DEF LinksInTurn
<1>9. Len(events') = n - 1 /\ Teller'.wire = w
  BY <1>1 DEF w
<1> HIDE DEF n
<1>10. QED BY <1>4, <1>6, <1>7, <1>8, <1>9 DEF LinksInTurn, AwayHeard

(* What has come of a parameter has come when the next event is heard.       *)
LEMMA HeardCame ==
    ASSUME events \in Seq(Tellings), events # <<>>, events' = Tail(events), QueueInv(events, Teller), Teller' = Teller,
           pageGen \in Nat, HeardOf(events[1]), OrderWentOn(events),
           NEW g, g # NoGen, NEW x, NEW m \in 1..Len(events),
           Came(events, m + 1, g, x), Linking(events[1]) => StartedIn(events, g, 1, m)
    PROVE  Came(events, m, g, x)'
<1> DEFINE p == events
           q == events'
           n == Len(events)
           e == events[1]
<1>1. /\ n \in Nat /\ n > 0 /\ e \in Tellings
      /\ \A k \in 1..(n - 1) : q[k] = p[k + 1] /\ k + 1 \in 1..n
      /\ \A k \in 2..n : p[k] = q[k - 1]
      /\ \A k \in 1..n : p[k] \in Tellings
  BY EventsTail
<1>2. StartedIn(q, g, 1, m - 1) => StartedIn(p, g, 2, m)
  <2>1. ASSUME NEW s \in 1..(m - 1), Starting(q[s]), q[s].gen = g PROVE StartedIn(p, g, 2, m)
    <3>1. s + 1 \in 2..m /\ q[s] = p[s + 1]
      BY <1>1
    <3>2. QED BY <2>1, <3>1 DEF StartedIn
  <2>2. QED BY <2>1 DEF StartedIn
<1>3. CASE Fed(p, m + 1, g, x)
  <2>1. PICK k \in 1..(m + 1 - 1) : p[k].kind = "batch" /\ p[k].gen = g /\ \E v \in p[k].values : v[1] = x
    BY <1>3 DEF Fed
  <2>2. CASE k # 1
    <3>1. k - 1 \in 1..(m - 1) /\ p[k] = q[k - 1]
      BY <1>1, <2>1, <2>2, SMTT(30)
    <3>2. QED BY <2>1, <3>1 DEF Came, Fed
  <2>3. CASE k = 1
    <3>1. Numbered(e) /\ e.gen = g /\ e.kind = "batch" /\ \E v \in e.values : v[1] = x
      BY <2>1, <2>3 DEF Numbered
    <3>2. ~StartedIn(p, g, 2, m)
      <4>1. SUFFICES ASSUME NEW s \in 2..m, Starting(p[s]), p[s].gen = g PROVE FALSE
        BY DEF StartedIn
      <4>2. s \in 1..n /\ 1 \in 1..n /\ 1 < s /\ Numbered(p[s])
        BY <1>1, <4>1, TellingTypes
      <4>3. e.gen < p[s].gen
        BY <3>1, <4>1, <4>2 DEF QueueInv, SyncsInOrder
      <4>4. e.gen \in Nat
        BY <1>1, <3>1, TellingTypes
      <4>5. QED BY <3>1, <4>1, <4>3, <4>4
    <3>3. pageGen' # g \/ Held(x)'
      BY <3>1 DEF HeardOf, Held
    <3>4. QED BY <1>2, <3>2, <3>3 DEF Came, StartedIn
  <2>4. QED BY <2>2, <2>3
<1>4. CASE ~Fed(p, m + 1, g, x)
  <2>1. ~StartedIn(p, g, 1, m) /\ (pageGen # g \/ wiped = g \/ Held(x))
    <3>1. m + 1 - 1 = m
      BY <1>1
    <3>2. QED BY <1>4, <3>1 DEF Came
  <2>2. ~Linking(e) /\ ~StartedIn(p, g, 2, m) /\ ~(Starting(e) /\ e.gen = g)
    <3>1. 1 \in 1..m /\ \A s \in 2..m : s \in 1..m
      BY <1>1
    <3>2. QED BY <2>1, <3>1 DEF StartedIn
  <2>3. pageGen' # g \/ wiped' = g \/ Held(x)'
    <3>1. CASE pageGen' = pageGen /\ pageGen = g
      BY <2>1, <2>2, <3>1 DEF HeardOf, Held
    <3>2. CASE ~(pageGen' = pageGen /\ pageGen = g)
      BY <2>2, <3>2 DEF HeardOf
    <3>3. QED BY <3>1, <3>2
  <2>4. QED BY <1>2, <2>2, <2>3 DEF Came, StartedIn
<1>5. QED BY <1>3, <1>4

LEMMA HeardAll ==
    ASSUME events \in Seq(Tellings), events # <<>>, events' = Tail(events), QueueInv(events, Teller), Teller' = Teller,
           pageGen \in Nat, HeardOf(events[1])
    PROVE  AllCome(events, Teller)'
<1> DEFINE p == events
           q == events'
           n == Len(events)
           c == Teller
<1>1. /\ n \in Nat /\ n > 0 /\ Len(q) = n - 1
      /\ \A k \in 1..(n - 1) : q[k] = p[k + 1] /\ k + 1 \in 1..n
      /\ \A k \in 1..n : p[k] \in Tellings
  BY EventsTail
<1>2. SyncsInOrder(p) /\ OrderGoesOn(p, c) /\ AllCome(p, c) /\ OrderWentOn(p)
  BY DEF QueueInv
<1>3. NoGen \notin c.asked
  BY <1>2 DEF OrderGoesOn, NoGen
<1> HIDE DEF c
<1>4. ASSUME NEW m \in 1..(n - 1), q[m].kind = "complete", NEW g \in c.asked, q[m].gen = g, NEW x \in Indices
      PROVE  Came(events, m, g, x)'
  <2>1. q[m] = p[m + 1] /\ m + 1 \in 1..n /\ m \in 1..n
    BY <1>1
  <2>2. Came(p, m + 1, g, x)
    BY <1>2, <1>4, <2>1 DEF AllCome
  <2>3. Numbered(q[m]) /\ g # NoGen /\ ~Starting(q[m])
    BY <1>3, <1>4 DEF Numbered, Starting
  <2>4. ASSUME Linking(p[1]) PROVE StartedIn(p, g, 1, m)
    <3>1. 1 \in 1..n /\ 1 < m + 1
      BY <1>1
    <3>2. StartedIn(p, g, 1 + 1, m + 1)
      BY <1>2, <1>4, <2>1, <2>3, <2>4, <3>1 DEF SyncsInOrder
    <3>3. PICK s \in (1 + 1)..(m + 1) : Starting(p[s]) /\ p[s].gen = g
      BY <3>2 DEF StartedIn
    <3>4. s # m + 1
      BY <2>1, <2>3, <3>3
    <3>5. s \in 1..m
      BY <1>1, <3>3, <3>4
    <3>6. QED BY <3>3, <3>5 DEF StartedIn
  <2>5. m \in 1..Len(events)
    BY <2>1
  <2> HIDE DEF q, n
  <2>6. QED BY <1>2, <2>2, <2>3, <2>4, <2>5, HeardCame
<1>5. ASSUME NEW g \in c.asked, c.gen = g, NEW x \in Indices \ c.left, NEW m, m = n
      PROVE  Came(events, m, g, x)' \/ \E v \in c.told : v[1] = x
  <2>1. Came(p, m + 1, g, x) \/ \E v \in c.told : v[1] = x
    BY <1>2, <1>5 DEF AllCome
  <2>2. g # NoGen /\ m \in 1..n
    BY <1>1, <1>3, <1>5
  <2>3. ASSUME Linking(p[1]) PROVE StartedIn(p, g, 1, m)
    <3>1. StartedIn(p, g, 1 + 1, n)
      BY <1>1, <1>2, <1>5, <2>2, <2>3 DEF OrderGoesOn
    <3>2. \A s \in (1 + 1)..n : s \in 1..n
      BY <1>1
    <3>3. QED BY <1>5, <3>1, <3>2 DEF StartedIn
  <2>4. ASSUME Came(p, m + 1, g, x) PROVE Came(events, m, g, x)'
    BY <1>2, <2>2, <2>3, <2>4, HeardCame
  <2>5. QED BY <2>1, <2>4
<1>6. Len(events') = n - 1 /\ Len(events') + 1 = n /\ Teller' = c
  BY <1>1 DEF c
<1>7. ASSUME NEW m \in 1..Len(events'), events'[m].kind = "complete", events'[m].gen \in c.asked, NEW x \in Indices
      PROVE  (\E g : g = events'[m].gen /\ Came(events, m, g, x)')
  BY <1>4, <1>6, <1>7
<1>8. ASSUME c.gen \in c.asked, NEW x \in Indices \ c.left
      PROVE  (\E g, m : g = c.gen /\ m = Len(events') + 1 /\ Came(events, m, g, x)') \/ \E v \in c.told : v[1] = x
  BY <1>5, <1>6, <1>8
<1>9. (\A m \in 1..Len(events) : events[m].kind = "complete" /\ events[m].gen \in Teller.asked =>
         \A x \in Indices : Came(events, m, events[m].gen, x))'
  <2>1. ASSUME NEW m \in 1..Len(events'), events'[m].kind = "complete", events'[m].gen \in c.asked, NEW x \in Indices
        PROVE  (Came(events, m, events[m].gen, x))'
    <3>1. PICK g : g = events'[m].gen /\ Came(events, m, g, x)'
      BY <1>7, <2>1
    <3>2. QED BY ONLY <3>1 DEF Came, Fed, StartedIn, Held
  <2>2. QED BY <1>6, <2>1
<1>10. (Teller.gen \in Teller.asked => \A x \in Indices \ Teller.left :
          Came(events, Len(events) + 1, Teller.gen, x) \/ \E v \in Teller.told : v[1] = x)'
  <2>1. ASSUME c.gen \in c.asked, NEW x \in Indices \ c.left, ~ \E v \in c.told : v[1] = x
        PROVE  (Came(events, Len(events) + 1, Teller.gen, x))'
    <3>1. PICK g, m : g = c.gen /\ m = Len(events') + 1 /\ Came(events, m, g, x)'
      BY <1>8, <2>1
    <3>2. QED BY ONLY <1>6, <3>1 DEF Came, Fed, StartedIn, Held
  <2>2. QED BY <1>6, <2>1
<1>11. QED BY <1>9, <1>10 DEF AllCome

LEMMA HeardQueue ==
    ASSUME events \in Seq(Tellings), events # <<>>, events' = Tail(events), QueueInv(events, Teller), Teller' = Teller,
           pageGen \in Nat, gens \in Nat, HeardOf(events[1])
    PROVE  QueueInv(events, Teller)' /\ events' \in Seq(Tellings)
BY HeardOrder, HeardLink, HeardTurn, HeardAll, EventsTail DEF QueueInv

(* The page by its parts.                                                    *)
Autos == [pending : BOOLEAN, inFlight : BOOLEAN, id : Nat, gen : 0..MaxGens, tries : 0..MaxAttempts, timer : BOOLEAN]
AutoSound ==
    /\ auto \in Autos /\ WantedIsComing
    /\ auto.pending /\ ~auto.inFlight => auto.tries < MaxAttempts
ListSound ==
    /\ list \subseteq Values /\ batch \subseteq Values /\ by \in 0..MaxGens /\ wiped \in 0..MaxGens
    /\ show \in {"none", "loading", "failed", "complete"}
    /\ by <= gens
    /\ ~seen.open => list = {} /\ batch = {} /\ show # "complete"
    /\ \A v \in list \cup batch : v[2] = seen.link
    /\ by \in asked /\ by # wiped => \A x \in Indices : \E v \in list : v[1] = x
SeenSound ==
    /\ seen \in Wires /\ last \in BOOLEAN /\ preserve \in BOOLEAN
    /\ last = seen.ready /\ (last \/ preserve => seen.open /\ ~seen.raw)

LEMMA PageParts ==
    ASSUME PageTypeOK, WorkerSound, PageSound
    PROVE  AutoSound /\ ListSound /\ SeenSound /\ pageGen \in 0..MaxGens /\ pageGen \in Nat /\ gens \in Nat
<1>1. AutoSound
  BY DEF PageTypeOK, PageSound, AutoSound, Autos
<1>2. ListSound
  BY DEF PageTypeOK, WorkerSound, PageSound, NothingOfLostLink, ListSound
<1>3. SeenSound /\ pageGen \in 0..MaxGens /\ pageGen \in Nat /\ gens \in Nat
  BY PageAssumption DEF PageTypeOK, PageSound, SeenSound
<1>4. QED BY <1>1, <1>2, <1>3

LEMMA PageWhole ==
    ASSUME PageTypeOK, WorkerSound, UNCHANGED workerVars, AutoSound', ListSound', SeenSound', pageGen' \in 0..MaxGens
    PROVE  PageTypeOK' /\ WorkerSound' /\ PageSound'
<1>1. PageTypeOK'
  BY DEF PageTypeOK, workerVars, AutoSound, Autos, ListSound, SeenSound
<1>2. WorkerSound'
  BY DEF WorkerSound, workerVars, ListSound
<1>3. NothingOfLostLink'
  <2>1. (~seen.open => auto = AutoIdle)'
    BY DEF AutoSound, WantedIsComing
  <2>2. QED BY <2>1 DEF ListSound, NothingOfLostLink
<1>4. PageSound'
  BY <1>3 DEF PageSound, AutoSound, ListSound, SeenSound
<1>5. QED BY <1>1, <1>2, <1>4

(* What the head of the queue may be.                                        *)
LEMMA HeadFacts ==
    ASSUME events \in Seq(Tellings), events # <<>>, QueueInv(events, Teller)
    PROVE  /\ events[1] \in Tellings /\ Head(events) = events[1] /\ Fits(seen, events[1]) /\ pageGen <= gens
           /\ Numbered(events[1]) => events[1].gen <= gens
           /\ Starting(events[1]) => pageGen < events[1].gen
           /\ events[1].kind = "complete" /\ events[1].gen \in asked => \A x \in Indices :
                pageGen # events[1].gen \/ wiped = events[1].gen \/ Held(x)
           /\ Linking(events[1]) /\ Away(events[1].wire) /\ seen.open =>
                Away(wire) /\ \A i \in 2..Len(events) : Linking(events[i]) => ~events[i].wire.ready
<1>1. events[1] \in Tellings /\ Head(events) = events[1] /\ 1 \in 1..Len(events) /\ Len(events) \in Nat
  BY LenProperties, EmptySeq, ElementOfSeq
<1>2. Fits(seen, events[1])
  <2>1. 0 \in 0..Len(events) /\ LatestWire(events, 0, 1) /\ WireAt(events, seen, 0) = seen
    BY <1>1 DEF LatestWire, WireAt
  <2>2. QED BY <1>1, <2>1 DEF QueueInv, InLink
<1>3. pageGen <= gens /\ (Numbered(events[1]) => events[1].gen <= gens)
  BY <1>1 DEF QueueInv, OrderGoesOn, Teller, TellerOf
<1>4. Starting(events[1]) => pageGen < events[1].gen
  BY <1>1, TellingTypes DEF QueueInv, OrderWentOn
<1>5. ASSUME events[1].kind = "complete", events[1].gen \in asked, NEW x \in Indices
      PROVE  pageGen # events[1].gen \/ wiped = events[1].gen \/ Held(x)
  <2>1. Came(events, 1, events[1].gen, x)
    BY <1>1, <1>5 DEF QueueInv, AllCome, Teller, TellerOf
  <2>2. ~Fed(events, 1, events[1].gen, x)
    BY DEF Fed
  <2>3. QED BY <2>1, <2>2 DEF Came
<1>6. ASSUME Linking(events[1]), Away(events[1].wire), seen.open
      PROVE  Away(wire) /\ \A i \in 2..Len(events) : Linking(events[i]) => ~events[i].wire.ready
  <2>1. ~AwayHeard(events, 1)
    BY <1>6 DEF AwayHeard
  <2>2. LinksInTurn(events, wire)
    BY DEF QueueInv, Teller, TellerOf
  <2>3. Away(wire)
    BY <1>1, <1>6, <2>1, <2>2 DEF LinksInTurn
  <2>4. ASSUME NEW i \in 2..Len(events), Linking(events[i]) PROVE ~events[i].wire.ready
    <3>1. i \in 1..Len(events) /\ 1 < i
      BY <1>1
    <3>2. QED BY <1>1, <1>6, <2>1, <2>2, <2>4, <3>1 DEF LinksInTurn
  <2>5. QED BY <2>3, <2>4
<1>7. QED BY <1>1, <1>2, <1>3, <1>4, <1>5, <1>6

LEMMA AutoWaits ==
    ASSUME NEW k \in 0..MaxAttempts, NEW a, a = [AutoIdle EXCEPT !.pending = TRUE, !.tries = k, !.timer = TRUE]
    PROVE  /\ a \in Autos /\ a.pending /\ ~a.inFlight /\ a.timer /\ a.gen = NoGen /\ a.tries = k
<1>1. a = [pending |-> TRUE, inFlight |-> FALSE, id |-> NoId, gen |-> NoGen, tries |-> k, timer |-> TRUE]
  BY DEF AutoIdle
<1>2. NoId \in Nat /\ NoGen \in 0..MaxGens
  BY PageAssumption DEF NoId, NoGen
<1>3. QED BY ONLY <1>1, <1>2, k \in 0..MaxAttempts DEF Autos

LEMMA AutoWanted ==
    ASSUME NEW a, a = [AutoIdle EXCEPT !.pending = TRUE, !.timer = TRUE]
    PROVE  /\ a \in Autos /\ a.pending /\ ~a.inFlight /\ a.timer /\ a.gen = NoGen /\ a.tries = 0
<1>1. a = [pending |-> TRUE, inFlight |-> FALSE, id |-> NoId, gen |-> NoGen, tries |-> 0, timer |-> TRUE]
  BY DEF AutoIdle
<1>2. NoId \in Nat /\ NoGen \in 0..MaxGens /\ 0 \in 0..MaxAttempts
  BY PageAssumption DEF NoId, NoGen
<1>3. QED BY ONLY <1>1, <1>2 DEF Autos

LEMMA HearConnectionKeeps ==
    ASSUME AutoSound, ListSound, SeenSound, gens' = gens, asked' = asked, NoGen \notin asked, gens \in Nat,
           NEW e \in Tellings, Linking(e), Fits(seen, e), HearConnection(e.wire)
    PROVE  HeardOf(e) /\ AutoSound' /\ ListSound' /\ SeenSound' /\ pageGen' = pageGen
<1> DEFINE w == e.wire
           edge == w.ready /\ ~last /\ ~preserve
           soft == ~w.ready /\ w.open /\ ~(w.raw \/ seen.raw)
           gone == ~w.ready /\ ~w.open /\ ~w.raw
<1>1. /\ w \in Wires /\ (w.ready => w.open /\ ~w.raw) /\ (w.raw => w.open)
      /\ w.open \in BOOLEAN /\ w.ready \in BOOLEAN /\ w.raw \in BOOLEAN
  BY TellingTypes DEF Wires
<1>2. IF w.link = seen.link THEN seen.open \/ ~w.open ELSE ~seen.open
  BY DEF Fits
<1>3. seen' \in Wires /\ seen'.open = w.open /\ seen'.ready = w.ready /\ seen'.raw = w.raw /\ seen'.link = w.link
  <2>1. seen' = [w EXCEPT !.target = seen.target /\ ~gone]
    BY DEF HearConnection
  <2>2. (seen.target /\ ~gone) \in BOOLEAN
    BY DEF SeenSound, Wires
  <2> HIDE DEF w, gone
  <2>3. QED BY <1>1, <2>1, <2>2 DEF Wires
<1>4. last' = w.ready /\ preserve' = (soft /\ (preserve \/ last)) /\ pageGen' = pageGen
  BY DEF HearConnection
<1>5. IF w.ready
      THEN IF edge
           THEN /\ auto' = [AutoIdle EXCEPT !.pending = TRUE, !.timer = TRUE]
                /\ batch' = {} /\ list' = {} /\ by' = NoGen /\ wiped' = NoGen /\ show' = "loading"
           ELSE UNCHANGED <<auto, storeVars>>
      ELSE /\ auto' = AutoIdle /\ batch' = {}
           /\ IF gone THEN list' = {} /\ by' = NoGen /\ wiped' = NoGen /\ show' = "none"
              ELSE UNCHANGED <<list, show, by, wiped>>
  BY DEF HearConnection, Cleared, Discarded
<1> HIDE DEF w
<1>6. SeenSound'
  BY <1>1, <1>3, <1>4 DEF SeenSound
<1>7. HeardOf(e)
  BY <1>3, <1>4 DEF HeardOf, SameLink, w, Linking, Starting
<1>8. AutoIdle \in Autos /\ AutoIdle.gen = NoGen /\ ~AutoIdle.pending /\ ~AutoIdle.inFlight /\ ~AutoIdle.timer
  BY PageAssumption DEF AutoIdle, Autos, NoId, NoGen
<1>9. NoGen \in 0..MaxGens /\ NoGen <= gens /\ MaxAttempts > 0 /\ MaxAttempts \in Nat
  BY PageAssumption DEF NoGen
<1>10. CASE w.ready /\ edge
  <2>1. /\ auto' \in Autos /\ auto'.pending /\ ~auto'.inFlight /\ auto'.timer /\ auto'.gen = NoGen /\ auto'.tries = 0
    <3>1. auto' = [AutoIdle EXCEPT !.pending = TRUE, !.timer = TRUE]
      BY <1>5, <1>10
    <3>2. QED BY <3>1, AutoWanted
  <2>2. AutoSound'
    BY <1>1, <1>3, <1>9, <1>10, <2>1 DEF AutoSound, WantedIsComing
  <2>3. ListSound'
    BY <1>5, <1>9, <1>10 DEF ListSound
  <2>4. QED BY <1>4, <1>6, <1>7, <2>2, <2>3
<1>11. CASE w.ready /\ ~edge
  <2>1. seen.open /\ UNCHANGED <<auto, batch, list, show, by, wiped>> /\ w.open /\ w.link = seen.link
    BY <1>1, <1>2, <1>5, <1>11 DEF SeenSound, storeVars
  <2>2. AutoSound'
    BY <1>3, <1>11, <2>1 DEF AutoSound, WantedIsComing
  <2>3. ListSound'
    BY <1>3, <2>1 DEF ListSound
  <2>4. QED BY <1>4, <1>6, <1>7, <2>2, <2>3
<1>12. CASE ~w.ready
  <2>1. AutoSound'
    BY <1>5, <1>8, <1>12 DEF AutoSound, WantedIsComing
  <2>2. CASE gone
    <3>1. ListSound'
      BY <1>5, <1>9, <1>12, <2>2 DEF ListSound
    <3>2. QED BY <1>4, <1>6, <1>7, <2>1, <3>1
  <2>3. CASE ~gone
    <3>1. w.open /\ UNCHANGED <<list, show, by, wiped>> /\ batch' = {}
      BY <1>1, <1>5, <1>12, <2>3
    <3>2. list # {} => w.link = seen.link
      BY <1>2, <3>1 DEF ListSound
    <3>3. ListSound'
      BY <1>3, <3>1, <3>2 DEF ListSound
    <3>4. QED BY <1>4, <1>6, <1>7, <2>1, <3>3
  <2>4. QED BY <2>2, <2>3
<1>13. QED BY <1>10, <1>11, <1>12

LEMMA HearTargetKeeps ==
    ASSUME AutoSound, ListSound, SeenSound, gens' = gens, asked' = asked,
           NEW e \in Tellings, e.kind = "target", HearTarget(e.known)
    PROVE  /\ HeardOf(e) /\ AutoSound' /\ ListSound' /\ SeenSound' /\ pageGen' = pageGen
           /\ UNCHANGED <<auto, last, preserve>>
<1>1. seen' = [seen EXCEPT !.target = e.known] /\ UNCHANGED <<last, preserve, pageGen, auto, batch, list, show, by, wiped>>
  BY DEF HearTarget, storeVars
<1>2. e.known \in BOOLEAN
  BY DEF Tellings
<1>3. seen' \in Wires /\ seen'.open = seen.open /\ seen'.ready = seen.ready /\ seen'.raw = seen.raw /\ seen'.link = seen.link
  BY <1>1, <1>2 DEF SeenSound, Wires
<1>4. HeardOf(e)
  BY <1>1, <1>3 DEF HeardOf, SameLink, Linking, Starting
<1>5. AutoSound' /\ SeenSound'
  BY <1>1, <1>3 DEF AutoSound, WantedIsComing, SeenSound
<1>6. ListSound'
  BY <1>1, <1>3 DEF ListSound
<1>7. QED BY <1>1, <1>4, <1>5, <1>6

LEMMA HearStartedKeeps ==
    ASSUME AutoSound, ListSound, SeenSound, gens' = gens, asked' = asked, NoGen \notin asked, gens \in Nat, pageGen \in Nat,
           NEW e \in Tellings, Starting(e), pageGen < e.gen, HearStarted(e.gen)
    PROVE  /\ HeardOf(e) /\ AutoSound' /\ ListSound' /\ SeenSound' /\ pageGen' \in 0..MaxGens
           /\ UNCHANGED <<last, preserve>> /\ (auto = AutoIdle => auto' = AutoIdle)
<1>1. e.gen \in 1..MaxGens /\ e.gen \in Nat /\ e.gen \in 0..MaxGens /\ e.kind = "sync"
  BY PageAssumption DEF Tellings, Starting
<1>2. /\ pageGen' = e.gen /\ auto' = (IF auto.inFlight THEN [auto EXCEPT !.gen = e.gen] ELSE auto)
      /\ batch' = {} /\ list' = {} /\ by' = NoGen /\ wiped' = NoGen /\ show' = "loading"
      /\ UNCHANGED <<seen, last, preserve>>
  <2>1. ~(pageGen # NoGen /\ e.gen < pageGen)
    BY <1>1
  <2>2. QED BY <2>1 DEF HearStarted, Cleared, Discarded
<1>3. HeardOf(e)
  BY <1>1, <1>2 DEF HeardOf, SameLink, Linking
<1>4. SeenSound'
  BY <1>2 DEF SeenSound
<1>5. NoGen \in 0..MaxGens /\ NoGen <= gens
  BY PageAssumption DEF NoGen
<1>6. ListSound'
  BY <1>2, <1>5 DEF ListSound
<1>7. AutoSound' /\ (auto = AutoIdle => auto' = AutoIdle)
  <2>1. CASE auto.inFlight
    <3>1. auto' \in Autos /\ auto'.pending = auto.pending /\ auto'.inFlight /\ auto'.timer = auto.timer /\ auto # AutoIdle
      BY <1>1, <1>2, <2>1 DEF AutoSound, Autos, AutoIdle
    <3>2. QED BY <1>2, <2>1, <3>1 DEF AutoSound, WantedIsComing
  <2>2. CASE ~auto.inFlight
    BY <1>2, <2>2 DEF AutoSound, WantedIsComing
  <2>3. QED BY <2>1, <2>2
<1>8. QED BY <1>1, <1>2, <1>3, <1>4, <1>6, <1>7

(* prepareAutomaticParamRetry leaves the list or clears it whole.            *)
LEMMA RetryKeeps ==
    ASSUME AutoSound, seen' = seen, RetryPrepared, auto.inFlight
    PROVE  /\ AutoSound'
           /\ \/ UNCHANGED <<list, by, wiped>>
              \/ seen.open /\ list' = {} /\ by' = NoGen /\ wiped' = pageGen
<1>1. AutoIdle \in Autos /\ AutoIdle.gen = NoGen /\ ~AutoIdle.pending /\ ~AutoIdle.inFlight /\ ~AutoIdle.timer
  BY PageAssumption DEF AutoIdle, Autos, NoId, NoGen
<1>2. CASE ~seen.ready \/ ~seen.open \/ auto.tries >= MaxAttempts
  <2>1. auto' = AutoIdle /\ UNCHANGED <<list, by, wiped>>
    BY <1>2 DEF RetryPrepared
  <2>2. QED BY <1>1, <2>1 DEF AutoSound, WantedIsComing
<1>3. CASE seen.ready /\ seen.open /\ ~(auto.tries >= MaxAttempts)
  <2>1. /\ auto' = [AutoIdle EXCEPT !.pending = TRUE, !.tries = auto.tries, !.timer = TRUE]
        /\ list' = {} /\ by' = NoGen /\ wiped' = pageGen
    BY <1>3 DEF RetryPrepared, Wiped
  <2>2. auto.tries \in 0..MaxAttempts /\ auto.tries < MaxAttempts
    BY <1>3, PageAssumption DEF AutoSound, Autos
  <2>3. auto' \in Autos /\ auto'.pending /\ ~auto'.inFlight /\ auto'.timer /\ auto'.gen = NoGen /\ auto'.tries = auto.tries
    BY <2>1, <2>2, AutoWaits
  <2>4. QED BY <1>3, <2>1, <2>2, <2>3 DEF AutoSound, WantedIsComing
<1>4. QED BY <1>2, <1>3

LEMMA HearEndedKeeps ==
    ASSUME AutoSound, ListSound, SeenSound, gens' = gens, asked' = asked, NoGen \notin asked, gens \in Nat,
           pageGen \in 0..MaxGens, NEW e \in Tellings, Stopping(e), HearEnded(e.status, e.gen)
    PROVE  /\ HeardOf(e) /\ AutoSound' /\ ListSound' /\ SeenSound' /\ pageGen' \in 0..MaxGens
           /\ UNCHANGED <<last, preserve>> /\ (auto = AutoIdle => auto' = AutoIdle)
<1> DEFINE mine == auto.inFlight /\ auto.gen = e.gen
           bad == e.status # "complete"
<1>1. e.gen \in 1..MaxGens /\ e.kind = "sync" /\ NoGen \in 0..MaxGens /\ NoGen <= gens /\ e.gen # NoGen
  BY PageAssumption DEF Tellings, Stopping, NoGen
<1>2. UNCHANGED <<seen, last, preserve>>
  BY DEF HearEnded
<1>3. SeenSound' /\ SameLink(seen', seen)
  BY <1>2 DEF SeenSound, SameLink
<1>4. auto = AutoIdle => ~mine
  BY DEF AutoIdle
<1>5. AutoIdle \in Autos /\ AutoIdle.gen = NoGen /\ ~AutoIdle.pending /\ ~AutoIdle.inFlight /\ ~AutoIdle.timer
  BY PageAssumption DEF AutoIdle, Autos, NoId, NoGen
<1>6. CASE pageGen # e.gen
  <2>1. UNCHANGED <<pageGen, auto, batch, list, show, by, wiped>>
    BY <1>6 DEF HearEnded, storeVars
  <2>2. HeardOf(e)
    BY <1>1, <1>3, <2>1 DEF HeardOf, Linking
  <2>3. AutoSound' /\ ListSound'
    BY <1>2, <2>1 DEF AutoSound, WantedIsComing, ListSound
  <2>4. QED BY <1>2, <1>3, <2>1, <2>2, <2>3
<1>7. CASE pageGen = e.gen
  <2>1. /\ pageGen' = NoGen /\ (IF bad THEN batch' = {} ELSE UNCHANGED batch)
        /\ IF bad /\ mine THEN RetryPrepared /\ RetryShows("failed")
           ELSE /\ auto' = (IF mine THEN AutoIdle ELSE auto)
                /\ show' = (IF bad THEN "failed" ELSE show)
                /\ UNCHANGED <<list, by, wiped>>
    BY <1>7 DEF HearEnded, Discarded
  <2>2. HeardOf(e)
    BY <1>1, <1>3, <1>7, <2>1 DEF HeardOf, Linking
  <2>3. batch' \subseteq batch
    BY <2>1
  <2>4. CASE bad /\ mine
    <3>1. AutoSound' /\ (UNCHANGED <<list, by, wiped>> \/ (seen.open /\ list' = {} /\ by' = NoGen /\ wiped' = pageGen))
      BY <1>2, <2>1, <2>4, RetryKeeps
    <3>2. show' \in {"failed", "loading"}
      BY <2>1, <2>4 DEF RetryShows
    <3>3. ListSound'
      BY <1>1, <1>2, <2>3, <3>1, <3>2 DEF ListSound
    <3>4. QED BY <1>1, <1>2, <1>3, <1>4, <2>1, <2>2, <2>4, <3>1, <3>3
  <2>5. CASE ~(bad /\ mine)
    <3>1. /\ auto' = (IF mine THEN AutoIdle ELSE auto) /\ show' = (IF bad THEN "failed" ELSE show)
          /\ UNCHANGED <<list, by, wiped>>
      BY <2>1, <2>5
    <3>2. AutoSound'
      BY <1>2, <1>5, <3>1 DEF AutoSound, WantedIsComing
    <3>3. ListSound'
      BY <1>2, <2>3, <3>1 DEF ListSound
    <3>4. QED BY <1>1, <1>2, <1>3, <2>1, <2>2, <3>1, <3>2, <3>3
  <2>6. QED BY <2>4, <2>5
<1>8. QED BY <1>6, <1>7

LEMMA HearBatchKeeps ==
    ASSUME AutoSound, ListSound, SeenSound, gens' = gens, asked' = asked,
           NEW e \in Tellings, e.kind = "batch", Fits(seen, e), HearBatch(e.gen, e.values)
    PROVE  /\ HeardOf(e) /\ AutoSound' /\ ListSound' /\ SeenSound' /\ pageGen' = pageGen
           /\ UNCHANGED <<auto, last, preserve>>
<1>1. /\ batch' = (IF e.gen = pageGen THEN batch \cup e.values ELSE batch)
      /\ UNCHANGED <<seen, last, preserve, pageGen, auto, list, show, by, wiped>>
  BY DEF HearBatch, Accepts
<1>2. e.values \in SUBSET Values /\ \A v \in e.values : seen.open /\ v[2] = seen.link
  BY TellingTypes DEF Fits
<1>3. HeardOf(e)
  BY <1>1 DEF HeardOf, SameLink, Linking, Starting
<1>4. AutoSound' /\ SeenSound'
  BY <1>1 DEF AutoSound, WantedIsComing, SeenSound
<1>5. ListSound'
  BY <1>1, <1>2 DEF ListSound
<1>6. QED BY <1>1, <1>3, <1>4, <1>5

LEMMA HearEndKeeps ==
    ASSUME AutoSound, ListSound, SeenSound, gens' = gens, asked' = asked,
           NEW e \in Tellings, e.kind \in {"complete", "failed"}, Fits(seen, e), HearEnd(e.kind, e.gen),
           pageGen \in 0..MaxGens, pageGen <= gens,
           e.kind = "complete" /\ e.gen \in asked => \A x \in Indices :
             pageGen # e.gen \/ wiped = e.gen \/ Held(x)
    PROVE  /\ HeardOf(e) /\ AutoSound' /\ ListSound' /\ SeenSound' /\ pageGen' = pageGen
           /\ UNCHANGED <<last, preserve>> /\ (auto = AutoIdle => auto' = AutoIdle)
<1>1. UNCHANGED <<seen, last, preserve, pageGen>>
  BY DEF HearEnd
<1>2. SeenSound' /\ SameLink(seen', seen) /\ ~Linking(e) /\ ~Starting(e) /\ e.kind # "batch"
  BY <1>1 DEF SeenSound, SameLink, Linking, Starting
<1>3. AutoIdle \in Autos /\ AutoIdle.gen = NoGen /\ ~AutoIdle.pending /\ ~AutoIdle.inFlight /\ ~AutoIdle.timer
  BY PageAssumption DEF AutoIdle, Autos, NoId, NoGen
<1>4. CASE ~Accepts(e.gen)
  <2>1. UNCHANGED <<auto, batch, list, show, by, wiped>>
    BY <1>4 DEF HearEnd, storeVars
  <2>2. HeardOf(e)
    BY <1>1, <1>2, <2>1 DEF HeardOf
  <2>3. AutoSound' /\ ListSound'
    BY <1>1, <2>1 DEF AutoSound, WantedIsComing, ListSound
  <2>4. QED BY <1>1, <1>2, <2>1, <2>2, <2>3
<1>5. CASE Accepts(e.gen)
  <2>1. /\ e.gen = pageGen /\ list' = list \cup batch /\ batch' = {} /\ show' = e.kind
        /\ by' = (IF e.kind = "complete" THEN e.gen ELSE by) /\ wiped' = wiped
        /\ auto' \in {AutoIdle, auto}
    BY <1>5 DEF HearEnd, Accepts
  <2>2. HeardOf(e)
    BY <1>1, <1>2, <2>1 DEF HeardOf
  <2>3. AutoSound'
    BY <1>1, <1>3, <2>1 DEF AutoSound, WantedIsComing
  <2>4. e.kind = "complete" => seen.open
    BY DEF Fits
  <2>5. ASSUME by' \in asked, by' # wiped, NEW x \in Indices PROVE \E v \in list' : v[1] = x
    <3>1. CASE e.kind = "complete"
      BY <2>1, <2>5, <3>1 DEF Held
    <3>2. CASE e.kind # "complete"
      BY <2>1, <2>5, <3>2 DEF ListSound
    <3>3. QED BY <3>1, <3>2
  <2>6. by' \in 0..MaxGens /\ by' <= gens /\ show' \in {"none", "loading", "failed", "complete"}
    BY <2>1 DEF ListSound
  <2>7. ListSound'
    BY <1>1, <2>1, <2>4, <2>5, <2>6 DEF ListSound
  <2>8. QED BY <1>1, <1>2, <2>1, <2>2, <2>3, <2>7
<1>6. QED BY <1>4, <1>5

LEMMA HearRefusedKeeps ==
    ASSUME AutoSound, ListSound, SeenSound, gens' = gens, asked' = asked, NoGen \notin asked, gens \in Nat,
           pageGen \in 0..MaxGens, NEW e \in Tellings, e.kind = "refused", HearRefused(e.id, e.retryable)
    PROVE  /\ HeardOf(e) /\ AutoSound' /\ ListSound' /\ SeenSound' /\ pageGen' = pageGen
           /\ UNCHANGED <<last, preserve>> /\ (auto = AutoIdle => auto' = AutoIdle)
<1>1. UNCHANGED <<seen, last, preserve, pageGen, batch>>
  BY DEF HearRefused
<1>2. SeenSound' /\ SameLink(seen', seen) /\ ~Linking(e) /\ ~Starting(e) /\ e.kind # "batch"
  BY <1>1 DEF SeenSound, SameLink, Linking, Starting
<1>3. /\ AutoIdle \in Autos /\ AutoIdle.gen = NoGen /\ ~AutoIdle.pending /\ ~AutoIdle.inFlight /\ ~AutoIdle.timer
      /\ NoGen \in 0..MaxGens /\ NoGen <= gens
  BY PageAssumption DEF AutoIdle, Autos, NoId, NoGen
<1>4. CASE ~auto.inFlight \/ e.id # auto.id
  <2>1. UNCHANGED <<auto, list, show, by, wiped>>
    BY <1>4 DEF HearRefused
  <2>2. HeardOf(e)
    BY <1>1, <1>2, <2>1 DEF HeardOf
  <2>3. AutoSound' /\ ListSound'
    BY <1>1, <2>1 DEF AutoSound, WantedIsComing, ListSound
  <2>4. QED BY <1>1, <1>2, <2>1, <2>2, <2>3
<1>5. CASE auto.inFlight /\ e.id = auto.id /\ ~e.retryable
  <2>1. auto' = AutoIdle /\ show' = "failed" /\ UNCHANGED <<list, by, wiped>>
    BY <1>5 DEF HearRefused
  <2>2. HeardOf(e)
    BY <1>1, <1>2, <2>1 DEF HeardOf
  <2>3. AutoSound'
    BY <1>3, <2>1 DEF AutoSound, WantedIsComing
  <2>4. ListSound'
    BY <1>1, <2>1 DEF ListSound
  <2>5. QED BY <1>1, <1>2, <2>1, <2>2, <2>3, <2>4
<1>6. CASE auto.inFlight /\ e.id = auto.id /\ e.retryable
  <2>1. RetryPrepared /\ RetryShows(show)
    BY <1>6 DEF HearRefused
  <2>2. AutoSound' /\ (UNCHANGED <<list, by, wiped>> \/ (seen.open /\ list' = {} /\ by' = NoGen /\ wiped' = pageGen))
    BY <1>1, <1>6, <2>1, RetryKeeps
  <2>3. auto # AutoIdle
    BY <1>6 DEF AutoIdle
  <2>4. HeardOf(e)
    BY <1>1, <1>2, <2>2 DEF HeardOf
  <2>5. seen.open /\ seen.ready
    BY <2>3 DEF AutoSound, WantedIsComing
  <2>6. show' \in {"failed", "loading"}
    BY <2>1, <2>5 DEF RetryShows
  <2>7. ListSound'
    BY <1>1, <1>3, <2>2, <2>6 DEF ListSound
  <2>8. QED BY <1>1, <1>2, <2>2, <2>3, <2>4, <2>7
<1>7. QED BY <1>4, <1>5, <1>6

LEMMA HearFrame ==
    ASSUME Hear
    PROVE  events # <<>> /\ events' = Tail(events) /\ UNCHANGED workerVars /\ UNCHANGED commands /\ UNCHANGED requests
BY Zenon DEF Hear

LEMMA HearKeeps ==
    ASSUME PageInv, Hear
    PROVE  /\ HeardOf(events[1]) /\ PageTypeOK' /\ WorkerSound' /\ PageSound'
           /\ events # <<>> /\ events' = Tail(events)
           /\ \/ Linking(events[1]) /\ HearConnection(events[1].wire)
              \/ UNCHANGED <<last, preserve>> /\ (auto = AutoIdle => auto' = AutoIdle)
<1> DEFINE e == events[1]
<1>1. /\ PageTypeOK /\ WorkerSound /\ PageSound /\ events \in Seq(Tellings) /\ QueueInv(events, Teller)
      /\ events # <<>> /\ events' = Tail(events) /\ UNCHANGED workerVars
  <2>1. PageTypeOK /\ WorkerSound /\ PageSound /\ events \in Seq(Tellings) /\ QueueInv(events, Teller)
    BY DEF PageInv
  <2>2. QED BY <2>1, HearFrame, Zenon
<1>2. AutoSound /\ ListSound /\ SeenSound /\ pageGen \in 0..MaxGens /\ pageGen \in Nat /\ gens \in Nat
  BY <1>1, PageParts
<1>3. gens' = gens /\ asked' = asked /\ NoGen \notin asked
  BY <1>1, WorkerTypes DEF workerVars
<1>4. /\ e \in Tellings /\ Head(events) = e /\ Fits(seen, e) /\ pageGen <= gens
      /\ Starting(e) => pageGen < e.gen
      /\ e.kind = "complete" /\ e.gen \in asked => \A x \in Indices :
           pageGen # e.gen \/ wiped = e.gen \/ Held(x)
  BY <1>1, HeadFacts
<1>5. \/ e.kind = "connection" /\ HearConnection(e.wire)
      \/ e.kind = "target" /\ HearTarget(e.known)
      \/ e.kind = "sync" /\ e.status = "started" /\ HearStarted(e.gen)
      \/ e.kind = "sync" /\ e.status # "started" /\ HearEnded(e.status, e.gen)
      \/ e.kind = "batch" /\ HearBatch(e.gen, e.values)
      \/ e.kind \in {"complete", "failed"} /\ HearEnd(e.kind, e.gen)
      \/ e.kind = "refused" /\ HearRefused(e.id, e.retryable)
  BY <1>4 DEF Hear
<1> HIDE DEF e
<1> DEFINE kept == /\ HeardOf(e) /\ AutoSound' /\ ListSound' /\ SeenSound' /\ pageGen' \in 0..MaxGens
                   /\ \/ Linking(e) /\ HearConnection(e.wire)
                      \/ UNCHANGED <<last, preserve>> /\ (auto = AutoIdle => auto' = AutoIdle)
<1>6. CASE e.kind = "connection" /\ HearConnection(e.wire)
  <2>1. Linking(e)
    BY <1>6 DEF Linking
  <2>2. HeardOf(e) /\ AutoSound' /\ ListSound' /\ SeenSound' /\ pageGen' = pageGen
    BY <1>2, <1>3, <1>4, <1>6, <2>1, HearConnectionKeeps
  <2>3. kept
    BY <1>2, <1>6, <2>1, <2>2
  <2>4. QED BY <1>1, <2>3, PageWhole DEF e
<1>7. CASE e.kind = "target" /\ HearTarget(e.known)
  <2>1. kept
    BY <1>2, <1>3, <1>4, <1>7, HearTargetKeeps
  <2>2. QED BY <1>1, <2>1, PageWhole DEF e
<1>8. CASE e.kind = "sync" /\ e.status = "started" /\ HearStarted(e.gen)
  <2>1. Starting(e)
    BY <1>8 DEF Starting
  <2>2. kept
    BY <1>2, <1>3, <1>4, <1>8, <2>1, HearStartedKeeps
  <2>3. QED BY <1>1, <2>2, PageWhole DEF e
<1>9. CASE e.kind = "sync" /\ e.status # "started" /\ HearEnded(e.status, e.gen)
  <2>1. Stopping(e)
    BY <1>9 DEF Stopping
  <2>2. kept
    BY <1>2, <1>3, <1>4, <1>9, <2>1, HearEndedKeeps
  <2>3. QED BY <1>1, <2>2, PageWhole DEF e
<1>10. CASE e.kind = "batch" /\ HearBatch(e.gen, e.values)
  <2>1. kept
    BY <1>2, <1>3, <1>4, <1>10, HearBatchKeeps
  <2>2. QED BY <1>1, <2>1, PageWhole DEF e
<1>11. CASE e.kind \in {"complete", "failed"} /\ HearEnd(e.kind, e.gen)
  <2>1. kept
    BY <1>2, <1>3, <1>4, <1>11, HearEndKeeps
  <2>2. QED BY <1>1, <2>1, PageWhole DEF e
<1>12. CASE e.kind = "refused" /\ HearRefused(e.id, e.retryable)
  <2>1. kept
    BY <1>2, <1>3, <1>4, <1>12, HearRefusedKeeps
  <2>2. QED BY <1>1, <2>1, PageWhole DEF e
<1>13. QED BY <1>5, <1>6, <1>7, <1>8, <1>9, <1>10, <1>11, <1>12

LEMMA HearLeavesWaiting ==
    ASSUME PageInv, Hear
    PROVE  WaitsUndisturbed'
<1> DEFINE e == events[1]
<1>1. /\ WaitsUndisturbed /\ SeenSound /\ events \in Seq(Tellings) /\ QueueInv(events, Teller) /\ events # <<>>
      /\ events' = Tail(events) /\ UNCHANGED workerVars /\ UNCHANGED commands
  <2>1. PageTypeOK /\ WorkerSound /\ PageSound /\ WaitsUndisturbed /\ events \in Seq(Tellings) /\ QueueInv(events, Teller)
    BY DEF PageInv
  <2>2. SeenSound
    BY <2>1, PageParts
  <2>3. QED BY <2>1, <2>2, HearFrame, Zenon
<1>2. SUFFICES ASSUME UserWaits'
               PROVE  /\ auto' = AutoIdle
                      /\ \/ last' \/ preserve'
                         \/ Away(wire') /\ \A i \in 1..Len(events') : Linking(events'[i]) => ~events'[i].wire.ready
  BY DEF WaitsUndisturbed
<1>3. UserWaits /\ wire' = wire
  BY <1>1, <1>2 DEF UserWaits, workerVars
<1>4. /\ auto = AutoIdle
      /\ \/ last \/ preserve
         \/ Away(wire) /\ \A i \in 1..Len(events) : Linking(events[i]) => ~events[i].wire.ready
  BY <1>1, <1>3 DEF WaitsUndisturbed
<1>5. /\ Len(events) \in Nat /\ Len(events') = Len(events) - 1
      /\ \A k \in 1..(Len(events) - 1) : events'[k] = events[k + 1]
  BY <1>1, EventsTail
<1>6. ASSUME Away(wire), \A i \in 2..Len(events) : Linking(events[i]) => ~events[i].wire.ready
      PROVE  Away(wire') /\ \A i \in 1..Len(events') : Linking(events'[i]) => ~events'[i].wire.ready
  <2>1. \A i \in 1..Len(events') : i + 1 \in 2..Len(events) /\ events'[i] = events[i + 1]
    BY <1>5
  <2>2. QED BY <1>3, <1>6, <2>1
<1>7. \A i \in 2..Len(events) : i \in 1..Len(events)
  BY <1>5
<1>8. CASE UNCHANGED <<last, preserve>> /\ (auto = AutoIdle => auto' = AutoIdle)
  BY <1>4, <1>6, <1>7, <1>8
<1>9. CASE Linking(e) /\ HearConnection(e.wire)
  <2> DEFINE w == e.wire
             edge == w.ready /\ ~last /\ ~preserve
             soft == ~w.ready /\ w.open /\ ~(w.raw \/ seen.raw)
  <2>1. /\ last' = w.ready /\ preserve' = (soft /\ (preserve \/ last))
        /\ (w.ready /\ ~edge => auto' = auto) /\ (~w.ready => auto' = AutoIdle)
    BY <1>9 DEF HearConnection
  <2>2. /\ w.open \in BOOLEAN /\ w.ready \in BOOLEAN /\ w.raw \in BOOLEAN /\ seen.raw \in BOOLEAN
        /\ last \in BOOLEAN /\ preserve \in BOOLEAN
    <3>1. w \in Wires
      BY <1>1, <1>9, HeadFacts, TellingTypes
    <3>2. QED BY <1>1, <3>1 DEF Wires, SeenSound
  <2>3. Away(w) /\ seen.open => Away(wire) /\ \A i \in 2..Len(events) : Linking(events[i]) => ~events[i].wire.ready
    BY <1>1, <1>9, HeadFacts
  <2>4. CASE last \/ preserve
    <3>1. seen.open /\ ~seen.raw
      BY <1>1, <2>4 DEF SeenSound
    <3>2. CASE w.ready
      BY <1>4, <2>1, <2>4, <3>2
    <3>3. CASE ~w.ready /\ Away(w)
      BY <1>6, <2>1, <2>3, <3>1, <3>3
    <3>4. CASE ~w.ready /\ ~Away(w)
      BY <2>1, <2>2, <2>4, <3>1, <3>4 DEF Away
    <3>5. QED BY <3>2, <3>3, <3>4
  <2>5. CASE ~(last \/ preserve)
    <3>1. ~w.ready
      <4>1. 1 \in 1..Len(events)
        BY <1>1, EventsTail
      <4>2. QED BY <1>4, <1>9, <2>5, <4>1
    <3>2. QED BY <1>4, <1>6, <1>7, <2>1, <2>5, <3>1
  <2>6. QED BY <2>4, <2>5
<1>10. QED BY <1>8, <1>9, HearKeeps

(* The steps of the page that hear nothing.                                  *)
LEMMA OwnQueue ==
    ASSUME QueueInv(events, Teller), UNCHANGED <<workerVars, events, seen, pageGen>>,
           wiped' = pageGen \/ (wiped' = wiped /\ list \cup batch \subseteq list' \cup batch')
    PROVE  QueueInv(events, Teller)'
<1>1. Teller' = Teller /\ events' = events /\ seen' = seen /\ pageGen' = pageGen
  BY DEF Teller, TellerOf, workerVars
<1>2. SyncsInOrder(events)' /\ OrderGoesOn(events, Teller)' /\ OrderWentOn(events)' /\ (pageGen <= Teller.gens)'
  BY <1>1 DEF QueueInv, SyncsInOrder, OrderGoesOn, OrderWentOn, StartedIn
<1>3. InLink(events, seen, Teller.wire)'
  BY <1>1 DEF QueueInv, InLink, LatestWire, WireAt
<1>4. LinksInTurn(events, Teller.wire)'
  BY <1>1 DEF QueueInv, LinksInTurn, AwayHeard
<1>5. ASSUME NEW k, NEW g, NEW x, Came(events, k, g, x) PROVE Came(events, k, g, x)'
  <2>1. pageGen # g \/ wiped = g \/ Held(x) => pageGen' # g \/ wiped' = g \/ Held(x)'
    BY <1>1 DEF Held
  <2>2. QED BY <1>1, <1>5, <2>1 DEF Came, Fed, StartedIn
<1>6. AllCome(events, Teller)'
  <2> DEFINE c == Teller
  <2>1. AllCome(events, c) /\ Teller' = c
    BY <1>1 DEF QueueInv
  <2> HIDE DEF c
  <2>2. (\A m \in 1..Len(events) : events[m].kind = "complete" /\ events[m].gen \in Teller.asked =>
           \A x \in Indices : Came(events, m, events[m].gen, x))'
    <3>1. ASSUME NEW m \in 1..Len(events'), events'[m].kind = "complete", events'[m].gen \in c.asked, NEW x \in Indices
          PROVE  (Came(events, m, events[m].gen, x))'
      <4>1. Came(events, m, events[m].gen, x)
        BY <1>1, <2>1, <3>1 DEF AllCome
      <4>2. PICK g : g = events[m].gen /\ Came(events, m, g, x)'
        BY <1>5, <4>1
      <4>3. QED BY ONLY <1>1, <4>2 DEF Came, Fed, StartedIn, Held
    <3>2. QED BY <2>1, <3>1
  <2>3. (Teller.gen \in Teller.asked => \A x \in Indices \ Teller.left :
           Came(events, Len(events) + 1, Teller.gen, x) \/ \E v \in Teller.told : v[1] = x)'
    <3>1. ASSUME c.gen \in c.asked, NEW x \in Indices \ c.left, ~ \E v \in c.told : v[1] = x
          PROVE  (Came(events, Len(events) + 1, Teller.gen, x))'
      <4>1. Came(events, Len(events) + 1, c.gen, x)
        BY <2>1, <3>1 DEF AllCome
      <4>2. PICK g, m : g = c.gen /\ m = Len(events) + 1 /\ Came(events, m, g, x)'
        BY <1>5, <4>1
      <4>3. QED BY ONLY <1>1, <2>1, <4>2 DEF Came, Fed, StartedIn, Held
    <3>2. QED BY <2>1, <3>1
  <2>4. QED BY <2>2, <2>3 DEF AllCome
<1>7. QED BY <1>2, <1>3, <1>4, <1>6 DEF QueueInv

LEMMA OwnWaiting ==
    ASSUME WaitsUndisturbed, UNCHANGED <<workerVars, events, last, preserve>>, auto' = AutoIdle, UserWaits' => UserWaits
    PROVE  WaitsUndisturbed'
BY DEF WaitsUndisturbed, workerVars

LEMMA FlushParamBatchKeeps ==
    ASSUME PageInv, FlushParamBatch
    PROVE  PageInv'
<1>1. /\ list' = list \cup batch /\ batch' = {} /\ wiped' = wiped /\ show' = show /\ by' = by
      /\ UNCHANGED <<workerVars, events, commands, seen, last, preserve, pageGen, auto, requests>>
  BY DEF FlushParamBatch
<1>2. /\ PageTypeOK /\ events \in Seq(Tellings) /\ commands \in Seq(Nat) /\ requests \in Nat
      /\ QueueInv(events, Teller) /\ WorkerSound /\ PageSound /\ WaitsUndisturbed
  BY DEF PageInv
<1>3. AutoSound /\ ListSound /\ SeenSound /\ pageGen \in 0..MaxGens
  BY <1>2, PageParts
<1>4. QueueInv(events, Teller)'
  BY <1>1, <1>2, OwnQueue
<1>5. AutoSound' /\ SeenSound'
  BY <1>1, <1>3 DEF AutoSound, WantedIsComing, SeenSound
<1>6. ListSound'
  BY <1>1, <1>3 DEF ListSound, workerVars
<1>7. PageTypeOK' /\ WorkerSound' /\ PageSound'
  BY <1>1, <1>2, <1>3, <1>5, <1>6, PageWhole
<1>8. WaitsUndisturbed'
  BY <1>1, <1>2 DEF WaitsUndisturbed, UserWaits, workerVars
<1>9. QED BY <1>1, <1>2, <1>4, <1>7, <1>8 DEF PageInv

LEMMA AutoTimerKeeps ==
    ASSUME PageInv, AutoTimer
    PROVE  PageInv' /\ ~UserWaits
<1>1. auto.timer /\ UNCHANGED <<workerVars, events, seen, last, preserve, pageGen, batch, list, show, by, wiped>>
  BY DEF AutoTimer, storeVars
<1>2. /\ PageTypeOK /\ events \in Seq(Tellings) /\ commands \in Seq(Nat) /\ requests \in Nat
      /\ QueueInv(events, Teller) /\ WorkerSound /\ PageSound /\ WaitsUndisturbed
  BY DEF PageInv
<1>3. AutoSound /\ ListSound /\ SeenSound /\ pageGen \in 0..MaxGens
  BY <1>2, PageParts
<1>4. auto.pending /\ ~auto.inFlight /\ auto # AutoIdle /\ auto.tries < MaxAttempts /\ seen.open /\ seen.ready
  BY <1>1, <1>3 DEF AutoSound, WantedIsComing, AutoIdle
<1>5. ~UserWaits
  BY <1>2, <1>4 DEF WaitsUndisturbed
<1>6. QueueInv(events, Teller)'
  BY <1>1, <1>2, OwnQueue
<1>7. SeenSound' /\ ListSound'
  BY <1>1, <1>3 DEF SeenSound, ListSound, workerVars
<1>8. CASE MayStart
  <2>1. auto' = AutoSent /\ requests' = requests + 1 /\ commands' = Append(commands, requests + 1)
    BY <1>8 DEF AutoTimer
  <2>2. /\ requests' \in Nat /\ commands' \in Seq(Nat) /\ Len(commands) \in Nat /\ Len(commands') = Len(commands) + 1
        /\ \A k \in 1..Len(commands) : commands'[k] = commands[k]
        /\ commands'[Len(commands) + 1] = requests + 1
    BY <1>2, <2>1, AppendProperties, LenProperties
  <2>3. ~UserWaits'
    <3>1. users' = users /\ gen' = gen
      BY <1>1 DEF workerVars
    <3>2. ASSUME NEW k \in 1..Len(commands'), commands'[k] = NoId PROVE FALSE
      <4>1. CASE k = Len(commands) + 1
        BY <1>2, <2>2, <3>2, <4>1 DEF NoId
      <4>2. CASE k # Len(commands) + 1
        <5>1. k \in 1..Len(commands)
          BY <2>2, <4>2
        <5>2. QED BY <1>5, <2>2, <3>2, <5>1 DEF UserWaits
      <4>3. QED BY <4>1, <4>2
    <3>3. QED BY <1>5, <3>1, <3>2 DEF UserWaits
  <2>4. auto' \in Autos /\ auto'.pending /\ auto'.inFlight /\ ~auto'.timer
    <3>1. auto \in Autos /\ auto.tries \in 0..MaxAttempts /\ MaxAttempts \in Nat
      BY <1>3, PageAssumption DEF AutoSound, Autos
    <3>2. auto.tries + 1 \in 0..MaxAttempts /\ requests + 1 \in Nat
      BY <1>2, <1>4, <3>1
    <3>3. auto' = [auto EXCEPT !.inFlight = TRUE, !.id = requests + 1, !.tries = auto.tries + 1, !.timer = FALSE]
      BY <2>1 DEF AutoSent
    <3>4. auto.pending
      BY <1>4
    <3>5. QED BY ONLY <3>1, <3>2, <3>3, <3>4 DEF Autos
  <2>5. AutoSound'
    BY <1>1, <1>4, <2>4 DEF AutoSound, WantedIsComing
  <2>6. PageTypeOK' /\ WorkerSound' /\ PageSound'
    BY <1>1, <1>2, <1>3, <1>7, <2>5, PageWhole
  <2>7. WaitsUndisturbed'
    BY <2>3 DEF WaitsUndisturbed
  <2>8. QED BY <1>1, <1>2, <1>5, <1>6, <2>2, <2>6, <2>7 DEF PageInv
<1>9. CASE ~MayStart
  <2>1. auto' = [auto EXCEPT !.timer = auto.pending /\ ~auto.inFlight] /\ UNCHANGED <<requests, commands>>
    BY <1>9 DEF AutoTimer
  <2>2. (auto.pending /\ ~auto.inFlight) = auto.timer
    BY <1>1, <1>4, <1>3 DEF AutoSound, Autos
  <2>3. auto' = auto
    BY <1>3, <2>1, <2>2 DEF AutoSound, Autos
  <2>4. AutoSound'
    BY <1>1, <1>3, <2>3 DEF AutoSound, WantedIsComing
  <2>5. PageTypeOK' /\ WorkerSound' /\ PageSound'
    BY <1>1, <1>2, <1>3, <1>7, <2>4, PageWhole
  <2>6. WaitsUndisturbed'
    BY <1>1, <1>5, <2>1 DEF WaitsUndisturbed, UserWaits, workerVars
  <2>7. QED BY <1>1, <1>2, <1>5, <1>6, <2>1, <2>5, <2>6 DEF PageInv
<1>10. QED BY <1>8, <1>9

LEMMA RefreshKeeps ==
    ASSUME PageInv, Refresh
    PROVE  PageInv'
<1>1. /\ seen.open /\ seen.ready /\ list' = {} /\ by' = NoGen /\ wiped' = pageGen /\ show' = "loading" /\ batch' = batch
      /\ auto' = AutoIdle /\ commands' = Append(commands, NoId)
      /\ UNCHANGED <<workerVars, events, seen, last, preserve, pageGen, requests>>
  BY DEF Refresh, Wiped, Yielded
<1>2. /\ PageTypeOK /\ events \in Seq(Tellings) /\ commands \in Seq(Nat) /\ requests \in Nat
      /\ QueueInv(events, Teller) /\ WorkerSound /\ PageSound /\ WaitsUndisturbed
  BY DEF PageInv
<1>3. AutoSound /\ ListSound /\ SeenSound /\ pageGen \in 0..MaxGens /\ gens \in Nat
  BY <1>2, PageParts
<1>4. QueueInv(events, Teller)'
  BY <1>1, <1>2, OwnQueue
<1>5. AutoIdle \in Autos /\ AutoIdle.gen = NoGen /\ ~AutoIdle.pending /\ ~AutoIdle.inFlight /\ ~AutoIdle.timer
  BY PageAssumption DEF AutoIdle, Autos, NoId, NoGen
<1>6. AutoSound' /\ SeenSound'
  BY <1>1, <1>3, <1>5 DEF AutoSound, WantedIsComing, SeenSound
<1>7. ListSound'
  <2>1. NoGen \in 0..MaxGens /\ NoGen <= gens /\ NoGen \notin asked /\ asked' = asked /\ gens' = gens
    BY <1>1, <1>2, <1>3, WorkerTypes DEF NoGen, workerVars
  <2>2. QED BY <1>1, <1>3, <2>1 DEF ListSound
<1>8. PageTypeOK' /\ WorkerSound' /\ PageSound'
  BY <1>1, <1>2, <1>3, <1>6, <1>7, PageWhole
<1>9. WaitsUndisturbed'
  BY <1>1, <1>3 DEF WaitsUndisturbed, SeenSound
<1>10. commands' \in Seq(Nat) /\ requests' \in Nat
  BY <1>1, <1>2, AppendProperties DEF NoId
<1>11. QED BY <1>1, <1>2, <1>4, <1>8, <1>9, <1>10 DEF PageInv

(* What is told in one step, without a snapshot.                             *)
Plain == {e \in Tellings : ~Linking(e)}

LEMMA PlainTold ==
    ASSUME events \in Seq(Tellings), NEW es \in Seq(Plain), events' = events \o es,
           \A i \in 1..Len(events) : Linking(events[i]) => ~events[i].wire.ready
    PROVE  \A i \in 1..Len(events') : Linking(events'[i]) => ~events'[i].wire.ready
<1>1. /\ Len(events) \in Nat /\ Len(es) \in Nat /\ Len(events') = Len(events) + Len(es)
      /\ \A i \in 1..Len(events) : events'[i] = events[i]
      /\ \A i \in 1..Len(es) : events'[Len(events) + i] = es[i] /\ es[i] \in Plain
  <2>1. Plain \subseteq Tellings
    BY DEF Plain
  <2>2. es \in Seq(Tellings)
    BY <2>1, SeqDef
  <2>3. \A i \in 1..Len(es) : es[i] \in Plain
    BY ElementOfSeq
  <2>4. Len(events) \in Nat /\ Len(es) \in Nat
    BY <2>2, LenProperties
  <2>5. QED BY <2>2, <2>3, <2>4, ConcatProperties
<1>2. ASSUME NEW i \in 1..Len(events'), Linking(events'[i]) PROVE ~events'[i].wire.ready
  <2>1. CASE i \in 1..Len(events)
    BY <1>1, <1>2, <2>1
  <2>2. CASE i \notin 1..Len(events)
    <3>1. i - Len(events) \in 1..Len(es) /\ Len(events) + (i - Len(events)) = i
      BY <1>1, <2>2
    <3>2. events'[i] \in Plain
      BY <1>1, <3>1
    <3>3. QED BY <1>2, <3>2 DEF Plain
  <2>3. QED BY <2>1, <2>2
<1>3. QED BY <1>2

LEMMA FlushedPlain ==
    ASSUME PageTypeOK, WorkerSound
    PROVE  Flushed \in Seq(Plain)
<1>1. Batch(gen, told) \in Plain
  BY WorkerTypes DEF Batch, Tellings, Plain, Linking
<1>2. <<Batch(gen, told)>> \in Seq(Plain) /\ <<>> \in Seq(Plain)
  BY <1>1, EmptySeq
<1>3. QED BY <1>2 DEF Flushed

(* Nobody comes to wait for a list by a step of the Worker.                  *)
LEMMA StillWaits ==
    ASSUME PageTypeOK, WorkerSound, commands \in Seq(Nat), OrderGoesOn(events, Teller), UserWaits',
           \/ gen' = gen /\ users' = users /\ commands' = commands
           \/ gen' = NoGen /\ users' = users /\ commands' = commands
           \/ /\ commands # <<>> /\ commands' = Tail(commands)
              /\ \/ gen' = gen /\ users' = users
                 \/ gen' = gens + 1 /\ users' = users
                 \/ gen' = gens + 1 /\ users' = (IF Head(commands) = NoId THEN users \cup {gens + 1} ELSE users)
           \/ gen' = gens + 1 /\ users' = users /\ commands' = commands
    PROVE  UserWaits
<1>1. NoGen \notin users /\ gens + 1 \notin users
  <2>1. users \subseteq asked /\ asked \subseteq 1..gens /\ gens \in Nat
    BY WorkerTypes DEF PageTypeOK, OrderGoesOn, Teller, TellerOf
  <2>2. QED BY <2>1 DEF NoGen
<1>2. CASE \E k \in 1..Len(commands') : commands'[k] = NoId
  <2>1. CASE commands' = commands
    BY <1>2, <2>1 DEF UserWaits
  <2>2. CASE commands # <<>> /\ commands' = Tail(commands)
    <3>1. Len(commands) \in Nat /\ Len(commands') = Len(commands) - 1 /\ \A k \in 1..Len(commands') : commands'[k] = commands[k + 1]
      BY <2>2, LenProperties, HeadTailProperties
    <3>2. PICK k \in 1..Len(commands') : commands'[k] = NoId
      BY <1>2
    <3>3. k + 1 \in 1..Len(commands) /\ commands[k + 1] = NoId
      BY <3>1, <3>2
    <3>4. QED BY <3>3 DEF UserWaits
  <2>3. QED BY <2>1, <2>2
<1>3. CASE gen' \in users'
  <2>1. CASE gen' = gen /\ users' = users
    BY <1>3, <2>1 DEF UserWaits
  <2>2. CASE commands # <<>> /\ Head(commands) = NoId
    <3>1. Len(commands) \in Nat /\ Len(commands) > 0 /\ Head(commands) = commands[1]
      BY <2>2, LenProperties, EmptySeq
    <3>2. 1 \in 1..Len(commands) /\ commands[1] = NoId
      BY <2>2, <3>1
    <3>3. QED BY <3>2 DEF UserWaits
  <2>3. QED BY <1>1, <1>3, <2>1, <2>2
<1>4. QED BY <1>2, <1>3 DEF UserWaits

LEMMA WorkerLeavesWaiting ==
    ASSUME PageInv, WorkerStep
    PROVE  WaitsUndisturbed' /\ commands' \in Seq(Nat) /\ UNCHANGED pageVars
<1>1. /\ PageTypeOK /\ WorkerSound /\ WaitsUndisturbed /\ events \in Seq(Tellings) /\ commands \in Seq(Nat)
      /\ OrderGoesOn(events, Teller)
  BY DEF PageInv, QueueInv
<1>2. NoGen \notin users /\ (gen # NoGen => wire.ready) /\ (wire.ready => ~Away(wire)) /\ (wire.raw => ~wire.ready)
  <2>1. NoGen \notin users
    BY <1>1, WorkerTypes DEF PageTypeOK
  <2>2. QED BY <1>1, <2>1 DEF WorkerSound, Away
<1>3. ASSUME UNCHANGED pageVars, commands' \in Seq(Nat), UserWaits' => UserWaits,
             \/ ~Away(wire)
             \/ wire' = wire /\ \E es \in Seq(Plain) : events' = events \o es
      PROVE  WaitsUndisturbed' /\ commands' \in Seq(Nat) /\ UNCHANGED pageVars
  <2>1. auto' = auto /\ last' = last /\ preserve' = preserve
    BY <1>3 DEF pageVars
  <2>2. CASE ~Away(wire)
    BY <1>1, <1>3, <2>1, <2>2 DEF WaitsUndisturbed
  <2>3. CASE wire' = wire /\ \E es \in Seq(Plain) : events' = events \o es
    <3>1. PICK es \in Seq(Plain) : events' = events \o es
      BY <2>3
    <3>2. (\A i \in 1..Len(events) : Linking(events[i]) => ~events[i].wire.ready)
            => \A i \in 1..Len(events') : Linking(events'[i]) => ~events'[i].wire.ready
      BY <1>1, <3>1, PlainTold
    <3>3. QED BY <1>1, <1>3, <2>1, <2>3, <3>2 DEF WaitsUndisturbed
  <2>4. QED BY <1>3, <2>2, <2>3
<1>4. ASSUME UNCHANGED pageVars, commands = <<>>, commands' = commands, users' = users, gen' = NoGen
      PROVE  WaitsUndisturbed' /\ commands' \in Seq(Nat) /\ UNCHANGED pageVars
  <2>1. ~UserWaits'
    BY <1>2, <1>4 DEF UserWaits
  <2>2. QED BY <1>1, <1>4, <2>1 DEF WaitsUndisturbed
<1>5. Tail(commands) \in Seq(Nat) \/ commands = <<>>
  BY <1>1, HeadTailProperties
<1>6. CASE Open \/ Close
  BY <1>4, <1>6 DEF Open, Close, InTurn
<1>7. CASE RawBegins
  BY <1>4, <1>7 DEF RawBegins, InTurn
<1>8. CASE RawEnds
  BY <1>2, <1>4, <1>8 DEF RawEnds, InTurn
<1>9. CASE BecomesReady
  <2>1. gen' = gen /\ users' = users /\ commands' = commands /\ UNCHANGED pageVars /\ ~Away(wire)
    BY <1>9 DEF BecomesReady, Away
  <2>2. QED BY <1>1, <1>3, <2>1, StillWaits
<1>10. CASE SoftLoss
  <2>1. gen' = NoGen /\ users' = users /\ commands' = commands /\ UNCHANGED pageVars /\ ~Away(wire)
    BY <1>2, <1>10 DEF SoftLoss
  <2>2. QED BY <1>1, <1>3, <2>1, StillWaits
<1>11. CASE BeginsSilently
  <2>1. gen' = gens + 1 /\ users' = users /\ commands' = commands /\ UNCHANGED pageVars /\ ~Away(wire)
    BY <1>2, <1>11 DEF BeginsSilently, BeginSync
  <2>2. QED BY <1>1, <1>3, <2>1, StillWaits
<1>12. CASE Downloads
  <2>1. /\ gen' = gens + 1 /\ users' = (IF Head(commands) = NoId THEN users \cup {gens + 1} ELSE users)
        /\ commands # <<>> /\ commands' = Tail(commands) /\ UNCHANGED pageVars /\ ~Away(wire)
    BY <1>2, <1>12 DEF Downloads, BeginSync
  <2>2. QED BY <1>1, <1>3, <1>5, <2>1, StillWaits
<1>13. CASE GateRefuses
  <2>1. /\ gen' = gen /\ users' = users /\ wire' = wire
        /\ commands # <<>> /\ commands' = Tail(commands) /\ UNCHANGED pageVars
        /\ events' = events \o <<Refused(Head(commands), TRUE)>>
    BY <1>13 DEF GateRefuses, Post, workerVars
  <2>2. <<Refused(Head(commands), TRUE)>> \in Seq(Plain)
    <3>1. Head(commands) \in Nat
      BY <1>1, <2>1, HeadTailProperties
    <3>2. Refused(Head(commands), TRUE) \in Plain
      BY <3>1 DEF Refused, Plain, Tellings, Linking
    <3> DEFINE r == Refused(Head(commands), TRUE)
    <3>3. r \in Plain
      BY <3>2
    <3> HIDE DEF r
    <3>4. <<r>> \in Seq(Plain)
      BY <3>3
    <3>5. QED BY <3>4 DEF r
  <2>3. QED BY <1>1, <1>3, <1>5, <2>1, <2>2, StillWaits
<1>14. CASE BridgeRefuses
  <2>1. /\ gen' = gens + 1 /\ users' = users
        /\ commands # <<>> /\ commands' = Tail(commands) /\ UNCHANGED pageVars /\ ~Away(wire)
    BY <1>2, <1>14 DEF BridgeRefuses, BeginSync
  <2>2. QED BY <1>1, <1>3, <1>5, <2>1, StillWaits
<1>15. CASE FlushParams
  <2>1. gen' = gen /\ users' = users /\ commands' = commands /\ wire' = wire /\ UNCHANGED pageVars /\ events' = events \o Flushed
    BY <1>15 DEF FlushParams, Post
  <2>2. QED BY <1>1, <1>3, <2>1, FlushedPlain, StillWaits
<1>16. CASE DownloadFails
  <2> DEFINE fs == IF gen = NoGen THEN <<>> ELSE <<Sync("failed", gen)>>
  <2>1. /\ gen' = NoGen /\ users' = users /\ commands' = commands /\ wire' = wire /\ UNCHANGED pageVars
        /\ events' = events \o (Flushed \o <<Ends("failed", gen)>> \o fs)
    BY <1>16 DEF DownloadFails, Post
  <2>2. Ends("failed", gen) \in Plain /\ (gen # NoGen => Sync("failed", gen) \in Plain)
    BY <1>1, WorkerTypes DEF Ends, Sync, Plain, Tellings, Linking, NoGen
  <2>3. Flushed \in Seq(Plain) /\ <<Ends("failed", gen)>> \in Seq(Plain) /\ fs \in Seq(Plain)
    BY <1>1, <2>2, FlushedPlain, EmptySeq
  <2> HIDE DEF fs
  <2>4. Flushed \o <<Ends("failed", gen)>> \o fs \in Seq(Plain)
    BY <2>3, ConcatProperties
  <2>5. QED BY <1>1, <1>3, <2>1, <2>4, StillWaits
<1>17. CASE SyncTimesOut
  <2>1. gen' = NoGen /\ users' = users /\ commands' = commands /\ UNCHANGED pageVars /\ ~Away(wire)
    BY <1>2, <1>17 DEF SyncTimesOut
  <2>2. QED BY <1>1, <1>3, <2>1, StillWaits
<1>18. ASSUME NEW i \in Indices, Tells(i)
       PROVE  WaitsUndisturbed' /\ commands' \in Seq(Nat) /\ UNCHANGED pageVars
  <2>1. wire' = wire /\ users' = users /\ commands' = commands /\ UNCHANGED pageVars
    BY <1>18 DEF Tells
  <2>2. CASE ~Away(wire)
    <3>1. gen' \in {gen, NoGen}
      BY <1>18 DEF Tells
    <3>2. QED BY <1>1, <1>3, <2>1, <2>2, <3>1, StillWaits
  <2>3. CASE Away(wire)
    <3>1. gen = NoGen
      BY <1>2, <2>3
    <3> DEFINE b == Batch(gen, told \cup {<<i, wire.link>>})
               e == Ends("complete", gen)
    <3>2. CASE left' # {}
      <4>1. gen' = gen /\ events' = events
        BY <1>18, <3>2 DEF Tells
      <4>2. events' = events \o <<>> /\ <<>> \in Seq(Plain)
        BY <1>1, <4>1, ConcatEmptySeq, EmptySeq
      <4>3. QED BY <1>1, <1>3, <2>1, <4>1, <4>2, StillWaits
    <3>3. CASE left' = {}
      <4>1. gen' = NoGen /\ events' = events \o <<b, e>>
        BY <1>18, <3>1, <3>3 DEF Tells, Post
      <4>2. b \in Plain /\ e \in Plain
        <5>1. <<i, wire.link>> \in Values
          <6>1. wire.open /\ wire.link > 0 /\ wire.link \in 0..MaxLinks
            BY <1>1, <1>18, WorkerTypes, WireTypes, PageAssumption DEF WorkerSound, Tells
          <6>2. QED BY <6>1, PageAssumption DEF Values
        <5>2. QED BY <1>1, <5>1, WorkerTypes DEF Batch, Ends, Plain, Tellings, Linking
      <4>3. <<b, e>> \in Seq(Plain)
        BY <4>2
      <4>4. QED BY <1>1, <1>3, <2>1, <4>1, <4>3, StillWaits
    <3>4. QED BY <3>2, <3>3
  <2>4. QED BY <2>2, <2>3
<1>19. QED
  BY <1>6, <1>7, <1>8, <1>9, <1>10, <1>11, <1>12, <1>13, <1>14, <1>15, <1>16, <1>17, <1>18 DEF WorkerStep

LEMMA AskedGrows ==
    ASSUME PageTypeOK, WorkerSound, WorkerStep
    PROVE  asked' = asked \/ (asked' = asked \cup {gens + 1} /\ by <= gens /\ gens \in Nat /\ by \in Nat)
<1>1. by <= gens /\ gens \in Nat /\ by \in Nat
  BY PageAssumption DEF PageTypeOK, WorkerSound
<1>2. CASE Downloads
  BY <1>1, <1>2 DEF Downloads
<1>3. CASE ~Downloads
  <2>1. UNCHANGED asked
    BY <1>3 DEF WorkerStep, Open, Close, BecomesReady, SoftLoss, RawBegins, RawEnds, BeginsSilently, GateRefuses,
         BridgeRefuses, Tells, FlushParams, DownloadFails, SyncTimesOut, workerVars
  <2>2. QED BY <2>1
<1>4. QED BY <1>2, <1>3

LEMMA PageStarts ==
    ASSUME PageInit
    PROVE  PageInv
<1>1. /\ MaxAttempts \in Nat \ {0} /\ MaxLinks \in Nat /\ MaxGens \in Nat /\ MaxDrops \in Nat /\ MaxSilent \in Nat
  BY PageAssumption
<1>2. NoLink \in Wires /\ ~NoLink.open /\ ~NoLink.ready /\ ~NoLink.raw /\ NoLink.link = 0
  BY <1>1 DEF NoLink, Wires
<1>3. AutoIdle \in Autos /\ AutoIdle.gen = NoGen /\ ~AutoIdle.pending /\ ~AutoIdle.inFlight /\ ~AutoIdle.timer
  BY <1>1 DEF AutoIdle, Autos, NoId, NoGen
<1>4. PageTypeOK
  <2>1. /\ wire = NoLink /\ seen = NoLink /\ auto = AutoIdle /\ drops = 0 /\ gen = 0 /\ gens = 0 /\ silent = 0
        /\ asked = {} /\ users = {} /\ left = {} /\ loading = FALSE /\ told = {} /\ batch = {} /\ list = {}
        /\ last = FALSE /\ preserve = FALSE /\ pageGen = 0 /\ show = "none" /\ by = 0 /\ wiped = 0
    BY DEF PageInit, NoGen
  <2>2. wire \in Wires /\ seen \in Wires
    BY ONLY <2>1, <1>2
  <2>3. 0 \in 0..MaxDrops /\ 0 \in 0..MaxGens /\ 0 \in 0..MaxSilent
    BY ONLY <1>1
  <2>4. auto \in [pending : BOOLEAN, inFlight : BOOLEAN, id : Nat, gen : 0..MaxGens,
                  tries : 0..MaxAttempts, timer : BOOLEAN]
    BY ONLY <2>1, <1>3 DEF Autos
  <2>5. drops \in 0..MaxDrops /\ gen \in 0..MaxGens /\ gens \in 0..MaxGens /\ silent \in 0..MaxSilent
        /\ pageGen \in 0..MaxGens /\ by \in 0..MaxGens /\ wiped \in 0..MaxGens
    BY ONLY <2>1, <2>3
  <2>6. /\ users \subseteq asked /\ asked \subseteq 1..MaxGens /\ left \subseteq Indices
        /\ told \subseteq Values /\ batch \subseteq Values /\ list \subseteq Values
    BY ONLY <2>1
  <2>7. loading \in BOOLEAN /\ last \in BOOLEAN /\ preserve \in BOOLEAN
        /\ show \in {"none", "loading", "failed", "complete"}
    BY ONLY <2>1
  <2>8. QED BY ONLY <2>2, <2>4, <2>5, <2>6, <2>7 DEF PageTypeOK
<1>5. WorkerSound
  BY <1>2 DEF PageInit, WorkerSound, NoGen
<1>6. PageSound
  <2>1. seen = NoLink /\ auto = AutoIdle /\ list = {} /\ batch = {} /\ show = "none" /\ asked = {}
        /\ last = FALSE /\ preserve = FALSE
    BY DEF PageInit
  <2>2. WantedIsComing
    BY ONLY <2>1, <1>3 DEF WantedIsComing
  <2>3. NothingOfLostLink
    BY ONLY <2>1, <1>2 DEF NothingOfLostLink
  <2>4. seen.ready = FALSE
    BY <2>1 DEF NoLink
  <2>5. QED BY ONLY <2>1, <2>2, <2>3, <2>4, <1>3 DEF PageSound
<1>7. events = <<>> /\ Len(events) = 0 /\ commands = <<>> /\ events \in Seq(Tellings) /\ commands \in Seq(Nat) /\ requests \in Nat
  BY EmptySeq DEF PageInit
<1>8. WaitsUndisturbed
  BY <1>7 DEF PageInit, WaitsUndisturbed, UserWaits
<1>9. QueueInv(events, Teller)
  <2>1. SyncsInOrder(events) /\ OrderGoesOn(events, Teller) /\ OrderWentOn(events) /\ pageGen <= Teller.gens
    BY <1>7 DEF PageInit, SyncsInOrder, OrderGoesOn, OrderWentOn, Teller, TellerOf, NoGen
  <2>2. AllCome(events, Teller)
    BY <1>7 DEF PageInit, AllCome, Teller, TellerOf
  <2>3. \A i \in 1..Len(events) : FALSE
    BY <1>7
  <2>4. seen = wire /\ Teller.wire = wire /\ wire.link = 0 /\ ~wire.open
    BY <1>2 DEF PageInit, Teller, TellerOf
  <2>5. LinksInTurn(events, Teller.wire)
    BY <2>3, <2>4 DEF LinksInTurn, NotBefore
  <2>6. InLink(events, seen, Teller.wire)
    BY <1>7, <2>3, <2>4 DEF InLink, WireAt, SameLink
  <2>7. QED BY <2>1, <2>2, <2>5, <2>6 DEF QueueInv
<1>10. QED BY <1>4, <1>5, <1>6, <1>7, <1>8, <1>9 DEF PageInv

LEMMA PageSteps ==
    ASSUME PageInv, [PageNext]_runtimeVars
    PROVE  PageInv'
<1>1. CASE UNCHANGED runtimeVars
  BY <1>1, SMTT(30) DEF runtimeVars, workerVars, pageVars, storeVars, PageInv, PageTypeOK, QueueInv, SyncsInOrder, OrderGoesOn,
       OrderWentOn, InLink, AllCome, LinksInTurn, WorkerSound, PageSound, WaitsUndisturbed, UserWaits, Teller, TellerOf,
       StartedIn, LatestWire, WireAt, Came, Fed, Held, AwayHeard, WantedIsComing, NothingOfLostLink
<1>2. CASE WorkerStep
  <2>1. /\ PageTypeOK /\ WorkerSound /\ events \in Seq(Tellings) /\ commands \in Seq(Nat) /\ QueueInv(events, Teller)
        /\ PageSound /\ requests \in Nat
    BY DEF PageInv
  <2>2. PageTypeOK' /\ WorkerSound' /\ events' \in Seq(Tellings) /\ QueueInv(events', Teller')
    BY <1>2, <2>1, WorkerKeeps
  <2>3. WaitsUndisturbed' /\ commands' \in Seq(Nat) /\ UNCHANGED pageVars
    BY <1>2, WorkerLeavesWaiting
  <2>4. QueueInv(events, Teller)'
    BY <2>2, <2>3, SamePage
  <2>5. PageSound'
    <3>1. UNCHANGED <<seen, last, preserve, auto, list, batch, show, by, wiped>> /\ requests' = requests
      BY <2>3 DEF pageVars, storeVars
    <3>2. by \in asked' => by \in asked
      <4>1. asked' = asked \/ (asked' = asked \cup {gens + 1} /\ by <= gens /\ gens \in Nat /\ by \in Nat)
        BY <1>2, <2>1, WorkerTypes, AskedGrows
      <4>2. QED BY <4>1
    <3>3. QED BY <2>1, <3>1, <3>2 DEF PageSound, WantedIsComing, NothingOfLostLink
  <2>6. requests' \in Nat
    BY <2>1, <2>3 DEF pageVars
  <2>7. QED BY <2>2, <2>3, <2>4, <2>5, <2>6 DEF PageInv
<1>3. CASE Hear
  <2>1. /\ PageTypeOK /\ WorkerSound /\ events \in Seq(Tellings) /\ commands \in Seq(Nat) /\ QueueInv(events, Teller)
        /\ PageSound /\ requests \in Nat /\ pageGen \in Nat /\ gens \in Nat
    BY PageParts DEF PageInv
  <2>2. HeardOf(events[1]) /\ PageTypeOK' /\ WorkerSound' /\ PageSound'
    BY <1>3, HearKeeps
  <2>3. events # <<>> /\ events' = Tail(events) /\ UNCHANGED workerVars /\ commands' = commands /\ requests' = requests
    BY <1>3, HearFrame
  <2>4. Teller' = Teller
    BY <2>3 DEF workerVars, Teller, TellerOf
  <2>5. QueueInv(events, Teller)' /\ events' \in Seq(Tellings)
    BY <2>1, <2>2, <2>3, <2>4, HeardQueue
  <2>6. WaitsUndisturbed'
    BY <1>3, HearLeavesWaiting
  <2>7. QED BY <2>1, <2>2, <2>3, <2>5, <2>6 DEF PageInv
<1>4. QED BY <1>1, <1>2, <1>3, AutoTimerKeeps, FlushParamBatchKeeps, RefreshKeeps DEF PageNext, PageStep

LEMMA PageImplies ==
    ASSUME PageInv
    PROVE  PageConsistent
<1>1. PageTypeOK /\ PageSound
  BY DEF PageInv
<1>2. RequestedIsWhole
  <2>1. SUFFICES ASSUME by \in asked, by # wiped PROVE {v[1] : v \in list} = Indices
    BY DEF RequestedIsWhole
  <2>2. list \subseteq Indices \X (1..MaxLinks)
    BY <1>1 DEF PageTypeOK, Values
  <2>3. \A x \in Indices : \E v \in list : v[1] = x
    BY <1>1, <2>1 DEF PageSound
  <2>4. QED BY <2>2, <2>3
<1>3. QED BY <1>1, <1>2 DEF PageConsistent, PageSound

(* The page and the Worker agree: the automatic request is pending exactly   *)
(* while a timer or an answer is due, nothing of a lost link is kept and no  *)
(* values of two links are mixed, and a list that a requested generation     *)
(* completed is whole, however far the page is behind (useLocalRuntime,      *)
(* handleMessage).                                                           *)
THEOREM PageIsConsistent == PageSpec => []PageConsistent
<1>1. PageInit => PageInv
  BY PageStarts
<1>2. PageInv /\ [PageNext]_runtimeVars => PageInv'
  BY PageSteps
<1>3. PageInv => PageConsistent
  BY PageImplies
<1>4. QED BY <1>1, <1>2, <1>3, PTL DEF PageSpec

(* No automatic request is posted over a generation the user asked for that  *)
(* the page follows (scheduleAutomaticParamRequest): whoever waits has given *)
(* it up, and no event still to be heard makes the page ask.                 *)
THEOREM UserIsUndisturbed == PageSpec => UserSyncUndisturbed
<1>1. PageInit => PageInv
  BY PageStarts
<1>2. PageInv /\ [PageNext]_runtimeVars => PageInv'
  BY PageSteps
<1>3. PageInv /\ [PageNext]_runtimeVars
        => [AutoTimer /\ commands' # commands => ~(gen = pageGen /\ gen \in users)]_runtimeVars
  <2>1. ASSUME PageInv, AutoTimer PROVE gen \notin users
    BY <2>1, AutoTimerKeeps DEF UserWaits
  <2>2. QED BY <2>1
<1>4. QED BY <1>1, <1>2, <1>3, PTL DEF PageSpec, UserSyncUndisturbed
-----------------------------------------------------------------------------
(* FrameCodec.  Of the bytes that have arrived the buffer holds the last; a  *)
(* turn of drain leaves every frame it passes delivered or covered.          *)
Octets == 0..MaxPayload

LEMMA LeastIsMin ==
    ASSUME NEW T \in SUBSET Nat, T # {}
    PROVE  Min(T) \in T /\ \A x \in T : Min(T) <= x
BY LeastNumber DEF Min

LEMMA MagicFirst ==
    ASSUME NEW b \in Seq(Octets)
    PROVE  LET start == NextMagic(b, 1)
           IN \/ start = 0 /\ \A j \in 1..Len(b) : b[j] # Magic
              \/ start \in 1..Len(b) /\ b[start] = Magic /\ \A j \in 1..start - 1 : b[j] # Magic
<1> DEFINE found == {i \in 1..Len(b) : b[i] = Magic}
<1>1. Len(b) \in Nat
  BY LenProperties
<1>2. NextMagic(b, 1) = IF found = {} THEN 0 ELSE Min(found)
  BY DEF NextMagic
<1>3. CASE found = {}
  BY <1>2, <1>3
<1>4. CASE found # {}
  <2>1. found \in SUBSET Nat
    BY <1>1
  <2>2. Min(found) \in found /\ \A x \in found : Min(found) <= x
    <3> HIDE DEF found
    <3> QED BY <1>4, <2>1, LeastIsMin
  <2> DEFINE m == Min(found)
  <2>3. m \in 1..Len(b) /\ b[m] = Magic
    BY <2>2
  <2>4. \A j \in 1..Len(b) : b[j] = Magic => m <= j
    BY <2>2
  <2>5. NextMagic(b, 1) = m
    BY <1>2, <1>4
  <2> HIDE DEF m, found
  <2>6. \A j \in 1..m - 1 : b[j] # Magic
    BY <1>1, <2>3, <2>4
  <2> QED BY <2>3, <2>5, <2>6
<1> QED BY <1>3, <1>4

LEMMA NestedInside ==
    ASSUME NEW b \in Seq(Octets)
    PROVE  FindCompleteFrame(b, 2) = 0 \/ FindCompleteFrame(b, 2) \in 2..Len(b)
<1> DEFINE found == {i \in 2..Len(b) : b[i] = Magic /\ Complete(b, i) /\ Known(b, i) /\ CrcOk(b, i)}
<1>1. Len(b) \in Nat
  BY LenProperties
<1>2. FindCompleteFrame(b, 2) = IF found = {} THEN 0 ELSE Min(found)
  BY DEF FindCompleteFrame
<1>3. found \in SUBSET Nat /\ found \subseteq 2..Len(b)
  BY <1>1
<1> HIDE DEF found
<1>4. found # {} => Min(found) \in found
  BY <1>3, LeastIsMin
<1> QED BY <1>2, <1>3, <1>4

LEMMA Rest ==
    ASSUME NEW b \in Seq(Octets), NEW k \in 1..Len(b) + 1
    PROVE  /\ From(b, k) \in Seq(Octets) /\ Len(From(b, k)) = (Len(b) - k) + 1
           /\ \A i \in 1..Len(From(b, k)) : From(b, k)[i] = b[(k + i) - 1]
<1>1. Len(b) \in Nat /\ \A i \in k..Len(b) : b[i] \in Octets
  BY LenProperties, ElementOfSeq
<1> DEFINE r == From(b, k)
<1>2. /\ r \in Seq(Octets) /\ Len(r) = IF k <= Len(b) THEN Len(b) - k + 1 ELSE 0
      /\ \A i \in 1..Len(b) - k + 1 : r[i] = b[k + i - 1]
  BY <1>1, SubSeqProperties DEF From
<1> HIDE DEF r
<1>3. Len(r) = (Len(b) - k) + 1
  BY <1>1, <1>2
<1>4. ASSUME NEW i \in 1..Len(r) PROVE r[i] = b[(k + i) - 1]
  <2>1. i \in 1..Len(b) - k + 1 /\ k + i - 1 = (k + i) - 1
    BY <1>1, <1>3
  <2> QED BY <1>2, <2>1
<1> QED BY <1>2, <1>3, <1>4 DEF r

LEMMA LengthOf ==
    ASSUME NEW b \in Seq(Octets), NEW at \in 1..Len(b)
    PROVE  /\ Len(b) < at + 2 => FrameLength(b, at) = 0
           /\ at + 2 <= Len(b) => /\ FrameLength(b, at) \in 4..MaxFrame
                                  /\ FrameLength(b, at) = 4 + b[at + 1]
<1>1. Len(b) \in Nat /\ MaxPayload \in Nat
  BY LenProperties, CodecAssumption
<1>2. ASSUME at + 2 <= Len(b) PROVE b[at + 1] \in Octets
  <2>1. at + 1 \in 1..Len(b)
    BY <1>1, <1>2
  <2> QED BY <2>1, ElementOfSeq
<1>3. CASE Len(b) < at + 2
  BY <1>1, <1>3 DEF FrameLength, HeaderLength
<1>4. CASE at + 2 <= Len(b)
  BY <1>1, <1>2, <1>4 DEF FrameLength, HeaderLength, MaxFrame, Octets
<1> QED BY <1>1, <1>3, <1>4

(* Two places where the same bytes begin hold the same frame.                *)
SameFrom(u, a, v, c, m) ==
    /\ u \in Seq(Octets) /\ v \in Seq(Octets) /\ m \in Nat /\ m >= 3
    /\ a \in 1..Len(u) /\ a + m <= Len(u) + 1
    /\ c \in 1..Len(v) /\ c + m <= Len(v) + 1
    /\ \A j \in 0..m - 1 : u[a + j] = v[c + j]

Span(u, a, size) == SubSeq(u, a, (a + size) - 1)

LEMMA Alike ==
    ASSUME NEW u, NEW v, NEW m, NEW a, NEW c, SameFrom(u, a, v, c, m)
    PROVE  /\ FrameLength(u, a) = FrameLength(v, c) /\ FrameLength(u, a) \in 4..MaxFrame
           /\ Known(u, a) <=> Known(v, c)
           /\ FrameLength(u, a) <= m =>
                 /\ Complete(u, a) /\ Complete(v, c) /\ (CrcOk(u, a) <=> CrcOk(v, c))
                 /\ Span(u, a, FrameLength(u, a)) = Span(v, c, FrameLength(u, a))
<1>0. /\ u \in Seq(Octets) /\ v \in Seq(Octets) /\ m \in Nat /\ m >= 3
      /\ a \in 1..Len(u) /\ a + m <= Len(u) + 1
      /\ c \in 1..Len(v) /\ c + m <= Len(v) + 1
      /\ \A j \in 0..m - 1 : u[a + j] = v[c + j]
  BY DEF SameFrom
<1>1. /\ Len(u) \in Nat /\ Len(v) \in Nat /\ 1 \in 0..m - 1 /\ 2 \in 0..m - 1
      /\ a + 2 <= Len(u) /\ c + 2 <= Len(v)
  BY <1>0, LenProperties
<1>2. u[a + 1] = v[c + 1] /\ u[a + 2] = v[c + 2]
  BY <1>0, <1>1
<1>3. /\ FrameLength(u, a) = 4 + u[a + 1] /\ FrameLength(v, c) = 4 + v[c + 1]
      /\ FrameLength(u, a) \in 4..MaxFrame
  BY <1>0, <1>1, LengthOf
<1>4. Known(u, a) <=> Known(v, c)
  BY <1>0, <1>2 DEF Known
<1> DEFINE s == FrameLength(u, a)
<1>5. FrameLength(v, c) = s /\ s \in 4..MaxFrame /\ MaxFrame \in Int
  BY <1>2, <1>3, CodecAssumption DEF MaxFrame, HeaderLength
<1> HIDE DEF s
<1>6. ASSUME s <= m
      PROVE  /\ Complete(u, a) /\ Complete(v, c) /\ (CrcOk(u, a) <=> CrcOk(v, c))
             /\ SubSeq(u, a, (a + s) - 1) = SubSeq(v, c, (c + s) - 1)
  <2>1. Complete(u, a) /\ Complete(v, c)
    <3>1. s > 0 /\ a + s - 1 <= Len(u) /\ c + s - 1 <= Len(v)
      BY <1>0, <1>1, <1>5, <1>6
    <3> QED BY <1>5, <3>1 DEF Complete, s
  <2>2. ASSUME NEW x \in Int, NEW y \in Int, 0 <= x, y < s
        PROVE  SubSeq(u, a + x, a + y) = SubSeq(v, c + x, c + y)
    <3> DEFINE p == SubSeq(u, a + x, a + y)
               q == SubSeq(v, c + x, c + y)
    <3>1. /\ a + x \in Int /\ a + y \in Int /\ c + x \in Int /\ c + y \in Int
          /\ \A i \in a + x..a + y : i \in 1..Len(u)
          /\ \A i \in c + x..c + y : i \in 1..Len(v)
      BY <1>0, <1>1, <1>5, <1>6, <2>2
    <3>2. /\ \A i \in a + x..a + y : u[i] \in Octets
          /\ \A i \in c + x..c + y : v[i] \in Octets
      BY <1>0, <3>1, ElementOfSeq
    <3>3. /\ p \in Seq(Octets) /\ Len(p) = IF a + x <= a + y THEN (a + y) - (a + x) + 1 ELSE 0
          /\ \A i \in 1..(a + y) - (a + x) + 1 : p[i] = u[a + x + i - 1]
      BY <3>1, <3>2, SubSeqProperties
    <3>4. /\ q \in Seq(Octets) /\ Len(q) = IF c + x <= c + y THEN (c + y) - (c + x) + 1 ELSE 0
          /\ \A i \in 1..(c + y) - (c + x) + 1 : q[i] = v[c + x + i - 1]
      BY <3>1, <3>2, SubSeqProperties
    <3> HIDE DEF p, q
    <3>0. /\ a \in Int /\ c \in Int /\ x \in Int /\ y \in Int
          /\ (a + y) - (a + x) + 1 = (y - x) + 1 /\ (c + y) - (c + x) + 1 = (y - x) + 1
          /\ (a + x <= a + y <=> x <= y) /\ (c + x <= c + y <=> x <= y)
      <4>1. a \in Int /\ c \in Int /\ x \in Int /\ y \in Int
        BY <1>0, <1>1, <2>2
      <4> QED BY ONLY <4>1
    <3>5. Len(p) = (IF x <= y THEN (y - x) + 1 ELSE 0) /\ Len(q) = Len(p)
      BY <3>0, <3>3, <3>4
    <3>6. ASSUME NEW i \in 1..Len(p) PROVE p[i] = q[i]
      <4>1. i \in 1..(y - x) + 1 /\ i \in Nat
        BY <3>0, <3>5
      <4>0. (x + i) - 1 \in 0..m - 1
        BY <1>0, <1>5, <1>6, <2>2, <4>1
      <4>3. /\ a + x + i - 1 = a + ((x + i) - 1) /\ c + x + i - 1 = c + ((x + i) - 1)
            /\ i \in 1..(a + y) - (a + x) + 1 /\ i \in 1..(c + y) - (c + x) + 1
        BY <3>0, <4>1
      <4>2. u[a + ((x + i) - 1)] = v[c + ((x + i) - 1)]
        BY <1>0, <4>0
      <4> QED BY <3>3, <3>4, <4>2, <4>3
    <3>7. p = q
      BY <3>3, <3>4, <3>5, <3>6, SeqEqual
    <3> QED BY <3>7 DEF p, q
  <2>3. SubSeq(u, a, (a + s) - 1) = SubSeq(v, c, (c + s) - 1)
    <3>1. /\ s - 1 \in Int /\ 0 \in Int /\ s - 1 < s /\ 0 <= 0
          /\ a + 0 = a /\ c + 0 = c /\ a + (s - 1) = (a + s) - 1 /\ c + (s - 1) = (c + s) - 1
      <4>1. a \in Int /\ c \in Int /\ s \in Int
        BY <1>0, <1>1, <1>5
      <4> QED BY ONLY <4>1
    <3>2. SubSeq(u, a + 0, a + (s - 1)) = SubSeq(v, c + 0, c + (s - 1))
      BY <1>0, <2>2, <3>1
    <3> QED BY <3>1, <3>2
  <2>4. CrcOk(u, a) <=> CrcOk(v, c)
    <3>1. /\ 1 \in Int /\ s - 2 \in Int /\ 0 <= 1 /\ s - 2 < s
          /\ a + (s - 2) = (a + s - 1) - 1 /\ c + (s - 2) = (c + s - 1) - 1
          /\ s - 1 \in 0..m - 1 /\ a + (s - 1) = a + s - 1 /\ c + (s - 1) = c + s - 1
      BY <1>0, <1>1, <1>5, <1>6
    <3>2. SubSeq(u, a + 1, a + (s - 2)) = SubSeq(v, c + 1, c + (s - 2))
      BY <1>0, <2>2, <3>1
    <3>3. u[a + (s - 1)] = v[c + (s - 1)]
      BY <1>0, <3>1
    <3>4. /\ SubSeq(u, a + 1, (a + s - 1) - 1) = SubSeq(v, c + 1, (c + s - 1) - 1)
          /\ u[a + s - 1] = v[c + s - 1]
      BY <3>1, <3>2, <3>3
    <3> QED BY <1>5, <3>4 DEF CrcOk, s
  <2> QED BY <2>1, <2>3, <2>4
<1>7. s <= m => Span(u, a, s) = Span(v, c, s)
  BY <1>6 DEF Span
<1> QED BY <1>3, <1>4, <1>5, <1>6, <1>7 DEF s

(* Why a turn may leave k - 1 bytes: none of them begins a frame, but those  *)
(* behind the first may when it claims them for an unknown message.          *)
Settled(b) == b = <<>> \/ ~Complete(b, 1)
Skipped(b, k) ==
    \A j \in 1..k - 1 : b[j] = Magic =>
        /\ b[1] = Magic /\ 3 <= Len(b)
        /\ \/ ~Known(b, 1) /\ j <= FrameLength(b, 1)
           \/ j = 1 /\ Complete(b, 1) /\ ~CrcOk(b, 1)
Parses(b, k) ==
    /\ b[1] = Magic /\ 3 <= Len(b) /\ Complete(b, 1) /\ Known(b, 1) /\ CrcOk(b, 1)
    /\ k = FrameLength(b, 1) + 1

LEMMA TurnGoes ==
    ASSUME NEW b \in Seq(Octets), NEW out
    PROVE  LET t == [left |-> b, out |-> out]
           IN \/ Turn(t) = t /\ Settled(b)
              \/ \E k \in 2..Len(b) + 1 :
                    \/ Turn(t) = [left |-> From(b, k), out |-> out] /\ Skipped(b, k)
                    \/ /\ Turn(t) = [left |-> From(b, k),
                                     out |-> out \cup {[left |-> Len(b), bytes |-> SubSeq(b, 1, k - 1)]}]
                       /\ Parses(b, k)
<1> DEFINE t == [left |-> b, out |-> out]
           start == NextMagic(b, 1)
           size == FrameLength(b, 1)
           nested == FindCompleteFrame(b, 2)
           Passes(k) == Turn(t) = [left |-> From(b, k), out |-> out]
<1>0. /\ t.left = b /\ t.out = out
      /\ \A rest : [t EXCEPT !.left = rest] = [left |-> rest, out |-> out]
  OBVIOUS
<1>1. Turn(t) =
       IF start = 0 THEN [left |-> <<>>, out |-> out]
       ELSE IF start > 1 THEN [left |-> From(b, start), out |-> out]
       ELSE IF size = 0 THEN t
       ELSE IF Len(b) < size
       THEN IF MustWait(b) \/ nested = 0 THEN t ELSE [left |-> From(b, nested), out |-> out]
       ELSE IF ~Known(b, 1) THEN [left |-> From(b, size + 1), out |-> out]
       ELSE IF ~CrcOk(b, 1) THEN [left |-> AfterCrcError(b), out |-> out]
       ELSE [left |-> From(b, size + 1), out |-> out \cup {[left |-> Len(b), bytes |-> SubSeq(b, 1, size)]}]
  BY <1>0 DEF Turn
<1> HIDE DEF t
<1>2. Len(b) \in Nat /\ (b # <<>> <=> Len(b) >= 1)
  BY LenProperties, EmptySeq
<1>3. \/ start = 0 /\ \A j \in 1..Len(b) : b[j] # Magic
      \/ start \in 1..Len(b) /\ b[start] = Magic /\ \A j \in 1..start - 1 : b[j] # Magic
  BY MagicFirst
<1>4. start \in 1..Len(b) => /\ Len(b) < 3 => size = 0
                             /\ 3 <= Len(b) => size \in 4..MaxFrame
  <2>1. ASSUME start \in 1..Len(b) PROVE 1 \in 1..Len(b)
    BY <1>2, <2>1
  <2>2. ASSUME start \in 1..Len(b)
        PROVE  /\ Len(b) < 1 + 2 => size = 0
               /\ 1 + 2 <= Len(b) => size \in 4..MaxFrame
    BY <2>1, <2>2, LengthOf
  <2> QED BY <2>2
<1>5. MaxFrame \in Nat
  BY CodecAssumption DEF MaxFrame, HeaderLength
<1>6. nested = 0 \/ nested \in 2..Len(b)
  BY NestedInside
<1>7. Complete(b, 1) <=> size > 0 /\ size <= Len(b)
  <2>1. size > 0 => size \in Int
    <3>1. CASE 1 \in 1..Len(b)
      <4>1. /\ Len(b) < 1 + 2 => size = 0
            /\ 1 + 2 <= Len(b) => size \in 4..MaxFrame
        BY <3>1, LengthOf
      <4> QED BY <1>2, <4>1
    <3>2. CASE 1 \notin 1..Len(b)
      <4>1. size = 0
        BY <1>2, <3>2 DEF FrameLength, HeaderLength
      <4> QED BY <4>1
    <3> QED BY <3>1, <3>2
  <2>2. size > 0 => (1 + size - 1 <= Len(b) <=> size <= Len(b))
    BY <1>2, <2>1
  <2> QED BY <2>2 DEF Complete
<1> HIDE DEF start, size, nested
<1>8. CASE start = 0
  <2>1. CASE b = <<>>
    BY <1>1, <1>8, <2>1 DEF t, Settled
  <2>2. CASE b # <<>>
    <3>1. Len(b) + 1 \in 2..Len(b) + 1 /\ Len(b) + 1 \in 1..Len(b) + 1 /\ (Len(b) + 1) - 1 = Len(b)
      BY <1>2, <2>2
    <3>2. From(b, Len(b) + 1) = <<>>
      <4>1. From(b, Len(b) + 1) \in Seq(Octets) /\ Len(From(b, Len(b) + 1)) = (Len(b) - (Len(b) + 1)) + 1
        BY <3>1, Rest
      <4>2. Len(From(b, Len(b) + 1)) = 0
        BY <1>2, <4>1
      <4> QED BY <4>1, <4>2, EmptySeq
    <3>3. Skipped(b, Len(b) + 1)
      BY <1>2, <1>3, <1>8, <3>1 DEF Skipped
    <3>4. Passes(Len(b) + 1)
      BY <1>1, <1>8, <3>2
    <3> QED BY <3>1, <3>3, <3>4 DEF t
  <2> QED BY <2>1, <2>2
<1>9. CASE start # 0 /\ start > 1
  <2>1. start \in 2..Len(b) + 1
    BY <1>2, <1>3, <1>9
  <2>2. Skipped(b, start)
    BY <1>3, <1>9 DEF Skipped
  <2> QED BY <1>1, <1>9, <2>1, <2>2 DEF t
<1>10. CASE start = 1
  <2>0. b[1] = Magic /\ start \in 1..Len(b) /\ ~(start = 0) /\ ~(start > 1)
    BY <1>3, <1>10
  <2>1. CASE size = 0
    <3>1. Turn(t) = t
      BY <1>1, <2>0, <2>1
    <3> QED BY <1>7, <2>1, <3>1 DEF t, Settled
  <2>2. CASE size # 0
    <3>0. 3 <= Len(b) /\ size \in 4..MaxFrame
      BY <1>2, <1>4, <2>0, <2>2
    <3>1. CASE Len(b) < size
      <4>1. CASE MustWait(b) \/ nested = 0
        <5>1. Turn(t) = t
          BY <1>1, <2>0, <2>2, <3>1, <4>1
        <5>2. ~Complete(b, 1)
          BY <1>2, <1>5, <1>7, <3>0, <3>1
        <5> QED BY <5>1, <5>2 DEF t, Settled
      <4>2. CASE ~(MustWait(b) \/ nested = 0)
        <5>1. nested \in 2..Len(b) + 1 /\ \A j \in 1..nested - 1 : j <= size
          BY <1>2, <1>5, <1>6, <3>0, <3>1, <4>2
        <5>2. Skipped(b, nested)
          BY <2>0, <3>0, <4>2, <5>1 DEF Skipped, MustWait, size
        <5>3. Passes(nested)
          BY <1>1, <2>0, <2>2, <3>1, <4>2
        <5> QED BY <5>1, <5>2, <5>3 DEF t
      <4> QED BY <4>1, <4>2
    <3>2. CASE ~(Len(b) < size)
      <4>0. /\ size + 1 \in 2..Len(b) + 1 /\ (size + 1) - 1 = size /\ Complete(b, 1)
            /\ \A j \in 1..size : j <= size
        BY <1>2, <1>5, <1>7, <3>0, <3>2
      <4>1. CASE ~Known(b, 1)
        <5>1. Skipped(b, size + 1)
          BY <2>0, <3>0, <4>0, <4>1 DEF Skipped, size
        <5>2. Passes(size + 1)
          BY <1>1, <2>0, <2>2, <3>2, <4>1
        <5> QED BY <4>0, <5>1, <5>2 DEF t
      <4>2. CASE Known(b, 1) /\ ~CrcOk(b, 1)
        <5>1. 2 \in 2..Len(b) + 1 /\ \A j \in 1..2 - 1 : j = 1
          BY <1>2, <3>0
        <5>2. Skipped(b, 2)
          BY <2>0, <3>0, <4>0, <4>2, <5>1 DEF Skipped
        <5>3. AfterCrcError(b) = From(b, 2)
          <6>1. b # <<>>
            BY <1>2, <3>0
          <6> QED BY <6>1, TailIsSubSeq DEF AfterCrcError, From
        <5>4. Passes(2)
          BY <1>1, <2>0, <2>2, <3>2, <4>2, <5>3
        <5> QED BY <5>1, <5>2, <5>4 DEF t
      <4>3. CASE Known(b, 1) /\ CrcOk(b, 1)
        <5>1. Parses(b, size + 1)
          BY <2>0, <3>0, <4>0, <4>3 DEF Parses, size
        <5>2. Turn(t) = [left |-> From(b, size + 1),
                         out |-> out \cup {[left |-> Len(b), bytes |-> SubSeq(b, 1, (size + 1) - 1)]}]
          BY <1>1, <2>0, <2>2, <3>2, <4>0, <4>3
        <5> QED BY <4>0, <5>1, <5>2 DEF t
      <4> QED BY <4>1, <4>2, <4>3
    <3> QED BY <3>1, <3>2
  <2> QED BY <2>1, <2>2
<1>11. start = 0 \/ (start # 0 /\ start > 1) \/ start = 1
  BY <1>2, <1>3
<1> QED BY <1>8, <1>9, <1>10, <1>11, Zenon

(* The buffer is the end of what arrived; the items lie side by side in the  *)
(* stream; every frame that has begun to arrive is taken, buffered or        *)
(* covered; and on a clean link the buffer begins where an item does.        *)
Carried(b, pos) ==
    /\ b \in Seq(Octets) /\ pos \in 0..Len(stream) /\ Len(b) <= pos
    /\ \A k \in 1..Len(b) : b[k] = stream[pos - Len(b) + k]

Lies(p) ==
    /\ p = [at |-> p.at, bytes |-> p.bytes]
    /\ p.at \in 1..Len(stream) + 1 /\ p.bytes \in Seq(Octets)
    /\ p.at + Len(p.bytes) <= Len(stream) + 1
    /\ \A k \in 1..Len(p.bytes) : p.bytes[k] = stream[p.at + k - 1]

After(p) == p.at + Len(p.bytes)
Boundary(b) == b = Len(stream) + 1 \/ \E p \in placed : p.at = b

PlacedInv ==
    /\ stream \in Seq(Octets)
    /\ \A p \in placed : Lies(p) /\ Boundary(After(p))
    /\ \A p, q \in placed : p # q => After(p) <= q.at \/ After(q) <= p.at
    /\ Boundary(1)

KeptWith(b, pos, out) ==
    \A p \in FramesPlaced : p.at <= pos =>
        \/ p \in out
        \/ p.at > pos - Len(b)
        \/ \E at \in 1..p.at - 1 : Covers(at, p.at)

CleanWith(b, pos, out) ==
    placed = FramesPlaced =>
        /\ Boundary(pos - Len(b) + 1)
        /\ \A p \in placed : p.at <= pos - Len(b) => p \in out
        /\ \A d \in out : d \in placed /\ After(d) <= pos - Len(b) + 1

CodecInv ==
    /\ PlacedInv /\ overflowed = FALSE
    /\ Carried(ingress, arrived) /\ Settled(ingress)
    /\ KeptWith(ingress, arrived, delivered) /\ CleanWith(ingress, arrived, delivered)

OutWith(t, pos) ==
    delivered \cup {[at |-> pos - taken.left + 1, bytes |-> taken.bytes] : taken \in t.out}
TurnInv(t, pos) ==
    /\ t = [left |-> t.left, out |-> t.out]
    /\ Carried(t.left, pos)
    /\ KeptWith(t.left, pos, OutWith(t, pos)) /\ CleanWith(t.left, pos, OutWith(t, pos))

LEMMA LiesThere ==
    ASSUME PlacedInv, NEW p \in placed
    PROVE  /\ Lies(p) /\ Boundary(After(p)) /\ p.at \in Nat /\ Len(p.bytes) \in Nat /\ Len(stream) \in Nat
           /\ p.at >= 1
           /\ p \in FramesPlaced => Len(p.bytes) >= 4 /\ p.bytes[1] = Magic /\ stream[p.at] = Magic
<1>1. Lies(p) /\ Boundary(After(p)) /\ Len(stream) \in Nat
  BY LenProperties DEF PlacedInv
<1>2. p.at \in Nat /\ p.at >= 1 /\ Len(p.bytes) \in Nat
  BY <1>1, LenProperties DEF Lies
<1>3. ASSUME p \in FramesPlaced
      PROVE  Len(p.bytes) >= 4 /\ p.bytes[1] = Magic /\ stream[p.at] = Magic
  <2>1. Len(p.bytes) > 3 /\ p.bytes[1] = Magic
    BY <1>3 DEF FramesPlaced, IsFrame, HeaderLength
  <2>2. 1 \in 1..Len(p.bytes) /\ p.at + 1 - 1 = p.at
    BY <1>2, <2>1
  <2>3. p.bytes[1] = stream[p.at + 1 - 1]
    BY <1>1, <2>2 DEF Lies
  <2> QED BY <1>2, <2>1, <2>2, <2>3
<1> QED BY <1>1, <1>2, <1>3

(* The byte of the buffer where a frame of the stream begins.                *)
LEMMA BeginsThere ==
    ASSUME PlacedInv, NEW b, NEW pos, Carried(b, pos), NEW p \in FramesPlaced,
           p.at > pos - Len(b), p.at <= pos
    PROVE  /\ p.at - (pos - Len(b)) \in 1..Len(b)
           /\ b[p.at - (pos - Len(b))] = Magic
<1>1. p \in placed
  BY DEF FramesPlaced
<1>2. p.at \in Nat /\ Len(stream) \in Nat /\ stream[p.at] = Magic
  BY <1>1, LiesThere
<1>3. Len(b) \in Nat /\ pos \in Nat /\ \A k \in 1..Len(b) : b[k] = stream[pos - Len(b) + k]
  BY <1>2, LenProperties DEF Carried
<1> DEFINE j == p.at - (pos - Len(b))
<1>4. j \in 1..Len(b) /\ pos - Len(b) + j = p.at
  BY <1>2, <1>3
<1> QED BY <1>2, <1>3, <1>4

LEMMA FrameBegins ==
    ASSUME PlacedInv, NEW b, NEW pos, Carried(b, pos), NEW p \in FramesPlaced,
           p.at = (pos - Len(b)) + 1
    PROVE  /\ 3 <= Len(b) => /\ Known(b, 1) /\ FrameLength(b, 1) = Len(p.bytes)
                             /\ Complete(b, 1) => CrcOk(b, 1) /\ SubSeq(b, 1, Len(p.bytes)) = p.bytes
           /\ Len(p.bytes) <= Len(b) => Complete(b, 1)
<1> DEFINE q == p.bytes
<1>1. p \in placed /\ IsFrame(q)
  BY DEF FramesPlaced
<1>2. /\ Lies(p) /\ p.at \in Nat /\ Len(stream) \in Nat /\ Len(q) \in Nat /\ Len(q) >= 4
      /\ q \in Seq(Octets) /\ \A k \in 1..Len(q) : q[k] = stream[p.at + k - 1]
  BY <1>1, LiesThere DEF Lies
<1>3. /\ b \in Seq(Octets) /\ Len(b) \in Nat /\ pos \in Nat
      /\ \A k \in 1..Len(b) : b[k] = stream[pos - Len(b) + k]
  BY <1>2, LenProperties DEF Carried
<1>4. FrameLength(q, 1) = Len(q) /\ Known(q, 1) /\ CrcOk(q, 1)
  BY <1>1 DEF IsFrame
<1>5. SubSeq(q, 1, Len(q)) = q
  BY <1>2, SubSeqFull
<1> HIDE DEF q
<1>6. ASSUME 3 <= Len(b)
      PROVE  /\ FrameLength(b, 1) = Len(q) /\ Known(b, 1)
             /\ Len(q) <= Len(b) => Complete(b, 1) /\ CrcOk(b, 1) /\ SubSeq(b, 1, Len(q)) = q
  <2> DEFINE m == IF Len(q) <= Len(b) THEN Len(q) ELSE Len(b)
  <2>1. /\ m \in Nat /\ m >= 3 /\ m <= Len(b) /\ m <= Len(q) /\ (Len(q) <= Len(b) => m = Len(q))
        /\ 1 \in 1..Len(b) /\ 1 \in 1..Len(q) /\ 1 + m <= Len(b) + 1 /\ 1 + m <= Len(q) + 1
    BY <1>2, <1>3, <1>6
  <2> HIDE DEF m
  <2>2. ASSUME NEW j \in 0..m - 1 PROVE b[1 + j] = q[1 + j]
    <3>1. /\ 1 + j \in 1..Len(b) /\ 1 + j \in 1..Len(q)
          /\ pos - Len(b) + (1 + j) = p.at + (1 + j) - 1
      BY <1>2, <1>3, <2>1
    <3> QED BY <1>2, <1>3, <3>1
  <2>3. /\ FrameLength(b, 1) = FrameLength(q, 1)
        /\ Known(b, 1) <=> Known(q, 1)
        /\ FrameLength(b, 1) <= m =>
              /\ Complete(b, 1) /\ (CrcOk(b, 1) <=> CrcOk(q, 1))
              /\ Span(b, 1, FrameLength(b, 1)) = Span(q, 1, FrameLength(b, 1))
    <3>1. SameFrom(b, 1, q, 1, m)
      BY <1>2, <1>3, <2>1, <2>2 DEF SameFrom
    <3> QED BY <3>1, Alike
  <2>4. (1 + Len(q)) - 1 = Len(q)
    BY <1>2
  <2>5. FrameLength(b, 1) = Len(q) /\ Known(b, 1)
    BY <1>4, <2>3
  <2>6. ASSUME Len(q) <= Len(b) PROVE Complete(b, 1) /\ CrcOk(b, 1) /\ SubSeq(b, 1, Len(q)) = q
    <3>1. FrameLength(b, 1) <= m
      BY <1>2, <2>1, <2>5, <2>6
    <3>2. Span(b, 1, Len(q)) = Span(q, 1, Len(q))
      BY <2>3, <2>5, <3>1
    <3>3. SubSeq(b, 1, Len(q)) = SubSeq(q, 1, Len(q))
      BY <2>4, <3>2 DEF Span
    <3> QED BY <1>4, <1>5, <2>3, <3>1, <3>3
  <2> QED BY <2>5, <2>6
<1>7. ASSUME 3 <= Len(b), Complete(b, 1) PROVE Len(q) <= Len(b)
  <2>1. FrameLength(b, 1) = Len(q)
    BY <1>6, <1>7
  <2>2. 1 + Len(q) - 1 <= Len(b)
    BY <1>7, <2>1 DEF Complete
  <2> QED BY <1>2, <1>3, <2>2
<1>8. Len(q) <= Len(b) => 3 <= Len(b)
  BY <1>2, <1>3
<1> QED BY <1>6, <1>7, <1>8 DEF q

(* What the first bytes of the buffer claim covers the bytes behind them.    *)
LEMMA ClaimCovers ==
    ASSUME PlacedInv, NEW b, NEW pos, Carried(b, pos), b[1] = Magic, 3 <= Len(b),
           ~Known(b, 1) \/ (Complete(b, 1) /\ CrcOk(b, 1)),
           NEW start \in Nat, start > (pos - Len(b)) + 1, start - (pos - Len(b)) <= FrameLength(b, 1)
    PROVE  \E at \in 1..start - 1 : Covers(at, start)
<1> DEFINE at == (pos - Len(b)) + 1
           size == FrameLength(b, 1)
<1>1. /\ b \in Seq(Octets) /\ stream \in Seq(Octets) /\ Len(b) \in Nat /\ Len(stream) \in Nat
      /\ pos \in Nat /\ pos <= Len(stream) /\ Len(b) <= pos
      /\ \A k \in 1..Len(b) : b[k] = stream[pos - Len(b) + k]
  BY LenProperties DEF Carried, PlacedInv
<1>2. /\ at \in 1..Len(stream) /\ at + Len(b) <= Len(stream) + 1 /\ 1 + Len(b) <= Len(b) + 1
      /\ 1 \in 1..Len(b) /\ at \in Nat
  BY <1>1
<1>3. ASSUME NEW j \in 0..Len(b) - 1 PROVE b[1 + j] = stream[at + j]
  <2>1. 1 + j \in 1..Len(b) /\ pos - Len(b) + (1 + j) = at + j
    BY <1>1
  <2> QED BY <1>1, <2>1
<1>0. start > at /\ (size \in Int => start <= (at + size) - 1)
  BY <1>1 DEF size
<1> HIDE DEF at
<1>4. /\ size = FrameLength(stream, at) /\ size \in 4..MaxFrame
      /\ Known(b, 1) <=> Known(stream, at)
      /\ size <= Len(b) => Complete(stream, at) /\ (CrcOk(b, 1) <=> CrcOk(stream, at))
  <2>1. SameFrom(b, 1, stream, at, Len(b))
    BY <1>1, <1>2, <1>3 DEF SameFrom
  <2> QED BY <2>1, Alike
<1>5. b[1] = stream[at]
  <2>1. 0 \in 0..Len(b) - 1 /\ 1 + 0 = 1 /\ at + 0 = at
    BY <1>1, <1>2
  <2> QED BY <1>3, <2>1
<1>6. Complete(b, 1) => size <= Len(b)
  <2>1. Complete(b, 1) => 1 + size - 1 <= Len(b)
    BY DEF Complete
  <2>2. size \in Int
    BY <1>4, CodecAssumption DEF MaxFrame, HeaderLength
  <2> HIDE DEF size
  <2> QED BY <1>1, <2>1, <2>2
<1>7. size \in Int
  BY <1>4, CodecAssumption DEF MaxFrame, HeaderLength
<1> HIDE DEF size
<1>8. start \in at + 1..at + size - 1 /\ at \in 1..start - 1
  BY <1>0, <1>2, <1>7
<1>9. Known(stream, at) => Complete(stream, at) /\ CrcOk(stream, at)
  BY <1>4, <1>6
<1>10. Covers(at, start)
  BY <1>4, <1>5, <1>8, <1>9 DEF Covers
<1> QED BY <1>8, <1>10

(* A shorter buffer that leaves the first k - 1 bytes.                       *)
LEMMA RestCarried ==
    ASSUME PlacedInv, NEW b, NEW pos, Carried(b, pos), NEW k \in 2..Len(b) + 1
    PROVE  /\ Carried(From(b, k), pos)
           /\ pos - Len(From(b, k)) = (pos - Len(b)) + (k - 1)
           /\ Len(From(b, k)) < Len(b) /\ Len(b) \in Nat /\ pos \in Nat /\ Len(b) <= pos /\ pos <= Len(stream)
           /\ Len(stream) \in Nat
<1>1. /\ b \in Seq(Octets) /\ Len(b) \in Nat /\ pos \in 0..Len(stream) /\ Len(b) <= pos
      /\ Len(stream) \in Nat /\ \A i \in 1..Len(b) : b[i] = stream[pos - Len(b) + i]
  BY LenProperties DEF Carried, PlacedInv
<1> DEFINE r == From(b, k)
<1>2. k \in 1..Len(b) + 1
  BY <1>1
<1>3. /\ r \in Seq(Octets) /\ Len(r) = (Len(b) - k) + 1
      /\ \A i \in 1..Len(r) : r[i] = b[(k + i) - 1]
  BY <1>1, <1>2, Rest
<1> HIDE DEF r
<1>4. ASSUME NEW i \in 1..Len(r) PROVE r[i] = stream[pos - Len(r) + i]
  <2>1. (k + i) - 1 \in 1..Len(b) /\ pos - Len(b) + ((k + i) - 1) = pos - Len(r) + i
    BY <1>1, <1>3
  <2> QED BY <1>1, <1>3, <2>1
<1>5. pos - Len(r) = (pos - Len(b)) + (k - 1) /\ Len(r) < Len(b) /\ Len(r) <= pos
  BY <1>1, <1>3
<1> QED BY <1>1, <1>3, <1>4, <1>5 DEF Carried, r

(* What a turn passes is no frame, or the frame it takes, or covered.        *)
LEMMA SkippedCovers ==
    ASSUME PlacedInv, NEW b, NEW pos, Carried(b, pos), NEW k \in 2..Len(b) + 1, Skipped(b, k),
           NEW p \in FramesPlaced, p.at > pos - Len(b), p.at - (pos - Len(b)) < k
    PROVE  \E at \in 1..p.at - 1 : Covers(at, p.at)
<1> DEFINE j == p.at - (pos - Len(b))
<1>1. /\ Len(b) \in Nat /\ pos \in Nat /\ p.at \in Nat /\ p \in placed
  BY RestCarried, LiesThere DEF FramesPlaced
<1>2. p.at <= pos /\ j \in 1..k - 1
  BY <1>1
<1>3. b[j] = Magic
  BY <1>2, BeginsThere
<1>4. /\ b[1] = Magic /\ 3 <= Len(b)
      /\ \/ ~Known(b, 1) /\ j <= FrameLength(b, 1)
         \/ j = 1 /\ Complete(b, 1) /\ ~CrcOk(b, 1)
  BY <1>2, <1>3 DEF Skipped
<1>5. j # 1
  <2>1. SUFFICES ASSUME j = 1 PROVE FALSE
    OBVIOUS
  <2>2. p.at = (pos - Len(b)) + 1
    BY <1>1, <2>1
  <2> QED BY <1>4, <2>2, FrameBegins
<1>6. p.at > (pos - Len(b)) + 1
  BY <1>1, <1>2, <1>5
<1> QED BY <1>1, <1>4, <1>5, <1>6, ClaimCovers

LEMMA ParsesCovers ==
    ASSUME PlacedInv, NEW b, NEW pos, Carried(b, pos), NEW k \in 2..Len(b) + 1, Parses(b, k),
           NEW p \in FramesPlaced, p.at > pos - Len(b), p.at - (pos - Len(b)) < k
    PROVE  \/ p = [at |-> pos - Len(b) + 1, bytes |-> SubSeq(b, 1, k - 1)]
           \/ \E at \in 1..p.at - 1 : Covers(at, p.at)
<1> DEFINE j == p.at - (pos - Len(b))
           size == FrameLength(b, 1)
<1>1. /\ Len(b) \in Nat /\ pos \in Nat /\ p.at \in Nat /\ p \in placed
      /\ p = [at |-> p.at, bytes |-> p.bytes] /\ Len(p.bytes) \in Nat
  BY RestCarried, LiesThere DEF FramesPlaced, Lies
<1>2. /\ b[1] = Magic /\ 3 <= Len(b) /\ Complete(b, 1) /\ Known(b, 1) /\ CrcOk(b, 1) /\ k = size + 1
  BY DEF Parses
<1>3. size \in Int
  <2>1. 1 \in 1..Len(b) /\ 1 + 2 <= Len(b) /\ b \in Seq(Octets)
    BY <1>1, <1>2 DEF Carried
  <2>2. size \in 4..MaxFrame
    BY <2>1, LengthOf
  <2> QED BY <2>2, CodecAssumption DEF MaxFrame, HeaderLength
<1>4. CASE j = 1
  <2>1. p.at = (pos - Len(b)) + 1
    BY <1>1, <1>4
  <2>2. size = Len(p.bytes) /\ SubSeq(b, 1, Len(p.bytes)) = p.bytes
    BY <1>2, <2>1, FrameBegins
  <2>3. k - 1 = Len(p.bytes) /\ p.at = pos - Len(b) + 1
    BY <1>1, <1>2, <2>1, <2>2
  <2> QED BY <1>1, <2>2, <2>3
<1>5. CASE j # 1
  <2> HIDE DEF size
  <2>1. p.at > (pos - Len(b)) + 1 /\ p.at - (pos - Len(b)) <= size
    BY <1>1, <1>2, <1>3, <1>5
  <2> USE DEF size
  <2> QED BY <1>1, <1>2, <2>1, ClaimCovers
<1> QED BY <1>4, <1>5

LEMMA TurnKept ==
    ASSUME PlacedInv, NEW b, NEW pos, Carried(b, pos), NEW k \in 2..Len(b) + 1, NEW out, NEW more,
           KeptWith(b, pos, out), out \subseteq more,
           Skipped(b, k) \/ (Parses(b, k) /\ [at |-> pos - Len(b) + 1, bytes |-> SubSeq(b, 1, k - 1)] \in more)
    PROVE  KeptWith(From(b, k), pos, more)
<1> DEFINE r == From(b, k)
<1>1. /\ pos - Len(r) = (pos - Len(b)) + (k - 1) /\ Len(b) \in Nat /\ pos \in Nat
  BY RestCarried
<1> HIDE DEF r
<1>2. SUFFICES ASSUME NEW p \in FramesPlaced, p.at <= pos, p \notin more, ~(p.at > pos - Len(r))
      PROVE  \E at \in 1..p.at - 1 : Covers(at, p.at)
  BY DEF KeptWith, r
<1>3. \/ p.at > pos - Len(b)
      \/ \E at \in 1..p.at - 1 : Covers(at, p.at)
  BY <1>2 DEF KeptWith
<1>4. CASE p.at > pos - Len(b)
  <2>1. p.at \in Nat
    BY LiesThere DEF FramesPlaced
  <2>2. p.at - (pos - Len(b)) < k
    BY <1>1, <1>2, <2>1
  <2>3. CASE Skipped(b, k)
    BY <1>4, <2>2, <2>3, SkippedCovers
  <2>4. CASE Parses(b, k) /\ [at |-> pos - Len(b) + 1, bytes |-> SubSeq(b, 1, k - 1)] \in more
    <3>1. p # [at |-> pos - Len(b) + 1, bytes |-> SubSeq(b, 1, k - 1)]
      BY <1>2, <2>4
    <3> QED BY <1>4, <2>2, <2>4, <3>1, ParsesCovers
  <2> QED BY <2>3, <2>4
<1> QED BY <1>3, <1>4

(* On a clean link the buffer begins with a frame, and a turn takes it.      *)
LEMMA CleanBegins ==
    ASSUME PlacedInv, NEW b, NEW pos, Carried(b, pos), b # <<>>, NEW out, CleanWith(b, pos, out),
           placed = FramesPlaced
    PROVE  \E p \in FramesPlaced : p.at = (pos - Len(b)) + 1
<1>1. Boundary(pos - Len(b) + 1)
  BY DEF CleanWith
<1>2. /\ Len(b) \in Nat /\ Len(b) >= 1 /\ pos \in 0..Len(stream) /\ Len(stream) \in Nat
  BY LenProperties, EmptySeq DEF Carried, PlacedInv
<1>3. pos - Len(b) + 1 # Len(stream) + 1 /\ pos - Len(b) + 1 = (pos - Len(b)) + 1
  BY <1>2
<1> QED BY <1>1, <1>3 DEF Boundary

LEMMA TurnClean ==
    ASSUME PlacedInv, NEW b, NEW pos, Carried(b, pos), NEW k \in 2..Len(b) + 1, NEW out,
           CleanWith(b, pos, out)
    PROVE  /\ Skipped(b, k) => CleanWith(From(b, k), pos, out)
           /\ Parses(b, k) => CleanWith(From(b, k), pos,
                 out \cup {[at |-> pos - Len(b) + 1, bytes |-> SubSeq(b, 1, k - 1)]})
<1> DEFINE r == From(b, k)
           item == [at |-> pos - Len(b) + 1, bytes |-> SubSeq(b, 1, k - 1)]
<1>1. /\ pos - Len(r) = (pos - Len(b)) + (k - 1) /\ Len(b) \in Nat /\ pos \in Nat /\ Len(r) < Len(b)
  BY RestCarried
<1>2. SUFFICES ASSUME placed = FramesPlaced
      PROVE  /\ ~Skipped(b, k)
             /\ Parses(b, k) => CleanWith(r, pos, out \cup {item})
  BY DEF CleanWith
<1> HIDE DEF r
<1>3. b # <<>>
  <2>1. Len(b) # 0
    BY <1>1
  <2> QED BY <2>1, EmptySeq
<1>4. PICK p \in FramesPlaced : p.at = (pos - Len(b)) + 1
  BY <1>2, <1>3, CleanBegins
<1>5. /\ p \in placed /\ p = [at |-> p.at, bytes |-> p.bytes] /\ Len(p.bytes) \in Nat /\ Len(p.bytes) >= 4
      /\ Boundary(After(p)) /\ p.at \in Nat
  BY LiesThere DEF FramesPlaced, Lies
<1>6. 3 <= Len(b) => /\ Known(b, 1) /\ FrameLength(b, 1) = Len(p.bytes)
                     /\ Complete(b, 1) => CrcOk(b, 1) /\ SubSeq(b, 1, Len(p.bytes)) = p.bytes
  BY <1>4, FrameBegins
<1>7. ~Skipped(b, k)
  <2>1. SUFFICES ASSUME Skipped(b, k) PROVE FALSE
    OBVIOUS
  <2>2. 1 \in 1..k - 1
    BY <1>1
  <2>3. b[1] = Magic
    <3>1. p.at > pos - Len(b) /\ p.at <= pos /\ p.at - (pos - Len(b)) = 1
      BY <1>1, <1>4, <1>5
    <3>2. b[p.at - (pos - Len(b))] = Magic
      BY <3>1, BeginsThere
    <3> QED BY <3>1, <3>2
  <2> QED BY <1>6, <2>1, <2>2, <2>3 DEF Skipped
<1>8. ASSUME Parses(b, k) PROVE CleanWith(r, pos, out \cup {item})
  <2>1. FrameLength(b, 1) = Len(p.bytes) /\ SubSeq(b, 1, Len(p.bytes)) = p.bytes /\ k = Len(p.bytes) + 1
    BY <1>6, <1>8 DEF Parses
  <2>2. k - 1 = Len(p.bytes) /\ p.at = pos - Len(b) + 1
    BY <1>1, <1>4, <1>5, <2>1
  <2>3. item = p
    BY <1>5, <2>1, <2>2
  <2>4. After(p) = pos - Len(r) + 1
    BY <1>1, <1>4, <1>5, <2>2 DEF After
  <2> HIDE DEF item
  <2>5. ASSUME NEW q \in placed, q.at <= pos - Len(r) PROVE q \in out \cup {item}
    <3>1. q.at \in Nat /\ Len(q.bytes) \in Nat /\ Len(q.bytes) >= 4
      BY <1>2, LiesThere
    <3>2. CASE q.at <= pos - Len(b)
      BY <1>2, <3>2 DEF CleanWith
    <3>3. CASE ~(q.at <= pos - Len(b))
      <4>1. ~(After(p) <= q.at)
        BY <1>1, <2>4, <2>5, <3>1
      <4>2. ~(After(q) <= p.at)
        BY <1>1, <1>4, <3>1, <3>3 DEF After
      <4>3. p = q
        BY <1>5, <4>1, <4>2 DEF PlacedInv
      <4> QED BY <2>3, <4>3
    <3> QED BY <3>2, <3>3
  <2>6. ASSUME NEW d \in out \cup {item} PROVE d \in placed /\ After(d) <= pos - Len(r) + 1
    <3>1. CASE d \in out
      <4>1. d \in placed /\ After(d) <= pos - Len(b) + 1
        BY <1>2, <3>1 DEF CleanWith
      <4>2. d.at \in Nat /\ Len(d.bytes) \in Nat
        BY <4>1, LiesThere
      <4> QED BY <1>1, <4>1, <4>2 DEF After
    <3>2. CASE d = item
      <4>1. d = p
        BY <2>3, <3>2
      <4> QED BY <1>1, <1>4, <1>5, <2>4, <4>1 DEF After
    <3> QED BY <3>1, <3>2
  <2>7. Boundary(pos - Len(r) + 1)
    BY <1>5, <2>4
  <2> QED BY <2>5, <2>6, <2>7 DEF CleanWith
<1> QED BY <1>7, <1>8

LEMMA TurnKeeps ==
    ASSUME PlacedInv, NEW t, NEW pos, TurnInv(t, pos)
    PROVE  /\ TurnInv(Turn(t), pos) /\ t.left \in Seq(Octets) /\ Len(t.left) \in Nat
           /\ \/ Settled(t.left) /\ Turn(t) = t
              \/ Turn(t).left \in Seq(Octets) /\ Len(Turn(t).left) < Len(t.left)
<1> DEFINE b == t.left
           out == OutWith(t, pos)
<1>1. t = [left |-> b, out |-> t.out] /\ Carried(b, pos) /\ b \in Seq(Octets) /\ Len(b) \in Nat
  BY LenProperties DEF TurnInv, Carried
<1>2. KeptWith(b, pos, out) /\ CleanWith(b, pos, out)
  BY DEF TurnInv
<1> HIDE DEF b
<1>3. \/ Turn(t) = t /\ Settled(b)
      \/ \E k \in 2..Len(b) + 1 :
            \/ Turn(t) = [left |-> From(b, k), out |-> t.out] /\ Skipped(b, k)
            \/ /\ Turn(t) = [left |-> From(b, k),
                             out |-> t.out \cup {[left |-> Len(b), bytes |-> SubSeq(b, 1, k - 1)]}]
               /\ Parses(b, k)
  BY <1>1, TurnGoes
<1>4. CASE Turn(t) = t /\ Settled(b)
  BY <1>1, <1>4 DEF b
<1>5. ASSUME NEW k \in 2..Len(b) + 1, Turn(t) = [left |-> From(b, k), out |-> t.out], Skipped(b, k)
      PROVE  TurnInv(Turn(t), pos) /\ Turn(t).left \in Seq(Octets) /\ Len(Turn(t).left) < Len(b)
  <2>1. Carried(From(b, k), pos) /\ Len(From(b, k)) < Len(b)
    BY <1>1, RestCarried
  <2>2. Turn(t).left = From(b, k) /\ Turn(t).out = t.out /\ OutWith(Turn(t), pos) = out
    BY <1>5 DEF OutWith
  <2> HIDE DEF out
  <2>3. KeptWith(From(b, k), pos, out)
    BY <1>1, <1>2, <1>5, TurnKept
  <2>4. CleanWith(From(b, k), pos, out)
    BY <1>1, <1>2, <1>5, TurnClean
  <2>5. Turn(t) = [left |-> Turn(t).left, out |-> Turn(t).out]
    BY <1>5
  <2> QED BY <2>1, <2>2, <2>3, <2>4, <2>5 DEF TurnInv, Carried
<1>6. ASSUME NEW k \in 2..Len(b) + 1, Parses(b, k),
             Turn(t) = [left |-> From(b, k),
                        out |-> t.out \cup {[left |-> Len(b), bytes |-> SubSeq(b, 1, k - 1)]}]
      PROVE  TurnInv(Turn(t), pos) /\ Turn(t).left \in Seq(Octets) /\ Len(Turn(t).left) < Len(b)
  <2> DEFINE item == [at |-> pos - Len(b) + 1, bytes |-> SubSeq(b, 1, k - 1)]
  <2>1. Carried(From(b, k), pos) /\ Len(From(b, k)) < Len(b)
    BY <1>1, RestCarried
  <2>2. Turn(t).left = From(b, k) /\ OutWith(Turn(t), pos) = out \cup {item}
    <3> DEFINE e == [left |-> Len(b), bytes |-> SubSeq(b, 1, k - 1)]
    <3>1. Turn(t).left = From(b, k) /\ Turn(t).out = t.out \cup {e}
      BY <1>6
    <3>2. item = [at |-> pos - e.left + 1, bytes |-> e.bytes]
      OBVIOUS
    <3> HIDE DEF e, item
    <3> QED BY <3>1, <3>2 DEF OutWith
  <2> HIDE DEF out
  <2>3. KeptWith(From(b, k), pos, out \cup {item})
    <3>1. item \in out \cup {item} /\ out \subseteq out \cup {item}
      OBVIOUS
    <3> QED BY <1>1, <1>2, <1>6, <3>1, TurnKept
  <2>4. CleanWith(From(b, k), pos, out \cup {item})
    BY <1>1, <1>2, <1>6, TurnClean
  <2>5. Turn(t) = [left |-> Turn(t).left, out |-> Turn(t).out]
    BY <1>6
  <2> QED BY <2>1, <2>2, <2>3, <2>4, <2>5 DEF TurnInv, Carried
<1> QED BY <1>1, <1>3, <1>4, <1>5, <1>6 DEF b

(* The turns exist one after the other, and the last goes no further.        *)
NextLeft(g, b, n) == IF n = 0 THEN [left |-> b, out |-> {}] ELSE Turn(g[n - 1])
Turns(g, b, n) == g = [i \in 0..n |-> NextLeft(g, b, i)]

LEMMA TurnsRecursively ==
    ASSUME NEW b, NEW most \in Nat
    PROVE  \E g : Turns(g, b, most)
<1> DEFINE Bad == {n \in 0..most : ~\E g : Turns(g, b, n)}
<1>1. 0 \notin Bad
  <2> DEFINE g == [i \in 0..0 |-> [left |-> b, out |-> {}]]
  <2>1. \A i \in 0..0 : i = 0 /\ g[i] = [left |-> b, out |-> {}]
    OBVIOUS
  <2>2. g = [i \in 0..0 |-> NextLeft(g, b, i)]
    BY <2>1 DEF NextLeft
  <2> HIDE DEF g
  <2> QED BY <2>2 DEF Turns
<1>2. ASSUME NEW n \in Bad, \A k \in Bad : n <= k PROVE FALSE
  <2>1. n \in 1..most /\ n - 1 \in 0..most /\ n - 1 \in Nat
    BY <1>1
  <2>2. n - 1 \notin Bad
    BY <1>2, <2>1
  <2> PICK g : Turns(g, b, n - 1)
    BY <2>1, <2>2
  <2> DEFINE h == [i \in 0..n |-> IF i = n THEN NextLeft(g, b, n) ELSE g[i]]
  <2>3. /\ \A i \in 0..n : i = n \/ i \in 0..n - 1
        /\ n \in 0..n /\ n # 0 /\ n - 1 # n /\ n - 1 \in 0..n - 1
        /\ \A i \in 0..n - 1 : i # n /\ i \in 0..n /\ (i # 0 => i - 1 \in 0..n - 1)
    BY <2>1
  <2>4. h[n] = NextLeft(g, b, n) /\ \A i \in 0..n - 1 : h[i] = g[i]
    BY <2>3
  <2>5. \A i \in 0..n - 1 : g[i] = NextLeft(g, b, i)
    BY DEF Turns
  <2>6. DOMAIN h = 0..n /\ h = [i \in 0..n |-> h[i]]
    OBVIOUS
  <2> HIDE DEF h
  <2>7. \A i \in 0..n - 1 : NextLeft(h, b, i) = NextLeft(g, b, i)
    BY <2>3, <2>4 DEF NextLeft
  <2>8. NextLeft(h, b, n) = NextLeft(g, b, n)
    BY <2>3, <2>4 DEF NextLeft
  <2>9. \A i \in 0..n : h[i] = NextLeft(h, b, i)
    BY <2>3, <2>4, <2>5, <2>7, <2>8
  <2>10. h = [i \in 0..n |-> NextLeft(h, b, i)]
    BY <2>6, <2>9
  <2> QED BY <2>10 DEF Turns
<1>3. Bad = {}
  <2> SUFFICES ASSUME NEW n \in Bad PROVE FALSE
    OBVIOUS
  <2>1. Bad \in SUBSET Nat
    OBVIOUS
  <2> HIDE DEF Bad
  <2>2. \E m \in Bad : \A k \in Bad : m <= k
    BY <2>1, LeastNumber
  <2> QED BY <1>2, <2>2
<1> QED BY <1>3

LEMMA Drained ==
    ASSUME PlacedInv, NEW b, NEW pos, TurnInv([left |-> b, out |-> {}], pos)
    PROVE  TurnInv(Drain(b), pos) /\ Settled(Drain(b).left)
<1> DEFINE most == Len(b)
           after == CHOOSE g : g = [n \in 0..most |-> NextLeft(g, b, n)]
           Done(n) == /\ TurnInv(after[n], pos) /\ after[n].left \in Seq(Octets)
                      /\ \/ Settled(after[n].left) /\ Turn(after[n]) = after[n]
                         \/ Len(after[n].left) <= most - n
           Bad == {n \in 0..most : ~Done(n)}
<1>0. b \in Seq(Octets) /\ most \in Nat
  BY LenProperties DEF TurnInv, Carried
<1>1. Drain(b) = after[most]
  BY DEF Drain, NextLeft
<1>2. after = [n \in 0..most |-> NextLeft(after, b, n)]
  <2>1. \E g : g = [n \in 0..most |-> NextLeft(g, b, n)]
    <3> PICK g : Turns(g, b, most)
      BY <1>0, TurnsRecursively
    <3> QED BY DEF Turns
  <2> QED BY <2>1
<1> HIDE DEF after
<1>3. \A n \in 0..most : after[n] = NextLeft(after, b, n)
  BY <1>2
<1> HIDE DEF most
<1>4. ASSUME NEW n \in Bad, \A k \in Bad : n <= k PROVE FALSE
  <2>1. n # 0
    <3>3. 0 \in 0..most
      BY <1>0
    <3>1. after[0] = [left |-> b, out |-> {}]
      BY <1>3, <3>3 DEF NextLeft
    <3>2. Len(b) <= most - 0
      BY <1>0 DEF most
    <3> QED BY <1>0, <3>1, <3>2
  <2>2. n \in 1..most /\ n - 1 \in 0..most /\ n - 1 < n
    BY <1>0, <2>1
  <2> DEFINE t == after[n - 1]
  <2>3. /\ TurnInv(t, pos)
        /\ \/ Settled(t.left) /\ Turn(t) = t
           \/ Len(t.left) <= most - (n - 1)
    BY <1>4, <2>2
  <2>4. after[n] = Turn(t)
    BY <1>0, <1>3, <2>1, <2>2 DEF NextLeft
  <2> HIDE DEF t
  <2>5. /\ TurnInv(Turn(t), pos) /\ t.left \in Seq(Octets) /\ Len(t.left) \in Nat
        /\ \/ Settled(t.left) /\ Turn(t) = t
           \/ Turn(t).left \in Seq(Octets) /\ Len(Turn(t).left) < Len(t.left)
    BY <2>3, TurnKeeps
  <2>6. CASE Settled(t.left) /\ Turn(t) = t
    BY <2>4, <2>5, <2>6
  <2>7. CASE ~(Settled(t.left) /\ Turn(t) = t)
    <3>1. Turn(t).left \in Seq(Octets) /\ Len(Turn(t).left) < Len(t.left) /\ Len(t.left) <= most - (n - 1)
      BY <2>3, <2>5, <2>7
    <3>2. Len(Turn(t).left) \in Nat
      BY <3>1, LenProperties
    <3>3. Len(Turn(t).left) <= most - n
      BY <1>0, <2>2, <2>5, <3>1, <3>2
    <3> QED BY <2>4, <2>5, <3>1, <3>3
  <2> QED BY <2>6, <2>7
<1>5. Bad = {}
  <2> SUFFICES ASSUME NEW n \in Bad PROVE FALSE
    OBVIOUS
  <2>1. Bad \in SUBSET Nat
    BY <1>0
  <2> HIDE DEF Bad
  <2>2. \E m \in Bad : \A k \in Bad : m <= k
    BY <2>1, LeastNumber
  <2> QED BY <1>4, <2>2
<1>6. Done(most) /\ most - most = 0
  BY <1>0, <1>5
<1>7. Len(after[most].left) <= 0 => after[most].left = <<>>
  <2>1. Len(after[most].left) \in Nat
    BY <1>6, LenProperties
  <2> QED BY <1>6, <2>1, EmptySeq
<1> QED BY <1>1, <1>6, <1>7 DEF Settled

LEMMA SettledIsShort ==
    ASSUME NEW b \in Seq(Octets), Settled(b)
    PROVE  Len(b) < MaxFrame
<1>1. Len(b) \in Nat /\ MaxFrame \in Nat /\ MaxFrame >= 4
  BY LenProperties, CodecAssumption DEF MaxFrame, HeaderLength
<1>2. CASE Len(b) < 3
  BY <1>1, <1>2
<1>3. CASE ~(Len(b) < 3)
  <2>1. 1 \in 1..Len(b) /\ 1 + 2 <= Len(b) /\ b # <<>>
    BY <1>1, <1>3, EmptySeq
  <2> DEFINE size == FrameLength(b, 1)
  <2>2. size \in 4..MaxFrame
    BY <2>1, LengthOf
  <2>3. ~(size > 0 /\ 1 + size - 1 <= Len(b))
    BY <2>1 DEF Settled, Complete
  <2> HIDE DEF size
  <2> QED BY <1>1, <2>2, <2>3
<1> QED BY <1>2, <1>3

LEMMA ChunkArrives ==
    ASSUME CodecInv, NEW n \in 1..(Len(stream) - arrived)
    PROVE  LET b == ingress \o SubSeq(stream, arrived + 1, arrived + n)
           IN TurnInv([left |-> b, out |-> {}], arrived + n)
<1> DEFINE c == SubSeq(stream, arrived + 1, arrived + n)
           b == ingress \o c
           pos == arrived + n
<1>1. /\ stream \in Seq(Octets) /\ ingress \in Seq(Octets) /\ Len(ingress) \in Nat /\ Len(stream) \in Nat
      /\ arrived \in 0..Len(stream) /\ Len(ingress) <= arrived
      /\ \A k \in 1..Len(ingress) : ingress[k] = stream[arrived - Len(ingress) + k]
  BY LenProperties DEF CodecInv, PlacedInv, Carried
<1>2. /\ c \in Seq(Octets) /\ Len(c) = n /\ \A i \in 1..n : c[i] = stream[arrived + i]
  <2>1. /\ arrived + 1 \in Int /\ arrived + n \in Int /\ arrived + 1 <= arrived + n
        /\ (arrived + n) - (arrived + 1) + 1 = n
        /\ \A i \in arrived + 1..arrived + n : i \in 1..Len(stream)
        /\ \A i \in 1..n : arrived + 1 + i - 1 = arrived + i
    <3>1. arrived \in Nat /\ Len(stream) \in Nat /\ n \in Nat /\ n >= 1 /\ arrived + n <= Len(stream)
      BY <1>1
    <3> QED BY ONLY <3>1
  <2>2. \A i \in arrived + 1..arrived + n : stream[i] \in Octets
    BY <1>1, <2>1, ElementOfSeq
  <2>3. /\ c \in Seq(Octets) /\ Len(c) = (arrived + n) - (arrived + 1) + 1
        /\ \A i \in 1..(arrived + n) - (arrived + 1) + 1 : c[i] = stream[arrived + 1 + i - 1]
    BY <2>1, <2>2, SubSeqProperties
  <2> QED BY <2>1, <2>3
<1> HIDE DEF c
<1>3. /\ b \in Seq(Octets) /\ Len(b) = Len(ingress) + n
      /\ \A i \in 1..Len(ingress) : b[i] = ingress[i]
      /\ \A i \in 1..Len(b) : i \in 1..Len(ingress) \/ (i - Len(ingress) \in 1..n /\ b[i] = c[i - Len(ingress)])
  <2>1. /\ b \in Seq(Octets) /\ Len(b) = Len(ingress) + Len(c)
        /\ \A i \in 1..Len(ingress) + Len(c) :
              b[i] = IF i <= Len(ingress) THEN ingress[i] ELSE c[i - Len(ingress)]
    BY <1>1, <1>2, ConcatProperties
  <2> HIDE DEF b
  <2> QED BY <1>1, <1>2, <2>1
<1> HIDE DEF b
<1>4. pos - Len(b) = arrived - Len(ingress) /\ pos \in 0..Len(stream) /\ Len(b) <= pos
  BY <1>1, <1>3
<1>5. Carried(b, pos)
  <2>1. ASSUME NEW k \in 1..Len(b) PROVE b[k] = stream[pos - Len(b) + k]
    <3>1. CASE k \in 1..Len(ingress)
      BY <1>1, <1>3, <1>4, <3>1
    <3>2. CASE k \notin 1..Len(ingress)
      <4>1. k - Len(ingress) \in 1..n /\ b[k] = c[k - Len(ingress)]
        BY <1>3, <3>2
      <4>2. arrived + (k - Len(ingress)) = pos - Len(b) + k
        BY <1>1, <1>3, <1>4
      <4> QED BY <1>2, <4>1, <4>2
    <3> QED BY <3>1, <3>2
  <2> QED BY <1>3, <1>4, <2>1 DEF Carried
<1>6. KeptWith(b, pos, delivered)
  <2> SUFFICES ASSUME NEW p \in FramesPlaced, p.at <= pos, p \notin delivered, ~(p.at > pos - Len(b))
               PROVE  \E at \in 1..p.at - 1 : Covers(at, p.at)
    BY DEF KeptWith
  <2>1. p.at \in Nat
    BY LiesThere DEF CodecInv, FramesPlaced
  <2>2. p.at <= arrived /\ ~(p.at > arrived - Len(ingress))
    BY <1>1, <1>4, <2>1
  <2> QED BY <2>2 DEF CodecInv, KeptWith
<1>7. CleanWith(b, pos, delivered)
  <2> HIDE DEF pos
  <2> QED BY <1>4 DEF CodecInv, CleanWith
<1>8. OutWith([left |-> b, out |-> {}], pos) = delivered
  BY DEF OutWith
<1> QED BY <1>5, <1>6, <1>7, <1>8 DEF TurnInv, b, c

LEMMA WriteKeeps ==
    ASSUME CodecInv, WriteChunk
    PROVE  CodecInv'
<1> PICK n \in 1..(Len(stream) - arrived) :
        LET got == Drain(ingress \o SubSeq(stream, arrived + 1, arrived + n))
        IN /\ arrived' = arrived + n
           /\ overflowed' = (overflowed \/ Len(got.left) > MaxBuffered)
           /\ ingress' = IF Len(got.left) > MaxBuffered
                         THEN From(got.left, Len(got.left) - MaxFrame + 1) ELSE got.left
           /\ delivered' = delivered \cup
                 {[at |-> arrived' - taken.left + 1, bytes |-> taken.bytes] : taken \in got.out}
           /\ UNCHANGED <<stream, placed>>
  BY DEF WriteChunk
<1> DEFINE b == ingress \o SubSeq(stream, arrived + 1, arrived + n)
           got == Drain(b)
           pos == arrived + n
<1>1. PlacedInv /\ overflowed = FALSE
  BY DEF CodecInv
<1>2. TurnInv([left |-> b, out |-> {}], pos)
  BY ChunkArrives
<1> HIDE DEF b
<1>3. TurnInv(got, pos) /\ Settled(got.left)
  BY <1>1, <1>2, Drained
<1>4. /\ arrived' = pos /\ overflowed' = (overflowed \/ Len(got.left) > MaxBuffered)
      /\ ingress' = IF Len(got.left) > MaxBuffered
                    THEN From(got.left, Len(got.left) - MaxFrame + 1) ELSE got.left
      /\ delivered' = OutWith(got, arrived')
      /\ stream' = stream /\ placed' = placed
  BY DEF OutWith, b
<1> HIDE DEF got, pos
<1>5. got.left \in Seq(Octets) /\ Len(got.left) \in Nat /\ Len(got.left) < MaxFrame
  BY <1>3, SettledIsShort, LenProperties DEF TurnInv, Carried
<1>6. ~(Len(got.left) > MaxBuffered)
  BY <1>5, CodecAssumption DEF MaxFrame, HeaderLength
<1>7. ingress' = got.left /\ overflowed' = FALSE /\ delivered' = OutWith(got, pos)
  BY <1>1, <1>4, <1>6
<1>8. PlacedInv'
  BY <1>1, <1>4 DEF PlacedInv, Lies, Boundary, After
<1>9. Carried(ingress, arrived)' /\ Settled(ingress)'
  BY <1>3, <1>4, <1>7 DEF TurnInv, Carried, Settled
<1>10. KeptWith(ingress, arrived, delivered)'
  <2>1. KeptWith(got.left, pos, OutWith(got, pos))
    BY <1>3 DEF TurnInv
  <2> QED BY <1>4, <1>7, <2>1 DEF KeptWith, FramesPlaced, Covers
<1>11. CleanWith(ingress, arrived, delivered)'
  <2>1. CleanWith(got.left, pos, OutWith(got, pos))
    BY <1>3 DEF TurnInv
  <2> QED BY <1>4, <1>7, <2>1 DEF CleanWith, FramesPlaced, Boundary, After
<1> QED BY <1>7, <1>8, <1>9, <1>10, <1>11 DEF CodecInv

(* Bytes that follow change nothing of what is there.                        *)
LEMMA CoversStill ==
    ASSUME PlacedInv, NEW item \in Seq(Octets), stream' = stream \o item,
           NEW at \in Nat, at >= 1, NEW start, Covers(at, start)
    PROVE  Covers(at, start)'
<1> DEFINE size == FrameLength(stream, at)
           next == stream \o item
           m == (Len(stream) - at) + 1
<1>1. /\ stream \in Seq(Octets) /\ next \in Seq(Octets) /\ Len(stream) \in Nat /\ Len(item) \in Nat
      /\ Len(next) = Len(stream) + Len(item) /\ \A i \in 1..Len(stream) : next[i] = stream[i]
  BY Joined DEF PlacedInv
<1>2. /\ stream[at] = Magic /\ start \in at + 1..at + size - 1
      /\ Known(stream, at) => Complete(stream, at) /\ CrcOk(stream, at)
  BY DEF Covers
<1>3. at + 2 <= Len(stream)
  <2>1. SUFFICES ASSUME Len(stream) < at + 2 PROVE FALSE
    BY <1>1
  <2>2. size = 0
    <3>1. Len(stream) < at + HeaderLength - 1
      BY <1>1, <2>1 DEF HeaderLength
    <3> QED BY <3>1 DEF FrameLength
  <2> HIDE DEF size
  <2> QED BY <1>2, <2>2
<1> HIDE DEF next
<1>4. SameFrom(stream, at, next, at, m)
  <2>1. /\ m \in Nat /\ m >= 3 /\ at \in 1..Len(stream) /\ at \in 1..Len(next)
        /\ at + m <= Len(stream) + 1 /\ at + m <= Len(next) + 1
        /\ \A j \in 0..m - 1 : at + j \in 1..Len(stream)
    BY <1>1, <1>3
  <2> HIDE DEF m
  <2> QED BY <1>1, <2>1 DEF SameFrom
<1>5. /\ size = FrameLength(next, at) /\ size \in 4..MaxFrame
      /\ Known(stream, at) <=> Known(next, at)
      /\ size <= m => Complete(next, at) /\ (CrcOk(stream, at) <=> CrcOk(next, at))
  BY <1>4, Alike
<1>6. Complete(stream, at) => size <= m
  <2>1. Complete(stream, at) => at + size - 1 <= Len(stream)
    BY DEF Complete
  <2>2. size \in Int
    BY <1>5, CodecAssumption DEF MaxFrame, HeaderLength
  <2> HIDE DEF size
  <2> QED BY <1>1, <2>1, <2>2
<1>7. next[at] = Magic
  BY <1>1, <1>2, <1>3
<1>8. Known(next, at) => Complete(next, at) /\ CrcOk(next, at)
  BY <1>2, <1>5, <1>6
<1>9. start \in at + 1..at + FrameLength(next, at) - 1
  BY <1>2, <1>5
<1>10. stream' = next
  BY DEF next
<1> QED BY <1>7, <1>8, <1>9, <1>10 DEF Covers

LEMMA SentKeeps ==
    ASSUME CodecInv, Sent
    PROVE  CodecInv'
<1> PICK item \in Items : /\ stream' = stream \o item
                          /\ placed' = placed \cup {[at |-> Len(stream) + 1, bytes |-> item]}
  BY DEF Sent
<1> PICK x : x = [at |-> Len(stream) + 1, bytes |-> item]
  OBVIOUS
<1> DEFINE next == stream \o item
<1>0. UNCHANGED <<arrived, ingress, delivered, overflowed>>
  BY DEF Sent
<1>1. item \in Seq(Octets) /\ stream \in Seq(Octets) /\ PlacedInv
  BY CodecAssumption DEF CodecInv, PlacedInv, Octets
<1>2. /\ next \in Seq(Octets) /\ Len(next) = Len(stream) + Len(item) /\ Len(stream) \in Nat /\ Len(item) \in Nat
      /\ \A i \in 1..Len(stream) : next[i] = stream[i]
      /\ \A i \in 1..Len(item) : next[Len(stream) + i] = item[i]
  BY <1>1, Joined
<1>3. stream' = next /\ placed' = placed \cup {x} /\ x.at = Len(stream) + 1 /\ x.bytes = item
  OBVIOUS
<1>4. /\ ingress \in Seq(Octets) /\ Len(ingress) \in Nat /\ arrived \in 0..Len(stream) /\ Len(ingress) <= arrived
      /\ \A k \in 1..Len(ingress) : ingress[k] = stream[arrived - Len(ingress) + k]
  BY LenProperties DEF CodecInv, Carried
<1>x. x = [at |-> x.at, bytes |-> x.bytes]
  OBVIOUS
<1> HIDE DEF next
<1>5. ASSUME NEW j, Boundary(j) PROVE Boundary(j)'
  BY <1>3, <1>5 DEF Boundary
<1>6. ASSUME NEW p \in placed PROVE Lies(p)' /\ Boundary(After(p))' /\ After(p) <= x.at
  <2>1. /\ Lies(p) /\ Boundary(After(p)) /\ p.at \in Nat /\ p.at >= 1 /\ Len(p.bytes) \in Nat
    BY <1>1, LiesThere
  <2>2. After(p) <= x.at
    BY <1>3, <2>1 DEF Lies, After
  <2>3. ASSUME NEW k \in 1..Len(p.bytes) PROVE p.bytes[k] = next[p.at + k - 1]
    <3>1. p.at + k - 1 \in 1..Len(stream)
      BY <1>2, <2>1 DEF Lies
    <3> QED BY <1>2, <2>1, <3>1 DEF Lies
  <2>4. p.at \in 1..Len(next) + 1 /\ p.at + Len(p.bytes) <= Len(next) + 1
    BY <1>2, <2>1 DEF Lies
  <2>5. Lies(p)'
    BY <1>3, <2>1, <2>3, <2>4 DEF Lies
  <2>6. Boundary(After(p))'
    BY <1>5, <2>1 DEF After
  <2> QED BY <2>2, <2>5, <2>6
<1>7. Lies(x)' /\ Boundary(After(x))'
  <2>1. x.at \in 1..Len(next) + 1 /\ x.at + Len(item) <= Len(next) + 1 /\ After(x) = Len(next) + 1
    BY <1>2, <1>3 DEF After
  <2>2. ASSUME NEW k \in 1..Len(item) PROVE item[k] = next[x.at + k - 1]
    <3>1. x.at + k - 1 = Len(stream) + k
      BY <1>2, <1>3
    <3> QED BY <1>2, <3>1
  <2> QED BY <1>x, <1>1, <1>3, <2>1, <2>2 DEF Lies, Boundary, After
<1>8. PlacedInv'
  <2>1. \A p \in placed' : Lies(p)' /\ Boundary(After(p))'
    BY <1>3, <1>6, <1>7
  <2>2. ASSUME NEW p \in placed', NEW q \in placed', p # q PROVE After(p) <= q.at \/ After(q) <= p.at
    <3>1. CASE p \in placed /\ q \in placed
      BY <1>1, <2>2, <3>1 DEF PlacedInv
    <3>2. CASE ~(p \in placed /\ q \in placed)
      BY <1>3, <1>6, <2>2, <3>2
    <3> QED BY <3>1, <3>2
  <2>3. Boundary(1)' /\ stream' \in Seq(Octets)
    BY <1>1, <1>2, <1>3, <1>5 DEF PlacedInv
  <2> QED BY <2>1, <2>2, <2>3 DEF PlacedInv, After
<1>9. Carried(ingress, arrived)' /\ Settled(ingress)' /\ overflowed' = FALSE
  <2>1. /\ arrived \in 0..Len(next)
        /\ \A k \in 1..Len(ingress) : ingress[k] = next[arrived - Len(ingress) + k]
    <3>1. arrived \in 0..Len(next) /\ \A k \in 1..Len(ingress) : arrived - Len(ingress) + k \in 1..Len(stream)
      BY <1>2, <1>4
    <3> QED BY <1>2, <1>4, <3>1
  <2> QED BY <1>0, <1>3, <1>4, <2>1 DEF CodecInv, Carried, Settled
<1>10. KeptWith(ingress, arrived, delivered)'
  <2> SUFFICES ASSUME NEW p \in FramesPlaced', p.at <= arrived, p \notin delivered,
                      ~(p.at > arrived - Len(ingress))
               PROVE  \E at \in 1..p.at - 1 : Covers(at, p.at)'
    BY <1>0 DEF KeptWith
  <2>1. p # x
    BY <1>3, <1>4
  <2>2. p \in FramesPlaced
    BY <1>3, <2>1 DEF FramesPlaced
  <2>3. PICK at \in 1..p.at - 1 : Covers(at, p.at)
    BY <2>2 DEF CodecInv, KeptWith
  <2>4. at \in Nat /\ at >= 1
    OBVIOUS
  <2>5. Covers(at, p.at)'
    BY <1>1, <2>3, <2>4, CoversStill
  <2> QED BY <2>5
<1>11. CleanWith(ingress, arrived, delivered)'
  <2> SUFFICES ASSUME placed' = FramesPlaced'
               PROVE  /\ Boundary(arrived - Len(ingress) + 1)'
                      /\ \A p \in placed' : p.at <= arrived - Len(ingress) => p \in delivered
                      /\ \A d \in delivered : d \in placed' /\ After(d) <= arrived - Len(ingress) + 1
    BY <1>0 DEF CleanWith, After
  <2>1. placed = FramesPlaced
    BY <1>3 DEF FramesPlaced
  <2>2. /\ Boundary(arrived - Len(ingress) + 1)
        /\ \A p \in placed : p.at <= arrived - Len(ingress) => p \in delivered
        /\ \A d \in delivered : d \in placed /\ After(d) <= arrived - Len(ingress) + 1
    BY <2>1 DEF CodecInv, CleanWith
  <2>3. Boundary(arrived - Len(ingress) + 1)'
    <3> DEFINE j == arrived - Len(ingress) + 1
    <3>1. Boundary(j)
      BY <2>2
    <3>2. j' = j
      BY <1>0
    <3> HIDE DEF j
    <3>3. Boundary(j)'
      BY <1>3, <3>1, <3>2 DEF Boundary
    <3> QED BY <3>3 DEF j
  <2>4. ~(x.at <= arrived - Len(ingress))
    BY <1>3, <1>4
  <2> QED BY <1>3, <2>2, <2>3, <2>4
<1> QED BY <1>8, <1>9, <1>10, <1>11 DEF CodecInv

LEMMA CodecImplies ==
    ASSUME CodecInv
    PROVE  FramesDelivered
<1>1. /\ stream \in Seq(Octets) /\ ingress \in Seq(Octets) /\ Len(ingress) \in Nat /\ Len(stream) \in Nat
      /\ arrived \in 0..Len(stream) /\ Len(ingress) <= arrived
      /\ \A k \in 1..Len(ingress) : ingress[k] = stream[arrived - Len(ingress) + k]
      /\ PlacedInv /\ Settled(ingress) /\ overflowed = FALSE
      /\ KeptWith(ingress, arrived, delivered) /\ CleanWith(ingress, arrived, delivered)
  BY LenProperties DEF CodecInv, PlacedInv, Carried
<1> DEFINE first == arrived - Len(ingress) + 1
           c == SubSeq(stream, first, arrived)
<1>2. ingress = c
  <2>1. /\ first \in Int /\ arrived \in Int /\ arrived - first + 1 = Len(ingress)
        /\ (first <= arrived <=> Len(ingress) >= 1)
        /\ \A i \in first..arrived : i \in 1..Len(stream)
        /\ \A i \in 1..Len(ingress) : first + i - 1 = arrived - Len(ingress) + i
    BY <1>1
  <2> HIDE DEF first
  <2>2. \A i \in first..arrived : stream[i] \in Octets
    BY <1>1, <2>1, ElementOfSeq
  <2>3. /\ c \in Seq(Octets) /\ Len(c) = IF first <= arrived THEN arrived - first + 1 ELSE 0
        /\ \A i \in 1..arrived - first + 1 : c[i] = stream[first + i - 1]
    BY <2>1, <2>2, SubSeqProperties
  <2> HIDE DEF c
  <2>4. Len(c) = Len(ingress) /\ \A i \in 1..Len(ingress) : ingress[i] = c[i]
    <3>1. Len(c) = Len(ingress)
      BY <1>1, <2>1, <2>3
    <3>2. ASSUME NEW i \in 1..Len(ingress) PROVE ingress[i] = c[i]
      <4>1. i \in 1..arrived - first + 1 /\ first + i - 1 = arrived - Len(ingress) + i
        BY <2>1
      <4>2. c[i] = stream[first + i - 1]
        BY <2>3, <4>1
      <4> QED BY <1>1, <4>1, <4>2
    <3> QED BY <3>1, <3>2
  <2> QED BY <1>1, <2>3, <2>4, SeqEqual
<1>3. CodecTypeOK
  BY <1>1, <1>2 DEF CodecTypeOK, Octets
<1> HIDE DEF first, c
<1>4. NeverOverflows
  BY <1>1, SettledIsShort DEF NeverOverflows
<1>5. Resynchronised
  <2> SUFFICES ASSUME NEW p \in FramesPlaced, Whole(p), p \notin delivered, ~(p.at > arrived - Len(ingress))
               PROVE  \E at \in 1..p.at - 1 : Covers(at, p.at)
    BY DEF Resynchronised
  <2>1. p.at <= arrived
    <3>1. p.at \in Nat /\ Len(p.bytes) \in Nat /\ Len(p.bytes) >= 4
      BY <1>1, LiesThere DEF FramesPlaced
    <3> QED BY <1>1, <3>1 DEF Whole
  <2> QED BY <1>1, <2>1 DEF KeptWith
<1>6. CleanLinkDelivers
  <2> SUFFICES ASSUME placed = FramesPlaced PROVE delivered = {p \in placed : Whole(p)}
    BY DEF CleanLinkDelivers
  <2>1. /\ \A p \in placed : p.at <= arrived - Len(ingress) => p \in delivered
        /\ \A d \in delivered : d \in placed /\ After(d) <= arrived - Len(ingress) + 1
    BY <1>1 DEF CleanWith
  <2>2. ASSUME NEW p \in placed PROVE p.at \in Nat /\ Len(p.bytes) \in Nat /\ Len(p.bytes) >= 4
    BY <1>1, LiesThere
  <2>3. ASSUME NEW d \in delivered PROVE d \in placed /\ Whole(d)
    BY <1>1, <2>1, <2>2 DEF Whole, After
  <2>4. ASSUME NEW p \in placed, Whole(p) PROVE p \in delivered
    <3> SUFFICES ASSUME p.at > arrived - Len(ingress) PROVE FALSE
      BY <1>1, <2>1, <2>2
    <3>1. p.at <= arrived /\ ingress # <<>>
      <4>1. p.at <= arrived /\ Len(ingress) # 0
        BY <1>1, <2>2, <2>4 DEF Whole
      <4> QED BY <4>1, EmptySeq
    <3>2. PICK q \in FramesPlaced : q.at = (arrived - Len(ingress)) + 1
      BY <1>1, <3>1, CleanBegins DEF CodecInv
    <3>3. Len(q.bytes) <= Len(ingress)
      <4>1. CASE q = p
        BY <1>1, <2>2, <2>4, <3>2, <4>1 DEF Whole
      <4>2. CASE q # p
        <5>1. After(p) <= q.at \/ After(q) <= p.at
          BY <1>1, <3>2, <4>2 DEF PlacedInv
        <5>2. /\ p.at \in Nat /\ Len(p.bytes) \in Nat /\ Len(p.bytes) >= 4
              /\ q.at \in Nat /\ Len(q.bytes) \in Nat /\ p.at > arrived - Len(ingress)
              /\ q.at = (arrived - Len(ingress)) + 1
          BY <2>2, <3>2
        <5>3. p.at + Len(p.bytes) <= q.at \/ q.at + Len(q.bytes) <= p.at
          BY <5>1 DEF After
        <5>4. arrived \in Nat /\ Len(ingress) \in Nat
          BY <1>1
        <5>5. \A a, l, i, j, m, n \in Nat :
                 (/\ i > a - l /\ i <= a /\ m >= 4 /\ j = (a - l) + 1
                  /\ (i + m <= j \/ j + n <= i)) => n <= l
          OBVIOUS
        <5> QED BY ONLY <3>1, <5>2, <5>3, <5>4, <5>5
      <4> QED BY <4>1, <4>2
    <3>4. Complete(ingress, 1)
      BY <1>1, <3>2, <3>3, FrameBegins DEF CodecInv
    <3> QED BY <1>1, <3>1, <3>4 DEF Settled
  <2> QED BY <2>3, <2>4
<1> QED BY <1>3, <1>4, <1>5, <1>6 DEF FramesDelivered

LEMMA CodecStarts == CodecInit => CodecInv
<1> SUFFICES ASSUME CodecInit PROVE CodecInv
  OBVIOUS
<1>1. /\ stream = <<>> /\ placed = {} /\ arrived = 0 /\ ingress = <<>> /\ delivered = {} /\ overflowed = FALSE
  BY DEF CodecInit
<1>2. stream \in Seq(Octets) /\ ingress \in Seq(Octets) /\ Len(stream) = 0 /\ Len(ingress) = 0
  BY <1>1, EmptySeq
<1>3. PlacedInv
  BY <1>1, <1>2 DEF PlacedInv, Boundary
<1>4. Carried(ingress, arrived) /\ Settled(ingress)
  BY <1>1, <1>2 DEF Carried, Settled
<1>5. KeptWith(ingress, arrived, delivered)
  BY <1>1 DEF KeptWith, FramesPlaced
<1>6. CleanWith(ingress, arrived, delivered)
  <2>1. arrived - Len(ingress) + 1 = Len(stream) + 1
    BY <1>1, <1>2
  <2>2. Boundary(arrived - Len(ingress) + 1)
    BY <2>1 DEF Boundary
  <2> QED BY <1>1, <2>2 DEF CleanWith
<1> QED BY <1>1, <1>3, <1>4, <1>5, <1>6 DEF CodecInv

(* However the bytes are cut and whatever disturbs the link, the buffer is   *)
(* the end of what arrived and never longer than a frame, a whole frame is   *)
(* delivered or buffered unless an earlier claim covers it, and a clean link *)
(* loses and invents nothing, for every length a payload may have (write,    *)
(* drain, findCompleteFrame).                                                *)
THEOREM FramesAreDelivered == CodecSpec => []FramesDelivered
<1>1. CodecInit => CodecInv
  BY CodecStarts
<1>2. CodecInv /\ [CodecNext]_codecVars => CodecInv'
  <2> SUFFICES ASSUME CodecInv, [CodecNext]_codecVars PROVE CodecInv'
    OBVIOUS
  <2>1. CASE Sent
    BY <2>1, SentKeeps
  <2>2. CASE WriteChunk
    BY <2>2, WriteKeeps
  <2>3. CASE UNCHANGED codecVars
    BY <2>3 DEF codecVars, CodecInv, PlacedInv, Lies, Boundary, After, Carried, Settled, KeptWith,
                CleanWith, FramesPlaced, Covers
  <2> QED BY <2>1, <2>2, <2>3 DEF CodecNext
<1>3. CodecInv => FramesDelivered
  BY CodecImplies
<1>4. QED BY <1>1, <1>2, <1>3, PTL DEF CodecSpec
=============================================================================
