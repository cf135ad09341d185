------------------------------ MODULE Intervals ------------------------------
(***************************************************************************)
(* The interval tracker of a download: the parts of a file that have not   *)
(* arrived, as disjoint half-open intervals <<a, b>>.  The source keeps    *)
(* them sorted in an array; here they are a set.                           *)
(***************************************************************************)
EXTENDS Integers, FiniteSets

(* The positions of the intervals of I.                                      *)
Covered(I) == UNION {i[1]..(i[2] - 1) : i \in I}

(* Number of positions still missing.                                        *)
remainingBytes(I) == Cardinality(Covered(I))

(* missing[0] of the sorted array.                                           *)
FirstGap(I) == CHOOSE i \in I : \A k \in I : i[1] <= k[1]

Apart(i, s, e) == e <= i[1] \/ s >= i[2]

(* Wrong on purpose: the part behind the chunk is forgotten.                 *)
CutLosesTail(I, s, e) ==
    {i \in I : Apart(i, s, e)} \cup {<<i[1], s>> : i \in {k \in I : ~Apart(k, s, e) /\ s > k[1]}}

(* Remove [s, e) from the intervals.                                         *)
subtractInterval(I, s, e) ==
    IF e <= s THEN I
    ELSE {i \in I : Apart(i, s, e)}
         \cup {<<i[1], s>> : i \in {k \in I : ~Apart(k, s, e) /\ s > k[1]}}
         \cup {<<e, i[2]>> : i \in {k \in I : ~Apart(k, s, e) /\ e < k[2]}}
=============================================================================
