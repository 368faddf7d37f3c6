---------------------------- MODULE MCPageStore -----------------------------
(* PageStore on small instances: two versions whose pages differ in size.  *)
EXTENDS PageStore, TLC

CONSTANTS v1, v2, p1, p2, f1, f2, f3, f4, r1, i1, i2

MCETags == {v1, v2}
MCPageLen == [e \in MCETags |-> [i \in Indexes |-> IF e = v1 THEN 2 ELSE 1]]

(* Pages the size of which does not tell the versions apart. *)
MCSameLen == [e \in MCETags |-> [i \in Indexes |-> 1]]

(* The processes of a kind are interchangeable. *)
MCSymmetry == Permutations(Putters) \cup Permutations(Fillers)
                \cup Permutations(Invalidators)
=============================================================================
