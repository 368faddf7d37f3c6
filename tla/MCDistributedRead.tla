-------------------------- MODULE MCDistributedRead -------------------------
(* Small instances of DistributedRead: page 0 is stored by the peer that   *)
(* handles the writes, page 1 by the other one.                            *)
EXTENDS DistributedRead, TLC

CONSTANTS v1, v2, p1, p2, r1, r2, w1, w2, w3

MCTwoOwners == (0 :> p1) @@ (1 :> p2)

Request(p, i, j) == [peer |-> p, first |-> i, last |-> j]

(* A page of each owner, asked for at either peer *)
MCWhole == {Request(p, 0, 1) : p \in Peers}

(* Both pages away from the handling peer, and each peer's own page at it *)
MCRequests == {Request(p2, 0, 1), Request(p2, 1, 1), Request(p1, 0, 0)}

(* Both pages, or only its own page, away from the handling peer *)
MCOwnPage == {Request(p2, 0, 1), Request(p2, 1, 1)}

MCSymmetry == Permutations(Readers) \cup Permutations(Writers) \cup Permutations(ETags)
=============================================================================
