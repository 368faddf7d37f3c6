--------------------------- MODULE MCReadThrough ----------------------------
(* Small instances of ReadThrough. *)
EXTENDS ReadThrough, TLC

CONSTANTS v1, v2, r1, r2, w1, w2

MCETags == {v1, v2}

(* Two versions of different length: a range may lie past the shorter one. *)
MCPageCount == (v1 :> 2) @@ (v2 :> 1)

Request(k, i, j) == [kind |-> k, first |-> i, last |-> j]

(* Every path: metadata only, the cold stream, several pages, and a range  *)
(* the other version does not have.                                        *)
MCRequests == {Request("head", 0, 0), Request("full", 0, 0),
               Request("range", 0, 1), Request("range", 1, 1)}

MCSymmetry == Permutations(Readers) \cup Permutations(Writers)
=============================================================================
