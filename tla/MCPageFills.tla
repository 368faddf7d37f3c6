----------------------------- MODULE MCPageFills ----------------------------
(* PageFills with two page owners and a coordinator. *)
EXTENDS PageFills, TLC

CONSTANTS a, b, c, r1, r2

MCOwner == (0 :> a) @@ (1 :> b) @@ (2 :> a)
Request(p, i, j) == [peer |-> p, first |-> i, last |-> j]

(* Both reads ask for a page of each owner from the peer that owns none,   *)
(* or the other one asks at an owner, for its own page and a remote one.   *)
MCRequests == (r1 :> {Request(c, 0, 1)}) @@ (r2 :> {Request(c, 0, 1), Request(b, 1, 2)})
=============================================================================
