------------------------ MODULE MCInvalidationRetry -------------------------
(* Small instances of InvalidationRetry. *)
EXTENDS InvalidationRetry, TLC

MCSymmetry == Permutations(Handlers) \cup Permutations(Peers) \cup Permutations(Targets)
=============================================================================
