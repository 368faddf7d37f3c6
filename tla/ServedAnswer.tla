---------------------------- MODULE ServedAnswer ----------------------------
(* What a client may see of the answer to one request, without peers, pages   *)
(* or frames.  Either the answer carries no bytes that the proxy assembles    *)
(* (a status, or the upstream store's own answer), or it is committed to the  *)
(* bytes that were asked for: status and length are those of the whole, the   *)
(* bytes come in their order and without a gap, and the answer ends with the  *)
(* last of them or is cut off.  A committed answer is never replaced by       *)
(* another one, and nothing follows the end of an answer.                     *)
EXTENDS Integers, Sequences, FiniteSets

VARIABLES asked,    \* the positions of the bytes the request asks for
          partial,  \* whether it names a range of the object
          answer    \* status, announced length, bytes so far, and how it ended

vars == <<asked, partial, answer>>

Init ==
  /\ asked \subseteq Nat /\ IsFiniteSet(asked)
  /\ partial \in BOOLEAN
  /\ answer = [status |-> 0, length |-> 0, out |-> <<>>, over |-> "no"]

\* The k-th of the bytes asked for, and the first n of them.
Byte(k) == CHOOSE i \in asked : Cardinality({j \in asked : j < i}) = k - 1
Beginning(n) == [k \in 1 .. n |-> Byte(k)]

\* An answer without assembled bytes, complete or not.
Relay(over) ==
  /\ answer.over = "no" /\ answer.length = 0
  /\ answer' = [answer EXCEPT !.status = answer'.status, !.over = over]
  /\ UNCHANGED <<asked, partial>>

\* An answer of assembled bytes begins, goes on or ends.
Serve(n, over) ==
  /\ answer.over = "no" /\ asked # {}
  /\ Len(answer.out) <= n
  /\ over = "whole" => n = Cardinality(asked)
  /\ answer' = [status |-> IF partial THEN 206 ELSE 200, length |-> Cardinality(asked),
                out |-> Beginning(n), over |-> over]
  /\ UNCHANGED <<asked, partial>>

Next ==
  \/ \E over \in {"whole", "cut"} : Relay(over)
  \/ \E n \in 0 .. Cardinality(asked), over \in {"no", "whole", "cut"} : Serve(n, over)

Spec == Init /\ [][Next]_vars
=============================================================================
