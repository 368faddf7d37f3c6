----------------------------- MODULE FreshReads -----------------------------
(***************************************************************************)
(* What the read path promises its clients, without a cache: a read that   *)
(* answers with bytes answers with those of ONE version, and that version  *)
(* was upstream at some time after the last invalidation before the read   *)
(* began (PLAN.md, "Consistency": a successful write's invalidation keeps  *)
(* future reads fresh).  A read may also end early or without bytes.       *)
(***************************************************************************)
CONSTANTS ETags, None, Readers

VARIABLES upstream,  \* the version the upstream store holds, or None
          recent,    \* versions it held since the last invalidation
          reader     \* [status, promise, sent] of each read

vars == <<upstream, recent, reader>>

Versions == ETags \cup {None}

Init ==
    /\ upstream \in Versions
    /\ recent = {upstream}
    /\ reader = [r \in Readers |-> [status |-> "idle", promise |-> {}, sent |-> {}]]

Begin(r) ==
    /\ reader[r].status = "idle"
    /\ reader' = [reader EXCEPT ![r].status = "reading", ![r].promise = recent]
    /\ UNCHANGED <<upstream, recent>>

(* A write reaches the upstream store: reads on their way may return it. *)
Replace(v) ==
    /\ upstream' = v
    /\ recent' = recent \cup {v}
    /\ reader' = [r \in Readers |->
                    IF reader[r].status = "reading"
                    THEN [reader[r] EXCEPT !.promise = @ \cup {v}] ELSE reader[r]]

(* An invalidation is over: reads from now on miss nothing before it. *)
Settle ==
    /\ recent' = {upstream}
    /\ UNCHANGED <<upstream, reader>>

(* What may become of a read in one step: bytes of a promised version, the *)
(* same for the whole answer, and the end of the answer.                   *)
Answers(rd) ==
    LET bytes == {rd.sent} \cup {{v} : v \in {u \in rd.promise \ {None} : rd.sent \subseteq {u}}}
    IN  {[rd EXCEPT !.status = s, !.sent = b] : s \in {"reading", "ended"}, b \in bytes}

Answer ==
    /\ reader' \in [Readers -> UNION {Answers(reader[r]) \cup {reader[r]} : r \in Readers}]
    /\ \A r \in Readers :
          \/ reader'[r] = reader[r]
          \/ reader[r].status = "reading" /\ reader'[r] \in Answers(reader[r])
    /\ UNCHANGED <<upstream, recent>>

Next ==
    \/ \E r \in Readers : Begin(r)
    \/ \E v \in Versions : Replace(v)
    \/ Settle
    \/ Answer

Spec == Init /\ [][Next]_vars
=============================================================================
