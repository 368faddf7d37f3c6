---------------------- MODULE InvalidationRetryProofs -----------------------
(***************************************************************************)
(* InvalidationRetry for every ring, set of objects and queue limit: the   *)
(* types, that no missed invalidation is forgotten, that no queue entry is *)
(* left without a worker, and that readiness is not recovered over a miss. *)
(***************************************************************************)
EXTENDS InvalidationRetry, TLAPS

USE DEF queue

(* Raising one entry of a table of epochs (Applied, Over). *)
LEMMA TableRaise ==
    ASSUME NEW table \in [Keys -> Nat], NEW k \in Keys, NEW n \in Nat, NEW new,
           new = [table EXCEPT ![k] = Larger(@, n)]
    PROVE  /\ new \in [Keys -> Nat]
           /\ \A j \in Keys : new[j] = IF j = k THEN Larger(table[k], n) ELSE table[j]
BY DEF Larger

LEMMA AppliedRaise ==
    ASSUME TypeOK, NEW k \in Keys, NEW n \in Nat, Applied(k, n)
    PROVE  /\ applied' \in [Keys -> Nat]
           /\ \A j \in Keys : applied'[j] = IF j = k THEN Larger(applied[k], n) ELSE applied[j]
<1>1. applied \in [Keys -> Nat]
  BY DEF TypeOK
<1>2. applied' = [applied EXCEPT ![k] = Larger(@, n)]
  BY DEF Applied
<1> QED BY <1>1, <1>2, TableRaise

LEMMA OwedRaise ==
    ASSUME TypeOK, NEW k \in Keys, NEW n \in Nat, Over(k, n)
    PROVE  /\ owed' \in [Keys -> Nat]
           /\ \A j \in Keys : owed'[j] = IF j = k THEN Larger(owed[k], n) ELSE owed[j]
<1>1. owed \in [Keys -> Nat]
  BY DEF TypeOK
<1>2. owed' = [owed EXCEPT ![k] = Larger(@, n)]
  BY DEF Over
<1> QED BY <1>1, <1>2, TableRaise

(* A handler's next record is a handler's record. *)
LEMMA HandlerUpdate ==
    ASSUME handler \in [Handlers -> HandlerRecord], NEW h \in Handlers,
           NEW new \in HandlerRecord, handler' = [handler EXCEPT ![h] = new]
    PROVE  handler' \in [Handlers -> HandlerRecord]
OBVIOUS

LEMMA DoneIsRecord == HandlerIdle("done") \in HandlerRecord
BY DEF HandlerIdle, HandlerRecord

(* What a handler holds when it sends, and after a failed send. *)
LEMMA Sending ==
    ASSUME NEW rd \in HandlerRecord, rd.pc = "send"
    PROVE  /\ rd.target \in Targets /\ rd.epoch \in Nat /\ rd.left \in SUBSET Peers
           /\ rd = [pc |-> "send", target |-> rd.target, epoch |-> rd.epoch,
                    left |-> rd.left, failed |-> None]
BY DEF HandlerRecord

LEMMA Failing ==
    ASSUME NEW rd \in HandlerRecord, rd.pc \in {"mark", "enqueue"}
    PROVE  /\ rd.target \in Targets /\ rd.epoch \in Nat /\ rd.left \in SUBSET Peers
           /\ rd.failed \in Peers
           /\ rd = [pc |-> rd.pc, target |-> rd.target, epoch |-> rd.epoch,
                    left |-> rd.left, failed |-> rd.failed]
BY DEF HandlerRecord

LEMMA SendsAgain ==
    ASSUME NEW rd \in HandlerRecord, rd.pc \in {"send", "enqueue"}, NEW p
    PROVE  [rd EXCEPT !.pc = "send", !.left = rd.left \ {p}, !.failed = None]
             \in HandlerRecord
<1>1. rd \in [pc : {"send", "mark", "enqueue"}, target : Targets, epoch : Nat,
              left : SUBSET Peers, failed : Peers \cup {None}]
  BY DEF HandlerRecord
<1>2. [rd EXCEPT !.pc = "send", !.left = rd.left \ {p}, !.failed = None]
        \in [pc : {"send"}, target : Targets, epoch : Nat, left : SUBSET Peers,
            failed : {None}]
  BY <1>1
<1> QED BY <1>2 DEF HandlerRecord

LEMMA Fails ==
    ASSUME NEW rd \in HandlerRecord, rd.pc = "send", NEW p \in Peers
    PROVE  [rd EXCEPT !.pc = "mark", !.failed = p] \in HandlerRecord
<1>1. rd \in [pc : {"send"}, target : Targets, epoch : Nat, left : SUBSET Peers,
              failed : {None}]
  BY DEF HandlerRecord
<1>2. [rd EXCEPT !.pc = "mark", !.failed = p]
        \in [pc : {"mark", "enqueue"}, target : Targets, epoch : Nat,
            left : SUBSET Peers, failed : Peers]
  BY <1>1
<1> QED BY <1>2 DEF HandlerRecord

LEMMA NextPeerType ==
    ASSUME handler \in [Handlers -> HandlerRecord], NEW h \in Handlers, NEW p,
           handler[h].pc \in {"send", "enqueue"}, NextPeer(h, p)
    PROVE  handler' \in [Handlers -> HandlerRecord]
<1> DEFINE rd == handler[h]
           next == [rd EXCEPT !.pc = "send", !.left = rd.left \ {p}, !.failed = None]
<1>1. rd \in HandlerRecord
  OBVIOUS
<1>2. rd.pc \in {"send", "enqueue"}
  OBVIOUS
<1>3. next \in HandlerRecord
  <2> HIDE DEF rd
  <2> QED BY <1>1, <1>2, SendsAgain
<1>4. (IF rd.left = {p} THEN HandlerIdle("done") ELSE next) \in HandlerRecord
  BY <1>3, DoneIsRecord
<1>5. handler' = [handler EXCEPT ![h] = IF rd.left = {p} THEN HandlerIdle("done") ELSE next]
  BY DEF NextPeer
<1> HIDE DEF next, rd
<1> QED
  BY <1>4, <1>5, HandlerUpdate

-----------------------------------------------------------------------------
(* The inductive invariant: the types; the worker goroutine runs exactly   *)
(* while started is set; and the two facts about the queue.                *)
WorkerStarted == started <=> worker.pc # "off"

RetryInv == TypeOK /\ WorkerStarted /\ EntriesHaveWorker /\ MissesAreQueued

LEMMA RetryInit == Init => RetryInv
<1>1. HandlerIdle("idle") \in HandlerRecord
  BY DEF HandlerIdle, HandlerRecord
<1>2. WorkerOff \in [pc : {"off", "sleep", "send", "check", "clear", "finish"},
                    batch : SUBSET Entry]
  BY DEF WorkerOff
<1>3. Init => /\ generation \in [Targets -> Nat]
              /\ applied \in [Keys -> Nat] /\ pending \in [Keys -> Nat]
              /\ owed \in [Keys -> Nat]
              /\ handler \in [Handlers -> HandlerRecord]
  BY <1>1 DEF Init
<1>4. Init => TypeOK
  BY <1>2, <1>3, Zenon DEF Init, TypeOK
<1>5. Init => WorkerStarted /\ EntriesHaveWorker
  BY DEF Init, WorkerStarted, EntriesHaveWorker, WorkerOff, Pending
<1>6. Init => MissesAreQueued
  BY DEF Init, MissesAreQueued
<1> QED
  BY <1>4, <1>5, <1>6 DEF RetryInv

LEMMA HandlerSteps ==
    ASSUME RetryInv, NEW h \in Handlers, HandlerStep(h)
    PROVE  RetryInv'
<1> USE RetryAssumption DEF RetryInv
<1>1. ASSUME NEW t \in Targets, InvalidateLocally(h, t)
      PROVE  RetryInv'
  <2> DEFINE new == [pc |-> "send", target |-> t, epoch |-> generation[t] + 1,
                     left |-> Peers, failed |-> None]
  <2>1. generation' \in [Targets -> Nat] /\ generation[t] + 1 \in Nat
    BY <1>1 DEF TypeOK, InvalidateLocally
  <2>2. new \in HandlerRecord
    BY <2>1 DEF HandlerRecord
  <2>3. handler' = [handler EXCEPT ![h] = new]
    BY <1>1 DEF InvalidateLocally
  <2> HIDE DEF new
  <2>4. handler' \in [Handlers -> HandlerRecord]
    BY <2>2, <2>3, HandlerUpdate DEF TypeOK
  <2> QED
    BY <1>1, <2>1, <2>4 DEF InvalidateLocally, TypeOK, WorkerStarted,
         EntriesHaveWorker, MissesAreQueued, Pending
<1>2. ASSUME NEW t \in Targets, InvalidationFails(h, t)
      PROVE  RetryInv'
  <2>3. generation' \in [Targets -> Nat]
    BY <1>2 DEF InvalidationFails, TypeOK
  <2>1. handler' \in [Handlers -> HandlerRecord]
    BY <1>2, DoneIsRecord, HandlerUpdate DEF TypeOK, InvalidationFails
  <2>2. degraded' \in {"none", "peer", "other"}
    BY <1>2 DEF InvalidationFails, MarkDegraded, TypeOK
  <2> QED
    BY <1>2, <2>1, <2>2, <2>3 DEF InvalidationFails, TypeOK, WorkerStarted,
         EntriesHaveWorker, MissesAreQueued, Pending
<1>3. ASSUME NEW p \in Peers, SendPeerInvalidation(h, p)
      PROVE  RetryInv'
  <2> DEFINE k == <<p, handler[h].target>>
             epoch == handler[h].epoch
  <2>1. k \in Keys /\ epoch \in Nat
    BY <1>3, Sending DEF SendPeerInvalidation, TypeOK, Keys
  <2>2. handler' \in [Handlers -> HandlerRecord]
    BY <1>3, NextPeerType DEF SendPeerInvalidation, TypeOK
  <2> HIDE DEF k, epoch
  <2>3. /\ applied' \in [Keys -> Nat]
        /\ \A j \in Keys : applied'[j] = IF j = k THEN Larger(applied[k], epoch) ELSE applied[j]
    <3>1. Applied(k, epoch)
      BY <1>3 DEF SendPeerInvalidation, k, epoch
    <3> QED BY <2>1, <3>1, AppliedRaise
  <2>4. /\ owed' \in [Keys -> Nat]
        /\ \A j \in Keys : owed'[j] = IF j = k THEN Larger(owed[k], epoch) ELSE owed[j]
    <3>1. owed' = [owed EXCEPT ![k] = Larger(@, epoch)]
      BY <1>3 DEF SendPeerInvalidation, Over, k, epoch
    <3> QED BY <2>1, <3>1, TableRaise DEF TypeOK
  <2>5. MissesAreQueued'
    BY <1>3, <2>1, <2>3, <2>4 DEF SendPeerInvalidation, MissesAreQueued, TypeOK, Larger
  <2> QED
    BY <1>3, <2>2, <2>3, <2>4, <2>5 DEF SendPeerInvalidation, TypeOK,
         WorkerStarted, EntriesHaveWorker, Pending
<1>4. ASSUME NEW p \in Peers, SendFails(h, p)
      PROVE  RetryInv'
  <2> DEFINE rd == handler[h]
             new == [rd EXCEPT !.pc = "mark", !.failed = p]
  <2>1. /\ rd.target \in Targets /\ rd.epoch \in Nat /\ rd.left \in SUBSET Peers
        /\ rd = [pc |-> "send", target |-> rd.target, epoch |-> rd.epoch,
                 left |-> rd.left, failed |-> None]
    BY <1>4, Sending DEF SendFails, TypeOK
  <2>3. handler' = [handler EXCEPT ![h] = new]
    BY <1>4 DEF SendFails
  <2>4. new \in HandlerRecord
    <3>1. rd \in HandlerRecord /\ rd.pc = "send"
      BY <1>4 DEF SendFails, TypeOK
    <3> HIDE DEF rd
    <3> QED BY <3>1, Fails
  <2> HIDE DEF new
  <2>5. handler' \in [Handlers -> HandlerRecord]
    BY <2>3, <2>4, HandlerUpdate DEF TypeOK
  <2>6. /\ applied' \in [Keys -> Nat]
        /\ \A j \in Keys : applied'[j] >= applied[j]
    <3>1. CASE UNCHANGED applied
      BY <3>1 DEF TypeOK
    <3>2. CASE Applied(<<p, rd.target>>, rd.epoch)
      <4> DEFINE k == <<p, rd.target>>
      <4>1. k \in Keys
        BY <2>1 DEF Keys
      <4> HIDE DEF k
      <4>2. /\ applied' \in [Keys -> Nat]
            /\ \A j \in Keys :
                  applied'[j] = IF j = k THEN Larger(applied[k], rd.epoch) ELSE applied[j]
        <5>1. Applied(k, rd.epoch)
          BY <3>2 DEF k
        <5> HIDE DEF rd
        <5> QED BY <2>1, <4>1, <5>1, AppliedRaise
      <4> HIDE DEF rd
      <4> QED BY <2>1, <4>1, <4>2 DEF TypeOK, Larger
    <3> QED BY <1>4, <3>1, <3>2 DEF SendFails
  <2>7. MissesAreQueued'
    <3>1. UNCHANGED <<pending, untracked, owed>>
      BY <1>4 DEF SendFails
    <3>2. SUFFICES ASSUME NEW j \in Keys, applied'[j] < owed[j]
                   PROVE  pending[j] >= owed[j] \/ untracked
      BY <3>1 DEF MissesAreQueued
    <3>3. applied[j] < owed[j]
      BY <2>6, <3>2 DEF TypeOK
    <3> QED BY <3>3 DEF MissesAreQueued
  <2> QED
    BY <1>4, <2>5, <2>6, <2>7 DEF SendFails, TypeOK, WorkerStarted,
         EntriesHaveWorker, Pending
<1>5. CASE MarkPeerFailure(h)
  <2> DEFINE rd == handler[h]
             new == [rd EXCEPT !.pc = "enqueue"]
  <2>1. /\ rd.target \in Targets /\ rd.epoch \in Nat /\ rd.left \in SUBSET Peers
        /\ rd.failed \in Peers
        /\ rd = [pc |-> rd.pc, target |-> rd.target, epoch |-> rd.epoch,
                 left |-> rd.left, failed |-> rd.failed]
    BY <1>5, Failing DEF MarkPeerFailure, TypeOK
  <2>2. new = [pc |-> "enqueue", target |-> rd.target, epoch |-> rd.epoch,
               left |-> rd.left, failed |-> rd.failed]
    BY <2>1
  <2>3. handler' = [handler EXCEPT ![h] = new]
    BY <1>5 DEF MarkPeerFailure
  <2> HIDE DEF new
  <2>4. new \in HandlerRecord
    <3> HIDE DEF rd
    <3> QED BY <2>1, <2>2 DEF HandlerRecord
  <2>5. handler' \in [Handlers -> HandlerRecord]
    BY <2>3, <2>4, HandlerUpdate DEF TypeOK
  <2>6. degraded' \in {"none", "peer", "other"}
    BY <1>5 DEF MarkPeerFailure, MarkDegraded, TypeOK
  <2> QED
    BY <1>5, <2>5, <2>6 DEF MarkPeerFailure, TypeOK, WorkerStarted,
         EntriesHaveWorker, MissesAreQueued, Pending
<1>6. CASE EnqueueRetry(h)
  <2> DEFINE k == <<handler[h].failed, handler[h].target>>
             epoch == handler[h].epoch
  <2>1. k \in Keys /\ epoch \in Nat
    BY <1>6, Failing DEF EnqueueRetry, TypeOK, Keys
  <2>2. handler' \in [Handlers -> HandlerRecord]
    BY <1>6, NextPeerType DEF EnqueueRetry, TypeOK
  <2> HIDE DEF k, epoch
  <2>3. /\ owed' \in [Keys -> Nat]
        /\ \A j \in Keys : owed'[j] = IF j = k THEN Larger(owed[k], epoch) ELSE owed[j]
    <3>1. Over(k, epoch)
      BY <1>6 DEF EnqueueRetry, k, epoch
    <3> QED BY <2>1, <3>1, OwedRaise
  <2>4. UNCHANGED <<generation, applied, degraded>>
    BY <1>6 DEF EnqueueRetry
  <2>8. raced' \in BOOLEAN
    BY <1>6, Zenon DEF EnqueueRetry
  <2>5. CASE pending[k] >= epoch
    <3>1. UNCHANGED <<queue, worker>>
      BY <1>6, <2>5 DEF EnqueueRetry, k, epoch
    <3>2. MissesAreQueued'
      BY <2>1, <2>3, <2>4, <2>5, <3>1 DEF MissesAreQueued, TypeOK, Larger
    <3> QED
      BY <2>2, <2>3, <2>4, <2>8, <3>1, <3>2 DEF TypeOK, WorkerStarted, EntriesHaveWorker,
           Pending
  <2>6. CASE ~(pending[k] >= epoch) /\ untracked'
             /\ UNCHANGED <<pending, started, worker>>
    BY <2>2, <2>3, <2>4, <2>8, <2>6 DEF TypeOK, WorkerStarted, EntriesHaveWorker,
         Pending, MissesAreQueued
  <2>7. CASE /\ ~(pending[k] >= epoch)
             /\ pending' = [pending EXCEPT ![k] = epoch]
             /\ started' = TRUE
             /\ worker' = IF started THEN worker ELSE [pc |-> "sleep", batch |-> {}]
             /\ UNCHANGED untracked
    <3>1. /\ pending' \in [Keys -> Nat]
          /\ \A j \in Keys : pending'[j] = IF j = k THEN epoch ELSE pending[j]
      BY <2>1, <2>7 DEF TypeOK
    <3>2. MissesAreQueued'
      BY <2>1, <2>3, <2>4, <2>7, <3>1 DEF MissesAreQueued, TypeOK, Larger
    <3>3. /\ worker' \in [pc : {"off", "sleep", "send", "check", "clear", "finish"},
                          batch : SUBSET Entry]
          /\ worker'.pc # "off"
      <4>1. CASE started
        BY <2>7, <4>1 DEF TypeOK, WorkerStarted
      <4>2. CASE ~started
        BY <2>7, <4>2
      <4> QED BY <4>1, <4>2
    <3> QED
      BY <2>2, <2>3, <2>4, <2>8, <2>7, <3>1, <3>2, <3>3 DEF TypeOK, WorkerStarted,
           EntriesHaveWorker
  <2> QED
    BY <1>6, <2>5, <2>6, <2>7 DEF EnqueueRetry, k, epoch
<1> QED
  BY <1>1, <1>2, <1>3, <1>4, <1>5, <1>6 DEF HandlerStep

(* The worker's next record. *)
LEMMA AfterEntryType ==
    ASSUME TypeOK, worker.pc = "send", NEW e, AfterEntry(e)
    PROVE  /\ worker' \in [pc : {"off", "sleep", "send", "check", "clear", "finish"},
                           batch : SUBSET Entry]
           /\ worker'.pc # "off"
BY DEF TypeOK, AfterEntry

LEMMA WorkerSteps ==
    ASSUME RetryInv, WorkerStep
    PROVE  RetryInv'
<1> USE DEF RetryInv
<1>1. CASE SnapshotPending
  <2> DEFINE batch == {[key |-> k, epoch |-> pending[k]] : k \in Pending}
  <2>1. batch \subseteq Entry
    BY DEF TypeOK, Pending, Entry
  <2>2. worker' = [pc |-> IF batch = {} THEN "check" ELSE "send", batch |-> batch]
    BY <1>1 DEF SnapshotPending
  <2> HIDE DEF batch
  <2>3. /\ worker' \in [pc : {"off", "sleep", "send", "check", "clear", "finish"},
                        batch : SUBSET Entry]
        /\ worker'.pc # "off"
    BY <2>1, <2>2
  <2> QED
    BY <1>1, <2>3 DEF SnapshotPending, TypeOK, WorkerStarted, EntriesHaveWorker,
         MissesAreQueued, Pending
<1>2. ASSUME NEW e \in worker.batch, RemovePending(e)
      PROVE  RetryInv'
  <2>1. e.key \in Keys /\ e.epoch \in Nat
    BY DEF TypeOK, Entry
  <2>2. /\ worker' \in [pc : {"off", "sleep", "send", "check", "clear", "finish"},
                        batch : SUBSET Entry]
        /\ worker'.pc # "off"
    BY <1>2, AfterEntryType DEF RemovePending
  <2>3. worker.pc # "off"
    BY <1>2 DEF RemovePending
  <2>4. /\ pending' \in [Keys -> Nat]
        /\ \A j \in Keys : \/ pending'[j] = pending[j]
                           \/ j = e.key /\ pending[j] <= e.epoch
    <3>1. CASE pending[e.key] > e.epoch
      BY <1>2, <3>1 DEF RemovePending, TypeOK
    <3>2. CASE ~(pending[e.key] > e.epoch)
      <4>1. pending' = [pending EXCEPT ![e.key] = 0]
        BY <1>2, <3>2 DEF RemovePending
      <4>2. pending[e.key] <= e.epoch
        BY <2>1, <3>2 DEF TypeOK
      <4> QED BY <2>1, <4>1, <4>2 DEF TypeOK
    <3> QED BY <3>1, <3>2
  <2>5. MissesAreQueued'
    <3>1. UNCHANGED <<applied, owed, untracked>> /\ applied[e.key] >= e.epoch
      BY <1>2 DEF RemovePending
    <3> QED BY <2>1, <2>4, <3>1 DEF MissesAreQueued, TypeOK
  <2> QED
    BY <1>2, <2>2, <2>3, <2>4, <2>5 DEF RemovePending, TypeOK, WorkerStarted,
         EntriesHaveWorker
<1>3. ASSUME NEW e \in worker.batch, RetryArrives(e)
      PROVE  RetryInv'
  <2>1. e.key \in Keys /\ e.epoch \in Nat
    BY DEF TypeOK, Entry
  <2>2. /\ applied' \in [Keys -> Nat]
        /\ \A j \in Keys : applied'[j] = IF j = e.key THEN Larger(applied[e.key], e.epoch)
                                        ELSE applied[j]
    <3>1. Applied(e.key, e.epoch)
      BY <1>3 DEF RetryArrives
    <3> QED BY <2>1, <3>1, AppliedRaise
  <2>3. MissesAreQueued'
    BY <1>3, <2>1, <2>2 DEF RetryArrives, MissesAreQueued, TypeOK, Larger
  <2> QED
    BY <1>3, <2>2, <2>3 DEF RetryArrives, TypeOK, WorkerStarted, EntriesHaveWorker,
         Pending
<1>4. ASSUME NEW e \in worker.batch, RetryFails(e)
      PROVE  RetryInv'
  <2>1. /\ worker' \in [pc : {"off", "sleep", "send", "check", "clear", "finish"},
                        batch : SUBSET Entry]
        /\ worker'.pc # "off" /\ worker.pc # "off"
    BY <1>4, AfterEntryType DEF RetryFails
  <2> QED
    BY <1>4, <2>1 DEF RetryFails, TypeOK, WorkerStarted, EntriesHaveWorker,
         MissesAreQueued, Pending
<1>5. CASE CheckRecovered
  <2>1. raced' \in BOOLEAN
    <3>1. raced \in BOOLEAN /\ Queueing \in BOOLEAN
      BY Zenon DEF TypeOK, Queueing
    <3> QED BY <1>5, <3>1, Zenon DEF CheckRecovered
  <2> QED
    BY <1>5, <2>1 DEF CheckRecovered, TypeOK, WorkerStarted, EntriesHaveWorker,
         MissesAreQueued, Pending
<1>6. CASE ClearDegraded
  <2>1. raced' \in BOOLEAN
    <3>1. raced \in BOOLEAN /\ Queueing \in BOOLEAN
      BY Zenon DEF TypeOK, Queueing
    <3> QED BY <1>6, <3>1, Zenon DEF ClearDegraded
  <2> QED
    BY <1>6, <2>1 DEF ClearDegraded, TypeOK, WorkerStarted, EntriesHaveWorker,
         MissesAreQueued, Pending
<1>7. CASE FinishIfIdle
  <2>1. CASE Pending = {}
    BY <1>7, <2>1 DEF FinishIfIdle, TypeOK, WorkerStarted, EntriesHaveWorker,
         MissesAreQueued, Pending, WorkerOff
  <2>2. CASE Pending # {}
    BY <1>7, <2>2 DEF FinishIfIdle, TypeOK, WorkerStarted, EntriesHaveWorker,
         MissesAreQueued, Pending
  <2> QED BY <2>1, <2>2
<1> QED
  BY <1>1, <1>2, <1>3, <1>4, <1>5, <1>6, <1>7 DEF WorkerStep

LEMMA RetryInvariant == Spec => []RetryInv
<1>1. RetryInv /\ [Next]_vars => RetryInv'
  <2>1. ASSUME RetryInv, Next PROVE RetryInv'
    BY <2>1, HandlerSteps, WorkerSteps DEF Next
  <2>2. ASSUME RetryInv, UNCHANGED vars PROVE RetryInv'
    BY <2>2 DEF vars, RetryInv, TypeOK, WorkerStarted, EntriesHaveWorker,
         MissesAreQueued, Pending
  <2> QED BY <2>1, <2>2
<1> QED
  BY <1>1, RetryInit, PTL DEF Spec

-----------------------------------------------------------------------------
(* Readiness.  While no miss has raced with the worker, a ready proxy has  *)
(* no handler between its mark and its queue entry, and a worker about to  *)
(* clear the mark has seen every miss confirmed.                           *)
ReadyInv ==
    /\ degraded = "none" /\ ~raced => Confirmed /\ ~Queueing
    /\ worker.pc = "clear" /\ ~raced => Confirmed

LEMMA ReadyInit == Init => ReadyInv
<1>1. Init => Confirmed
  BY DEF Init, Confirmed
<1>2. Init => ~Queueing
  BY DEF Init, Queueing, HandlerIdle
<1>3. Init => worker.pc # "clear"
  BY DEF Init, WorkerOff
<1> QED BY <1>1, <1>2, <1>3 DEF ReadyInv

(* An empty queue that has lost nothing has every miss confirmed. *)
LEMMA EmptyIsConfirmed ==
    ASSUME TypeOK, MissesAreQueued, Pending = {}, ~untracked
    PROVE  Confirmed
<1>1. SUFFICES ASSUME NEW k \in Keys PROVE applied[k] >= owed[k]
  BY DEF Confirmed
<1>2. pending[k] = 0
  BY DEF Pending
<1>3. applied[k] \in Nat /\ owed[k] \in Nat
  BY DEF TypeOK
<1> QED BY <1>2, <1>3 DEF MissesAreQueued

(* Confirmed misses stay so when peers reach later epochs and nothing new  *)
(* is owed.                                                                *)
LEMMA ConfirmedStays ==
    ASSUME TypeOK, Confirmed, UNCHANGED owed, applied' \in [Keys -> Nat],
           \A k \in Keys : applied'[k] >= applied[k]
    PROVE  Confirmed'
BY DEF Confirmed, TypeOK

(* A step of one handler that does not take it to its queue entry. *)
LEMMA NotQueueing ==
    ASSUME TypeOK, ~Queueing, NEW h \in Handlers, NEW new, new.pc # "enqueue",
           handler' = [handler EXCEPT ![h] = new]
    PROVE  ~Queueing'
BY DEF Queueing, TypeOK

LEMMA NextPeerNotQueueing ==
    ASSUME TypeOK, ~Queueing, NEW h \in Handlers, NEW p, NextPeer(h, p)
    PROVE  ~Queueing'
<1> DEFINE rd == handler[h]
           next == [rd EXCEPT !.pc = "send", !.left = rd.left \ {p}, !.failed = None]
           new == IF rd.left = {p} THEN HandlerIdle("done") ELSE next
<1>1. rd \in HandlerRecord
  BY DEF TypeOK
<1>2. next.pc = "send"
  <2> HIDE DEF rd
  <2> QED BY <1>1 DEF HandlerRecord
<1>3. new.pc # "enqueue"
  <2> HIDE DEF next, rd
  <2> QED BY <1>2 DEF HandlerIdle
<1>4. handler' = [handler EXCEPT ![h] = new]
  BY DEF NextPeer
<1> HIDE DEF new
<1> QED BY <1>3, <1>4, NotQueueing

LEMMA ReadyHandlerSteps ==
    ASSUME RetryInv, ReadyInv, NEW h \in Handlers, HandlerStep(h)
    PROVE  ReadyInv'
<1>0. TypeOK
  BY DEF RetryInv
<1>1. ASSUME NEW t \in Targets, InvalidateLocally(h, t)
      PROVE  ReadyInv'
  <2> DEFINE new == [pc |-> "send", target |-> t, epoch |-> generation[t] + 1,
                     left |-> Peers, failed |-> None]
  <2>1. new.pc # "enqueue"
    OBVIOUS
  <2>2. handler' = [handler EXCEPT ![h] = new]
    BY <1>1 DEF InvalidateLocally
  <2> HIDE DEF new
  <2>3. ~Queueing => ~Queueing'
    BY <1>0, <2>1, <2>2, NotQueueing
  <2>4. UNCHANGED <<applied, owed, worker, degraded, raced>>
    BY <1>1 DEF InvalidateLocally
  <2> QED BY <2>3, <2>4, Zenon DEF ReadyInv, Confirmed
<1>2. ASSUME NEW t \in Targets, InvalidationFails(h, t)
      PROVE  ReadyInv'
  <2>1. HandlerIdle("done").pc # "enqueue"
    BY DEF HandlerIdle
  <2>2. handler' = [handler EXCEPT ![h] = HandlerIdle("done")]
    BY <1>2 DEF InvalidationFails
  <2>3. ~Queueing => ~Queueing'
    BY <1>0, <2>1, <2>2, NotQueueing
  <2>4. UNCHANGED <<applied, owed, worker, raced>>
    BY <1>2 DEF InvalidationFails
  <2>5. degraded' = "none" => degraded = "none"
    BY <1>2 DEF InvalidationFails, MarkDegraded
  <2> QED BY <2>3, <2>4, <2>5, Zenon DEF ReadyInv, Confirmed
<1>3. ASSUME NEW p \in Peers, SendPeerInvalidation(h, p)
      PROVE  ReadyInv'
  <2> DEFINE k == <<p, handler[h].target>>
             epoch == handler[h].epoch
  <2>1. k \in Keys /\ epoch \in Nat
    BY <1>0, <1>3, Sending DEF SendPeerInvalidation, TypeOK, Keys
  <2>2. Applied(k, epoch) /\ Over(k, epoch)
    BY <1>3 DEF SendPeerInvalidation
  <2> HIDE DEF k, epoch
  <2>3. /\ applied' \in [Keys -> Nat]
        /\ \A j \in Keys : applied'[j] = IF j = k THEN Larger(applied[k], epoch) ELSE applied[j]
    BY <1>0, <2>1, <2>2, AppliedRaise
  <2>4. \A j \in Keys : owed'[j] = IF j = k THEN Larger(owed[k], epoch) ELSE owed[j]
    BY <1>0, <2>1, <2>2, OwedRaise
  <2>5. Confirmed => Confirmed'
    BY <1>0, <2>1, <2>3, <2>4 DEF Confirmed, TypeOK, Larger
  <2>6. ~Queueing => ~Queueing'
    BY <1>0, <1>3, NextPeerNotQueueing DEF SendPeerInvalidation
  <2>7. UNCHANGED <<worker, degraded, raced>>
    BY <1>3 DEF SendPeerInvalidation
  <2> QED BY <2>5, <2>6, <2>7, Zenon DEF ReadyInv
<1>4. ASSUME NEW p \in Peers, SendFails(h, p)
      PROVE  ReadyInv'
  <2> DEFINE rd == handler[h]
             new == [rd EXCEPT !.pc = "mark", !.failed = p]
  <2>1. rd \in HandlerRecord /\ rd.pc = "send"
    BY <1>0, <1>4 DEF SendFails, TypeOK
  <2>2. handler' = [handler EXCEPT ![h] = new]
    BY <1>4 DEF SendFails
  <2>3. /\ rd.target \in Targets /\ rd.epoch \in Nat
        /\ UNCHANGED applied \/ Applied(<<p, rd.target>>, rd.epoch)
    BY <1>4, <2>1, Sending DEF SendFails
  <2> HIDE DEF rd
  <2>4. new.pc # "enqueue"
    BY <2>1 DEF HandlerRecord
  <2> HIDE DEF new
  <2>5. ~Queueing => ~Queueing'
    BY <1>0, <2>2, <2>4, NotQueueing
  <2>6. applied' \in [Keys -> Nat] /\ \A j \in Keys : applied'[j] >= applied[j]
    <3>1. CASE UNCHANGED applied
      BY <1>0, <3>1 DEF TypeOK
    <3>2. CASE Applied(<<p, rd.target>>, rd.epoch)
      <4> DEFINE k == <<p, rd.target>>
      <4>1. k \in Keys /\ Applied(k, rd.epoch)
        BY <2>3, <3>2 DEF Keys
      <4> HIDE DEF k
      <4>2. /\ applied' \in [Keys -> Nat]
            /\ \A j \in Keys :
                  applied'[j] = IF j = k THEN Larger(applied[k], rd.epoch) ELSE applied[j]
        BY <1>0, <2>3, <4>1, AppliedRaise
      <4> QED BY <1>0, <2>3, <4>1, <4>2 DEF TypeOK, Larger
    <3> QED BY <2>3, <3>1, <3>2
  <2>7. UNCHANGED <<owed, worker, degraded, raced>>
    BY <1>4 DEF SendFails
  <2>8. Confirmed => Confirmed'
    BY <1>0, <2>6, <2>7, ConfirmedStays
  <2> QED BY <2>5, <2>7, <2>8, Zenon DEF ReadyInv
<1>5. CASE MarkPeerFailure(h)
  <2>1. degraded' # "none"
    BY <1>5 DEF MarkPeerFailure, MarkDegraded
  <2>2. UNCHANGED <<applied, owed, worker, raced>>
    BY <1>5 DEF MarkPeerFailure
  <2> QED BY <2>1, <2>2, Zenon DEF ReadyInv, Confirmed
<1>6. CASE EnqueueRetry(h)
  <2>1. Queueing
    BY <1>6 DEF EnqueueRetry, Queueing
  <2>2. UNCHANGED degraded /\ raced' = (raced \/ worker.pc = "clear")
    BY <1>6 DEF EnqueueRetry
  <2>3. worker'.pc = "clear" => worker.pc = "clear"
    BY <1>6 DEF EnqueueRetry
  <2> QED BY <2>1, <2>2, <2>3, Zenon DEF ReadyInv
<1> QED
  BY <1>1, <1>2, <1>3, <1>4, <1>5, <1>6 DEF HandlerStep

LEMMA ReadyWorkerSteps ==
    ASSUME RetryInv, ReadyInv, WorkerStep
    PROVE  ReadyInv'
<1>0. TypeOK /\ MissesAreQueued
  BY DEF RetryInv
<1>1. CASE SnapshotPending
  <2>1. worker'.pc # "clear"
    BY <1>1 DEF SnapshotPending
  <2>2. UNCHANGED <<applied, owed, degraded, handler, raced>>
    BY <1>1 DEF SnapshotPending
  <2> QED BY <2>1, <2>2, Zenon DEF ReadyInv, Confirmed, Queueing
<1>2. ASSUME NEW e \in worker.batch, RemovePending(e) \/ RetryFails(e)
      PROVE  ReadyInv'
  <2>1. worker'.pc # "clear"
    BY <1>2 DEF RemovePending, RetryFails, AfterEntry
  <2>2. UNCHANGED <<applied, owed, degraded, handler, raced>>
    BY <1>2 DEF RemovePending, RetryFails
  <2> QED BY <2>1, <2>2, Zenon DEF ReadyInv, Confirmed, Queueing
<1>3. ASSUME NEW e \in worker.batch, RetryArrives(e)
      PROVE  ReadyInv'
  <2>1. e.key \in Keys /\ e.epoch \in Nat
    BY <1>0 DEF TypeOK, Entry
  <2>2. /\ applied' \in [Keys -> Nat]
        /\ \A j \in Keys : applied'[j] = IF j = e.key THEN Larger(applied[e.key], e.epoch)
                                        ELSE applied[j]
    <3>1. Applied(e.key, e.epoch)
      BY <1>3 DEF RetryArrives
    <3> QED BY <1>0, <2>1, <3>1, AppliedRaise
  <2>3. \A j \in Keys : applied'[j] >= applied[j]
    BY <1>0, <2>1, <2>2 DEF TypeOK, Larger
  <2>4. UNCHANGED <<owed, worker, degraded, handler, raced>>
    BY <1>3 DEF RetryArrives
  <2>5. Confirmed => Confirmed'
    BY <1>0, <2>2, <2>3, <2>4, ConfirmedStays
  <2> QED BY <2>4, <2>5, Zenon DEF ReadyInv, Queueing
<1>4. CASE CheckRecovered
  <2>1. UNCHANGED <<applied, owed, degraded, handler>>
    BY <1>4 DEF CheckRecovered
  <2>2. CASE Pending = {} /\ ~untracked
    <3>1. Confirmed
      BY <1>0, <2>2, EmptyIsConfirmed
    <3>2. raced' = Queueing
      BY <1>4, <2>2 DEF CheckRecovered
    <3> QED BY <2>1, <3>1, <3>2, Zenon DEF ReadyInv, Confirmed, Queueing
  <2>3. CASE ~(Pending = {} /\ ~untracked)
    <3>1. worker'.pc # "clear" /\ raced' = raced
      BY <1>0, <1>4, <2>3 DEF CheckRecovered, TypeOK
    <3> QED BY <2>1, <3>1, Zenon DEF ReadyInv, Confirmed, Queueing
  <2> QED BY <2>2, <2>3
<1>5. CASE ClearDegraded
  <2>1. worker.pc = "clear" /\ worker'.pc # "clear"
    BY <1>0, <1>5 DEF ClearDegraded, TypeOK
  <2>2. UNCHANGED <<applied, owed, handler>> /\ raced' = (raced \/ Queueing)
    BY <1>5 DEF ClearDegraded
  <2> QED BY <2>1, <2>2, Zenon DEF ReadyInv, Confirmed, Queueing
<1>6. CASE FinishIfIdle
  <2>1. worker'.pc # "clear"
    BY <1>0, <1>6 DEF FinishIfIdle, TypeOK, WorkerOff
  <2>2. UNCHANGED <<applied, owed, degraded, handler, raced>>
    BY <1>6 DEF FinishIfIdle
  <2> QED BY <2>1, <2>2, Zenon DEF ReadyInv, Confirmed, Queueing
<1> QED
  BY <1>1, <1>2, <1>3, <1>4, <1>5, <1>6 DEF WorkerStep

LEMMA ReadyInvariant == Spec => []ReadyInv
<1>1. RetryInv /\ ReadyInv /\ [Next]_vars => ReadyInv'
  <2>1. ASSUME RetryInv, ReadyInv, Next PROVE ReadyInv'
    BY <2>1, ReadyHandlerSteps, ReadyWorkerSteps DEF Next
  <2>2. ASSUME ReadyInv, UNCHANGED vars PROVE ReadyInv'
    BY <2>2, Zenon DEF vars, ReadyInv, Confirmed, Queueing
  <2> QED BY <2>1, <2>2
<1> QED
  BY <1>1, ReadyInit, RetryInvariant, PTL DEF Spec

(* The queue, the worker and the handlers are what TypeOK says, for every  *)
(* ring and every queue limit.                                             *)
THEOREM RetryTypes == Spec => []TypeOK
BY RetryInvariant, PTL DEF RetryInv

(* No interleaving of handlers that enqueue and the worker that removes    *)
(* what it has sent forgets an invalidation a peer has missed.             *)
THEOREM NoMissForgotten == Spec => []MissesAreQueued
BY RetryInvariant, PTL DEF RetryInv

(* The worker never stops over an entry that is still queued.              *)
THEOREM NoEntryStranded == Spec => []EntriesHaveWorker
BY RetryInvariant, PTL DEF RetryInv

(* The worker never makes the proxy ready over a miss it could have known  *)
(* of: one that was queued, or did not fit, before it looked.              *)
THEOREM ReadinessIsEarned == Spec => []ReadyIsConfirmed
<1>1. ReadyInv => ReadyIsConfirmed
  BY Zenon DEF ReadyInv, ReadyIsConfirmed
<1> QED
  BY <1>1, ReadyInvariant, PTL
=============================================================================
