------------------------- MODULE InvalidationRetry --------------------------
(***************************************************************************)
(* The invalidation broadcast of one peer and its retry queue              *)
(* (internal/proxy/proxy.go).  A write handler advances the object's local *)
(* generation and sends the epoch to every other peer; a send that fails   *)
(* marks the proxy degraded and leaves an entry in a bounded in-memory     *)
(* queue; one worker goroutine retries the entries and makes the proxy     *)
(* ready again.  The queue and the degraded state have a lock each, and    *)
(* the steps below are the critical sections between which the goroutines  *)
(* interleave.                                                             *)
(***************************************************************************)
EXTENDS Naturals, FiniteSets

CONSTANTS Peers,       \* the other peers of the ring
          Targets,     \* objects
          Handlers,    \* requests that invalidate: writes, refetching reads
          RetryLimit,  \* peerInvalidationRetryLimit
          None         \* no object, no peer

ASSUME RetryAssumption ==
    /\ RetryLimit \in Nat \ {0}
    /\ None \notin Peers /\ None \notin Targets

VARIABLES generation,  \* local epoch of each object
          applied,     \* applied[p, t]: epoch peer p has reached
          pending,     \* pending[p, t]: epoch queued for retry, 0 for none
          untracked,   \* an entry did not fit in the queue
          started,     \* the worker goroutine was started
          worker,      \* the worker goroutine
          degraded,    \* "none", "peer" (peer_invalidation_failed) or "other"
          handler,     \* the write handlers
          owed,        \* history: owed[p, t]: epoch whose send to p is over
          raced        \* history: a miss was queued past the recovery check

queue == <<pending, untracked, started>>
vars  == <<generation, applied, queue, worker, degraded, handler, owed, raced>>

Larger(m, n) == IF m < n THEN n ELSE m

(* peerInvalidationRetryKey, pendingPeerInvalidation *)
Keys  == Peers \X Targets
Entry == [key : Keys, epoch : Nat]

Pending == {k \in Keys : pending[k] # 0}

WorkerOff == [pc |-> "off", batch |-> {}]
HandlerIdle(pc) == [pc |-> pc, target |-> None, epoch |-> 0, left |-> {},
                    failed |-> None]

Init ==
    /\ generation = [t \in Targets |-> 0]
    /\ applied = [k \in Keys |-> 0]
    /\ pending = [k \in Keys |-> 0]
    /\ untracked = FALSE
    /\ started = FALSE
    /\ worker = WorkerOff
    /\ degraded = "none"
    /\ handler = [h \in Handlers |-> HandlerIdle("idle")]
    /\ owed = [k \in Keys |-> 0]
    /\ raced = FALSE

(* Mutant: the reason is kept where its code is compared. *)
MarkReason(code) ==
    degraded' = IF degraded = "none" THEN "peer invalidation failed" ELSE degraded

(* markDegradedWithContext: the first reason stays, except that a peer's   *)
(* failure, which may be recovered from, makes room for any other.         *)
MarkDegraded(code) ==
    degraded' = IF degraded = "none" \/ (degraded = "peer" /\ code # "peer")
                THEN code ELSE degraded

-----------------------------------------------------------------------------
(* invalidateObject, broadcastInvalidation                                 *)

InvalidateLocally(h, t) ==
    /\ handler[h].pc = "idle"
    /\ generation' = [generation EXCEPT ![t] = @ + 1]
    /\ handler' = [handler EXCEPT ![h] =
          [pc |-> "send", target |-> t, epoch |-> generation[t] + 1,
           left |-> Peers, failed |-> None]]
    /\ UNCHANGED <<applied, queue, worker, degraded, owed, raced>>

(* Nothing is broadcast when the local invalidation fails, also when it    *)
(* fails on a page file after the generation advanced.  handle marks the   *)
(* proxy degraded after a write; a refetching read only fails.             *)
InvalidationFails(h, t) ==
    /\ handler[h].pc = "idle"
    /\ generation' \in {generation, [generation EXCEPT ![t] = @ + 1]}
    /\ MarkDegraded("other") \/ UNCHANGED degraded
    /\ handler' = [handler EXCEPT ![h] = HandlerIdle("done")]
    /\ UNCHANGED <<applied, queue, worker, owed, raced>>

(* The peer's serveInternalInvalidate: InvalidateObject with a minimum. *)
Applied(k, epoch) == applied' = [applied EXCEPT ![k] = Larger(@, epoch)]

Over(k, epoch) == owed' = [owed EXCEPT ![k] = Larger(@, epoch)]

(* Peer p has been dealt with. *)
NextPeer(h, p) ==
    handler' = [handler EXCEPT ![h] =
                  IF @.left = {p} THEN HandlerIdle("done")
                  ELSE [@ EXCEPT !.pc = "send", !.left = handler[h].left \ {p},
                                 !.failed = None]]

SendPeerInvalidation(h, p) ==
    /\ handler[h].pc = "send"
    /\ p \in handler[h].left
    /\ Applied(<<p, handler[h].target>>, handler[h].epoch)
    /\ Over(<<p, handler[h].target>>, handler[h].epoch)
    /\ NextPeer(h, p)
    /\ UNCHANGED <<generation, queue, worker, degraded, raced>>

(* The peer is not reached, refuses, or its answer is lost. *)
SendFails(h, p) ==
    /\ handler[h].pc = "send"
    /\ p \in handler[h].left
    /\ UNCHANGED applied \/ Applied(<<p, handler[h].target>>, handler[h].epoch)
    /\ handler' = [handler EXCEPT ![h] = [@ EXCEPT !.pc = "mark", !.failed = p]]
    /\ UNCHANGED <<generation, queue, worker, degraded, owed, raced>>

MarkPeerFailure(h) ==
    /\ handler[h].pc = "mark"
    /\ MarkDegraded("peer")
    /\ handler' = [handler EXCEPT ![h] = [@ EXCEPT !.pc = "enqueue"]]
    /\ UNCHANGED <<generation, applied, queue, worker, owed, raced>>

(* enqueuePeerInvalidationRetry: an entry of a later epoch covers this     *)
(* one; a full queue remembers only that it lost something.                *)
EnqueueRetry(h) ==
    LET k == <<handler[h].failed, handler[h].target>>
        epoch == handler[h].epoch
    IN  /\ handler[h].pc = "enqueue"
        /\ IF pending[k] >= epoch THEN UNCHANGED <<queue, worker>>
           ELSE IF pending[k] = 0 /\ Cardinality(Pending) >= RetryLimit
           THEN untracked' = TRUE /\ UNCHANGED <<pending, started, worker>>
           ELSE /\ pending' = [pending EXCEPT ![k] = epoch]
                /\ started' = TRUE
                /\ worker' = IF started THEN worker ELSE [pc |-> "sleep", batch |-> {}]
                /\ UNCHANGED untracked
        /\ Over(k, epoch)
        /\ raced' = (raced \/ worker.pc = "clear")
        /\ NextPeer(h, handler[h].failed)
        /\ UNCHANGED <<generation, applied, degraded>>

-----------------------------------------------------------------------------
(* runPeerInvalidationRetryWorker: snapshot, send each entry, remove what  *)
(* was confirmed, recover if nothing is left, stop if idle.                *)

SnapshotPending ==
    LET batch == {[key |-> k, epoch |-> pending[k]] : k \in Pending}
    IN  /\ worker.pc = "sleep"
        /\ worker' = [pc |-> IF batch = {} THEN "check" ELSE "send", batch |-> batch]
        /\ UNCHANGED <<generation, applied, queue, degraded, handler, owed, raced>>

(* The loop over the batch goes on with the entries after e. *)
AfterEntry(e) ==
    worker' = [pc |-> IF worker.batch = {e} THEN "check" ELSE "send",
               batch |-> worker.batch \ {e}]

(* Mutant: a confirmed entry is removed even when a later epoch replaced   *)
(* it while it was sent.                                                   *)
RemoveSent(e) ==
    /\ worker.pc = "send"
    /\ e \in worker.batch
    /\ applied[e.key] >= e.epoch
    /\ pending' = [pending EXCEPT ![e.key] = 0]
    /\ AfterEntry(e)
    /\ UNCHANGED <<generation, applied, untracked, started, degraded, handler, owed, raced>>

(* removePendingPeerInvalidation, after the peer confirmed e *)
RemovePending(e) ==
    /\ worker.pc = "send"
    /\ e \in worker.batch
    /\ applied[e.key] >= e.epoch
    /\ pending' = IF pending[e.key] > e.epoch THEN pending
                  ELSE [pending EXCEPT ![e.key] = 0]
    /\ AfterEntry(e)
    /\ UNCHANGED <<generation, applied, untracked, started, degraded, handler, owed, raced>>

(* The retried request reaches the peer. *)
RetryArrives(e) ==
    /\ worker.pc = "send"
    /\ e \in worker.batch
    /\ applied[e.key] < e.epoch
    /\ Applied(e.key, e.epoch)
    /\ UNCHANGED <<generation, queue, worker, degraded, handler, owed, raced>>

(* It does not, or its answer does not come back: the entry stays queued. *)
RetryFails(e) ==
    /\ worker.pc = "send"
    /\ e \in worker.batch
    /\ AfterEntry(e)
    /\ UNCHANGED <<generation, applied, queue, degraded, handler, owed, raced>>

(* A handler has marked the proxy and not yet queued the miss. *)
Queueing == \E h \in Handlers : handler[h].pc = "enqueue"

(* Mutant: an overflow of the queue does not stand in the way. *)
CheckQueueOnly ==
    /\ worker.pc = "check"
    /\ worker' = [worker EXCEPT !.pc = IF Pending = {} THEN "clear" ELSE "finish"]
    /\ raced' = IF Pending = {} THEN Queueing ELSE raced
    /\ UNCHANGED <<generation, applied, queue, degraded, handler, owed>>

(* clearPeerInvalidationDegradedIfRecovered: the queue is looked at under  *)
(* its lock, the state cleared under the other one.                        *)
CheckRecovered ==
    LET recovered == Pending = {} /\ ~untracked
    IN  /\ worker.pc = "check"
        /\ worker' = [worker EXCEPT !.pc = IF recovered THEN "clear" ELSE "finish"]
        /\ raced' = IF recovered THEN Queueing ELSE raced
        /\ UNCHANGED <<generation, applied, queue, degraded, handler, owed>>

ClearDegraded ==
    /\ worker.pc = "clear"
    /\ degraded' = IF degraded = "peer" THEN "none" ELSE degraded
    /\ worker' = [worker EXCEPT !.pc = "finish"]
    /\ raced' = (raced \/ Queueing)
    /\ UNCHANGED <<generation, applied, queue, handler, owed>>

(* Mutant: the worker stops on what the last check saw. *)
FinishUnlocked ==
    /\ worker.pc = "finish"
    /\ started' = FALSE
    /\ worker' = WorkerOff
    /\ UNCHANGED <<generation, applied, pending, untracked, degraded, handler, owed, raced>>

FinishIfIdle ==
    /\ worker.pc = "finish"
    /\ started' = (Pending # {})
    /\ worker' = IF Pending = {} THEN WorkerOff ELSE [worker EXCEPT !.pc = "sleep"]
    /\ UNCHANGED <<generation, applied, pending, untracked, degraded, handler, owed, raced>>

-----------------------------------------------------------------------------
HandlerStep(h) ==
    \/ \E t \in Targets : InvalidateLocally(h, t) \/ InvalidationFails(h, t)
    \/ \E p \in Peers : SendPeerInvalidation(h, p) \/ SendFails(h, p)
    \/ MarkPeerFailure(h)
    \/ EnqueueRetry(h)

WorkerStep ==
    \/ SnapshotPending
    \/ \E e \in worker.batch : RemovePending(e) \/ RetryArrives(e) \/ RetryFails(e)
    \/ CheckRecovered
    \/ ClearDegraded
    \/ FinishIfIdle

Next == (\E h \in Handlers : HandlerStep(h)) \/ WorkerStep

Spec == Init /\ [][Next]_vars

(* The goroutines run, and a peer that is asked over and over is reached   *)
(* and answers at some time.                                               *)
FairSpec ==
    /\ Spec
    /\ WF_vars(WorkerStep)
    /\ \A h \in Handlers :
          WF_vars(MarkPeerFailure(h) \/ EnqueueRetry(h))
    /\ \A k \in Keys :
          SF_vars(\E e \in worker.batch : e.key = k /\ (RetryArrives(e) \/ RemovePending(e)))

-----------------------------------------------------------------------------
(* A handler that is past its local invalidation has an object, one past a *)
(* failed send also the peer it failed for.                                *)
HandlerRecord ==
    [pc : {"idle", "done"}, target : {None}, epoch : Nat, left : SUBSET Peers, failed : {None}]
        \cup [pc : {"send"}, target : Targets, epoch : Nat, left : SUBSET Peers, failed : {None}]
        \cup [pc : {"mark", "enqueue"}, target : Targets, epoch : Nat,
              left : SUBSET Peers, failed : Peers]

(* Types of the queue, the worker and the handlers. *)
TypeOK ==
    /\ generation \in [Targets -> Nat]
    /\ applied \in [Keys -> Nat]
    /\ pending \in [Keys -> Nat]
    /\ owed \in [Keys -> Nat]
    /\ untracked \in BOOLEAN /\ started \in BOOLEAN /\ raced \in BOOLEAN
    /\ worker \in [pc : {"off", "sleep", "send", "check", "clear", "finish"},
                   batch : SUBSET Entry]
    /\ degraded \in {"none", "peer", "other"}
    /\ handler \in [Handlers -> HandlerRecord]

(* No missed invalidation is forgotten: a peer behind an epoch whose send  *)
(* is over has an entry of that epoch or a later one in the queue, or the  *)
(* queue has recorded an overflow (enqueuePeerInvalidationRetry against    *)
(* removePendingPeerInvalidation while a batch is being sent).             *)
MissesAreQueued ==
    \A k \in Keys : applied[k] < owed[k] => pending[k] >= owed[k] \/ untracked

(* Every entry has a worker to retry it: none is added between the         *)
(* worker's last look at the queue and its end without a new worker        *)
(* (finishPeerInvalidationRetryWorkerIfIdle, started).                     *)
EntriesHaveWorker == Pending # {} => worker.pc # "off"

(* Every miss of which the send is over is confirmed by its peer. *)
Confirmed == \A k \in Keys : applied[k] >= owed[k]

(* Readiness is not recovered over a missed invalidation, tracked or not:  *)
(* a proxy that reports itself ready has no peer behind an epoch whose     *)
(* send is over (clearPeerInvalidationDegradedIfRecovered against          *)
(* broadcastInvalidation), unless the miss was queued after the worker had *)
(* found the queue empty and marked before it cleared the mark.            *)
ReadyIsConfirmed == degraded = "none" /\ ~raced => Confirmed

(* A peer that misses an invalidation reaches it in the end, once it       *)
(* answers again, unless the queue overflowed.                             *)
MissesAreRetried ==
    \A k \in Keys : (applied[k] < owed[k]) ~> (applied[k] >= owed[k] \/ untracked)

(* A proxy degraded only by peers that missed invalidations becomes ready  *)
(* again, unless the queue overflowed.                                     *)
ReadinessRecovers == degraded = "peer" ~> (degraded # "peer" \/ untracked)
=============================================================================
