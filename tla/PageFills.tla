------------------------------ MODULE PageFills -----------------------------
(***************************************************************************)
(* How the reads of peer mode wait for one another (internal/proxy,        *)
(* internal/peer): page owners coalesce the fills of a page, take permits  *)
(* for them without waiting, and write every page into the connection of   *)
(* the coordinator that asked for it, which reads it when its turn comes.  *)
(* A coordinator opens the batches of its page owners one after the other  *)
(* and reads none of them before all are open.                             *)
(*                                                                         *)
(* The reads are of one object that nobody writes; which version a page is *)
(* of, and what a refused batch does to the epochs, is in DistributedRead. *)
(* A worker is the handler of one read at one peer: serveInternalPageRead  *)
(* at an owner, streamPageSpan at the coordinator itself.  A page that the *)
(* buffers of a connection do not hold is written as the coordinator reads *)
(* it; a small one is written at once.                                     *)
(***************************************************************************)
EXTENDS Integers, FiniteSets

CONSTANTS None,
          Peers,
          Indexes,      \* page indexes of the object
          Owner,        \* Owner[i]: the peer that stores page i
          Small,        \* pages that the buffers of a connection hold
          Readers,      \* read requests of clients
          Requests,     \* per read: peers it may reach and pages it may ask for
          PeerLimit,    \* capacity of peerFillSem
          ObjectLimit,  \* objectFillLimit
          MaxFaults     \* bound: errors, evictions and clients that go away

ASSUME PageFillsAssumption ==
    /\ Indexes \subseteq Nat
    /\ Owner \in [Indexes -> Peers]
    /\ Small \subseteq Indexes
    /\ IsFiniteSet(Readers) /\ None \notin Readers
    /\ \A r \in Readers : \A req \in Requests[r] :
          /\ req.peer \in Peers
          /\ req.first \in Indexes /\ req.last \in Indexes
          /\ req.first <= req.last /\ req.first .. req.last \subseteq Indexes
    /\ PeerLimit \in Nat /\ ObjectLimit \in Nat /\ MaxFaults \in Nat

VARIABLES cached,     \* pages stored at their owner
          fills,      \* pageFills: the read whose worker fills the page, or None
          global,     \* per peer: permits taken from peerFillSem
          perObject,  \* per peer: permits taken from the object's semaphore
          worker,     \* per read and peer
          frames,     \* per read and peer: pages in the connection's buffers
          cut,        \* per read and peer: the connection's context is done
          read,       \* reads, at their coordinator
          faults      \* faults so far

permits == <<global, perObject>>
links   == <<frames, cut>>
vars    == <<cached, fills, permits, worker, links, read, faults>>

ReadIdle == [pc |-> "idle", peer |-> None, at |-> 0, last |-> 0, opened |-> {},
             asked |-> None]
WorkIdle == [pc |-> "idle", todo |-> {}, on |-> None, err |-> FALSE,
             committed |-> FALSE, complete |-> FALSE]

Init ==
    /\ cached = {}
    /\ fills = [i \in Indexes |-> None]
    /\ global = [p \in Peers |-> 0]
    /\ perObject = [p \in Peers |-> 0]
    /\ worker = [r \in Readers |-> [p \in Peers |-> WorkIdle]]
    /\ frames = [r \in Readers |-> [p \in Peers |-> {}]]
    /\ cut = [r \in Readers |-> [p \in Peers |-> FALSE]]
    /\ read = [r \in Readers |-> ReadIdle]
    /\ faults = 0

Ends == {"done", "aborted"}
Running(r) == read[r].pc \notin {"idle"} \cup Ends

Step(r, rd) == read' = [read EXCEPT ![r] = rd]
Work(r, o, wk) == worker' = [worker EXCEPT ![r][o] = wk]

(* The pages of a handler are in increasing order. *)
NextPage(wk) == CHOOSE i \in wk.todo : \A j \in wk.todo : i <= j

WorkEnded(wk, complete) ==
    [WorkIdle EXCEPT !.pc = "ended", !.committed = wk.committed, !.complete = complete]

(* One page is served; WriteEnd after the last one. *)
Served(wk) ==
    LET left == wk.todo \ {NextPage(wk)}
    IN  IF left = {} THEN WorkEnded(wk, TRUE)
        ELSE [wk EXCEPT !.pc = "open", !.todo = left, !.on = None]

-----------------------------------------------------------------------------
(* The coordinator.                                                        *)

PagesAt(rd, o) == {i \in rd.at .. rd.last : Owner[i] = o}

BatchesLeft(rd) == {o \in Peers \ ({rd.peer} \cup rd.opened) : PagesAt(rd, o) # {}}

(* openCoordinatorPageBatches goes on, or the response begins. *)
Opened(rd) == [rd EXCEPT !.asked = None,
                         !.pc = IF BatchesLeft(rd) = {} THEN "stream" ELSE "opening"]

(* serveDistributedPageRead *)
Start(r, req) ==
    /\ read[r].pc = "idle"
    /\ Step(r, Opened([ReadIdle EXCEPT !.peer = req.peer, !.at = req.first,
                                       !.last = req.last]))
    /\ UNCHANGED <<cached, fills, permits, worker, links>>

(* openRemoteCoordinatorPageBatch: the request *)
OpenBatch(r, o) ==
    /\ read[r].pc = "opening"
    /\ o \in BatchesLeft(read[r])
    /\ Step(r, [read[r] EXCEPT !.pc = "await", !.asked = o])
    /\ Work(r, o, [WorkIdle EXCEPT !.pc = "open", !.todo = PagesAt(read[r], o)])
    /\ UNCHANGED <<cached, fills, permits, links>>

(* The header of the answer is there. *)
BatchAnswered(r) ==
    LET rd == read[r]
    IN  /\ rd.pc = "await"
        /\ worker[r][rd.asked].committed
        /\ Step(r, Opened([rd EXCEPT !.opened = @ \cup {rd.asked}]))
        /\ UNCHANGED <<cached, fills, permits, worker, links>>

(* closeCoordinatorPageBatches, and the end of the request's context *)
Closed(r) == cut' = [cut EXCEPT ![r] = [p \in Peers |-> TRUE]]

(* An error status, or no answer in time: the read falls back to upstream. *)
BatchRefused(r) ==
    LET rd == read[r]
    IN  /\ rd.pc = "await"
        /\ \/ worker[r][rd.asked].pc = "ended" /\ ~worker[r][rd.asked].committed
           \/ cut[r][rd.asked]
        /\ Step(r, [ReadIdle EXCEPT !.pc = "forward"])
        /\ Closed(r)
        /\ UNCHANGED <<cached, fills, permits, worker, frames>>

Forward(r) ==
    /\ read[r].pc = "forward"
    /\ Step(r, [ReadIdle EXCEPT !.pc = "done"])
    /\ UNCHANGED <<cached, fills, permits, worker, links>>

(* Mutant: the last page is not the end of the plan. *)
DeliveredPastEnd(rd) ==
    IF rd.at <= rd.last THEN [rd EXCEPT !.pc = "stream", !.at = @ + 1]
    ELSE [rd EXCEPT !.pc = "ends"]

(* streamCoordinatorPageSpans goes on to the next page. *)
Delivered(rd) ==
    IF rd.at < rd.last THEN [rd EXCEPT !.pc = "stream", !.at = @ + 1]
    ELSE [rd EXCEPT !.pc = "ends"]

(* abortCommittedResponse *)
Abort(r) ==
    /\ Step(r, [ReadIdle EXCEPT !.pc = "aborted"])
    /\ Closed(r)
    /\ UNCHANGED <<cached, fills, permits, worker, frames>>

(* A frame that waits in the buffers *)
TakeFrame(r) ==
    LET rd == read[r]
        o == Owner[rd.at]
    IN  /\ rd.pc = "stream" /\ rd.at \in frames[r][o]
        /\ frames' = [frames EXCEPT ![r][o] = @ \ {rd.at}]
        /\ Step(r, Delivered(rd))
        /\ UNCHANGED <<cached, fills, permits, worker, cut>>

(* A frame that its owner writes as it is read: what becomes of its worker *)
FrameWritten(wk) == IF wk.pc = "write" THEN [wk EXCEPT !.pc = "commit"] ELSE Served(wk)

Writes(wk) == wk.pc \in {"write", "send"}

CopyFrame(r) ==
    LET rd == read[r]
        o == Owner[rd.at]
        wk == worker[r][o]
    IN  /\ rd.pc = "stream" /\ o # rd.peer /\ ~cut[r][o]
        /\ Writes(wk) /\ NextPage(wk) = rd.at
        /\ Work(r, o, FrameWritten(wk))
        /\ Step(r, Delivered(rd))
        /\ UNCHANGED <<cached, fills, permits, links>>

(* The answer ends before the frame, or its deadline passes. *)
FrameMissing(r) ==
    LET rd == read[r]
        o == Owner[rd.at]
    IN  /\ rd.pc = "stream" /\ o # rd.peer
        /\ cut[r][o] \/ (worker[r][o].pc = "ended" /\ rd.at \notin frames[r][o])
        /\ Abort(r)

(* streamPageSpan for a page of the coordinator's own *)
StreamLocal(r) ==
    LET rd == read[r]
    IN  /\ rd.pc = "stream" /\ Owner[rd.at] = rd.peer
        /\ Step(r, [rd EXCEPT !.pc = "local"])
        /\ Work(r, rd.peer, [WorkIdle EXCEPT !.pc = "open", !.todo = {rd.at}])
        /\ UNCHANGED <<cached, fills, permits, links>>

LocalServed(r) ==
    LET rd == read[r]
    IN  /\ rd.pc = "local" /\ worker[r][rd.peer].pc = "ended"
        /\ IF worker[r][rd.peer].complete
           THEN /\ Step(r, Delivered(rd))
                /\ UNCHANGED <<cached, fills, permits, worker, links>>
           ELSE Abort(r)

(* Every page was copied: each batch must end with its end frame. *)
FinishBatches(r) ==
    LET rd == read[r]
    IN  /\ rd.pc = "ends"
        /\ \/ /\ \A o \in rd.opened : worker[r][o].complete
              /\ Step(r, [ReadIdle EXCEPT !.pc = "done"])
              /\ Closed(r)
              /\ UNCHANGED <<cached, fills, permits, worker, frames>>
           \/ /\ \E o \in rd.opened :
                    \/ worker[r][o].pc = "ended" /\ ~worker[r][o].complete
                    \/ cut[r][o]
              /\ Abort(r)

(* The client closes its connection. *)
ClientGone(r) == Running(r) /\ Abort(r)

(* peer.forward_timeout, from the request for a batch to its last frame *)
Expire(r, o) ==
    /\ o \in read[r].opened \cup {read[r].asked}
    /\ ~cut[r][o]
    /\ cut' = [cut EXCEPT ![r][o] = TRUE]
    /\ UNCHANGED <<cached, fills, permits, worker, frames, read>>

(* The read cannot go on by itself: its coordinator waits for an owner     *)
(* whose handler waits for another fill.                                   *)
Stuck(r) ==
    /\ read[r].pc \in {"await", "stream", "local", "ends"}
    /\ \A o \in Peers : worker[r][o].pc \in {"idle", "wait", "write", "send", "ended"}
    /\ \E o \in Peers : worker[r][o].pc = "wait"

(* Mutant: only the reading of frames has a deadline. *)
FrameDeadline(r, o) == Stuck(r) /\ read[r].pc = "stream" /\ Expire(r, o)

(* Sooner or later it passes while the read is stuck; one that passes      *)
(* earlier is a fault.                                                     *)
Deadline(r, o) == Stuck(r) /\ Expire(r, o)

-----------------------------------------------------------------------------
(* A worker: fillAndWriteMissingPageFrame and fillAndStreamMissingPage.    *)

IsLocal(r, o) == read[r].peer = o

(* The first frame commits the answer of an owner. *)
Sending(wk, pc) == [wk EXCEPT !.pc = pc, !.on = None, !.committed = TRUE]

(* openCachedPage, and the OpenPage of a worker whose wait is over *)
OpenPage(r, o) ==
    LET wk == worker[r][o]
    IN  /\ wk.pc \in {"open", "reopen"}
        /\ Work(r, o, IF NextPage(wk) \in cached THEN Sending(wk, "send")
                      ELSE [wk EXCEPT !.pc = "join", !.on = None])
        /\ UNCHANGED <<cached, fills, permits, links, read>>

(* Mutant: every miss leads a fill of its own. *)
LeadFill(r, o) ==
    LET wk == worker[r][o]
    IN  /\ wk.pc = "join"
        /\ fills' = [fills EXCEPT ![NextPage(wk)] = r]
        /\ Work(r, o, [wk EXCEPT !.pc = "acquire", !.err = FALSE])
        /\ UNCHANGED <<cached, permits, links, read>>

(* Under pageFillMu: wait for the fill of another request, or lead one *)
JoinFill(r, o) ==
    LET wk == worker[r][o]
        i == NextPage(wk)
    IN  /\ wk.pc = "join"
        /\ IF fills[i] = None
           THEN /\ fills' = [fills EXCEPT ![i] = r]
                /\ Work(r, o, [wk EXCEPT !.pc = "acquire", !.err = FALSE])
           ELSE /\ Work(r, o, [wk EXCEPT !.pc = "wait", !.on = fills[i]])
                /\ UNCHANGED fills
        /\ UNCHANGED <<cached, permits, links, read>>

(* tryAcquirePeerFill does not wait: errPeerFillOverloaded *)
Overloaded(wk) == [wk EXCEPT !.pc = "delete", !.err = TRUE]

AcquireGlobal(r, o) ==
    LET wk == worker[r][o]
    IN  /\ wk.pc = "acquire"
        /\ IF global[o] < PeerLimit
           THEN /\ global' = [global EXCEPT ![o] = @ + 1]
                /\ Work(r, o, [wk EXCEPT !.pc = "object"])
           ELSE /\ Work(r, o, Overloaded(wk))
                /\ UNCHANGED global
        /\ UNCHANGED <<cached, fills, perObject, links, read>>

(* Mutant: the global permit stays taken when the object has none left. *)
AcquireObjectKeep(r, o) ==
    LET wk == worker[r][o]
    IN  /\ wk.pc = "object"
        /\ IF perObject[o] < ObjectLimit
           THEN /\ perObject' = [perObject EXCEPT ![o] = @ + 1]
                /\ Work(r, o, [wk EXCEPT !.pc = "fetch"])
           ELSE /\ Work(r, o, Overloaded(wk))
                /\ UNCHANGED perObject
        /\ UNCHANGED <<cached, fills, global, links, read>>

AcquireObject(r, o) ==
    LET wk == worker[r][o]
    IN  /\ wk.pc = "object"
        /\ IF perObject[o] < ObjectLimit
           THEN /\ perObject' = [perObject EXCEPT ![o] = @ + 1]
                /\ Work(r, o, [wk EXCEPT !.pc = "fetch"])
                /\ UNCHANGED global
           ELSE /\ global' = [global EXCEPT ![o] = @ - 1]
                /\ Work(r, o, Overloaded(wk))
                /\ UNCHANGED perObject
        /\ UNCHANGED <<cached, fills, links, read>>

(* The upstream store answers; the page is written as it comes in. *)
FetchPage(r, o) ==
    /\ worker[r][o].pc = "fetch"
    /\ Work(r, o, Sending(worker[r][o], "write"))
    /\ UNCHANGED <<cached, fills, permits, links, read>>

(* The fill fails: an upstream error, a short body *)
FillFails(r, o) ==
    /\ worker[r][o].pc \in {"fetch", "write"}
    /\ Work(r, o, [worker[r][o] EXCEPT !.pc = "release", !.err = TRUE])
    /\ UNCHANGED <<cached, fills, permits, links, read>>

(* The client, or the buffers of the connection, take the page. *)
WritePage(r, o) ==
    LET wk == worker[r][o]
    IN  /\ Writes(wk)
        /\ \/ IsLocal(r, o) /\ UNCHANGED frames
           \/ /\ ~IsLocal(r, o) /\ NextPage(wk) \in Small /\ ~cut[r][o]
              /\ frames' = [frames EXCEPT ![r][o] = @ \cup {NextPage(wk)}]
        /\ Work(r, o, FrameWritten(wk))
        /\ UNCHANGED <<cached, fills, permits, cut, read>>

(* PageWriter.Commit *)
CommitPage(r, o) ==
    LET wk == worker[r][o]
    IN  /\ wk.pc = "commit"
        /\ cached' = cached \cup {NextPage(wk)}
        /\ Work(r, o, [wk EXCEPT !.pc = "release"])
        /\ UNCHANGED <<fills, permits, links, read>>

(* The cache does not take the page: an error of the coordinator's own     *)
(* fill, nothing to the fill of an owner                                   *)
StoreFails(r, o) ==
    LET wk == worker[r][o]
    IN  /\ wk.pc = "commit"
        /\ Work(r, o, IF IsLocal(r, o) THEN [wk EXCEPT !.pc = "release", !.err = TRUE]
                      ELSE [wk EXCEPT !.pc = "release"])
        /\ UNCHANGED <<cached, fills, permits, links, read>>

Release(r, o) ==
    /\ worker[r][o].pc = "release"
    /\ global' = [global EXCEPT ![o] = @ - 1]
    /\ perObject' = [perObject EXCEPT ![o] = @ - 1]
    /\ Work(r, o, [worker[r][o] EXCEPT !.pc = "delete"])
    /\ UNCHANGED <<cached, fills, links, read>>

DeleteFill(r, o) ==
    LET wk == worker[r][o]
    IN  /\ wk.pc = "delete"
        /\ fills' = [fills EXCEPT ![NextPage(wk)] = None]
        /\ Work(r, o, [wk EXCEPT !.pc = "close"])
        /\ UNCHANGED <<cached, permits, links, read>>

(* close(call.done): those who wait get the error of the fill, whatever it *)
(* was, or look for the page again.                                        *)
Woken(wk, err) == IF err THEN WorkEnded(wk, FALSE) ELSE [wk EXCEPT !.pc = "reopen"]

Waits(q, o, r) == worker[q][o].pc = "wait" /\ worker[q][o].on = r

(* Mutant: a fill that fails is forgotten without a word to the others. *)
CloseFilled(r, o) ==
    LET wk == worker[r][o]
    IN  /\ wk.pc = "close"
        /\ worker' = [q \in Readers |-> [worker[q] EXCEPT ![o] =
              IF q = r THEN (IF wk.err THEN WorkEnded(wk, FALSE) ELSE Served(wk))
              ELSE IF Waits(q, o, r) /\ ~wk.err THEN Woken(@, FALSE) ELSE @]]
        /\ UNCHANGED <<cached, fills, permits, links, read>>

CloseCall(r, o) ==
    LET wk == worker[r][o]
    IN  /\ wk.pc = "close"
        /\ worker' = [q \in Readers |-> [worker[q] EXCEPT ![o] =
              IF q = r THEN (IF wk.err THEN WorkEnded(wk, FALSE) ELSE Served(wk))
              ELSE IF Waits(q, o, r) THEN Woken(@, wk.err) ELSE @]]
        /\ UNCHANGED <<cached, fills, permits, links, read>>

(* The context of the worker is done: an error wherever it looks at it *)
Cancelled(r, o) ==
    LET wk == worker[r][o]
    IN  /\ cut[r][o]
        /\ \/ /\ wk.pc \in {"open", "reopen", "wait", "send"}
              /\ Work(r, o, WorkEnded(wk, FALSE))
           \/ /\ wk.pc \in {"fetch", "write"}
              /\ Work(r, o, [wk EXCEPT !.pc = "release", !.err = TRUE])
        /\ UNCHANGED <<cached, fills, permits, links, read>>

(* So does PageWriter.Commit, which then stores nothing. *)
CommitCancelled(r, o) == cut[r][o] /\ StoreFails(r, o)

(* Eviction at the owner *)
Evict(i) ==
    /\ i \in cached
    /\ cached' = cached \ {i}
    /\ UNCHANGED <<fills, permits, worker, links, read>>

-----------------------------------------------------------------------------
Coordinate(r) ==
    \/ BatchAnswered(r) \/ BatchRefused(r) \/ Forward(r) \/ TakeFrame(r)
    \/ CopyFrame(r) \/ FrameMissing(r) \/ StreamLocal(r) \/ LocalServed(r)
    \/ FinishBatches(r)
    \/ \E o \in Peers : OpenBatch(r, o) \/ Deadline(r, o)

WorkerStep(r, o) ==
    \/ OpenPage(r, o) \/ JoinFill(r, o) \/ AcquireGlobal(r, o)
    \/ AcquireObject(r, o) \/ FetchPage(r, o) \/ WritePage(r, o)
    \/ CommitPage(r, o) \/ Release(r, o) \/ DeleteFill(r, o)
    \/ CloseCall(r, o) \/ Cancelled(r, o) \/ CommitCancelled(r, o)

Progress ==
    /\ UNCHANGED faults
    /\ \E r \in Readers : Coordinate(r) \/ \E o \in Peers : WorkerStep(r, o)

Fault ==
    /\ faults < MaxFaults
    /\ faults' = faults + 1
    /\ \/ \E r \in Readers : ClientGone(r)
       \/ \E r \in Readers, o \in Peers : \/ FillFails(r, o)
                                          \/ StoreFails(r, o)
                                          \/ Expire(r, o)
       \/ \E i \in Indexes : Evict(i)

Next ==
    \/ Progress
    \/ Fault
    \/ \E r \in Readers : \E req \in Requests[r] : Start(r, req) /\ UNCHANGED faults

Spec == Init /\ [][Next]_vars

(* Handlers go on, the upstream store answers, clients read or go away,    *)
(* and time passes.                                                        *)
FairSpec == Spec /\ WF_vars(Progress)

-----------------------------------------------------------------------------
Fills(wk) == wk.pc \in {"acquire", "object", "fetch", "write", "commit", "release",
                        "delete"}
Leads(wk) == Fills(wk) \/ wk.pc = "close"
HoldsGlobal(wk) == wk.pc \in {"object", "fetch", "write", "commit", "release"}
HoldsObject(wk) == wk.pc \in {"fetch", "write", "commit", "release"}

ReadType == [pc : {"idle", "opening", "await", "stream", "local", "ends", "forward"} \cup Ends,
             peer : Peers \cup {None}, at : Indexes \cup {0}, last : Indexes \cup {0},
             opened : SUBSET Peers, asked : Peers \cup {None}]
WorkType == [pc : {"idle", "open", "reopen", "join", "wait", "send", "acquire", "object",
                   "fetch", "write", "commit", "release", "delete", "close", "ended"},
             todo : SUBSET Indexes, on : Readers \cup {None}, err : BOOLEAN,
             committed : BOOLEAN, complete : BOOLEAN]

(* The state has its type; in particular a read asks for pages of its plan *)
(* only, and permits are never given back below zero.                      *)
TypeOK ==
    /\ cached \subseteq Indexes
    /\ fills \in [Indexes -> Readers \cup {None}]
    /\ global \in [Peers -> Nat]
    /\ perObject \in [Peers -> Nat]
    /\ worker \in [Readers -> [Peers -> WorkType]]
    /\ frames \in [Readers -> [Peers -> SUBSET Indexes]]
    /\ cut \in [Readers -> [Peers -> BOOLEAN]]
    /\ read \in [Readers -> ReadType]
    /\ faults \in 0 .. MaxFaults

(* No permit is lost or given back twice on any path of a fill, and there  *)
(* are never more fills at a peer than its limits allow.                   *)
PermitsAccounted == \A o \in Peers :
    /\ global[o] = Cardinality({r \in Readers : HoldsGlobal(worker[r][o])})
    /\ perObject[o] = Cardinality({r \in Readers : HoldsObject(worker[r][o])})
    /\ global[o] <= PeerLimit /\ perObject[o] <= ObjectLimit

(* A request never waits for a fill that nobody makes: whoever waits is    *)
(* waiting for a request that will still close the call, of the same page. *)
WaitersHaveLeader == \A r, q \in Readers, o \in Peers :
    Waits(r, o, q) => /\ Leads(worker[q][o])
                      /\ NextPage(worker[q][o]) = NextPage(worker[r][o])

(* Concurrent requests for a missing page are coalesced: one of them at a  *)
(* time takes permits for it, fetches it and stores it.                    *)
OneFillPerPage == \A r, q \in Readers, o \in Peers :
    (r # q /\ Fills(worker[r][o]) /\ Fills(worker[q][o]))
        => NextPage(worker[r][o]) # NextPage(worker[q][o])

(* Every read ends and leaves no handler behind, so that nothing waits any *)
(* more and, with PermitsAccounted, every permit is back.  Two reads can   *)
(* wait for each other in a circle, each with a batch open whose page the  *)
(* other one needs; the deadlines break it.                                *)
Settled ==
    /\ \A r \in Readers : ~Running(r)
    /\ \A r \in Readers, o \in Peers : worker[r][o].pc \in {"idle", "ended"}

ReadsFinish == <>[]Settled
=============================================================================
