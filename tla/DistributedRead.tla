--------------------------- MODULE DistributedRead --------------------------
(***************************************************************************)
(* Page-sharded reads of one object in peer mode (internal/proxy/proxy.go).*)
(* Every peer has a cache of its own: a generation, an object row and page *)
(* rows, with an epoch that only messages between the peers keep in step.  *)
(*                                                                         *)
(* A client's read is coordinated by the peer it reached.  The coordinator *)
(* plans it with its own metadata, asks the owner of every remote page for *)
(* frames of exactly the planned ETag and epoch, and streams the pages in  *)
(* order.  A page owner takes over the planned epoch when it is behind,    *)
(* refuses when it is ahead, and fills a missing page itself.  Writes are  *)
(* handled by the object's owner, which then invalidates the object        *)
(* everywhere.                                                             *)
(*                                                                         *)
(* A generation row that is missing reads as 0.  Coalesced fills and their *)
(* permits are in PageFills; what a waiting request gets is what a fill    *)
(* of its own could give it.  Bytes on the way between two peers are in    *)
(* RequestPath; the retry queue is in InvalidationRetry.                   *)
(***************************************************************************)
EXTENDS CacheIndex, FiniteSets

CONSTANTS Peers,
          Indexes,      \* page indexes of every version of the object
          PageOwner,    \* PageOwner[i]: the peer that stores page i
          ObjectOwner,  \* the peer that handles writes of the object
          Readers,      \* read requests of clients
          Requests,     \* the peer they reach and the pages they ask for
          Again,        \* whether a client may ask again
          Writers,      \* writes
          Restarts,     \* how a peer may come back: "kept", "empty"
          MaxFaults     \* bound: failed calls and restarts of a behaviour

ASSUME DistributedAssumption ==
    /\ Indexes \subseteq Nat /\ 0 \in Indexes
    /\ \A i \in Indexes : 0 .. i \subseteq Indexes
    /\ PageOwner \in [Indexes -> Peers] /\ ObjectOwner \in Peers
    /\ Requests \subseteq [peer : Peers, first : Indexes, last : Indexes]
    /\ Again \in BOOLEAN
    /\ Restarts \subseteq {"kept", "empty"}
    /\ MaxFaults \in Nat
    /\ None \notin [etag : ETags, epoch : Nat, identity : BOOLEAN]

VARIABLES upstream,    \* the upstream store: the object's version
          generation,  \* per peer: the epoch of its generation row
          object,      \* per peer: [etag, epoch, identity], or None
          pages,       \* per peer and index: [etag, epoch, bytes], or None
          read,        \* reads, at their coordinator
          serve,       \* per read and peer: its request for pages to the peer
          write,       \* writes, at the object's owner
          missed,      \* missed[p][q]: epoch queued at p for q, 0 when none
          faults,      \* failed calls and restarts so far
          recent,      \* history: versions upstream since the last write that
                       \* every peer confirmed
          led          \* history: every write took an epoch above all others

rows  == <<generation, object, pages>>
aside == <<missed, faults, recent, led>>
vars  == <<upstream, rows, read, serve, write, aside>>

NoPages == [i \in Indexes |-> None]

(* A read, and what its client has seen of it. *)
ReadIdle == [pc |-> "idle", peer |-> ObjectOwner, first |-> 0, last |-> 0, at |-> 0,
             plan |-> None, head |-> None, body |-> None, opened |-> {},
             asked |-> None, header |-> None, sent |-> {}, promise |-> {}]

(* A request for pages, as its owner handles it; swapped is a history of   *)
(* whether the owner served another version than it was asked for.         *)
ServeIdle == [pc |-> "idle", plan |-> None, want |-> {}, body |-> None,
              frames |-> NoPages, status |-> "none", complete |-> FALSE,
              epoch |-> 0, todo |-> {}, swapped |-> FALSE]

WriteIdle == [pc |-> "idle", epoch |-> 0, todo |-> {}, failed |-> FALSE, since |-> {}]

Ends == {"done", "failed", "aborted"}
Running(rd) == rd.pc \notin {"idle"} \cup Ends

(* The coordinator still reads the answers of the page owners. *)
Attached(rd) == rd.pc \in {"batch", "await", "stream", "fetch", "begin", "commit", "ends"}

Init ==
    /\ upstream \in ETags
    /\ generation = [p \in Peers |-> 0]
    /\ object = [p \in Peers |-> None]
    /\ pages = [p \in Peers |-> NoPages]
    /\ read = [r \in Readers |-> ReadIdle]
    /\ serve = [r \in Readers |-> [p \in Peers |-> ServeIdle]]
    /\ write = [w \in Writers |-> WriteIdle]
    /\ missed = [p \in Peers |-> [q \in Peers |-> 0]]
    /\ faults = 0
    /\ recent = {upstream}
    /\ led = TRUE

-----------------------------------------------------------------------------
(* Calls of one peer's cache.                                              *)

(* InvalidateObject: the rows it deletes and the epoch it leaves. *)
InvalidateObject(p, minEpoch) ==
    LET deleted == ShouldDeleteObject(object[p], minEpoch)
    IN  /\ generation' = [generation EXCEPT ![p] = NextEpoch(@, minEpoch)]
        /\ object' = IF deleted THEN [object EXCEPT ![p] = None] ELSE object
        /\ pages' = IF deleted THEN [pages EXCEPT ![p] = NoPages] ELSE pages

(* OpenPage: a hit, or a miss that drops the row of another version. *)
PageHit(p, i, plan) == pages[p][i] # None /\ IsPageOf(pages[p][i], plan)
PageLooked(p, i, plan) ==
    pages' = IF PageHit(p, i, plan) THEN pages ELSE [pages EXCEPT ![p][i] = None]

(* validatePageCommit and putPageIfCurrent *)
MayStore(p, plan) == IsCurrent(object[p], generation[p], plan)
Stored(p, i, plan, bytes) ==
    pages' = [pages EXCEPT ![p][i] =
                [etag |-> plan.etag, epoch |-> plan.epoch, bytes |-> bytes]]

Fault == faults < MaxFaults /\ faults' = faults + 1

Step(r, rd) == read' = [read EXCEPT ![r] = rd]
Handle(r, o, sv) == serve' = [serve EXCEPT ![r][o] = sv]

-----------------------------------------------------------------------------
(* The coordinator: metadata.                                              *)

(* The answer is what is left of a read that ended. *)
Ended(rd, pc) ==
    [ReadIdle EXCEPT !.pc = pc, !.header = rd.header, !.sent = rd.sent,
                     !.promise = rd.promise]

(* A new request; the one before it in this place is over at every owner. *)
Start(r, req) ==
    /\ read[r].pc = "idle" \/ (Again /\ read[r].pc \in Ends)
    /\ \A o \in Peers : serve[r][o].pc \in {"idle", "ended"}
    /\ Step(r, [ReadIdle EXCEPT !.pc = "get", !.peer = req.peer, !.first = req.first,
                                !.last = req.last, !.promise = recent])
    /\ serve' = [serve EXCEPT ![r] = [o \in Peers |-> ServeIdle]]
    /\ UNCHANGED <<upstream, rows, write, aside>>

PagesAt(rd, o) == {i \in rd.first .. rd.last : PageOwner[i] = o}

(* openCoordinatorPageBatches: remote owners that were not asked yet. *)
BatchesLeft(rd) ==
    {o \in Peers \ ({rd.peer} \cup rd.opened) : PagesAt(rd, o) # {}}

(* serveDistributedPageRead: the header goes out once every batch is open. *)
Opened(rd) ==
    IF BatchesLeft(rd) # {} THEN [rd EXCEPT !.pc = "batch"]
    ELSE [rd EXCEPT !.pc = "stream", !.header = rd.plan.etag]

Planned(rd, obj) ==
    Opened([rd EXCEPT !.at = rd.first, !.plan = [etag |-> obj.etag, epoch |-> obj.epoch]])

(* ensureObjectMetadata: the row of a page owner has no headers to serve. *)
GetObject(r) ==
    LET rd == read[r]
        obj == object[rd.peer]
    IN  /\ rd.pc = "get"
        /\ Step(r, IF obj = None \/ obj.identity THEN [rd EXCEPT !.pc = "head"]
                   ELSE Planned(rd, obj))
        /\ UNCHANGED <<upstream, rows, serve, write, aside>>

(* fetchMetadata *)
HeadUpstream(r) ==
    /\ read[r].pc = "head"
    /\ Step(r, [read[r] EXCEPT !.pc = "generation", !.head = upstream])
    /\ UNCHANGED <<upstream, rows, serve, write, aside>>

(* PutObject: the generation is read, the object is upserted, the row is   *)
(* read back.                                                              *)
ReadGeneration(r) ==
    LET rd == read[r]
    IN  /\ rd.pc = "generation"
        /\ Step(r, [rd EXCEPT !.pc = "upsert", !.head = None,
                      !.plan = [etag |-> rd.head, epoch |-> generation[rd.peer]]])
        /\ UNCHANGED <<upstream, rows, serve, write, aside>>

UpsertObject(r) ==
    LET rd == read[r]
    IN  /\ rd.pc = "upsert"
        /\ object' = [object EXCEPT ![rd.peer] =
              [etag |-> rd.plan.etag, epoch |-> rd.plan.epoch, identity |-> FALSE]]
        /\ Step(r, [rd EXCEPT !.pc = "reread"])
        /\ UNCHANGED <<upstream, generation, pages, serve, write, aside>>

(* A row that is gone again is errMetadataStore: the read is passed on. *)
RereadObject(r) ==
    LET rd == read[r]
    IN  /\ rd.pc = "reread"
        /\ Step(r, IF object[rd.peer] = None THEN [rd EXCEPT !.pc = "forward"]
                   ELSE Planned(rd, object[rd.peer]))
        /\ UNCHANGED <<upstream, rows, serve, write, aside>>

-----------------------------------------------------------------------------
(* The coordinator: batches of remote pages.                               *)

(* openRemoteCoordinatorPageBatch: the request *)
OpenBatch(r, o) ==
    LET rd == read[r]
    IN  /\ rd.pc = "batch"
        /\ o \in BatchesLeft(rd)
        /\ Step(r, [rd EXCEPT !.pc = "await", !.asked = o])
        /\ Handle(r, o, [ServeIdle EXCEPT !.pc = "get", !.plan = rd.plan,
                                          !.want = PagesAt(rd, o)])
        /\ UNCHANGED <<upstream, rows, write, aside>>

(* The answer is a frame header: the next batch, or the response. *)
BatchAnswered(r) ==
    LET rd == read[r]
    IN  /\ rd.pc = "await"
        /\ serve[r][rd.asked].status = "ok"
        /\ Step(r, Opened([rd EXCEPT !.opened = @ \cup {rd.asked}, !.asked = None]))
        /\ UNCHANGED <<upstream, rows, serve, write, aside>>

(* discardLocalPlanningState before the read falls back: an invalidation   *)
(* of this peer alone                                                      *)
DiscardLocalPlanningState(r) ==
    /\ Step(r, [read[r] EXCEPT !.pc = "forward", !.plan = None, !.asked = None])
    /\ InvalidateObject(read[r].peer, 0)

(* Whatever is not a frame header ends the plan. *)
BatchRefused(r) ==
    /\ read[r].pc = "await"
    /\ serve[r][read[r].asked].status = "refused"
    /\ DiscardLocalPlanningState(r)
    /\ UNCHANGED <<upstream, serve, write, aside>>

(* The owner is not reached, or its answer does not arrive in time. *)
BatchFails(r) ==
    /\ Fault
    /\ read[r].pc = "await"
    /\ DiscardLocalPlanningState(r)
    /\ \/ UNCHANGED serve
       \/ serve[r][read[r].asked].pc = "get" /\ Handle(r, read[r].asked, ServeIdle)
    /\ UNCHANGED <<upstream, write, missed, recent, led>>

(* forward: the upstream's own answer, stored nowhere *)
Forward(r) ==
    /\ read[r].pc = "forward"
    /\ Step(r, Ended([read[r] EXCEPT !.header = upstream, !.sent = {upstream}], "done"))
    /\ UNCHANGED <<upstream, rows, serve, write, aside>>

-----------------------------------------------------------------------------
(* The coordinator: streamCoordinatorPageSpans.                            *)

(* Mutant: the span after the last one is streamed too. *)
DeliveredPastEnd(rd, bytes) ==
    LET copied == [rd EXCEPT !.sent = @ \cup {bytes}, !.body = None]
    IN  IF rd.at <= rd.last THEN [copied EXCEPT !.pc = "stream", !.at = @ + 1]
        ELSE [copied EXCEPT !.pc = "ends"]

Delivered(rd, bytes) ==
    LET copied == [rd EXCEPT !.sent = @ \cup {bytes}, !.body = None]
    IN  IF rd.at < rd.last THEN [copied EXCEPT !.pc = "stream", !.at = @ + 1]
        ELSE [copied EXCEPT !.pc = "ends"]

(* abortCommittedResponse: the connection is closed on a short body. *)
Aborted(rd) == Ended(rd, "aborted")

(* Mutant: the coordinator fills the pages of other owners itself. *)
StreamAnyPage(r) ==
    LET rd == read[r]
    IN  /\ rd.pc = "stream"
        /\ PageLooked(rd.peer, rd.at, rd.plan)
        /\ Step(r, IF PageHit(rd.peer, rd.at, rd.plan)
                   THEN Delivered(rd, pages[rd.peer][rd.at].bytes)
                   ELSE [rd EXCEPT !.pc = "fetch"])
        /\ UNCHANGED <<upstream, generation, object, serve, write, aside>>

(* A page of this peer goes through its own cache. *)
StreamLocalPage(r) ==
    LET rd == read[r]
    IN  /\ rd.pc = "stream"
        /\ PageOwner[rd.at] = rd.peer
        /\ PageLooked(rd.peer, rd.at, rd.plan)
        /\ Step(r, IF PageHit(rd.peer, rd.at, rd.plan)
                   THEN Delivered(rd, pages[rd.peer][rd.at].bytes)
                   ELSE [rd EXCEPT !.pc = "fetch"])
        /\ UNCHANGED <<upstream, generation, object, serve, write, aside>>

(* A remote page is the next frame of its owner's answer. *)
StreamRemotePage(r) ==
    LET rd == read[r]
        sv == serve[r][PageOwner[rd.at]]
    IN  /\ rd.pc = "stream"
        /\ PageOwner[rd.at] # rd.peer
        /\ \/ /\ sv.frames[rd.at] # None
              /\ Step(r, Delivered(rd, sv.frames[rd.at]))
           \/ /\ sv.frames[rd.at] = None /\ sv.pc = "ended"
              /\ Step(r, Aborted(rd))
        /\ UNCHANGED <<upstream, rows, serve, write, aside>>

(* fetchAndStorePage: the ranged GET with If-Match *)
FetchLocalPage(r) ==
    LET rd == read[r]
    IN  /\ rd.pc = "fetch"
        /\ Step(r, IF upstream = rd.plan.etag
                   THEN [rd EXCEPT !.pc = "begin", !.body = upstream]
                   ELSE Aborted(rd))
        /\ UNCHANGED <<upstream, rows, serve, write, aside>>

BeginLocalPage(r) ==
    LET rd == read[r]
    IN  /\ rd.pc = "begin"
        /\ Step(r, IF MayStore(rd.peer, rd.plan) THEN [rd EXCEPT !.pc = "commit"]
                   ELSE Aborted(rd))
        /\ UNCHANGED <<upstream, rows, serve, write, aside>>

(* The bytes went to the client while they were copied to the cache. *)
CommitLocalPage(r) ==
    LET rd == read[r]
    IN  /\ rd.pc = "commit"
        /\ IF MayStore(rd.peer, rd.plan)
           THEN /\ Stored(rd.peer, rd.at, rd.plan, rd.body)
                /\ Step(r, Delivered(rd, rd.body))
           ELSE /\ Step(r, Aborted([rd EXCEPT !.sent = @ \cup {rd.body}]))
                /\ UNCHANGED pages
        /\ UNCHANGED <<upstream, generation, object, serve, write, aside>>

(* Every page was copied: every batch must end with its end frame. *)
FinishBatches(r) ==
    LET rd == read[r]
    IN  /\ rd.pc = "ends"
        /\ \A o \in rd.opened : serve[r][o].pc = "ended"
        /\ Step(r, IF \A o \in rd.opened : serve[r][o].complete
                   THEN Ended(rd, "done") ELSE Aborted(rd))
        /\ UNCHANGED <<upstream, rows, serve, write, aside>>

(* Upstream or the cache fails, or the client goes away: an error status   *)
(* before the header is out, a closed connection after it.  Metadata that  *)
(* cannot be stored only means that the read is passed on.                 *)
ReadFails(r) ==
    LET rd == read[r]
    IN  /\ Fault
        /\ \/ /\ rd.pc \in {"get", "head", "await"}
              /\ Step(r, Ended(rd, "failed"))
           \/ /\ rd.pc \in {"generation", "upsert", "reread"}
              /\ Step(r, [rd EXCEPT !.pc = "forward"])
           \/ /\ rd.pc \in {"stream", "fetch", "begin", "commit", "ends"}
              /\ Step(r, Aborted(rd))
        /\ UNCHANGED <<upstream, rows, serve, write, missed, recent, led>>

-----------------------------------------------------------------------------
(* The page owner: serveInternalPageRead.                                  *)

(* An error is a status before the first frame and a short answer after.   *)
Refused(sv) ==
    [sv EXCEPT !.pc = "ended", !.plan = None, !.want = {}, !.body = None, !.epoch = 0,
               !.todo = {}, !.status = IF sv.status = "ok" THEN "ok" ELSE "refused"]

(* internalPageReadObject: what the owner's own row says of the plan. *)
Admitted(sv, obj) ==
    IF obj # None /\ obj.epoch > sv.plan.epoch THEN Refused(sv)
    ELSE IF obj # None /\ IsPageOf(obj, sv.plan) THEN [sv EXCEPT !.pc = "open"]
    ELSE IF (obj # None /\ obj.epoch = sv.plan.epoch) \/ sv.plan.epoch = 0
    THEN [sv EXCEPT !.pc = "generation"]
    ELSE [sv EXCEPT !.pc = "advance"]

ServeGetObject(r, o) ==
    /\ serve[r][o].pc = "get"
    /\ Handle(r, o, Admitted(serve[r][o], object[o]))
    /\ UNCHANGED <<upstream, rows, read, write, aside>>

(* The owner was behind: it takes over the epoch of the plan. *)
ServeAdvance(r, o) ==
    LET sv == serve[r][o]
    IN  /\ sv.pc = "advance"
        /\ InvalidateObject(o, sv.plan.epoch)
        /\ Handle(r, o, IF generation'[o] # sv.plan.epoch THEN Refused(sv)
                        ELSE [sv EXCEPT !.pc = "generation"])
        /\ UNCHANGED <<upstream, read, write, aside>>

(* PutObject with the identity of the plan *)
ServeReadGeneration(r, o) ==
    LET sv == serve[r][o]
    IN  /\ sv.pc = "generation"
        /\ Handle(r, o, [sv EXCEPT !.pc = "upsert", !.epoch = generation[o]])
        /\ UNCHANGED <<upstream, rows, read, write, aside>>

ServeUpsertObject(r, o) ==
    LET sv == serve[r][o]
    IN  /\ sv.pc = "upsert"
        /\ object' = [object EXCEPT ![o] =
              [etag |-> sv.plan.etag, epoch |-> sv.epoch, identity |-> TRUE]]
        /\ Handle(r, o, [sv EXCEPT !.pc = "reread", !.epoch = 0])
        /\ UNCHANGED <<upstream, generation, pages, read, write, aside>>

(* The row read back is served, whoever wrote it: its epoch is compared    *)
(* with the plan, its ETag is not.                                         *)
ServeRereadObject(r, o) ==
    LET sv == serve[r][o]
        obj == object[o]
    IN  /\ sv.pc = "reread"
        /\ Handle(r, o, IF obj = None \/ obj.epoch # sv.plan.epoch THEN Refused(sv)
                        ELSE [sv EXCEPT !.pc = "open", !.plan = [@ EXCEPT !.etag = obj.etag],
                                        !.swapped = obj.etag # sv.plan.etag])
        /\ UNCHANGED <<upstream, rows, read, write, aside>>

NextPage(sv) == CHOOSE i \in sv.want : \A j \in sv.want : i <= j

(* A frame is on its way; the answer is committed with the first one. *)
Framed(sv, bytes) ==
    [sv EXCEPT !.frames[NextPage(sv)] = bytes, !.status = "ok"]

(* WriteEnd after the last page *)
Served(sv) ==
    LET left == sv.want \ {NextPage(sv)}
    IN  IF left = {} THEN [Refused(sv) EXCEPT !.complete = TRUE]
        ELSE [sv EXCEPT !.pc = "open", !.want = left, !.body = None]

ServeOpenPage(r, o) ==
    LET sv == serve[r][o]
        i == NextPage(sv)
    IN  /\ sv.pc = "open"
        /\ PageLooked(o, i, sv.plan)
        /\ Handle(r, o, IF PageHit(o, i, sv.plan) THEN Served(Framed(sv, pages[o][i].bytes))
                        ELSE [sv EXCEPT !.pc = "fetch"])
        /\ UNCHANGED <<upstream, generation, object, read, write, aside>>

(* Mutant: the page is fetched without If-Match. *)
ServeFetchAnyPage(r, o) ==
    LET sv == serve[r][o]
    IN  /\ sv.pc = "fetch"
        /\ Handle(r, o, [sv EXCEPT !.pc = "begin", !.body = upstream])
        /\ UNCHANGED <<upstream, rows, read, write, aside>>

(* fetchAndWritePageFrameBestEffort *)
ServeFetchPage(r, o) ==
    LET sv == serve[r][o]
    IN  /\ sv.pc = "fetch"
        /\ Handle(r, o, IF upstream = sv.plan.etag
                        THEN [sv EXCEPT !.pc = "begin", !.body = upstream]
                        ELSE [sv EXCEPT !.pc = "changed"])
        /\ UNCHANGED <<upstream, rows, read, write, aside>>

(* The frame is sent whether or not the cache takes the page. *)
ServeBeginPage(r, o) ==
    LET sv == Framed(serve[r][o], serve[r][o].body)
    IN  /\ serve[r][o].pc = "begin"
        /\ Handle(r, o, IF MayStore(o, sv.plan) THEN [sv EXCEPT !.pc = "commit"]
                        ELSE Served(sv))
        /\ UNCHANGED <<upstream, rows, read, write, aside>>

ServeCommitPage(r, o) ==
    LET sv == serve[r][o]
    IN  /\ sv.pc = "commit"
        /\ IF MayStore(o, sv.plan) THEN Stored(o, NextPage(sv), sv.plan, sv.body)
           ELSE UNCHANGED pages
        /\ Handle(r, o, Served(sv))
        /\ UNCHANGED <<upstream, generation, object, read, write, aside>>

(* errObjectChanged: the owner invalidates the object here, then at every  *)
(* other peer, and only then answers.                                      *)
ServeInvalidate(r, o) ==
    LET sv == serve[r][o]
    IN  /\ sv.pc = "changed"
        /\ InvalidateObject(o, 0)
        /\ Handle(r, o, [sv EXCEPT !.pc = "sending", !.epoch = generation'[o],
                                   !.todo = Peers \ {o}])
        /\ UNCHANGED <<upstream, read, write, aside>>

(* sendPeerInvalidation, received by serveInternalInvalidate *)
ServeSend(r, o, q) ==
    LET sv == serve[r][o]
    IN  /\ sv.pc = "sending"
        /\ q \in sv.todo
        /\ InvalidateObject(q, sv.epoch)
        /\ Handle(r, o, IF sv.todo = {q} THEN Refused(sv)
                        ELSE [sv EXCEPT !.todo = @ \ {q}])
        /\ UNCHANGED <<upstream, read, write, aside>>

(* A call of the page owner fails, or the coordinator went away and the    *)
(* request's context is cancelled.                                         *)
Cut(r) == Fault \/ (~Attached(read[r]) /\ UNCHANGED faults)

(* enqueuePeerInvalidationRetry keeps the larger epoch. *)
Queued(p, q, epoch) ==
    missed' = [missed EXCEPT ![p][q] = IF @ < epoch THEN epoch ELSE @]

(* sendPeerInvalidation fails before the peer has the invalidation, or     *)
(* after it, when only the confirmation is lost.                           *)
Unconfirmed(q, epoch) == UNCHANGED rows \/ InvalidateObject(q, epoch)

ServeSendFails(r, o, q) ==
    LET sv == serve[r][o]
    IN  /\ Cut(r)
        /\ sv.pc = "sending"
        /\ q \in sv.todo
        /\ Queued(o, q, sv.epoch)
        /\ Unconfirmed(q, sv.epoch)
        /\ Handle(r, o, IF sv.todo = {q} THEN Refused(sv)
                        ELSE [sv EXCEPT !.todo = @ \ {q}])
        /\ UNCHANGED <<upstream, read, write, recent, led>>

ServeFails(r, o) ==
    LET sv == serve[r][o]
    IN  /\ Cut(r)
        /\ sv.pc \notin {"idle", "ended", "sending"}
        /\ Handle(r, o, Refused(sv))
        /\ UNCHANGED <<upstream, rows, read, write, missed, recent, led>>

-----------------------------------------------------------------------------
(* Writes.                                                                 *)

Replaced(v) ==
    /\ upstream' = v
    /\ recent' = recent \cup {v}
    /\ read' = [r \in Readers |-> IF Running(read[r])
                  THEN [read[r] EXCEPT !.promise = @ \cup {v}] ELSE read[r]]

(* forward of a write that succeeds *)
ForwardWrite(w, v) ==
    /\ write[w].pc = "idle"
    /\ Replaced(v)
    /\ write' = [x \in Writers |->
          IF x = w THEN [WriteIdle EXCEPT !.pc = "answered"]
          ELSE IF write[x].pc = "sending" THEN [write[x] EXCEPT !.since = @ \cup {v}]
          ELSE write[x]]
    /\ UNCHANGED <<rows, serve, missed, faults, led>>

(* invalidateObject, local part.  The write leads when its epoch is one no *)
(* other peer has reached.                                                 *)
InvalidateLocally(w) ==
    /\ write[w].pc = "answered"
    /\ InvalidateObject(ObjectOwner, 0)
    /\ led' = (led /\ \A q \in Peers \ {ObjectOwner} :
                         generation[q] < generation'[ObjectOwner])
    /\ write' = [write EXCEPT ![w] =
          [@ EXCEPT !.pc = "sending", !.epoch = generation'[ObjectOwner],
                    !.todo = Peers \ {ObjectOwner}, !.since = {upstream}]]
    /\ UNCHANGED <<upstream, read, serve, missed, faults, recent>>

(* broadcastInvalidation went over peer q. *)
Told(w, q, failed) ==
    LET told == [write[w] EXCEPT !.todo = @ \ {q}, !.failed = @ \/ failed]
    IN  /\ write' = [write EXCEPT ![w] =
              IF told.todo = {} THEN [WriteIdle EXCEPT !.pc = "done"] ELSE told]
        /\ recent' = IF told.todo = {} /\ ~told.failed THEN told.since ELSE recent

(* Mutant: the invalidation is confirmed before it is applied. *)
ConfirmEarly(w, q) ==
    /\ write[w].pc = "sending"
    /\ q \in write[w].todo
    /\ Queued(ObjectOwner, q, write[w].epoch)
    /\ Told(w, q, FALSE)
    /\ UNCHANGED <<upstream, rows, read, serve, faults, led>>

SendInvalidation(w, q) ==
    /\ write[w].pc = "sending"
    /\ q \in write[w].todo
    /\ InvalidateObject(q, write[w].epoch)
    /\ Told(w, q, FALSE)
    /\ UNCHANGED <<upstream, read, serve, missed, faults, led>>

SendFails(w, q) ==
    /\ Fault
    /\ write[w].pc = "sending"
    /\ q \in write[w].todo
    /\ Unconfirmed(q, write[w].epoch)
    /\ Queued(ObjectOwner, q, write[w].epoch)
    /\ Told(w, q, TRUE)
    /\ UNCHANGED <<upstream, read, serve, led>>

(* retryPendingPeerInvalidations *)
RetryInvalidation(p, q) ==
    /\ missed[p][q] > 0
    /\ InvalidateObject(q, missed[p][q])
    /\ missed' = [missed EXCEPT ![p][q] = 0]
    /\ UNCHANGED <<upstream, read, serve, write, faults, recent, led>>

(* A process stops and starts again, with its cache directory or without.  *)
(* Its requests are cut off and the retry queue is gone.                   *)
Restart(p, how) ==
    /\ how \in Restarts
    /\ Fault
    /\ IF how = "kept" THEN UNCHANGED rows
       ELSE /\ generation' = [generation EXCEPT ![p] = 0]
            /\ object' = [object EXCEPT ![p] = None]
            /\ pages' = [pages EXCEPT ![p] = NoPages]
    /\ read' = [r \in Readers |-> IF Running(read[r]) /\ read[r].peer = p
                  THEN Aborted(read[r]) ELSE read[r]]
    /\ serve' = [r \in Readers |-> [serve[r] EXCEPT ![p] =
                  IF @.pc \in {"idle", "ended"} THEN @ ELSE Refused(@)]]
    /\ write' = [w \in Writers |-> IF p = ObjectOwner /\ write[w].pc # "idle"
                  THEN [WriteIdle EXCEPT !.pc = "done"] ELSE write[w]]
    /\ missed' = [missed EXCEPT ![p] = [q \in Peers |-> 0]]
    /\ UNCHANGED <<upstream, recent, led>>

-----------------------------------------------------------------------------
Coordinate(r) ==
    \/ GetObject(r) \/ HeadUpstream(r) \/ ReadGeneration(r) \/ UpsertObject(r)
    \/ RereadObject(r) \/ BatchAnswered(r) \/ BatchRefused(r)
    \/ Forward(r) \/ StreamLocalPage(r) \/ StreamRemotePage(r)
    \/ FetchLocalPage(r) \/ BeginLocalPage(r) \/ CommitLocalPage(r)
    \/ FinishBatches(r) \/ \E o \in Peers : OpenBatch(r, o)

ServePages(r, o) ==
    \/ ServeGetObject(r, o) \/ ServeAdvance(r, o) \/ ServeReadGeneration(r, o)
    \/ ServeUpsertObject(r, o) \/ ServeRereadObject(r, o) \/ ServeOpenPage(r, o)
    \/ ServeFetchPage(r, o) \/ ServeBeginPage(r, o) \/ ServeCommitPage(r, o)
    \/ ServeInvalidate(r, o) \/ \E q \in Peers : ServeSend(r, o, q)

WriteStep(w) ==
    \/ \E v \in ETags : ForwardWrite(w, v)
    \/ InvalidateLocally(w)
    \/ \E q \in Peers : SendInvalidation(w, q) \/ SendFails(w, q)

PeerStep(p) ==
    \/ \E q \in Peers : RetryInvalidation(p, q)
    \/ \E how \in Restarts : Restart(p, how)

Next ==
    \/ \E r \in Readers : \/ \E req \in Requests : Start(r, req)
                          \/ Coordinate(r)
                          \/ BatchFails(r) \/ ReadFails(r)
    \/ \E r \in Readers, o \in Peers : \/ ServePages(r, o)
                                       \/ ServeFails(r, o)
                                       \/ \E q \in Peers : ServeSendFails(r, o, q)
    \/ \E w \in Writers : WriteStep(w)
    \/ \E p \in Peers : PeerStep(p)

Spec == Init /\ [][Next]_vars

-----------------------------------------------------------------------------
Plans == [etag : ETags, epoch : Nat]
Rows  == [etag : ETags, epoch : Nat, identity : BOOLEAN]
Cells == [etag : ETags, epoch : Nat, bytes : ETags]

Opt(S) == S \cup {None}

ReadPCs == {"idle", "get", "head", "generation", "upsert", "reread", "batch", "await",
            "forward", "stream", "fetch", "begin", "commit", "ends"} \cup Ends
ServePCs == {"idle", "get", "advance", "generation", "upsert", "reread", "open", "fetch",
             "begin", "commit", "changed", "sending", "ended"}

Reads == [pc : ReadPCs, peer : Peers, first : Indexes, last : Indexes, at : Indexes,
          plan : Opt(Plans), head : Opt(ETags), body : Opt(ETags),
          opened : SUBSET Peers, asked : Opt(Peers), header : Opt(ETags),
          sent : SUBSET ETags, promise : SUBSET ETags]
Serves == [pc : ServePCs, plan : Opt(Plans), want : SUBSET Indexes, body : Opt(ETags),
           frames : [Indexes -> Opt(ETags)], status : {"none", "ok", "refused"},
           complete : BOOLEAN, epoch : Nat, todo : SUBSET Peers, swapped : BOOLEAN]
Writes == [pc : {"idle", "answered", "sending", "done"}, epoch : Nat,
           todo : SUBSET Peers, failed : BOOLEAN, since : SUBSET ETags]

(* The shape of the peers' rows and of the requests under way. *)
TypeOK ==
    /\ upstream \in ETags
    /\ generation \in [Peers -> Nat]
    /\ object \in [Peers -> Opt(Rows)]
    /\ pages \in [Peers -> [Indexes -> Opt(Cells)]]
    /\ read \in [Readers -> Reads]
    /\ serve \in [Readers -> [Peers -> Serves]]
    /\ write \in [Writers -> Writes]
    /\ missed \in [Peers -> [Peers -> Nat]]
    /\ faults \in Nat
    /\ recent \subseteq ETags
    /\ led \in BOOLEAN

(* No stale page after a write, the promise of peer mode: the bytes a      *)
(* client gets are of a version that was current during its read, or since *)
(* the last write whose invalidation every peer confirmed.                 *)
BodyIsFresh == \A r \in Readers : read[r].sent \subseteq read[r].promise

(* What the code keeps of that promise: bodies are fresh as long as every  *)
(* write's invalidation carries an epoch that no other peer had reached.   *)
(* The handling peer takes the epoch from its own row alone, and fallbacks *)
(* and restarts move the rows of the peers apart.                          *)
FreshWhileLed == led => BodyIsFresh

(* Pages of different versions are never mixed: whatever a client gets is  *)
(* of the version its header names.                                        *)
ResponseIsOneVersion == \A r \in Readers : read[r].sent \subseteq {read[r].header}

(* What the code keeps of that: a body is of one version unless a page     *)
(* owner read back another request's row after it upserted its own.        *)
OneVersionUnlessSwapped == \A r \in Readers :
    (\A o \in Peers : ~serve[r][o].swapped) => read[r].sent \subseteq {read[r].header}

(* A page is stored only by its owner, whichever peer fetched it for whom, *)
(* and a stored page has the bytes of the version it is labelled with.     *)
PagesAtOwners == \A p \in Peers, i \in Indexes : pages[p][i] # None =>
    /\ PageOwner[i] = p
    /\ pages[p][i].bytes = pages[p][i].etag
=============================================================================
