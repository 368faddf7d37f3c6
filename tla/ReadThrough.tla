---------------------------- MODULE ReadThrough -----------------------------
(***************************************************************************)
(* The request path of one proxy without peers (internal/proxy/proxy.go)   *)
(* over one object: GET, HEAD and Range requests served through the cache, *)
(* writes forwarded to the upstream store and followed by an invalidation, *)
(* and the coalescing of concurrent fills of one page.                     *)
(*                                                                         *)
(* A request is a process; its steps are its calls to the cache and to the *)
(* upstream store.  The cache is its rows (CacheIndex); a call of the      *)
(* cache is the statement or transaction that decides it, as PageStore,    *)
(* which models the calls in full, justifies.  The data is the version a   *)
(* byte belongs to: the upstream store holds one version (None: no object),*)
(* a page row the version its bytes were fetched from.                     *)
(***************************************************************************)
EXTENDS CacheIndex, FiniteSets

CONSTANTS Indexes,      \* page indexes, an interval from 0
          PageCount,    \* PageCount[v]: pages of version v
          Readers,      \* read requests
          Requests,     \* what they may ask for: [kind, first, last]
          Writers,      \* other requests of the object
          LostAnswers,  \* whether a write may be applied but not answered
          Faults        \* whether upstream calls, SQL and clients may fail

ASSUME ReadThroughAssumption ==
    /\ Indexes \subseteq Nat /\ 0 \in Indexes
    /\ PageCount \in [ETags -> Nat]
    /\ \A v \in ETags : 0 .. (PageCount[v] - 1) \subseteq Indexes
    /\ Requests \subseteq [kind : {"head", "full", "range"}, first : Indexes, last : Indexes]
    /\ LostAnswers \in BOOLEAN /\ Faults \in BOOLEAN

VARIABLES upstream,    \* the upstream store: the object's version, or None
          generation,  \* row of object_generations, or None
          object,      \* row of objects, or None
          pages,       \* rows of pages: [etag, epoch, bytes], or None
          aged,        \* the object row is older than the retention time
          degraded,    \* the proxy reports itself not ready
          read,        \* read requests
          write,       \* write requests
          recent       \* history: versions upstream since the last invalidation

rows  == <<generation, object, pages, aged>>
vars  == <<upstream, rows, degraded, read, write, recent>>

NoPages == [i \in Indexes |-> None]

(* A request: HEAD, GET, or GET with a Range of the pages first..last.  A  *)
(* conditional request answered from the metadata is "head" as well.       *)
ReadIdle == [pc |-> "idle", kind |-> "head", first |-> 0, last |-> 0, at |-> 0,
             plan |-> None, head |-> None, body |-> None, refetched |-> 0,
             header |-> None, sent |-> {}, promise |-> {}]

Ends == {"done", "failed", "aborted"}

Running(rd) == rd.pc \notin {"idle"} \cup Ends

Init ==
    /\ upstream \in ETags \cup {None}
    /\ generation = None
    /\ object = None
    /\ pages = NoPages
    /\ aged = FALSE
    /\ degraded = FALSE
    /\ read = [r \in Readers |-> ReadIdle]
    /\ write = [w \in Writers |-> "idle"]
    /\ recent = {upstream}

-----------------------------------------------------------------------------
(* What becomes of a request record.                                       *)

(* The answer is what is left of a request that ended. *)
Ended(rd, pc) ==
    [ReadIdle EXCEPT !.pc = pc, !.kind = rd.kind, !.header = rd.header,
                     !.sent = rd.sent, !.promise = rd.promise]

Headers(rd, etag) == [rd EXCEPT !.header = etag]

(* A request fails before its header is written: 502 or 500.  After that   *)
(* abortCommittedResponse closes the connection.  A changed object is      *)
(* invalidated and fetched again, once, while nothing is written.          *)
Failed(rd, cause) ==
    IF rd.sent # {} THEN Ended(rd, "aborted")
    ELSE IF cause = "changed" /\ rd.refetched = 0 THEN [rd EXCEPT !.pc = "refetch"]
    ELSE Ended(rd, "failed")

(* No object upstream. *)
NotFound(rd) ==
    IF rd.kind = "head" THEN Ended(rd, "done")
    ELSE IF rd.kind = "range" /\ rd.refetched = 1 THEN Ended(rd, "failed")
    ELSE [rd EXCEPT !.pc = "forward"]

(* errMetadataStore: the row could not be stored or read back. *)
NotStored(rd) ==
    IF rd.kind = "range" /\ rd.refetched = 1 THEN Ended(rd, "failed")
    ELSE [rd EXCEPT !.pc = "forward"]

(* The metadata is there: a HEAD and an empty object need nothing else (an *)
(* object found empty on the second try has no pages to plan, an error), a *)
(* range is cut to the object's pages.                                     *)
Planned(rd, obj) ==
    LET count == PageCount[obj.etag]
        planned == [rd EXCEPT !.plan = obj]
    IN  IF rd.kind = "head" \/ (rd.kind = "full" /\ count = 0 /\ rd.refetched = 0)
        THEN Ended(Headers(planned, obj.etag), "done")
        ELSE IF rd.kind = "full" /\ count = 0 THEN Ended(planned, "failed")
        ELSE IF rd.kind = "full"
        THEN [planned EXCEPT !.at = 0, !.last = count - 1,
                             !.pc = IF rd.refetched = 1 THEN "coldget" ELSE "open"]
        ELSE IF rd.first >= count THEN [planned EXCEPT !.pc = "forward"]
        ELSE [planned EXCEPT !.at = rd.first, !.pc = "open",
                !.last = IF rd.last >= count THEN count - 1 ELSE rd.last]

(* streamCachedPages: page rd.at is copied to the client. *)
Delivered(rd, bytes) ==
    LET copied == [rd EXCEPT !.header = rd.plan.etag, !.sent = @ \cup {bytes},
                             !.body = None]
    IN  IF rd.at < rd.last THEN [copied EXCEPT !.pc = "open", !.at = @ + 1]
        ELSE Ended(copied, "done")

Step(r, rd) == read' = [read EXCEPT ![r] = rd]

-----------------------------------------------------------------------------
(* Metadata.                                                               *)

Start(r, request) ==
    /\ read[r].pc = "idle"
    /\ Step(r, [ReadIdle EXCEPT !.pc = "get", !.kind = request.kind,
                                !.first = request.first, !.last = request.last,
                                !.promise = recent])
    /\ UNCHANGED <<upstream, rows, degraded, write, recent>>

(* GetObject *)
GetObject(r) ==
    /\ read[r].pc = "get"
    /\ Step(r, IF object = None THEN [read[r] EXCEPT !.pc = "head"]
               ELSE Planned(read[r], object))
    /\ UNCHANGED <<upstream, rows, degraded, write, recent>>

(* fetchMetadata: the HEAD request *)
HeadUpstream(r) ==
    /\ read[r].pc = "head"
    /\ Step(r, IF upstream = None THEN NotFound(read[r])
               ELSE [read[r] EXCEPT !.pc = "generation", !.head = upstream])
    /\ UNCHANGED <<upstream, rows, degraded, write, recent>>

(* Mutant: the generation row is not created. *)
PutNoGeneration(r) ==
    /\ read[r].pc = "generation"
    /\ Step(r, [read[r] EXCEPT !.pc = "upsert", !.head = None,
                   !.plan = [etag |-> read[r].head, epoch |-> generation]])
    /\ UNCHANGED <<upstream, rows, degraded, write, recent>>

(* PutObject: the generation row, then the object row, then a re-read that *)
(* is what the request goes on with.                                       *)
PutGeneration(r) ==
    /\ read[r].pc = "generation"
    /\ generation' = EnsureGeneration(generation)
    /\ Step(r, [read[r] EXCEPT !.pc = "upsert", !.head = None,
                   !.plan = [etag |-> read[r].head, epoch |-> generation']])
    /\ UNCHANGED <<upstream, object, pages, aged, degraded, write, recent>>

UpsertObject(r) ==
    /\ read[r].pc = "upsert"
    /\ object' = read[r].plan
    /\ aged' = FALSE
    /\ Step(r, [read[r] EXCEPT !.pc = "reread"])
    /\ UNCHANGED <<upstream, generation, pages, degraded, write, recent>>

RereadObject(r) ==
    /\ read[r].pc = "reread"
    /\ Step(r, IF object = None THEN NotStored(read[r])
               ELSE Planned(read[r], object))
    /\ UNCHANGED <<upstream, rows, degraded, write, recent>>

-----------------------------------------------------------------------------
(* Pages of a planned read.                                                *)

(* OpenPage hits, or deletes the row of another version and misses. *)
PageHit(rd) == pages[rd.at] # None /\ IsPageOf(pages[rd.at], rd.plan)
PageLooked(rd) == pages' = IF PageHit(rd) THEN pages ELSE [pages EXCEPT ![rd.at] = None]

OpenPage(r) ==
    LET rd == read[r]
    IN  /\ rd.pc = "open"
        /\ PageLooked(rd)
        /\ Step(r, IF PageHit(rd) THEN Delivered(rd, pages[rd.at].bytes)
                   ELSE IF rd.kind = "full" /\ rd.sent = {}
                        THEN [rd EXCEPT !.pc = "coldget"]
                        ELSE [rd EXCEPT !.pc = "join"])
        /\ UNCHANGED <<upstream, generation, object, aged, degraded, write, recent>>

Leading(rd) == rd.pc \in {"fetch", "begin", "commit", "reopen"}
SameFill(a, b) == a.plan = b.plan /\ a.at = b.at

(* pageFills: the first request to miss fetches, the others wait for it. *)
JoinFill(r) ==
    /\ read[r].pc = "join"
    /\ Step(r, [read[r] EXCEPT !.pc =
          IF \E q \in Readers : Leading(read[q]) /\ SameFill(read[q], read[r])
          THEN "wait" ELSE "fetch"])
    /\ UNCHANGED <<upstream, rows, degraded, write, recent>>

(* The leader goes on as rd and the waiting requests learn its error, if   *)
(* it has one: close(call.done).                                           *)
FinishFill(r, rd, cause) ==
    read' = [q \in Readers |->
               IF q = r THEN rd
               ELSE IF read[q].pc = "wait" /\ SameFill(read[q], read[r])
               THEN IF cause = "none" THEN [read[q] EXCEPT !.pc = "woken"]
                    ELSE Failed(read[q], cause)
               ELSE read[q]]

FillFails(r, cause) == FinishFill(r, Failed(read[r], cause), cause)

(* A waiting request looks for the page its leader stored. *)
OpenFilledPage(r) ==
    LET rd == read[r]
    IN  /\ rd.pc = "woken"
        /\ PageLooked(rd)
        /\ Step(r, IF PageHit(rd) THEN Delivered(rd, pages[rd.at].bytes)
                   ELSE [rd EXCEPT !.pc = "join"])
        /\ UNCHANGED <<upstream, generation, object, aged, degraded, write, recent>>

(* Mutant: the page is fetched without If-Match. *)
FetchAnyPage(r) ==
    /\ read[r].pc = "fetch"
    /\ IF upstream = None THEN FillFails(r, "upstream")
       ELSE Step(r, [read[r] EXCEPT !.pc = "begin", !.body = upstream])
    /\ UNCHANGED <<upstream, rows, degraded, write, recent>>

(* fetchAndStorePage: the ranged GET with If-Match *)
FetchPage(r) ==
    /\ read[r].pc = "fetch"
    /\ IF upstream = None THEN FillFails(r, "upstream")
       ELSE IF upstream # read[r].plan.etag THEN FillFails(r, "changed")
       ELSE Step(r, [read[r] EXCEPT !.pc = "begin", !.body = upstream])
    /\ UNCHANGED <<upstream, rows, degraded, write, recent>>

(* BeginPageWrite *)
BeginFill(r) ==
    /\ read[r].pc = "begin"
    /\ IF IsCurrent(object, generation, read[r].plan)
       THEN Step(r, [read[r] EXCEPT !.pc = "commit"])
       ELSE FillFails(r, "store")
    /\ UNCHANGED <<upstream, rows, degraded, write, recent>>

FilledPage(rd) == [etag |-> rd.plan.etag, epoch |-> rd.plan.epoch, bytes |-> rd.body]

(* Commit.  A page after the first went to the client while it was copied  *)
(* to the cache, so a failure to store it comes after the bytes.           *)
CommitFill(r) ==
    LET rd == read[r]
        streamed == IF rd.sent = {} THEN rd ELSE [rd EXCEPT !.sent = @ \cup {rd.body}]
    IN  /\ rd.pc = "commit"
        /\ IF IsCurrent(object, generation, rd.plan)
           THEN /\ pages' = [pages EXCEPT ![rd.at] = FilledPage(rd)]
                /\ IF rd.sent = {} THEN Step(r, [rd EXCEPT !.pc = "reopen"])
                   ELSE FinishFill(r, Delivered(rd, rd.body), "none")
           ELSE /\ FinishFill(r, Failed(streamed, "store"), "store")
                /\ UNCHANGED pages
        /\ UNCHANGED <<upstream, generation, object, aged, degraded, write, recent>>

(* The first page is read back from the cache. *)
ReopenPage(r) ==
    LET rd == read[r]
    IN  /\ rd.pc = "reopen"
        /\ PageLooked(rd)
        /\ IF PageHit(rd)
           THEN FinishFill(r, Delivered(rd, pages[rd.at].bytes), "none")
           ELSE FillFails(r, "store")
        /\ UNCHANGED <<upstream, generation, object, aged, degraded, write, recent>>

-----------------------------------------------------------------------------
(* serveColdFullObject: one GET for the whole object, its pages stored on  *)
(* the way to the client.                                                  *)

GetWholeObject(r) ==
    LET rd == read[r]
    IN  /\ rd.pc = "coldget"
        /\ Step(r, IF upstream = None THEN Failed(rd, "upstream")
                   ELSE IF upstream # rd.plan.etag THEN Failed(rd, "changed")
                   ELSE [Headers(rd, rd.plan.etag) EXCEPT !.pc = "coldbegin",
                                                          !.body = upstream])
        /\ UNCHANGED <<upstream, rows, degraded, write, recent>>

(* The bytes are written before the page writer is opened. *)
BeginColdPage(r) ==
    LET rd == [read[r] EXCEPT !.sent = @ \cup {read[r].body}]
    IN  /\ rd.pc = "coldbegin"
        /\ Step(r, IF IsCurrent(object, generation, rd.plan)
                   THEN [rd EXCEPT !.pc = "coldcommit"] ELSE Failed(rd, "store"))
        /\ UNCHANGED <<upstream, rows, degraded, write, recent>>

(* Mutant: the cold path stores its pages without the fence. *)
CommitColdPageUnfenced(r) ==
    LET rd == read[r]
    IN  /\ rd.pc = "coldcommit"
        /\ pages' = IF object = None THEN pages
                    ELSE [pages EXCEPT ![rd.at] =
                            [etag |-> object.etag, epoch |-> object.epoch,
                             bytes |-> rd.body]]
        /\ Step(r, IF rd.at < rd.last
                   THEN [rd EXCEPT !.pc = "coldbegin", !.at = @ + 1]
                   ELSE Ended(rd, "done"))
        /\ UNCHANGED <<upstream, generation, object, aged, degraded, write, recent>>

(* A page that cannot be stored is only logged. *)
CommitColdPage(r) ==
    LET rd == read[r]
    IN  /\ rd.pc = "coldcommit"
        /\ pages' = IF IsCurrent(object, generation, rd.plan)
                    THEN [pages EXCEPT ![rd.at] = FilledPage(rd)] ELSE pages
        /\ Step(r, IF rd.at < rd.last
                   THEN [rd EXCEPT !.pc = "coldbegin", !.at = @ + 1]
                   ELSE Ended(rd, "done"))
        /\ UNCHANGED <<upstream, generation, object, aged, degraded, write, recent>>

(* forward, as a fallback: the client gets the upstream's own answer. *)
Forward(r) ==
    /\ read[r].pc = "forward"
    /\ Step(r, Ended([read[r] EXCEPT !.header = upstream,
                         !.sent = IF upstream = None \/ read[r].kind = "head"
                                  THEN {} ELSE {upstream}], "done"))
    /\ UNCHANGED <<upstream, rows, degraded, write, recent>>

-----------------------------------------------------------------------------
(* InvalidateObject without a minimum epoch. *)

InvalidateRows ==
    /\ generation' = NextEpoch(EnsureGeneration(generation), 0)
    /\ object' = None
    /\ pages' = NoPages
    /\ aged' = FALSE

(* Its error comes from the transaction, which changes nothing, or from a  *)
(* page file that cannot be removed after it.  Nothing is promised on it.  *)
InvalidateRowsFails == InvalidateRows \/ UNCHANGED rows

(* The client goes away, the upstream store, a statement or a file fails. *)
ReadFails(r) ==
    /\ Faults
    /\ Running(read[r])
    /\ IF read[r].pc = "refetch" THEN InvalidateRowsFails ELSE UNCHANGED rows
    /\ IF Leading(read[r]) THEN FillFails(r, "fault")
       ELSE Step(r, Failed(read[r], "fault"))
    /\ UNCHANGED <<upstream, degraded, write, recent>>

(* A statement of PutObject fails and the client is still there. *)
PutObjectFails(r) ==
    /\ Faults
    /\ read[r].pc \in {"generation", "upsert", "reread"}
    /\ Step(r, NotStored(read[r]))
    /\ UNCHANGED <<upstream, rows, degraded, write, recent>>

(* refetchAfterObjectChanged, and the same steps for a full object *)
Refetch(r) ==
    /\ read[r].pc = "refetch"
    /\ InvalidateRows
    /\ recent' = {upstream}
    /\ Step(r, [read[r] EXCEPT !.pc = "get", !.plan = None,
                                  !.refetched = 1])
    /\ UNCHANGED <<upstream, degraded, write>>

(* Requests that are not cacheable reads, by what they do to the object.   *)
WriteKinds == {"put", "complete", "delete", "abort", "part", "create"}

(* Mutant: the completion of a multipart upload is not seen as a write. *)
PutsAndDeletes(kind) == kind \in {"put", "delete", "abort"}

(* shouldInvalidateAfterWrite *)
ShouldInvalidateAfterWrite(kind) == kind \in {"put", "complete", "delete", "abort"}

(* External: the object each request leaves upstream. *)
UpstreamAfter(kind) ==
    IF kind \in {"put", "complete"} THEN ETags
    ELSE IF kind = "delete" THEN {None} ELSE {upstream}

Replaced(v) ==
    /\ upstream' = v
    /\ recent' = recent \cup {v}
    /\ read' = [r \in Readers |-> IF Running(read[r])
                  THEN [read[r] EXCEPT !.promise = @ \cup {v}] ELSE read[r]]

(* forward of a write: applied upstream and answered with success, or the  *)
(* answer is lost on its way (then nothing is invalidated).                *)
ForwardWrite(w, kind) ==
    /\ write[w] = "idle"
    /\ \E v \in UpstreamAfter(kind) : Replaced(v)
    /\ \/ write' = [write EXCEPT ![w] =
                      IF ShouldInvalidateAfterWrite(kind) THEN "answered" ELSE "done"]
       \/ LostAnswers /\ write' = [write EXCEPT ![w] = "lost"]
    /\ UNCHANGED <<rows, degraded>>

(* handle: the invalidation after a successful write, on a context of its own *)
InvalidateAfterWrite(w) ==
    /\ write[w] = "answered"
    /\ InvalidateRows
    /\ recent' = {upstream}
    /\ write' = [write EXCEPT ![w] = "done"]
    /\ UNCHANGED <<upstream, degraded, read>>

(* handle: an invalidation that fails marks the proxy degraded. *)
InvalidationFails(w) ==
    /\ Faults
    /\ write[w] = "answered"
    /\ InvalidateRowsFails
    /\ degraded' = TRUE
    /\ write' = [write EXCEPT ![w] = "done"]
    /\ UNCHANGED <<upstream, read, recent>>

EvictPage(i) ==
    /\ pages[i] # None
    /\ pages' = [pages EXCEPT ![i] = None]
    /\ UNCHANGED <<upstream, generation, object, aged, degraded, read, write, recent>>

(* External: the retention time passes.  No request takes that long. *)
ObjectAges ==
    /\ object # None
    /\ \A r \in Readers : ~Running(read[r])
    /\ aged' = TRUE
    /\ UNCHANGED <<upstream, generation, object, pages, degraded, read, write, recent>>

(* deleteOldPageLessObjects.  The generation row, collected by the same    *)
(* clock, is taken to stay.                                                *)
CollectObject ==
    /\ aged
    /\ pages = NoPages
    /\ object' = None
    /\ aged' = FALSE
    /\ UNCHANGED <<upstream, generation, pages, degraded, read, write, recent>>

-----------------------------------------------------------------------------
Proceed(r) ==
    \/ GetObject(r) \/ HeadUpstream(r) \/ PutGeneration(r) \/ UpsertObject(r)
    \/ RereadObject(r) \/ OpenPage(r) \/ JoinFill(r) \/ OpenFilledPage(r)
    \/ FetchPage(r) \/ BeginFill(r) \/ CommitFill(r) \/ ReopenPage(r)
    \/ GetWholeObject(r) \/ BeginColdPage(r) \/ CommitColdPage(r)
    \/ Forward(r) \/ Refetch(r)

ReadStep(r) ==
    \/ \E request \in Requests : Start(r, request)
    \/ Proceed(r)
    \/ PutObjectFails(r)
    \/ ReadFails(r)

WriteStep(w) ==
    \/ \E kind \in WriteKinds : ForwardWrite(w, kind)
    \/ InvalidateAfterWrite(w)
    \/ InvalidationFails(w)

Maintenance == ObjectAges \/ CollectObject \/ \E i \in Indexes : EvictPage(i)

Next ==
    \/ \E r \in Readers : ReadStep(r)
    \/ \E w \in Writers : WriteStep(w)
    \/ Maintenance

Spec == Init /\ [][Next]_vars

-----------------------------------------------------------------------------
Page == [etag : ETags, epoch : Nat, bytes : ETags]

ReadPCs == {"idle", "get", "head", "generation", "upsert", "reread", "open",
            "join", "wait", "woken", "fetch", "begin", "commit", "reopen",
            "coldget", "coldbegin", "coldcommit", "forward", "refetch"} \cup Ends

ReadRecord ==
    [pc : ReadPCs, kind : {"head", "full", "range"}, first : Indexes, last : Indexes, at : Indexes,
     plan : Version \cup {None}, head : ETags \cup {None},
     body : ETags \cup {None}, refetched : {0, 1}, header : ETags \cup {None},
     sent : SUBSET ETags, promise : SUBSET (ETags \cup {None})]

(* Types: the rows, the requests and what they remember. *)
TypeOK ==
    /\ upstream \in ETags \cup {None}
    /\ generation \in Nat \cup {None}
    /\ object \in Version \cup {None}
    /\ pages \in [Indexes -> Page \cup {None}]
    /\ aged \in BOOLEAN /\ degraded \in BOOLEAN
    /\ read \in [Readers -> ReadRecord]
    /\ write \in [Writers -> {"idle", "answered", "lost", "done"}]
    /\ recent \subseteq ETags \cup {None}

(* Every byte a read sends belongs to a version the upstream store held    *)
(* after the last invalidation that was over when the read began: a write  *)
(* that was acknowledged and invalidated before is never missed, whichever *)
(* fills, evictions and refetches run beside it (handle,                   *)
(* fetchAndStorePage, streamColdFullObject).                               *)
BodyIsFresh == \A r \in Readers : read[r].sent \subseteq read[r].promise

(* The pages of a response are pages of one version, the one its ETag      *)
(* header names, even when the object changes between two pages (If-Match  *)
(* in fetchAndStorePage, the plan of streamCachedPages).                   *)
ResponseIsOneVersion ==
    \A r \in Readers : read[r].sent \subseteq {read[r].header}

(* A request as its client sees it *)
Answered(rd) ==
    [status |-> IF rd.pc = "idle" THEN "idle" ELSE IF Running(rd) THEN "reading" ELSE "ended",
     promise |-> rd.promise, sent |-> rd.sent]

Promise == INSTANCE FreshReads WITH reader <- [r \in Readers |-> Answered(read[r])]

(* The read path with its cache, coalesced fills, refetches, evictions and *)
(* failures implements the cache-less FreshReads: every step is a step a   *)
(* client of the plain upstream store could have seen.                     *)
ReadsAreFresh == Promise!Spec

(* With no write on its way, unanswered or failed to invalidate, a page    *)
(* that GetObject's row would let a read use is the upstream's: staleness  *)
(* never outlives the write, unless the proxy says it is degraded.         *)
CachedPagesCurrent ==
    (~degraded /\ \A w \in Writers : write[w] \notin {"answered", "lost"})
        => \A i \in Indexes :
              object # None /\ pages[i] # None /\ IsPageOf(pages[i], object)
                  => pages[i].bytes = upstream

(* A metadata answer (HEAD, a conditional status) is of a version the      *)
(* upstream store held after the last invalidation before the request.     *)
HeadIsFresh ==
    \A r \in Readers :
        read[r].pc = "done" /\ read[r].kind = "head" => read[r].header \in read[r].promise
=============================================================================
