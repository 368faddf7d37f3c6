----------------------------- MODULE RequestPath -----------------------------
(* The way of one client request through the peers, from the handler that     *)
(* accepts it (ServeHTTP) to the last byte of the answer: classification,     *)
(* the hop to the object's owner, the pass-through to the upstream store and  *)
(* the invalidation after a write, and for a read the page spans, the batches *)
(* asked of the page owners, their page frames (internal/peer/pageframe.go)   *)
(* and the bytes the coordinator copies from them.  Peers may be configured   *)
(* with different peer lists, as in the middle of a rollout.  A byte of the   *)
(* object is its position.  What the caches hold, and how versions and epochs *)
(* move, is the subject of DistributedRead; here a cached object has one      *)
(* size, and a page is read whole or falls short.                             *)
EXTENDS RangePlan, Routing

CONSTANTS
  Rings,         \* the peer lists peers may be configured with
  Requests,      \* client requests, each with the size of the object it names
  ReadSharding,  \* "auto", "object" or "page"
  MinPages,      \* peer.page_sharding_min_pages
  MaxFaults      \* connections lost and reads that fall short

ASSUME RequestPathAssumption ==
  /\ Rings \subseteq SUBSET Peers
  /\ ReadSharding \in {"auto", "object", "page"}
  /\ MinPages \in Nat /\ MaxFaults \in Nat
  /\ ObjectKey \in Keys
  /\ \A q \in Requests : /\ q.size \in Nat
                         /\ q.range \in HeaderType
                         /\ \A i \in 0 .. PageCount(q.size) - 1 : PageKey(i) \in Keys

VARIABLES
  ring,      \* per peer: the list it is configured with
  degraded,  \* the peers that report not ready
  task,      \* the request, where it is handled and how far it is
  conn,      \* per page owner: the answer to a page read
  client,    \* what the client has received
  faults     \* faults so far

vars == <<ring, degraded, task, conn, client, faults>>

NoPeer == -1

\* A page read's connection: pages asked for, frames the owner has written and
\* whether it still writes, frames the coordinator has read.
NoConn == [state |-> "none", asked |-> <<>>, frames |-> <<>>, read |-> 0]

\* One frame; its payload is shorter than size only when the answer broke off.
PageFrame(index, size, payload) ==
  [type |-> "page", index |-> index, size |-> size, payload |-> payload]
EndFrame == [type |-> "end", index |-> 0, size |-> 0, payload |-> <<>>]

Positions(first, last) == [i \in 1 .. last - first + 1 |-> first + i - 1]

Init ==
  /\ ring \in [Peers -> Rings] /\ \A p \in Peers : p \in ring[p]
  /\ degraded = {}
  /\ \E q \in Requests, p \in Peers :
       task = [pc |-> "route", req |-> q, at |-> p, from |-> NoPeer,
               to |-> NoPeer, range |-> Unsatisfied, spans |-> <<>>, span |-> 1,
               effect |-> "none"]
  /\ conn = [p \in Peers |-> NoConn]
  /\ client = [status |-> 0, length |-> 0, out |-> <<>>, over |-> "no"]
  /\ faults = 0

Here == task.at
Class == Classify(task.req)
Forwarded == task.from # NoPeer
ObjectOwner == Owner(ring[Here], ObjectKey)

Goto(pc) == task' = [task EXCEPT !.pc = pc]

\* An answer without bytes of the object.  A client that has gone gets nothing.
Answer(status) ==
  client' = IF client.over = "no" THEN [client EXCEPT !.status = status, !.over = "whole"]
                                  ELSE client

Fault == faults < MaxFaults /\ faults' = faults + 1

-----------------------------------------------------------------------------
(* Routing.                                                                   *)
\* What shouldForwardToPeer keeps: a bucket request, an object of its own, or
\* a client's GET, which this peer coordinates.
KeepsRequest ==
  \/ ~task.req.object
  \/ ObjectOwner = Here
  \/ ~Forwarded /\ Class \in {"full", "range"}

\* serveS3HTTP: any other request of the object goes to its owner, but only
\* once: a forwarded request of an object that is not this peer's is refused.
Route ==
  /\ task.pc = "route"
  /\ IF KeepsRequest THEN Goto("handle") /\ UNCHANGED client
     ELSE IF ~Forwarded
       THEN task' = [task EXCEPT !.pc = "send", !.to = ObjectOwner] /\ UNCHANGED client
       ELSE Goto("done") /\ Answer(502)
  /\ UNCHANGED <<ring, degraded, conn, faults>>

\* forwardToPeer: the request reaches the peer, or is answered with 502.
Arrive ==
  /\ task.pc = "send"
  /\ task' = [task EXCEPT !.pc = "accept", !.from = Here, !.at = task.to, !.to = NoPeer]
  /\ UNCHANGED <<ring, degraded, conn, client, faults>>

PeerUnreachable ==
  /\ task.pc = "send" /\ Fault
  /\ Goto("done") /\ Answer(502)
  /\ UNCHANGED <<ring, degraded, conn>>

\* Mutant of Accepts: the fingerprints are not compared.
AcceptsAnyRing(p, sender) == sender \in ring[p]

\* validateInternalPeerHeaders: the sender is known and has the same ring.
Accepts(p, sender) == sender \in ring[p] /\ ring[sender] = ring[p]

\* A known sender with another ring leaves the peer degraded.
Mismatched(p, sender) ==
  IF sender \in ring[p] /\ ring[sender] # ring[p] THEN degraded \cup {p} ELSE degraded

\* serveInternalHTTP on the object route.
ServeInternal ==
  /\ task.pc = "accept"
  /\ IF Accepts(Here, task.from)
       THEN Goto("route") /\ UNCHANGED client
       ELSE Goto("done") /\ Answer(IF task.from \in ring[Here] THEN 502 ELSE 403)
  /\ degraded' = Mismatched(Here, task.from)
  /\ UNCHANGED <<ring, conn, faults>>

\* A signature that is older than the clock skew allows is refused.
RefuseSignature ==
  /\ task.pc = "accept" /\ Fault
  /\ Accepts(Here, task.from)
  /\ Goto("done") /\ Answer(401)
  /\ UNCHANGED <<ring, degraded, conn>>

\* The client goes away, or the peer that relays the answer to it.  A read
\* ends; a write is in the hands of the upstream store and goes on.
ClientGone ==
  /\ task.pc # "done" /\ client.over = "no" /\ Fault
  /\ client' = [client EXCEPT !.over = "cut"]
  /\ Goto(IF task.req.method = "GET" THEN "done" ELSE task.pc)
  /\ UNCHANGED <<ring, degraded, conn>>

-----------------------------------------------------------------------------
(* Pass-through, and what follows a write.                                    *)
HandlePass ==
  /\ task.pc = "handle" /\ Class = "pass"
  /\ Goto("upstream")
  /\ UNCHANGED <<ring, degraded, conn, client, faults>>

\* What a request has done upstream when it was answered with this status.
Effect(status) ==
  IF task.req.method \notin {"GET", "HEAD"} /\ status = 200 THEN "applied" ELSE "none"

\* handle: a successful write is followed by the invalidation of its object.
AfterForward(status) ==
  IF status = 200 /\ ShouldInvalidate(task.req) THEN "invalidate" ELSE "done"

\* forward relays the upstream store's answer; 404 stands for any refusal.
ForwardAnswered ==
  /\ task.pc = "upstream"
  /\ \E status \in {200, 404} :
       /\ task' = [task EXCEPT !.pc = AfterForward(status), !.effect = Effect(status)]
       /\ Answer(status)
  /\ UNCHANGED <<ring, degraded, conn, faults>>

\* The answer arrives and cannot be copied to the client: forward returns an
\* error, and handle does not invalidate.
ForwardCopyFails ==
  /\ task.pc = "upstream" /\ task.req.method # "HEAD" /\ Fault
  /\ task' = [task EXCEPT !.pc = "done", !.effect = Effect(200)]
  /\ client' = IF client.over = "no" THEN [client EXCEPT !.status = 200, !.over = "cut"]
                                    ELSE client
  /\ UNCHANGED <<ring, degraded, conn>>

\* No answer: the body could not be spooled, or the connection failed before
\* or after the upstream store acted on the request.
ForwardFails ==
  /\ task.pc = "upstream" /\ Fault
  /\ \E effect \in {"none", Effect(200)} : task' = [task EXCEPT !.pc = "done", !.effect = effect]
  /\ Answer(502)
  /\ UNCHANGED <<ring, degraded, conn>>

\* invalidateObject, here and at the peers; a failure leaves the peer degraded.
Invalidate ==
  /\ task.pc = "invalidate"
  /\ \/ /\ task' = [task EXCEPT !.pc = "done", !.effect = "invalidated"]
        /\ UNCHANGED <<degraded, faults>>
     \/ /\ Fault /\ Goto("done")
        /\ degraded' = degraded \cup {Here}
  /\ UNCHANGED <<ring, conn, client>>

-----------------------------------------------------------------------------
(* Reads: metadata, conditions, strategy, range.                              *)
\* Metadata that is absent upstream or cannot be stored: the original request
\* is passed through.
MetadataMissing ==
  /\ task.pc = "handle" /\ Class # "pass"
  /\ Goto("upstream")
  /\ UNCHANGED <<ring, degraded, conn, client, faults>>

MetadataFails ==
  /\ task.pc = "handle" /\ Class # "pass" /\ Fault
  /\ Goto("done") /\ Answer(502)
  /\ UNCHANGED <<ring, degraded, conn>>

\* The conditions of the request settle it, or send it upstream.
AnswerConditional ==
  LET status == ConditionalStatus(task.req.cond)
  IN /\ task.pc = "handle" /\ Class # "pass" /\ status # 0
     /\ IF status = -1 THEN Goto("upstream") /\ UNCHANGED client
                       ELSE Goto("done") /\ Answer(status)
     /\ UNCHANGED <<ring, degraded, conn, faults>>

Unconditional == task.pc = "handle" /\ ConditionalStatus(task.req.cond) = 0

\* serveCachedHead: the cached or the fetched headers.
ServeHead ==
  /\ Unconditional /\ Class = "head"
  /\ Goto("done") /\ Answer(200)
  /\ UNCHANGED <<ring, degraded, conn, faults>>

\* selectReadStrategy.
Strategy ==
  IF ReadSharding # "auto" THEN ReadSharding
  ELSE IF PageCount(task.req.size) >= MinPages THEN "page" ELSE "object"

\* forwardObjectReadToOwner: a small object is read at its owner.
ReadAtOwner ==
  /\ Unconditional /\ Class \in {"full", "range"}
  /\ Strategy = "object" /\ ~Forwarded /\ ObjectOwner # Here
  /\ task' = [task EXCEPT !.pc = "send", !.to = ObjectOwner]
  /\ UNCHANGED <<ring, degraded, conn, client, faults>>

ReadHere ==
  /\ Unconditional /\ Class \in {"full", "range"}
  /\ Strategy = "page" \/ Forwarded \/ ObjectOwner = Here

Wanted ==
  IF Class = "range" THEN ParseRange(task.req.range, task.req.size)
                     ELSE [start |-> 0, end |-> task.req.size - 1]

\* An empty object has no pages.
ServeEmpty ==
  /\ ReadHere /\ Class = "full" /\ task.req.size = 0
  /\ Goto("done") /\ Answer(200)
  /\ UNCHANGED <<ring, degraded, conn, faults>>

\* The upstream store answers a range that the object does not have.
PassUnsatisfied ==
  /\ ReadHere /\ Class = "range" /\ Wanted = Unsatisfied
  /\ Goto("upstream")
  /\ UNCHANGED <<ring, degraded, conn, client, faults>>

PlanPages ==
  /\ ReadHere /\ Wanted # Unsatisfied
  /\ task' = [task EXCEPT !.pc = "open", !.range = Wanted, !.spans = PagesForRange(Wanted)]
  /\ UNCHANGED <<ring, degraded, conn, client, faults>>

-----------------------------------------------------------------------------
(* Page batches.                                                              *)
\* groupCoordinatorPageBatches: who reads a page, and what each owner is asked:
\* the loop over the spans adds a page to the batch of its owner.
SpanOwner(s) == IF Strategy = "page" THEN PageOwner(ring[Here], s.index) ELSE Here
Batched == {SpanOwner(task.spans[i]) : i \in DOMAIN task.spans} \ {Here}
Grouped(o, batch, s) == IF SpanOwner(s) = o THEN Append(batch, s.index) ELSE batch
BatchUpTo(o) ==
  LET batch[n \in 0 .. Len(task.spans)] ==
        IF n = 0 THEN <<>> ELSE Grouped(o, batch[n - 1], task.spans[n])
  IN batch
PagesOf(o) == BatchUpTo(o)[Len(task.spans)]

\* serveInternalPageRead and validateInternalPageReadRequest: the pages are the
\* owner's own, in order, and pages of the object.
ServesPages(o, pages) ==
  /\ Accepts(o, Here)
  /\ \A i \in DOMAIN pages : PageOwner(ring[o], pages[i]) = o /\ HasPage(pages[i], task.req.size)
  /\ \A i, j \in DOMAIN pages : i < j => pages[i] < pages[j]

\* closeCoordinatorPageBatches and the fallback to the upstream store.
FallBack ==
  /\ conn' = [p \in Peers |-> NoConn]
  /\ Goto("upstream")

\* openRemoteCoordinatorPageBatch: the owner answers 200 once it has a frame.
OpenBatch(o) ==
  /\ task.pc = "open" /\ o \in Batched /\ conn[o] = NoConn
  /\ IF ServesPages(o, PagesOf(o))
       THEN /\ conn' = [conn EXCEPT ![o] = [state |-> "open", asked |-> PagesOf(o),
                                             frames |-> <<>>, read |-> 0]]
            /\ UNCHANGED task
       ELSE FallBack
  /\ degraded' = Mismatched(o, Here)
  /\ UNCHANGED <<ring, client, faults>>

\* The owner cannot be reached, or refuses before its first frame: another
\* epoch, an upstream failure, no permit.
BatchFails(o) ==
  /\ task.pc = "open" /\ o \in Batched /\ conn[o] = NoConn /\ Fault
  /\ FallBack
  /\ UNCHANGED <<ring, degraded, client>>

\* The response is committed: status, Content-Length and Content-Range.
Commit ==
  client' = [client EXCEPT !.status = IF Class = "range" THEN 206 ELSE 200,
                           !.length = task.range.end - task.range.start + 1]

BeginStream ==
  /\ task.pc = "open" /\ \A o \in Batched : conn[o] # NoConn
  /\ Commit /\ Goto("stream")
  /\ UNCHANGED <<ring, degraded, conn, faults>>

\* Without peers to ask, the first page is read before the response begins.
FirstPageFails ==
  /\ task.pc = "open" /\ Strategy = "object" /\ Fault
  /\ Goto("done") /\ Answer(502)
  /\ UNCHANGED <<ring, degraded, conn>>

-----------------------------------------------------------------------------
(* Page owners write frames.                                                  *)
Page(index) == Positions(PageBounds(index, task.req.size).start, PageBounds(index, task.req.size).end)
WholeFrame(index) == PageFrame(index, FrameSize(index, task.req.size), Page(index))

\* A frame that breaks off after m bytes of its payload.
BrokenFrame(index, m) ==
  PageFrame(index, FrameSize(index, task.req.size), SubSeq(Page(index), 1, m))

\* The frames on the way from a page owner, and whether it goes on writing.
Writes(o, frames, state) ==
  conn' = [conn EXCEPT ![o] = [state |-> state, asked |-> @.asked, frames |-> frames, read |-> @.read]]

\* WritePageFrom: index, size, and that many bytes of the page.
WriteFrame(o) ==
  LET index == conn[o].asked[Len(conn[o].frames) + 1]
  IN /\ conn[o].state = "open" /\ Len(conn[o].frames) < Len(conn[o].asked)
     /\ Writes(o, Append(conn[o].frames, WholeFrame(index)), "open")
     /\ UNCHANGED <<ring, degraded, task, client, faults>>

\* WriteEnd.
WriteEnd(o) ==
  /\ conn[o].state = "open" /\ Len(conn[o].frames) = Len(conn[o].asked)
  /\ Writes(o, Append(conn[o].frames, EndFrame), "closed")
  /\ UNCHANGED <<ring, degraded, task, client, faults>>

\* The answer breaks off: a page falls short, the peer stops, the connection
\* or its deadline ends.  Frames under way are lost, the first of them perhaps
\* after some of its bytes.
LoseAnswer(o) ==
  LET c == conn[o]
  IN /\ c.state # "none" /\ task.pc # "done" /\ Fault
     /\ \E n \in c.read .. Len(c.frames) :
          \/ Writes(o, SubSeq(c.frames, 1, n), "closed")
          \/ /\ n < Len(c.asked)
             /\ \E m \in 0 .. FrameSize(c.asked[n + 1], task.req.size) - 1 :
                  Writes(o, Append(SubSeq(c.frames, 1, n), BrokenFrame(c.asked[n + 1], m)), "closed")
     /\ UNCHANGED <<ring, degraded, task, client>>

-----------------------------------------------------------------------------
(* The coordinator copies spans.                                              *)
\* Mutant of CopySpan: the bytes before the span are not skipped.
CopySpanUnskipped(page, s) ==
  SubSeq(page, 1, Smaller(s.end - s.start + 1, Len(page)))

\* copyPageSpan: the span's part of a page, as far as the page goes.
CopySpan(page, s) ==
  SubSeq(page, s.start - s.index * PageSize + 1,
               Smaller(s.end - s.index * PageSize + 1, Len(page)))

Current == task.spans[task.span]

\* A span is delivered in full and the next one follows, or the response is
\* cut off (abortCommittedResponse, or the server that misses bytes).
Deliver(bytes) ==
  LET whole == Len(bytes) = Current.end - Current.start + 1
  IN /\ client' = [client EXCEPT !.out = @ \o bytes, !.over = IF whole THEN @ ELSE "cut"]
     /\ task' = [task EXCEPT !.span = @ + 1,
                   !.pc = IF ~whole THEN "done"
                          ELSE IF task.span = Len(task.spans) THEN "finish" ELSE "stream"]

\* Mutant of Cut: an error follows the beginning of the response.
CutWithError == Answer(502) /\ Goto("done")

Cut == client' = [client EXCEPT !.over = "cut"] /\ Goto("done")

\* streamPageSpan, from the cache or from a fill.
StreamLocalSpan ==
  /\ task.pc = "stream" /\ SpanOwner(Current) = Here
  /\ \/ Deliver(CopySpan(Page(Current.index), Current)) /\ UNCHANGED faults
     \/ /\ Fault
        /\ \E m \in 0 .. Len(Page(Current.index)) - 1 :
             Deliver(CopySpan(SubSeq(Page(Current.index), 1, m), Current))
  /\ UNCHANGED <<ring, degraded, conn>>

\* Mutant of Expected: a frame as large as a page is too large.
ExpectedBelow(c, f) ==
  /\ f.type = "page" /\ f.size < PageSize
  /\ c.read < Len(c.asked) /\ f.index = c.asked[c.read + 1]

\* readPageStream: the next page that was asked for, and not too large.
Expected(c, f) ==
  /\ f.type = "page" /\ f.size <= PageSize
  /\ c.read < Len(c.asked) /\ f.index = c.asked[c.read + 1]

\* streamCoordinatorPageSpan from a page owner: NextPageStream, then the copy.
\* What the span leaves of the payload is drained when the frame is closed.
StreamRemoteSpan(o) ==
  LET c == conn[o]
      f == c.frames[c.read + 1]
  IN /\ task.pc = "stream" /\ SpanOwner(Current) = o /\ o # Here
     /\ IF c.read < Len(c.frames)
          THEN /\ conn' = [conn EXCEPT ![o] = [c EXCEPT !.read = c.read + 1]]
               /\ IF Expected(c, f) /\ f.index = Current.index
                    THEN Deliver(CopySpan(f.payload, Current))
                    ELSE Cut
          ELSE c.state = "closed" /\ Cut /\ UNCHANGED conn
     /\ UNCHANGED <<ring, degraded, faults>>

\* Every page owner's answer has to end with the end frame.
Ended(c) == c.read < Len(c.frames) /\ c.frames[c.read + 1] = EndFrame

FinishBatches ==
  /\ task.pc = "finish" /\ \A o \in Batched : Ended(conn[o])
  /\ client' = [client EXCEPT !.over = "whole"] /\ Goto("done")
  /\ UNCHANGED <<ring, degraded, conn, faults>>

\* An answer that ended without it cuts the response off after its last byte.
EndMissing(o) ==
  /\ task.pc = "finish" /\ o \in Batched
  /\ conn[o].state = "closed" /\ ~Ended(conn[o])
  /\ Cut
  /\ UNCHANGED <<ring, degraded, conn, faults>>

\* serveColdFullObject: none of the object is cached, and one upstream read
\* supplies all of it.
ServeCold ==
  /\ task.pc = "open" /\ Strategy = "object" /\ Class = "full"
  /\ \E n \in 0 .. task.req.size :
       /\ client' = [client EXCEPT !.status = 200, !.length = task.req.size,
                       !.out = Positions(0, n - 1), !.over = IF n = task.req.size THEN "whole" ELSE "cut"]
       /\ IF n = task.req.size THEN UNCHANGED faults ELSE Fault
  /\ Goto("done")
  /\ UNCHANGED <<ring, degraded, conn>>

\* The request is over.
Finished == task.pc = "done" /\ UNCHANGED vars

Next ==
  \/ Route \/ Arrive \/ PeerUnreachable
  \/ ServeInternal \/ RefuseSignature \/ ClientGone
  \/ HandlePass \/ ForwardAnswered \/ ForwardCopyFails \/ ForwardFails \/ Invalidate
  \/ MetadataMissing \/ MetadataFails \/ AnswerConditional \/ ServeHead
  \/ ReadAtOwner \/ ServeEmpty \/ PassUnsatisfied \/ PlanPages
  \/ BeginStream \/ FirstPageFails \/ StreamLocalSpan \/ FinishBatches \/ ServeCold
  \/ \E o \in Peers :
       \/ OpenBatch(o) \/ BatchFails(o)
       \/ WriteFrame(o) \/ WriteEnd(o) \/ LoseAnswer(o)
       \/ StreamRemoteSpan(o) \/ EndMissing(o)
  \/ Finished

Spec == Init /\ [][Next]_vars

-----------------------------------------------------------------------------
(* Properties.                                                                *)
\* The state has the shape the handlers rely on: a response never holds more
\* bytes than its Content-Length announced, and an answer never more frames
\* than pages were asked for and one end.
TypeOK ==
  /\ ring \in [Peers -> Rings] /\ degraded \subseteq Peers
  /\ task.at \in Peers /\ task.from \in Peers \cup {NoPeer} /\ task.to \in Peers \cup {NoPeer}
  /\ Len(client.out) <= client.length
  /\ \A o \in Peers : conn[o].read <= Len(conn[o].frames)
                      /\ Len(conn[o].frames) <= Len(conn[o].asked) + 1

\* The bytes a Range header asks of an object, by the definition of a byte
\* range and not by the code's arithmetic.
InRange(h, size, i) ==
  CASE h.kind = "span" -> h.first <= i /\ i <= h.last
    [] h.kind = "from" -> h.first <= i
    [] h.kind = "suffix" -> size - i <= h.last
    [] h.kind = "none" -> TRUE
Asked == {i \in 0 .. task.req.size - 1 : InRange(task.req.range, task.req.size, i)}

\* What a client receives of an object served from pages (ParseRange,
\* PagesForRange, the page frames, copyPageSpan) is always a beginning of the
\* bytes its Range header means, in order and without a gap: the k-th byte it
\* gets is the k-th byte asked for.  The announced length is their number, and
\* a response that is not cut off has all of them.
BodyIsTheRange ==
  client.length > 0 =>
    /\ client.length = Cardinality(Asked)
    /\ \A k \in DOMAIN client.out :
         /\ client.out[k] \in Asked
         /\ Cardinality({i \in Asked : i < client.out[k]}) = k - 1
    /\ client.over = "whole" => Len(client.out) = client.length

\* Page owner and coordinator agree on the frame protocol: a response is cut
\* off only after something was lost, never because the reader rejects what a
\* healthy owner wrote (PageFrameWriter, PageFrameReader, copyPageSpan).
OnlyLossCuts == client.over = "cut" => faults > 0

\* A page owner that has the coordinator's ring never refuses what it is asked
\* for: the pages of a batch are its own, in order, and pages of the object
\* (groupCoordinatorPageBatches, validateInternalPageReadRequest).
BatchesAgreed ==
  task.pc = "open" =>
    \A o \in Batched : Accepts(o, Here) => ServesPages(o, PagesOf(o))

\* The answer to a request, for its client, is a step-by-step ServedAnswer: it
\* has the status and the length of all the bytes asked for from the moment it
\* is committed, grows by the next of them, and is never taken back, replaced
\* by an error or by the upstream store's answer (serveDistributedPageRead,
\* abortCommittedResponse).
Answers == INSTANCE ServedAnswer WITH
  asked <- IF Class \in {"full", "range"} THEN Asked ELSE {},
  partial <- Class = "range",
  answer <- client
AnswerIsServed == Answers!Spec

\* A request of an object is handled by the object's owner, on behalf of a
\* peer with the same ring, unless it is a GET that the peer coordinates for
\* its own client: no write or HEAD is handled twice, at a second hop or by a
\* peer that only one side takes for the owner (shouldForwardToPeer,
\* validateInternalPeerHeaders).
HandledByOwner ==
  task.pc \in {"handle", "upstream", "invalidate", "open", "stream", "finish"} =>
    \/ ~task.req.object
    \/ Class \in {"full", "range"} /\ ~Forwarded
    \/ Here = ObjectOwner /\ (Forwarded => ring[task.from] = ring[Here])

\* The requests that replace or remove the object's bytes: PUT and COPY of the
\* object, DELETE, the completion of a multipart upload; not a part of an
\* upload and not a subresource.
Replaces(q) ==
  /\ q.object
  /\ \/ q.method = "PUT" /\ q.query = {}
     \/ q.method = "DELETE" /\ q.query = {}
     \/ q.method = "POST" /\ q.query = {"uploadId"}

\* A write that replaced the object and whose answer the client has received
\* in full is followed by the invalidation, by the peer that handled it, or
\* leaves that peer degraded (handle, shouldInvalidateAfterWrite).
WritesInvalidate ==
  /\ task.pc = "done" /\ task.effect = "applied" /\ Replaces(task.req)
  /\ client.over = "whole" /\ client.status = 200
  => Here \in degraded
=============================================================================
