------------------------------- MODULE Routing -------------------------------
(* The decisions a request meets before any byte is moved: what it is         *)
(* (internal/s3request/classify.go), which peer of a ring owns its object and *)
(* each page (internal/peer/router.go), whether a successful answer makes the *)
(* cached object stale and what a cached object answers to a conditional      *)
(* request (internal/proxy/proxy.go).  Peer identifiers are numbers, so that  *)
(* they are ordered as the strings of the code are; a ring is the set of its  *)
(* peers, and its fingerprint is that set.                                    *)
EXTENDS Integers, FiniteSets

CONSTANTS
  Peers,   \* the identifiers of all peers
  Keys,    \* routing keys: ObjectKey and one per page
  Score,   \* rendezvousScore, a hash of the key and the peer
  MaxScore \* the largest score, 2^64 - 1 in the code

ASSUME RoutingAssumption ==
  /\ Peers \subseteq Nat
  /\ Keys \subseteq Nat
  /\ MaxScore \in Nat
  /\ Score \in [Peers -> [Keys -> 0 .. MaxScore]]

\* The routing key of the object, and of each of its pages (PageOwnerKey).
ObjectKey == 0
PageKey(index) == index + 1

\* ownerForRoutingKey: the highest score wins, and the smaller identifier
\* among equal ones.
Beats(p, q, key) ==
  \/ Score[p][key] > Score[q][key]
  \/ Score[p][key] = Score[q][key] /\ p <= q
Owner(R, key) == CHOOSE p \in R : \A q \in R : Beats(p, q, key)

PageOwner(R, index) == Owner(R, PageKey(index))

-----------------------------------------------------------------------------
(* A request: method, whether the path names an object and not only a bucket, *)
(* the names in its query, the headers that matter, its Range header.         *)
\* The query of an SDK that only names the operation.
Marker == {"x-id=GetObject"}

\* isSingleRangeHeader: one range, of numbers, in order.
IsSingleRange(h) ==
  \/ h.kind \in {"from", "suffix"}
  \/ h.kind = "span" /\ h.first <= h.last

\* Classify: what may be answered from the cache, and as what.
Classify(q) ==
  CASE ~q.object \/ q.ssec -> "pass"
    [] q.query # {} /\ ~(q.method = "GET" /\ q.query = Marker) -> "pass"
    [] q.method = "HEAD" /\ q.range.kind = "none" -> "head"
    [] q.method = "GET" /\ q.range.kind = "none" -> "full"
    [] q.method = "GET" /\ IsSingleRange(q.range) -> "range"
    [] OTHER -> "pass"

\* Mutant of ShouldInvalidate: a completed multipart upload is not a write.
ShouldInvalidatePlain(q) ==
  /\ q.object
  /\ \/ q.method = "DELETE"
     \/ q.method = "PUT" /\ "uploadId" \notin q.query

\* shouldInvalidateAfterWrite.
ShouldInvalidate(q) ==
  /\ q.object
  /\ \/ q.method = "DELETE"
     \/ q.method = "POST" /\ "uploadId" \in q.query
     \/ /\ q.method = "PUT"
        /\ ~({"uploadId", "partNumber"} \subseteq q.query)
        /\ q.copy \/ {"uploadId", "partNumber"} \cap q.query = {}

\* cachedConditionalStatus: what the object's metadata answers by itself.  Each
\* condition is absent, holds, fails, or cannot be evaluated ("unreadable": a
\* date that does not parse, or no cached Last-Modified); 0 means that the
\* request goes on, -1 that it is passed to the upstream store.
ConditionalStatus(c) ==
  CASE c.ifMatch = "fails" -> 412
    [] c.ifMatch = "absent" /\ c.ifUnmodifiedSince = "unreadable" -> -1
    [] c.ifMatch = "absent" /\ c.ifUnmodifiedSince = "fails" -> 412
    [] c.ifNoneMatch = "fails" -> 304
    [] c.ifNoneMatch = "holds" -> 0
    [] c.ifModifiedSince = "unreadable" -> -1
    [] c.ifModifiedSince = "fails" -> 304
    [] OTHER -> 0
=============================================================================
