# simple-s3-cache: a TLA+ verification project

simple-s3-cache is a read-through page cache in front of an S3 store. Objects
are cut into pages, pages are files, and a SQLite index says which file belongs
to which version of which object. Writes go through to the upstream store and
are followed by an invalidation. Several proxies (peers) may share the work: an
object and each of its pages has an owner, a read is put together from the
pages of several peers, and invalidations are broadcast. What can go wrong is
mostly a matter of order: a page that was fetched before a write and stored
after it, two requests that fill one page, a peer that missed an invalidation,
a process that stops half way.

## Inventory

| part | code | module |
|---|---|---|
| cache index, page files, eviction, metadata collection | `internal/cache/cache.go` | `CacheIndex`, `PageStore` |
| HEAD, range and full reads of one proxy, fills, refetch | `internal/proxy/proxy.go` | `ReadThrough` |
| what a read promises its client | `PLAN.md` (Consistency) | `FreshReads` (abstract) |
| what a client may see of one answer | `internal/proxy/proxy.go` | `ServedAnswer` (abstract) |
| invalidation after a write | `internal/proxy/proxy.go` | `ReadThrough`, `DistributedRead`, `RequestPath` |
| invalidation broadcast, retry queue, degraded state | `internal/proxy/proxy.go`, `internal/ops/state.go` | `InvalidationRetry` |
| page-sharded reads: versions and epochs of several peers | `internal/proxy/proxy.go` | `DistributedRead` |
| coalesced fills, fill permits, connections that wait | `internal/proxy/proxy.go`, `internal/peer` | `PageFills` |
| routing, rendezvous hashing, internal requests | `internal/peer/router.go`, `internal/proxy/proxy.go` | `Routing`, `RequestPath` |
| page frames between peers | `internal/peer/pageframe.go` | `RequestPath` |
| range planning | `internal/cacheplan/range.go` | `RangePlan` |
| request classification | `internal/s3request/` | `Routing` |
| upload bodies, signatures | `internal/proxy/proxy.go` | not modelled: conversions no property depends on |
| server, configuration, metrics, command line, chart, e2e | `internal/server`, `internal/config`, `internal/metrics`, `cmd`, `charts`, `e2e` | not modelled: wiring |

`PROJECT.json` lists the components, the lines each definition stands for, the
hazards and the properties that cover them. For each module `M` that is
model-checked, `MCM` holds the small sets its configurations use.

## Modules

**CacheIndex** holds what one statement or transaction computes on the rows of
one object: the epoch an invalidation leaves (`NextEpoch`), the fence of a page
commit (`IsCurrent`), the test of a page row against a planned read
(`IsPageOf`). Statements are keyed by the object id, so the rows of one object
are enough. The exceptions are eviction, which orders the pages of all objects,
and the collection of old rows. Several objects would add no new effect on one
object's rows: each row is evicted or collected on its own.

**PageStore** is the cache in full. Putters, fillers, readers and invalidators
are single calls of `PutObject`, `BeginPageWrite` to `Commit`, `OpenPage` and
`InvalidateObject`; the maintenance goroutine evicts, flushes touches and
collects metadata. A step is one SQL statement, one transaction (`writeMu`), one
file system call, or one update of the byte count. The environment ages rows,
loses or truncates files, makes removals and the statements of eviction fail,
and restarts the process. `old` and `accessed` stand for the timestamps. Four
history variables are about the past: `overtaken` names the fills under way when
an invalidation advanced the epoch, `adrift` and `rowAdrift` the calls and the
object row with an epoch of a generation row that was collected since, and
`gaveUp` says that the last eviction pass ended with an error or with the
process. Page rows go with their object row because every connection is opened
with `foreign_keys(1)`.

**ReadThrough** is the request path of one proxy without peers. Each cache call
is the statement that decides it, except `PutObject`, whose generation read and
upsert stay apart. `pages[i].bytes` is the version the bytes really came from,
beside the ETag the row claims. `promise` of a read is the set of versions the
upstream store held from the last successful invalidation before the read began
until now.

**FreshReads** is the promise without a cache: a read returns bytes of one
version, a promised one. `ReadThrough!ReadsAreFresh` is the refinement, with
what a client sees of a request as the mapping.

**InvalidationRetry** is the broadcast of one peer: handlers, the queue under
its lock, the degraded state under another, the retry worker, and the epochs
other peers have applied. Its steps are the critical sections. A failed send
may or may not have reached the peer. The history variable `raced` says that a
miss was queued after the worker had found the queue empty and before, or just
after, it cleared the degraded state.

**DistributedRead** has the rows of several peers, whose epochs only messages
keep in step. A read is coordinated by the peer it reached; its requests for
pages (`serve`) are handled at the page owners, which take over a planned epoch,
refuse one they have passed, and fill missing pages. Writes are handled by the
object's owner, which invalidates everywhere; missed invalidations are retried,
and a restart loses the queue and possibly the rows. `recent` has the versions
since the last write that every peer confirmed. Two history variables name the
conditions under which the code keeps its promises: `led` (every write took an
epoch above those of the other peers) and `swapped` (a page owner read back
another request's row).

**PageFills** is how those reads wait for one another: the map of fills under
way, both permit semaphores, errors handed to the requests that wait, cancelled
contexts, and the connection a page is written to as its coordinator reads it.
Versions and epochs are left to `DistributedRead`.

**RangePlan** and **Routing** are pure: `ParseRange`, `PagesForRange` and
`PageBounds`; `Classify`, rendezvous ownership, `shouldInvalidateAfterWrite` and
the conditional statuses. **RequestPath** composes them along the way of one
request through the peers, which may have different member lists: the hop to
the object's owner, the checks of internal requests, the batches, the frames of
`pageframe.go` that a lost connection cuts anywhere, the bytes copied from them,
and the invalidation after a write. A byte is its position in the object.

**ServedAnswer** is the answer to one request without peers, pages or frames:
either no bytes that the proxy assembles, or status and length of all the bytes
asked for, then these bytes in order, to the end or to a cut.
`RequestPath!AnswerIsServed` is the refinement, with the client's view of the
response as the mapping. It says more than `BodyIsTheRange`, which is about one
state at a time: a committed response is not taken back, given another status,
or followed by the answer of a fallback.

## Runs

| run | shows | states |
|---|---|---|
| `PageStoreFence` | no overtaken fill is stored and no epoch runs ahead of the generation, except after the collection of a generation row in use; no page outlives its rows; with restarts and peer minimum epochs out of order | 297,133 |
| `PageStoreReads` | an `OpenPage` hit is the planned version in full, with collection, file faults and restarts | 1,088,151 |
| `PageStoreEviction` | a cache over `max_size` is brought back unless the pass fails or the process stops; statements and removals may fail | 210,990 |
| `ReadThroughFresh` | bodies are fresh and of one version, cached pages current unless degraded, refinement of `FreshReads` | 716,229 |
| `InvalidationRetry` | no missed invalidation is forgotten or stranded; none is passed over when readiness recovers, unless it raced; each is confirmed, and readiness returns | 29,526 |
| `DistributedRead` | bodies are fresh while writes lead the epochs, of one version unless swapped, pages lie at their owners | 1,013,558 |
| `PageFills` | permits are accounted for, a waiting request has a leader, one fill per page, every read ends | 399,457 |
| `RequestPath` | a body is the range asked for, and is cut only by a loss; refinement of `ServedAnswer`; owners handle what they own and accept the batches asked of them; writes invalidate | 322,505 |

Four runs end in a counterexample, each against a sentence of the repository:

- `PageStoreBound`: `removePage` deletes whatever row is at the index but
  subtracts the size of the row that was selected. If a fill replaced it by a
  smaller page, the count falls behind the rows and the cache settles above
  `max_size`.
- `ReadThroughHead`: metadata fetched before a write is upserted after the
  write's invalidation, and a later HEAD answers with the replaced version.
  Bodies are not affected: pages are fetched with `If-Match`.
- `DistributedFresh`: fallbacks of a coordinator advance its own epoch alone. A
  later write takes an epoch this peer has passed, its invalidation deletes
  nothing there, and a stale page is served after a write that every peer
  confirmed. `FreshWhileLed` is what remains of the promise.
- `DistributedMixed`: a page owner reads back a row that another request
  upserted at the same epoch, and serves its version inside a response whose
  header names the planned one. `OneVersionUnlessSwapped` is what remains.

### Exceptions that happen

Besides `FreshWhileLed` and `OneVersionUnlessSwapped`, four passing properties
name an exception. Each exception is reachable: without it TLC finds a
counterexample.

- `NoResurrection` and `EpochsReached` except what is `adrift`. Collection
  deletes a generation row although a fill and a `PutObject` hold its epoch. The
  epochs start again at zero, the next invalidation makes the same epoch anew,
  and the fill it overtook is stored. The calls need not be long, only the rows
  old. `PLAN.md` makes no exception: "in-flight fetches cannot resurrect
  invalidated data".
- `OverLimitIsEvicted` excepts `gaveUp`. `Evict` returns at its first error,
  which nobody looks at, and only a `Commit` asks for eviction: after one failed
  statement or removal the cache stays above `max_size` until another page is
  stored.
- `ReadyIsConfirmed` excepts `raced`. A handler marks the proxy degraded before
  it queues the miss, and the worker clears the mark after it has let go of the
  queue. The proxy is then ready until the entry is confirmed, since a failed
  retry does not mark it again; `HAZARDS.md` wants readiness only after the
  confirmation.

Two more sentences are not kept, and no property claims them. Full reads of an
object without cached pages do not share `pageFills` (`serveColdFullObject`), so
two of them fetch the same pages, although `PLAN.md` says that concurrent misses
are coalesced; `OneFillPerPage` is about the requests that share it. And a
refusal by a page owner of another ring is answered from upstream, like that of
an unreachable one, where `DISTRIBUTED.md` asks to fail closed; the body is the
range asked for all the same.

### Bounds

Two versions are the fewest that tell stale from fresh. They differ in size
where the byte count or a range past the end matters, and not in
`PageStoreReads` and `PageStoreEviction`: in a read, a size check must not hide
a wrong version. Two putters, two fillers and two invalidators give every pair
of racing calls; the byte count needs four fills. A page larger than `max_size` is
never stored, so eviction needs two pages that fit one at a time, and two
fillers; `PageStoreEviction`, the liveness run, makes do with one putter.
`PageStoreFence` has no file faults, which touch no row or epoch, and
`PageStoreReads` no eviction; reads beside an eviction that fails were checked
once (1,516,277 states) and are covered by the proof. `MinEpochs` up
to 2 has peers behind, level and ahead. `ReadThrough` has two reads (a leader
and a follower, or a fill and the read that trusts it) and one write.
`InvalidationRetry` has two handlers on one object (an older and a newer epoch)
and a queue of one, so that it overflows. `DistributedRead` has two peers, a
page each, two reads, a write and one fault; `DistributedFresh` lets one client
ask again, because three reads in a row are needed. `PageFills` has a
coordinator that owns nothing, two owners, and a circle of two waiting reads;
with one object and these limits it is the object's semaphore that refuses, and
the refusal of the peer's is covered by the proof only.
`RequestPath` has three peers in two rings, every header of small numbers, five
object sizes around a page size of 2, and two losses.

Larger instances were checked once and are too slow to keep: `DistributedRead`
with two writers, one read and a client that asks again (1,667,054 states) and,
before the loss of a confirmation alone was a fault, with both pages asked for
at either peer (2.46 million) and with two writers (6.9 million); `PageFills`
with both requests for both reads (696,871); `RequestPath` with a page size of
3, one fault and `ReadSharding` "page" (226,493) or "object" (208,812).

Operations run once, which bounds the epochs. Deadlock is not checked where
every process ends; `RequestPath` checks it. Symmetry is used in safety runs
only; `ReadThroughFresh` also checks the refinement, a safety property, under
it.

### Fairness

`PageStoreEviction`: strong fairness of waking for eviction, because `select`
picks a ready case at random; weak fairness of started goroutines. Nothing says
that a failing statement or removal succeeds in the end: a pass that fails is
over, and `gaveUp` says so until the next signal. `PageFills`:
weak fairness of progress as a whole: handlers go on, upstream calls answer or
fail, clients read or go away, and the deadlines of connections pass; starting a
read and every fault stay unforced. `InvalidationRetry`: weak fairness of the
worker and of handlers that must record a miss, and strong fairness of each
entry's retry: a peer asked over and over answers at some time. A peer that
never returns is outside the claim.

## Proofs

Every safety property of the passing runs, the two refinements included, is
proved for every value of the constants that satisfies the module's named
assumption. TLC checked the inductive invariants of `ReadThroughProofs`,
`DistributedReadProofs` and `RequestAnswerProofs` on their runs' instances
before they were proved.

| module | theorems | inductive invariant |
|---|---|---|
| `PageStoreProofs` | `TypeCorrect`, `FencedPages`, `HitsArePlanned`; `EpochsAreReached`, `FencedFills` | `TypeOK`, `PagesFenced`; `ReadInv`; `FenceInv` |
| `InvalidationRetryProofs` | `RetryTypes`, `NoMissForgotten`, `NoEntryStranded`; `ReadinessIsEarned` | `RetryInv`; `ReadyInv` |
| `ReadThroughProofs` | `Typing`, `FreshBodies`, `OneVersionPerResponse`, `CacheSettles`, `ReadPathIsFresh` | `Inv` |
| `DistributedReadProofs` | `Typing`, `FreshUnlessOvertaken`, `OneVersionPerBody`, `PagesStayAtOwners` | `Inv` |
| `PageFillsProofs` | `TypeTheorem`, `PermitsTheorem`, `WaitersTheorem`, `OneFillTheorem` | `Inv` |
| `RequestPathProofs` | `RendezvousTheorem`, `ParseTheorem`, `SpansTheorem`; `HandledTheorem`, `WritesTheorem` | (operators); `RoutingInv` |
| `RequestBodyProofs` | `BatchTheorem`; `BodyTheorem`, `BatchesTheorem` | (a plan); `Inv`: `RoutingInv`, `Framed`, `Body` |
| `RequestAnswerProofs` | `TypeTheorem`, `LossTheorem`, `AnswerTheorem` | `Inv` and `AnswerInv` |

The last three modules are one development, each extending the one before.

**The cache.** `NoResurrection` is not inductive: nothing in it says why an
overtaken fill will be refused. `FenceInv` adds that such a fill is already
refused or holds an epoch below the generation. The generation only grows, until
its row is collected; a fill under way at that moment is `adrift`, and so is a
`PutObject` about to upsert, the row it writes and every fill planned with that
row. For all others the generation has reached the epoch they hold
(`EpochsReached`), which is also why a fill overtaken now is behind. All five
theorems include collection, restarts and file faults.
`HitIsPlannedVersion` needs `ReadInv`: a file's content is the version in its
path, a row has the size of its version's page, and a reader past the lookup
holds a row of its plan.

**The retry queue.** `MissesAreQueued` and `EntriesHaveWorker` need
`WorkerStarted`, which ties `started` to the worker. `ReadyIsConfirmed` needs
two facts about the way there (`ReadyInv`): unless a miss raced, a worker about
to clear the degraded state has every miss confirmed, and a ready proxy has no
handler between its mark and its queue entry. The first comes from
`MissesAreQueued` on an empty queue without overflow.

**The read path of one proxy.** `Inv` of `ReadThroughProofs` gives every
request a `Shape` (what it has planned and holds at each step), `OneVersion`
(what was sent is of the plan) and `Fresh`. The heart of `Fresh` is that a plan
is never ahead of the generation, and that a fetched page whose plan has the
current epoch is of a version since the last invalidation: an epoch is never
used again, so a page that still passes the fence of `Commit` was fetched after
it. `RowsInv` says the same of the pages stored. A request under way is promised
every recent version, so whatever it takes from the cache is promised. The
refinement follows step by step: every action changes one request in a way
`FreshReads` allows, or leaves what clients see. `ReadThroughAssumption` says
that page indexes are numbers, hold 0, and hold the pages of every version.

**Several peers.** `Inv` of `DistributedReadProofs` is `TypeOK`, an invariant of
each read together with its requests at the page owners (`RequestsInv`), one of
each peer's rows (`RowsInv`), and, while `led`, `FreshInv`. `Bytes(p)` is what a
peer stores, or holds and may still store: the pages fetched with its current
epoch. A step either keeps a peer's epoch and adds at most the upstream's
version to `Bytes(p)`, or moves the epoch on and empties it. `FreshInv` says
that `Bytes(p)` of every peer lies within `recent` and within the promise of
every read under way; and, of a write that is being broadcast, that a peer which
has confirmed it or reached its epoch has only versions since the write. The
last clause is what `led` buys: no peer had the write's epoch when it was taken,
so a peer that has it now has dropped its pages since. When the last peer has
confirmed, `recent` shrinks to these versions. For `OneVersionUnlessSwapped`,
`Paired` ties a page request to the plan of the read it belongs to: they have
the same version unless swapped, and a read without a plan has no request left
over. `DistributedAssumption` says that page indexes are an interval from 0 and
that `None` is not a row.

**Fills and permits.** `Inv` of `PageFillsProofs` counts permits as the
cardinality of the workers at a step that holds one, ties `pageFills` to the
workers that fill (in both directions), and lets a read have workers only at
peers it has asked. It needs a finite set of readers.

**Routing, ranges and bytes.** `RoutingInv` follows the request from hop to
hop. `BodyTheorem` rests on `SpansTheorem` (the spans of a range partition it)
and on `FramesOK`: every frame is a beginning of its page. Sizes and page size
are arbitrary.

**Batches and frames.** `BatchUpTo(o)[n]` is the batch of an owner after `n`
rounds of the loop in `groupCoordinatorPageBatches`. `BatchTheorem` says what
the loop leaves: exactly the pages of the owner's spans, ascending, each once.
That is an induction over the spans, done with the smallest counterexample: the
first round after which the batch is wrong. The owner's own checks
(`validateInternalPageReadRequest`) follow from it, which is `BatchesTheorem`.

`OnlyLossCuts` is far from inductive: a cut follows from a frame that is not
the one expected, and nothing in the property says which frames there are.
`AnswerInv` says that an answer has at most the frames asked for and one end
(`Exchanges`), and that while nothing was lost (`Undisturbed`) every answer is
in order (its k-th frame is the whole k-th page asked for, then the end), every
owner was asked for its batch, and the coordinator has read from each owner as
many frames as the batch had pages before the current span. By `BatchNext` the
next frame is then the current span's. It also says that a response with a body
keeps its status (`Committed`) and that a read whose client has its answer is
not continued (`Listening`).

**The answer.** `AnswerTheorem` shows that `RequestPath` implements
`ServedAnswer`. `AnswerKinds` classifies every step by what the client sees of
it: nothing, an answer without assembled bytes (`Told`), or more of the body
(`Served`); `BeginningIs` shows that a beginning of the wanted range is a
beginning of the bytes asked for in their order.

Only model-checked: liveness, that is `OverLimitIsEvicted`, `ReadsFinish`,
`MissesAreRetried` and `ReadinessRecovers`. Fairness and ENABLED are beyond the
prover. The counterexamples of the four failing runs are TLC's too.

## Not modelled

Quotas per bucket, `PutPage` and `StorePage` (called by tests only), temporary
files, upload bodies, signatures, metrics, `Close`. `ReadThrough` and
`DistributedRead` collect no generation rows, so their freshness is that of
epochs that do not repeat; what happens when they do is in `PageStore` (see the
exceptions above). A part upload replaces no object and a bulk delete names its
keys in the body, so `WritesInvalidate` is about neither; after a bulk delete
nothing is invalidated. The models have one object; `InvalidationRetry` has a
set of them. The hash of rendezvous routing is an arbitrary score.
