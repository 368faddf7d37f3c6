----------------------------- MODULE PageStore ------------------------------
(***************************************************************************)
(* The local cache (internal/cache/cache.go): the index rows and the page  *)
(* files of one object, and the operations that run on them concurrently.  *)
(*                                                                         *)
(* Each operation is a process that runs once: a putter is one call of     *)
(* PutObject, a filler one BeginPageWrite .. Commit session, a reader one  *)
(* OpenPage, an invalidator one InvalidateObject.  The maintenance         *)
(* goroutine (eviction, metadata collection, touch flushes) is one more.   *)
(* One SQL statement, one transaction (writeMu makes it atomic), one file  *)
(* system call and one update of the in-memory byte count is a step.       *)
(* Eviction is the one for max_size; the quotas per bucket repeat it with  *)
(* another count and are left out.                                         *)
(***************************************************************************)
EXTENDS CacheIndex, FiniteSets, FiniteSetsExt

CONSTANTS
    Indexes,        \* page indexes of the object
    PageLen,        \* PageLen[etag][index]: bytes of a page of a version
    MaxSize,        \* cache.max_size
    BatchSize,      \* evictionBatchSize
    Putters, Fillers, Readers, Invalidators,
    MinEpochs,      \* minEpoch arguments of the invalidations
    GenerationGC,   \* rows outlive metadataMaxAge while the cache is open
    Restarts,       \* the process may stop and reopen the cache
    FileFaults      \* page files may be lost or truncated behind the index,
                    \* removals and the statements of eviction may fail

ASSUME StoreAssumption ==
    /\ PageLen \in [ETags -> [Indexes -> Nat \ {0}]]
    /\ MaxSize \in Nat \ {0}
    /\ BatchSize \in Nat \ {0}
    /\ MinEpochs \subseteq Nat
    /\ GenerationGC \in BOOLEAN
    /\ Restarts \in BOOLEAN
    /\ FileFaults \in BOOLEAN
    /\ Indexes \subseteq Nat

VARIABLES
    generation,     \* object_generations.epoch, or None
    object,         \* the objects row, or None
    old,            \* the rows, "object" and "generation", whose updated_at
                    \* is before the collection cutoff
    pages,          \* the pages rows by index
    accessed,       \* <<i, j>>: last_accessed_at of page i is before that of j
    files,          \* the page files: [path, content, size]
    cachedSize,     \* c.cachedSize
    evictionCh,     \* a signal waits in c.evictionCh
    touches,        \* accesses in touchCh and pendingTouches
    put, fill, open, invalidate,  \* the operations in progress
    worker,         \* the maintenance goroutine
    overtaken,      \* history: fills begun before the last epoch advance
    adrift,         \* history: calls with an epoch of a generation row that
                    \* was collected since, and whether the object row has
    rowAdrift,      \* one
    gaveUp          \* history: the last eviction pass ended with an error,
                    \* or the process stopped before it was over

rows == <<generation, object, old, pages, accessed>>
memory == <<cachedSize, evictionCh, touches>>
history == <<overtaken, adrift, rowAdrift, gaveUp>>
vars == <<rows, files, memory, put, fill, open, invalidate, worker, history>>

-----------------------------------------------------------------------------
(* Mutant: all versions of a page share one path. *)
PagePath(index, etag, epoch) == <<index, CHOOSE e \in ETags : TRUE, 0>>

(* pagePathForVersion: the path names the version, so two versions of a    *)
(* page never share a file.                                                *)
PagePathForVersion(index, etag, epoch) == <<index, etag, epoch>>

PathOf(index, row) == PagePathForVersion(index, row.etag, row.epoch)

(* os.Remove, tolerating a file that does not exist *)
Without(paths) == {f \in files : f.path \notin paths}

NoPages == [i \in Indexes |-> None]

(* Mutant: foreign keys are not enforced. *)
NoCascade(deleted, table) == table

(* ON DELETE CASCADE of the pages table *)
CascadePages(deleted, table) == IF deleted THEN NoPages ELSE table

Cached(table) == {i \in Indexes : table[i] # None}

(* pagesSize, and SELECT SUM(size) in readCacheSize *)
PagesSize(table) ==
    MapThenSumSet(LAMBDA i : table[i].size, Cached(table))

(* last_accessed_at of the pages in S becomes the same new timestamp *)
Touched(S) ==
    {pair \in accessed : pair[1] \notin S /\ pair[2] \notin S}
        \cup ((Indexes \ S) \X S)

(* Records for the operations, before they start and after they return;    *)
(* deleted is the RowsAffected of a DELETE.                                *)
PutIdle  == [pc |-> "idle", etag |-> None, epoch |-> None]
FillIdle == [pc |-> "idle", version |-> None, index |-> None, delta |-> 0]
OpenIdle == [pc |-> "idle", version |-> None, index |-> None, row |-> None,
             deleted |-> 0, content |-> None]
InvalidateIdle == [pc |-> "idle", victims |-> NoPages]
WorkerIdle == [pc |-> "select", batch |-> NoPages, order |-> {}, target |-> 0,
               removed |-> 0, index |-> None, row |-> None, deleted |-> 0]

Ended(idle) == [idle EXCEPT !.pc = "done"]

Running(operation) == operation.pc \notin {"idle", "done"}

(* c.writeMu.  A statement or a transaction holds it for one step, except  *)
(* InvalidateObject, whose deferred unlock keeps it until the files are    *)
(* gone and the byte count is adjusted.                                    *)
WriteMuFree == \A v \in Invalidators : ~Running(invalidate[v])

Init ==
    /\ generation = None
    /\ object = None
    /\ old = {}
    /\ pages = NoPages
    /\ accessed = {}
    /\ files = {}
    /\ cachedSize = 0
    /\ evictionCh = FALSE
    /\ touches = {}
    /\ put = [p \in Putters |-> PutIdle]
    /\ fill = [f \in Fillers |-> FillIdle]
    /\ open = [r \in Readers |-> OpenIdle]
    /\ invalidate = [v \in Invalidators |-> InvalidateIdle]
    /\ worker = WorkerIdle
    /\ overtaken = {}
    /\ adrift = {}
    /\ rowAdrift = FALSE
    /\ gaveUp = FALSE

-----------------------------------------------------------------------------
(* PutObject(meta): three statements on their own, then a re-read that     *)
(* changes nothing.                                                        *)

EnsureGenerationRow(p, etag) ==
    /\ put[p].pc = "idle"
    /\ WriteMuFree
    /\ generation' = EnsureGeneration(generation)
    /\ put' = [put EXCEPT ![p] = [pc |-> "generation", etag |-> etag,
                                  epoch |-> None]]
    /\ UNCHANGED <<object, old, pages, accessed, files, memory, fill, open,
                   invalidate, worker, history>>

(* Mutant: a missing row is not an error. *)
ReadGenerationUnchecked(p) ==
    /\ put[p].pc = "generation"
    /\ put' = [put EXCEPT ![p] = [@ EXCEPT !.pc = "upsert", !.epoch = generation]]
    /\ UNCHANGED <<rows, files, memory, fill, open, invalidate, worker,
                   history>>

(* The row may be gone again: then PutObject fails. *)
ReadGeneration(p) ==
    /\ put[p].pc = "generation"
    /\ put' = [put EXCEPT ![p] =
                 IF generation = None THEN Ended(PutIdle)
                 ELSE [@ EXCEPT !.pc = "upsert", !.epoch = generation]]
    /\ UNCHANGED <<rows, files, memory, fill, open, invalidate, worker,
                   history>>

(* ON CONFLICT(id) DO UPDATE: page rows of an earlier version stay. *)
UpsertObject(p) ==
    /\ put[p].pc = "upsert"
    /\ WriteMuFree
    /\ object' = [etag |-> put[p].etag, epoch |-> put[p].epoch]
    /\ old' = old \ {"object"}
    /\ put' = [put EXCEPT ![p] = Ended(PutIdle)]
    /\ rowAdrift' = (p \in adrift)
    /\ UNCHANGED <<generation, pages, accessed, files, memory, fill, open,
                   invalidate, worker, overtaken, adrift, gaveUp>>

(* A statement fails: the caller's context is cancelled, or the disk is    *)
(* full.                                                                   *)
PutFails(p) ==
    /\ Running(put[p])
    /\ put' = [put EXCEPT ![p] = Ended(PutIdle)]
    /\ UNCHANGED <<rows, files, memory, fill, open, invalidate, worker,
                   history>>

-----------------------------------------------------------------------------
(* A page fill: GetObject, then BeginPageWrite, Write and Commit with the  *)
(* version it returned.                                                    *)

PlanFill(f, i) ==
    /\ fill[f].pc = "idle"
    /\ object # None
    /\ fill' = [fill EXCEPT ![f] = [pc |-> "begin", version |-> object,
                                    index |-> i, delta |-> 0]]
    /\ adrift' = IF rowAdrift THEN adrift \cup {f} ELSE adrift
    /\ UNCHANGED <<rows, files, memory, put, open, invalidate, worker,
                   overtaken, rowAdrift, gaveUp>>

BeginPageWrite(f) ==
    /\ fill[f].pc = "begin"
    /\ fill' = [fill EXCEPT ![f] =
                  IF IsCurrent(object, generation, @.version)
                  THEN [@ EXCEPT !.pc = "write"] ELSE Ended(FillIdle)]
    /\ UNCHANGED <<rows, files, memory, put, open, invalidate, worker,
                   history>>

PageBytes(f) == PageLen[fill[f].version.etag][fill[f].index]

(* The upstream body breaks off, a write fails, or Write refuses a page    *)
(* larger than the cache: Abort removes the temporary file.                *)
Abort(f) ==
    /\ fill[f].pc = "write"
    /\ fill' = [fill EXCEPT ![f] = Ended(FillIdle)]
    /\ UNCHANGED <<rows, files, memory, put, open, invalidate, worker,
                   history>>

FinalPath(f) == PagePathForVersion(fill[f].index, fill[f].version.etag,
                                   fill[f].version.epoch)

(* Commit: sync, close and rename of the complete temporary file. *)
RenamePage(f) ==
    /\ fill[f].pc = "write"
    /\ PageBytes(f) <= MaxSize
    /\ files' = Without({FinalPath(f)})
                   \cup {[path |-> FinalPath(f), content |-> fill[f].version.etag,
                          size |-> PageBytes(f)]}
    /\ fill' = [fill EXCEPT ![f].pc = "commit"]
    /\ UNCHANGED <<rows, memory, put, open, invalidate, worker, history>>

(* putPageIfCurrent: the transaction tests the version again before it     *)
(* writes the row, and reports the size of the row it replaces.            *)
PutPageIfCurrent(f) ==
    LET i == fill[f].index
        version == fill[f].version
        previousSize == IF pages[i] = None THEN 0 ELSE pages[i].size
    IN  /\ fill[f].pc = "commit"
        /\ WriteMuFree
        /\ IsCurrent(object, generation, version)
        /\ pages' = [pages EXCEPT ![i] = [etag |-> version.etag,
                                          epoch |-> version.epoch,
                                          size |-> PageBytes(f)]]
        /\ accessed' = Touched({i})
        /\ fill' = [fill EXCEPT ![f].pc = "adjust",
                                ![f].delta = PageBytes(f) - previousSize]
        /\ UNCHANGED <<generation, object, old, files, memory, put, open,
                       invalidate, worker, history>>

(* The version is not current any more, or the transaction fails. *)
RejectPage(f) ==
    /\ fill[f].pc = "commit"
    /\ WriteMuFree
    /\ fill' = [fill EXCEPT ![f].pc = "unlink"]
    /\ UNCHANGED <<rows, files, memory, put, open, invalidate, worker,
                   history>>

UnlinkRejectedPage(f) ==
    /\ fill[f].pc = "unlink"
    /\ files' = Without({FinalPath(f)})
    /\ fill' = [fill EXCEPT ![f] = Ended(FillIdle)]
    /\ UNCHANGED <<rows, memory, put, open, invalidate, worker, history>>

(* Mutant: Commit does not ask for eviction. *)
AdjustForPageOnly(f) ==
    /\ fill[f].pc = "adjust"
    /\ cachedSize' = AdjustCacheSize(cachedSize, fill[f].delta)
    /\ fill' = [fill EXCEPT ![f] = Ended(FillIdle)]
    /\ UNCHANGED <<rows, files, evictionCh, touches, put, open, invalidate,
                   worker, history>>

AdjustForPage(f) ==
    /\ fill[f].pc = "adjust"
    /\ cachedSize' = AdjustCacheSize(cachedSize, fill[f].delta)
    /\ fill' = [fill EXCEPT ![f].pc = "signal"]
    /\ UNCHANGED <<rows, files, evictionCh, touches, put, open, invalidate,
                   worker, history>>

(* A send on a channel of capacity one that never blocks. *)
RequestEviction(f) ==
    /\ fill[f].pc = "signal"
    /\ evictionCh' = TRUE
    /\ fill' = [fill EXCEPT ![f] = Ended(FillIdle)]
    /\ UNCHANGED <<rows, files, cachedSize, touches, put, open, invalidate,
                   worker, history>>

-----------------------------------------------------------------------------
(* OpenPage(index, etag, epoch) with the version GetObject returned.       *)

PlanOpen(r, i) ==
    /\ open[r].pc = "idle"
    /\ object # None
    /\ open' = [open EXCEPT ![r] = [OpenIdle EXCEPT
                  !.pc = "lookup", !.version = object, !.index = i]]
    /\ UNCHANGED <<rows, files, memory, put, fill, invalidate, worker,
                   history>>

(* getPage; a row of another version is on its way out. *)
LookupPage(r) ==
    LET row == pages[open[r].index]
    IN  /\ open[r].pc = "lookup"
        /\ open' = [open EXCEPT ![r] =
              IF row = None THEN Ended(OpenIdle)
              ELSE IF IsPageOf(row, @.version)
                   THEN [@ EXCEPT !.pc = "file", !.row = row]
                   ELSE [@ EXCEPT !.pc = "stale", !.row = row]]
        /\ UNCHANGED <<rows, files, memory, put, fill, invalidate, worker,
                       history>>

RowDeleted(i) == pages' = [pages EXCEPT ![i] = None]

(* deletePageIfCurrent: only the very row that was read. *)
DeletePageIfCurrent(r) ==
    LET i == open[r].index
        same == pages[i] = open[r].row
    IN  /\ open[r].pc = "stale"
        /\ WriteMuFree
        /\ IF same THEN RowDeleted(i) ELSE UNCHANGED pages
        /\ open' = [open EXCEPT ![r].pc = "unlink", ![r].deleted = IF same THEN 1 ELSE 0]
        /\ UNCHANGED <<generation, object, old, accessed, files, memory, put,
                       fill, invalidate, worker, history>>

(* os.Open and Stat of the row's file: a file of the recorded size is a    *)
(* hit (requestTouch drops the access when the queue is full), a missing   *)
(* or truncated one is not.                                                *)
OpenFile(r) ==
    LET i == open[r].index
        found == {f \in files : f.path = PathOf(i, open[r].row)}
    IN  /\ open[r].pc = "file"
        /\ \/ \E f \in found :
                 /\ f.size = open[r].row.size
                 /\ open' = [open EXCEPT ![r].pc = "hit",
                                         ![r].content = f.content]
                 /\ touches' \in {touches, touches \cup {i}}
           \/ /\ \E f \in found : f.size # open[r].row.size
              /\ open' = [open EXCEPT ![r].pc = "corrupt"]
              /\ UNCHANGED touches
           \/ /\ found = {}
              /\ open' = [open EXCEPT ![r].pc = "missing"]
              /\ UNCHANGED touches
        /\ UNCHANGED <<rows, files, cachedSize, evictionCh, put, fill,
                       invalidate, worker, history>>

(* deletePage by (object, index), whatever the row is by now. *)
DeletePage(r) ==
    LET i == open[r].index
    IN  /\ open[r].pc \in {"missing", "corrupt"}
        /\ WriteMuFree
        /\ RowDeleted(i)
        /\ open' = [open EXCEPT
              ![r].pc = IF @ = "corrupt" THEN "unlink" ELSE "adjust",
              ![r].deleted = IF pages[i] = None THEN 0 ELSE 1]
        /\ UNCHANGED <<generation, object, old, accessed, files, memory, put,
                       fill, invalidate, worker, history>>

UnlinkOpened(r) ==
    /\ open[r].pc = "unlink"
    /\ files' = Without({PathOf(open[r].index, open[r].row)})
    /\ open' = [open EXCEPT ![r].pc = "adjust"]
    /\ UNCHANGED <<rows, memory, put, fill, invalidate, worker, history>>

AdjustForOpened(r) ==
    /\ open[r].pc = "adjust"
    /\ cachedSize' = IF open[r].deleted > 0
                     THEN AdjustCacheSize(cachedSize, -open[r].row.size)
                     ELSE cachedSize
    /\ open' = [open EXCEPT ![r] = Ended(OpenIdle)]
    /\ UNCHANGED <<rows, files, evictionCh, touches, put, fill, invalidate,
                   worker, history>>

(* The caller closes the page, or a statement or file call fails; a file   *)
(* that cannot be removed leaves the byte count as it was.                 *)
OpenReturns(r) ==
    /\ Running(open[r])
    /\ open[r].pc # "adjust"
    /\ open[r].pc = "unlink" => FileFaults
    /\ open' = [open EXCEPT ![r] = Ended(OpenIdle)]
    /\ UNCHANGED <<rows, files, memory, put, fill, invalidate, worker,
                   history>>

-----------------------------------------------------------------------------
(* InvalidateObject(minEpoch): one transaction, then the files, then the   *)
(* byte count.                                                             *)

InvalidateTx(v, minEpoch) ==
    LET current == EnsureGeneration(generation)
        next == NextEpoch(current, minEpoch)
        deletes == ShouldDeleteObject(object, minEpoch)
    IN  /\ invalidate[v].pc = "idle"
        /\ WriteMuFree
        /\ generation' = next
        /\ object' = IF deletes THEN None ELSE object
        /\ pages' = CascadePages(deletes, pages)
        /\ old' = old \ ((IF next > current THEN {"generation"} ELSE {})
                            \cup (IF deletes THEN {"object"} ELSE {}))
        /\ invalidate' = [invalidate EXCEPT ![v] =
              IF deletes /\ Cached(pages) # {}
              THEN [pc |-> "unlink", victims |-> pages]
              ELSE Ended(InvalidateIdle)]
        /\ overtaken' = IF next > current
                        THEN overtaken \cup {f \in Fillers :
                               fill[f].pc \in {"begin", "write", "commit"}}
                        ELSE overtaken
        /\ UNCHANGED <<accessed, files, memory, put, fill, open, worker,
                       adrift, rowAdrift, gaveUp>>

UnlinkInvalidated(v) ==
    LET victims == invalidate[v].victims
    IN  /\ invalidate[v].pc = "unlink"
        /\ files' = Without({PathOf(i, victims[i]) : i \in Cached(victims)})
        /\ invalidate' = [invalidate EXCEPT ![v].pc = "adjust"]
        /\ UNCHANGED <<rows, memory, put, fill, open, worker, history>>

AdjustForInvalidated(v) ==
    /\ invalidate[v].pc = "adjust"
    /\ cachedSize' = AdjustCacheSize(cachedSize,
                                     -PagesSize(invalidate[v].victims))
    /\ invalidate' = [invalidate EXCEPT ![v] = Ended(InvalidateIdle)]
    /\ UNCHANGED <<rows, files, evictionCh, touches, put, fill, open, worker,
                   history>>

(* The file of page i cannot be removed: InvalidateObject returns the      *)
(* error with the rows gone, the files from i on in place and the byte     *)
(* count as it was.                                                        *)
UnlinkInvalidatedFails(v, i) ==
    LET victims == invalidate[v].victims
    IN  /\ FileFaults
        /\ invalidate[v].pc = "unlink"
        /\ i \in Cached(victims)
        /\ files' = Without({PathOf(j, victims[j]) :
                               j \in {k \in Cached(victims) : k < i}})
        /\ invalidate' = [invalidate EXCEPT ![v] = Ended(InvalidateIdle)]
        /\ UNCHANGED <<rows, memory, put, fill, open, worker, history>>

-----------------------------------------------------------------------------
(* maintenanceLoop: one goroutine, so eviction, collection and touch       *)
(* flushes never overlap.                                                  *)

WakeEvict ==
    /\ worker.pc = "select"
    /\ evictionCh
    /\ evictionCh' = FALSE
    /\ worker' = [worker EXCEPT !.pc = "check"]
    /\ gaveUp' = FALSE
    /\ UNCHANGED <<rows, files, cachedSize, touches, put, fill, open,
                   invalidate, overtaken, adrift, rowAdrift>>

(* oldestPages: the BatchSize least recently accessed rows; equal          *)
(* timestamps may go either way.                                           *)
OldestPages(S) ==
    /\ S \subseteq Cached(pages)
    /\ Cardinality(S) = Min({BatchSize, Cardinality(Cached(pages))})
    /\ \A i \in S, j \in Cached(pages) \ S : <<j, i>> \notin accessed

Only(S, table) == [i \in Indexes |-> IF i \in S THEN table[i] ELSE None]

SelectVictims ==
    /\ worker.pc = "check"
    /\ \/ /\ cachedSize > MaxSize
          /\ \E S \in (SUBSET Indexes) \ {{}} :
               /\ OldestPages(S)
               /\ worker' = [pc |-> "row", batch |-> Only(S, pages),
                             order |-> accessed,
                             target |-> cachedSize - MaxSize, removed |-> 0,
                             index |-> None, row |-> None, deleted |-> 0]
       \/ /\ cachedSize <= MaxSize \/ Cached(pages) = {}
          /\ worker' = WorkerIdle
    /\ UNCHANGED <<rows, files, memory, put, fill, open, invalidate, history>>

(* removePage: deletePage by (object, index) of the next row of the batch. *)
DeleteVictim(i) ==
    /\ worker.pc = "row"
    /\ WriteMuFree
    /\ i \in Cached(worker.batch)
    /\ \A j \in Cached(worker.batch) : <<j, i>> \notin worker.order
    /\ RowDeleted(i)
    /\ worker' = [worker EXCEPT !.pc = "unlink", !.index = i,
                                !.row = worker.batch[i],
                                !.batch[i] = None,
                                !.deleted = IF pages[i] = None THEN 0 ELSE 1]
    /\ UNCHANGED <<generation, object, old, accessed, files, memory, put, fill,
                   open, invalidate, history>>

UnlinkVictim ==
    /\ worker.pc = "unlink"
    /\ files' = Without({PathOf(worker.index, worker.row)})
    /\ worker' = [worker EXCEPT !.pc = "adjust"]
    /\ UNCHANGED <<rows, memory, put, fill, open, invalidate, history>>

(* Evict gives up on an error; the next stored page asks again. *)
EvictGivesUp ==
    /\ FileFaults
    /\ worker' = WorkerIdle
    /\ gaveUp' = TRUE
    /\ UNCHANGED <<rows, files, memory, put, fill, open, invalidate, overtaken,
                   adrift, rowAdrift>>

(* oldestPages or deletePage fails: the rows are as they were. *)
EvictStatementFails ==
    /\ worker.pc = "row" \/ (worker.pc = "check" /\ cachedSize > MaxSize)
    /\ EvictGivesUp

(* os.Remove fails: the row is gone, the file stays and is still counted. *)
UnlinkVictimFails ==
    /\ worker.pc = "unlink"
    /\ EvictGivesUp

AdjustForVictim ==
    LET removed == worker.removed + worker.row.size
        more == removed < worker.target /\ Cached(worker.batch) # {}
    IN  /\ worker.pc = "adjust"
        /\ cachedSize' = IF worker.deleted > 0
                         THEN AdjustCacheSize(cachedSize, -worker.row.size)
                         ELSE cachedSize
        /\ worker' = IF more THEN [worker EXCEPT !.pc = "row",
                                                !.removed = removed]
                     ELSE [WorkerIdle EXCEPT !.pc = "check"]
        /\ UNCHANGED <<rows, files, evictionCh, touches, put, fill, open,
                       invalidate, history>>

FlushTouches ==
    /\ worker.pc = "select"
    /\ WriteMuFree
    /\ touches # {}
    /\ accessed' = Touched(touches)
    /\ touches' = {}
    /\ UNCHANGED <<generation, object, old, pages, files, cachedSize,
                   evictionCh, put, fill, open, invalidate, worker, history>>

(* collectMetadata, first statement: old object rows without pages. *)
DeleteOldPageLessObjects ==
    /\ worker.pc = "select"
    /\ WriteMuFree
    /\ old # {}
    /\ IF "object" \in old /\ Cached(pages) = {}
       THEN object' = None /\ old' = old \ {"object"}
       ELSE UNCHANGED <<object, old>>
    /\ worker' = [worker EXCEPT !.pc = "generations"]
    /\ UNCHANGED <<generation, pages, accessed, files, memory, put, fill, open,
                   invalidate, history>>

(* The generation row goes, and with it the fence of the calls in progress *)
(* that hold one of its epochs.                                            *)
CollectGeneration ==
    /\ generation' = None
    /\ old' = old \ {"generation"}
    /\ adrift' = adrift \cup {p \in Putters : put[p].pc = "upsert"}
                        \cup {f \in Fillers : Running(fill[f])}

(* Mutant: old generations go even while an object row refers to them. *)
DeleteOldGenerations ==
    /\ worker.pc = "generations"
    /\ WriteMuFree
    /\ IF "generation" \in old THEN CollectGeneration
       ELSE UNCHANGED <<generation, old, adrift>>
    /\ worker' = WorkerIdle
    /\ UNCHANGED <<object, pages, accessed, files, memory, put, fill, open,
                   invalidate, overtaken, rowAdrift, gaveUp>>

(* Second statement: old generation rows without an object row. *)
DeleteOldUnreferencedGenerations ==
    /\ worker.pc = "generations"
    /\ WriteMuFree
    /\ IF "generation" \in old /\ object = None THEN CollectGeneration
       ELSE UNCHANGED <<generation, old, adrift>>
    /\ worker' = WorkerIdle
    /\ UNCHANGED <<object, pages, accessed, files, memory, put, fill, open,
                   invalidate, overtaken, rowAdrift, gaveUp>>

-----------------------------------------------------------------------------
(* Time, the disk and the process.                                         *)

Quiet ==
    /\ \A p \in Putters : ~Running(put[p])
    /\ \A f \in Fillers : ~Running(fill[f])
    /\ \A r \in Readers : ~Running(open[r])
    /\ \A v \in Invalidators : ~Running(invalidate[v])
    /\ worker.pc = "select"

(* metadataMaxAge passes.  No request lives that long, so none is open.    *)
RowsAge ==
    /\ GenerationGC
    /\ Quiet
    /\ old' = (IF generation # None THEN {"generation"} ELSE {})
                \cup (IF object # None THEN {"object"} ELSE {})
    /\ old' # old
    /\ UNCHANGED <<generation, object, pages, accessed, files, memory, put,
                   fill, open, invalidate, worker, history>>

(* Manual cleanup or a disk error: a file vanishes, or loses its end. *)
DamageFile(f) ==
    /\ FileFaults
    /\ f.size > 0
    /\ files' \in {files \ {f}, (files \ {f}) \cup {[f EXCEPT !.size = 0]}}
    /\ UNCHANGED <<rows, memory, put, fill, open, invalidate, worker, history>>

Stopped(operations, idle) ==
    [o \in DOMAIN operations |->
        IF Running(operations[o]) THEN Ended(idle) ELSE operations[o]]

(* The process stops at any point and Open runs: what was in progress is   *)
(* gone, the byte count is read back from the rows, and an object row      *)
(* without a generation gets one; nothing asks for eviction.  A database   *)
(* that is found corrupt is removed with all page files.                   *)
Reopen(corrupt) ==
    /\ Restarts
    /\ IF corrupt
       THEN /\ generation' = None
            /\ object' = None
            /\ old' = {}
            /\ pages' = NoPages
            /\ files' = {}
            /\ cachedSize' = 0
            /\ rowAdrift' = FALSE
            /\ gaveUp' = FALSE
       ELSE /\ generation' = IF generation = None /\ object # None
                             THEN object.epoch ELSE generation
            /\ old' = IF generation = None /\ "object" \in old
                      THEN old \cup {"generation"} ELSE old
            /\ cachedSize' = PagesSize(pages)
            /\ rowAdrift' = (rowAdrift /\ generation # None)
            /\ gaveUp' = (PagesSize(pages) > MaxSize)
            /\ UNCHANGED <<object, pages, files>>
    /\ evictionCh' = FALSE
    /\ touches' = {}
    /\ put' = Stopped(put, PutIdle)
    /\ fill' = Stopped(fill, FillIdle)
    /\ open' = Stopped(open, OpenIdle)
    /\ invalidate' = Stopped(invalidate, InvalidateIdle)
    /\ worker' = WorkerIdle
    /\ overtaken' = {}
    /\ adrift' = {}
    /\ UNCHANGED accessed

-----------------------------------------------------------------------------
PutStep(p) ==
    \/ \E etag \in ETags : EnsureGenerationRow(p, etag)
    \/ ReadGeneration(p)
    \/ UpsertObject(p)
    \/ PutFails(p)

FillStep(f) ==
    \/ \E i \in Indexes : PlanFill(f, i)
    \/ BeginPageWrite(f)
    \/ Abort(f)
    \/ RenamePage(f)
    \/ PutPageIfCurrent(f)
    \/ RejectPage(f)
    \/ UnlinkRejectedPage(f)
    \/ AdjustForPage(f)
    \/ RequestEviction(f)

OpenStep(r) ==
    \/ \E i \in Indexes : PlanOpen(r, i)
    \/ LookupPage(r)
    \/ DeletePageIfCurrent(r)
    \/ OpenFile(r)
    \/ DeletePage(r)
    \/ UnlinkOpened(r)
    \/ AdjustForOpened(r)
    \/ OpenReturns(r)

InvalidateStep(v) ==
    \/ \E m \in MinEpochs : InvalidateTx(v, m)
    \/ UnlinkInvalidated(v)
    \/ \E i \in Indexes : UnlinkInvalidatedFails(v, i)
    \/ AdjustForInvalidated(v)

EvictStep ==
    \/ WakeEvict
    \/ SelectVictims
    \/ \E i \in Indexes : DeleteVictim(i)
    \/ UnlinkVictim
    \/ EvictStatementFails
    \/ UnlinkVictimFails
    \/ AdjustForVictim

WorkerStep ==
    \/ EvictStep
    \/ FlushTouches
    \/ DeleteOldPageLessObjects
    \/ DeleteOldUnreferencedGenerations

Environment ==
    \/ RowsAge
    \/ \E f \in files : DamageFile(f)
    \/ \E corrupt \in BOOLEAN : Reopen(corrupt)

Next ==
    \/ \E p \in Putters : PutStep(p)
    \/ \E f \in Fillers : FillStep(f)
    \/ \E r \in Readers : OpenStep(r)
    \/ \E v \in Invalidators : InvalidateStep(v)
    \/ WorkerStep
    \/ Environment

Spec == Init /\ [][Next]_vars

(* The goroutines of the process are scheduled, and select takes a ready   *)
(* case at random, so a waiting signal is not passed over for ever.        *)
(* Nothing is asked of the callers, who may start no operation, nor of the *)
(* environment: a removal may fail or succeed, any number of times.        *)
FairSpec ==
    /\ Spec
    /\ SF_vars(WakeEvict)
    /\ WF_vars(worker.pc # "select" /\ WorkerStep)
    /\ \A f \in Fillers : WF_vars(AdjustForPage(f) \/ RequestEviction(f))
    /\ \A v \in Invalidators : WF_vars(InvalidateStep(v) /\ Running(invalidate[v]))

-----------------------------------------------------------------------------
(* Properties.                                                             *)

PutPCs == {"idle", "generation", "upsert", "done"}
FillPCs == {"idle", "begin", "write", "commit", "unlink", "adjust", "signal",
            "done"}
OpenPCs == {"idle", "lookup", "stale", "file", "hit", "missing", "corrupt",
            "unlink", "adjust", "done"}
WorkerPCs == {"select", "check", "row", "unlink", "adjust", "generations"}

Paths == Indexes \X ETags \X Nat

Tables == [Indexes -> PageRow \cup {None}]

RowsOK ==
    /\ generation \in Nat \cup {None}
    /\ object \in Version \cup {None}
    /\ old \subseteq {"generation", "object"}
    /\ pages \in Tables
    /\ accessed \subseteq Indexes \X Indexes
    /\ touches \subseteq Indexes

FilesOK == files \subseteq [path : Paths, content : ETags, size : Nat]

PutRecord == [pc : PutPCs, etag : ETags \cup {None}, epoch : Nat \cup {None}]

PutOK ==
    /\ put \in [Putters -> PutRecord]
    /\ \A p \in Putters : Running(put[p]) =>
          /\ put[p].etag # None
          /\ put[p].pc = "upsert" => put[p].epoch # None

FillRecord == [pc : FillPCs, version : Version \cup {None},
               index : Indexes \cup {None}, delta : Int]

FillOK ==
    /\ fill \in [Fillers -> FillRecord]
    /\ \A f \in Fillers : Running(fill[f]) =>
          fill[f].version # None /\ fill[f].index # None

OpenRecord == [pc : OpenPCs, version : Version \cup {None},
               index : Indexes \cup {None}, row : PageRow \cup {None},
               deleted : {0, 1}, content : ETags \cup {None}]

OpenOK ==
    /\ open \in [Readers -> OpenRecord]
    /\ \A r \in Readers : Running(open[r]) =>
          /\ open[r].version # None
          /\ open[r].index # None
          /\ open[r].pc # "lookup" => open[r].row # None

InvalidateOK ==
    invalidate \in [Invalidators -> [pc : {"idle", "unlink", "adjust", "done"},
                                    victims : Tables]]

(* The eviction target is, like cachedSize, a sum over page rows. *)
WorkerRecord(target) ==
    [pc : WorkerPCs, batch : Tables, order : SUBSET (Indexes \X Indexes),
     target : {target}, removed : Int, index : Indexes \cup {None},
     row : PageRow \cup {None}, deleted : {0, 1}]

WorkerOK ==
    /\ worker \in WorkerRecord(worker.target)
    /\ worker.pc \in {"unlink", "adjust"} =>
          worker.index # None /\ worker.row # None

HistoryOK ==
    /\ overtaken \subseteq Fillers
    /\ adrift \subseteq Putters \cup Fillers
    /\ rowAdrift \in BOOLEAN
    /\ gaveUp \in BOOLEAN

(* Every table, file and operation record has its shape; an operation in   *)
(* progress has the version, index, epoch or row its next step needs.      *)
TypeOK ==
    /\ RowsOK
    /\ FilesOK
    /\ PutOK
    /\ FillOK
    /\ OpenOK
    /\ InvalidateOK
    /\ WorkerOK
    /\ HistoryOK
    /\ evictionCh \in BOOLEAN

(* A page row never outlives the object row and the generation row that    *)
(* fence it, and never has a later epoch than the generation: whatever the *)
(* order of PutObject, Commit, InvalidateObject, OpenPage, eviction,       *)
(* metadata collection and restarts.                                       *)
PagesFenced ==
    \A i \in Indexes : pages[i] # None =>
        /\ object # None
        /\ generation # None
        /\ pages[i].epoch <= generation

(* OpenPage serves the bytes of the version the caller planned with, and   *)
(* all of them, while commits of other versions, invalidations, eviction,  *)
(* damage and restarts work on the same page.                              *)
HitIsPlannedVersion ==
    \A r \in Readers : open[r].pc = "hit" =>
        /\ open[r].content = open[r].version.etag
        /\ open[r].row.size = PageLen[open[r].version.etag][open[r].index]

(* PLAN.md: "Page commit is fenced by per-object epoch so in-flight        *)
(* fetches cannot resurrect invalidated data."  A fill that was begun      *)
(* before an invalidation advanced the epoch never gets its row in         *)
(* (putPageIfCurrent), whatever PutObject, peer invalidations, metadata    *)
(* collection and restarts do, with one exception: the generation row its  *)
(* epoch comes from was collected while the epoch was in use.              *)
NoResurrection ==
    \A f \in overtaken \ adrift : fill[f].pc \notin {"adjust", "signal"}

(* The epochs requests work with never run ahead of the generation row: an *)
(* object row, a PutObject about to write one and a fill in progress hold  *)
(* epochs the generation has reached, also when peers' invalidations come  *)
(* late or twice and through every restart, unless the row was collected   *)
(* under them.                                                             *)
EpochsReached ==
    /\ object # None /\ ~rowAdrift =>
          generation # None /\ object.epoch <= generation
    /\ \A p \in Putters \ adrift : put[p].pc = "upsert" =>
          generation # None /\ put[p].epoch <= generation
    /\ \A f \in Fillers \ adrift : Running(fill[f]) =>
          generation # None /\ fill[f].version.epoch <= generation

(* Eviction wakes up: whenever the byte count is over max_size, the        *)
(* maintenance goroutine brings it back or runs out of pages to remove,    *)
(* unless it gives up on an error or the process stops; after either, the  *)
(* next signal starts over.  The signal of the last Commit is never lost,  *)
(* whatever Evict was doing when it came.                                  *)
OverLimitIsEvicted ==
    cachedSize > MaxSize
        ~> (cachedSize <= MaxSize \/ Cached(pages) = {} \/ gaveUp)

(* README.md: "Cached page bytes are bounded by `cache.max_size`."  Once   *)
(* every operation is over and no eviction is due, the rows hold no more   *)
(* than max_size bytes.                                                    *)
CachedBytesBounded ==
    Quiet /\ ~evictionCh => PagesSize(pages) <= MaxSize
=============================================================================
