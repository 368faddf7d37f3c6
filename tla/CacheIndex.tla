----------------------------- MODULE CacheIndex -----------------------------
(***************************************************************************)
(* The rows of the SQLite cache index (internal/cache/cache.go) and what   *)
(* one statement or transaction on them computes.  Every statement on      *)
(* object_generations, objects and pages is keyed by the object id, so the *)
(* operators are about the rows of ONE object:                             *)
(*   - its generation row: the epoch, or None when there is no row;        *)
(*   - its object row: [etag, epoch], or None.  The size, page size and    *)
(*     headers of the row are those of the version the ETag names;         *)
(*   - its page rows: [etag, epoch, size] or None per page index.          *)
(* The modules that hold the rows as state share these operators.          *)
(***************************************************************************)
EXTENDS Integers

CONSTANTS ETags,   \* versions of the object, named by their ETag
          None     \* "no row"

ASSUME NoneAssumption == None \notin ETags /\ None \notin Int

(* cache.Object as the proxy uses it: what a request plans its page reads  *)
(* with, the (etag, epoch) pair that names a version of the cached object. *)
Version == [etag : ETags, epoch : Nat]

(* cache.Page without the key and the path, which the rest determines.     *)
PageRow == [etag : ETags, epoch : Nat, size : Nat]

ASSUME NoneIsNoRow == None \notin Version /\ None \notin PageRow

(* INSERT ... VALUES (id, 0) ON CONFLICT DO NOTHING *)
EnsureGeneration(generation) == IF generation = None THEN 0 ELSE generation

(* Mutant: a peer's minimum is taken over even when it is behind. *)
NextEpochAssigned(current, minEpoch) ==
    IF minEpoch = 0 THEN current + 1 ELSE minEpoch

(* The epoch InvalidateObject leaves behind: a caller without a minimum    *)
(* (a local write) always advances, a peer's minimum is only caught up to. *)
NextEpoch(current, minEpoch) ==
    IF minEpoch = 0 THEN current + 1
    ELSE IF current < minEpoch THEN minEpoch ELSE current

(* Whether InvalidateObject deletes the object row (its pages cascade): a  *)
(* peer's invalidation never deletes a row of a later epoch than its own.  *)
ShouldDeleteObject(object, minEpoch) ==
    /\ object # None
    /\ minEpoch > 0 => object.epoch <= minEpoch

(* Mutant: only the ETag is compared, not the epoch. *)
IsCurrentETag(object, generation, version) ==
    /\ object # None
    /\ generation # None
    /\ object.etag = version.etag

(* validatePageCommit, and the same test inside putPageIfCurrent: both     *)
(* rows exist, the generation is the expected epoch, the ETag is current.  *)
IsCurrent(object, generation, version) ==
    /\ object # None
    /\ generation # None
    /\ generation = version.epoch
    /\ object.etag = version.etag

(* OpenPage's test of a page row against the version the caller planned    *)
(* its read with.                                                          *)
IsPageOf(row, version) == row.etag = version.etag /\ row.epoch = version.epoch

(* adjustCacheSize: the in-memory byte count never goes below zero.        *)
AdjustCacheSize(size, delta) == IF size + delta < 0 THEN 0 ELSE size + delta
=============================================================================
