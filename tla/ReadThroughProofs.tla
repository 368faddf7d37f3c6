------------------------- MODULE ReadThroughProofs --------------------------
(***************************************************************************)
(* ReadThrough for every set of versions, pages, reads and writes: bodies  *)
(* are fresh and of one version, pages are fetched once, cached pages are  *)
(* current, and the read path implements FreshReads.                       *)
(*                                                                         *)
(* The argument for freshness: an epoch is never used again after an       *)
(* invalidation, so a page whose fill still has the current epoch was      *)
(* fetched after the last one and is of a recent version (RecInv); a read  *)
(* that is under way is promised every recent version.                     *)
(***************************************************************************)
EXTENDS ReadThrough, TLAPS

Planning == {"upsert", "reread"}
Paging   == {"open", "join", "wait", "woken", "fetch", "begin", "commit", "reopen",
             "coldget", "coldbegin", "coldcommit"}
Holding  == {"begin", "commit", "coldbegin", "coldcommit"}

(* The inductive invariant of a request, with the versions since the last  *)
(* invalidation and the generation row.  Shape: what is planned and held.  *)
Shape(rd) ==
    /\ rd \in ReadRecord
    /\ rd.pc = "generation" => rd.head \in ETags
    /\ rd.pc \in Planning \cup Paging => rd.plan \in Version
    /\ rd.pc \in Paging => rd.last < PageCount[rd.plan.etag]
    /\ rd.pc \in Holding => rd.body = rd.plan.etag

(* The bytes that were sent are of the version of the plan and the header. *)
OneVersion(rd) ==
    /\ rd.sent \subseteq {rd.header}
    /\ rd.pc \notin Paging \cup Ends => rd.sent = {}
    /\ rd.pc \in Paging => rd.sent \subseteq {rd.plan.etag}
    /\ rd.pc \in {"coldbegin", "coldcommit"} => rd.header = rd.plan.etag

(* What was sent and what is held is promised; what is held with the       *)
(* current epoch is recent.                                                *)
Fresh(rd, rec, gen) ==
    /\ rd.sent \subseteq rd.promise
    /\ Running(rd) => rec \subseteq rd.promise
    /\ rd.pc \in Holding => rd.body \in rd.promise
    /\ rd.pc \in Planning \cup Paging => gen \in Nat /\ rd.plan.epoch <= gen
    /\ rd.pc \in Holding /\ rd.plan.epoch = gen => rd.body \in rec

RecInv(rd, rec, gen) == Shape(rd) /\ OneVersion(rd) /\ Fresh(rd, rec, gen)

ReadsInv == \A r \in Readers : RecInv(read[r], recent, generation)

Quiet == ~degraded /\ \A w \in Writers : write[w] \notin {"answered", "lost"}

(* The rows are no newer than the generation, the bytes of a page are of   *)
(* its version, which is a recent one, and when no write is on its way the *)
(* upstream's version is the only recent one.                              *)
RowsInv ==
    /\ upstream \in recent
    /\ object # None => generation \in Nat /\ object.epoch <= generation
    /\ \A i \in Indexes : pages[i] # None =>
          pages[i].bytes = pages[i].etag /\ pages[i].bytes \in recent
    /\ Quiet => recent = {upstream}

Inv == TypeOK /\ ReadsInv /\ RowsInv

-----------------------------------------------------------------------------
(* Records of requests.                                                    *)

(* What a step may do to a request as its client sees it. *)
Goes(old, new) ==
    /\ Running(old) /\ new.pc # "idle"
    /\ new.promise = old.promise
    /\ \/ new.sent = old.sent
       \/ \E v \in old.promise \ {None} : old.sent \subseteq {v} /\ new.sent = {v}

Follows(old, new, rec, gen) == RecInv(new, rec, gen) /\ Goes(old, new)

LEMMA EndedFollows ==
    ASSUME NEW old \in ReadRecord, NEW rd \in ReadRecord, NEW pc \in Ends, NEW rec, NEW gen,
           rd.sent \subseteq {rd.header}, rd.sent \subseteq rd.promise,
           Running(old), rd.promise = old.promise,
           \/ rd.sent = old.sent
           \/ \E v \in old.promise \ {None} : old.sent \subseteq {v} /\ rd.sent = {v}
    PROVE  Follows(old, Ended(rd, pc), rec, gen)
<1> DEFINE new == Ended(rd, pc)
<1>1. 0 \in Indexes
  BY ReadThroughAssumption
<1>2. ReadIdle \in ReadRecord
  BY <1>1 DEF ReadIdle, ReadRecord, ReadPCs
<1>3. new \in ReadRecord
  BY <1>2 DEF Ended, ReadRecord, ReadPCs
<1>4. /\ new.pc \in Ends /\ new.header = rd.header /\ new.sent = rd.sent
      /\ new.promise = rd.promise
  BY <1>2 DEF Ended, ReadRecord
<1> HIDE DEF new
<1>5. /\ ~Running(new) /\ new.pc # "idle"
      /\ new.pc \notin Planning \cup Paging \cup {"generation"}
      /\ new.pc \notin Holding
  BY <1>4 DEF Running, Ends, Planning, Paging, Holding
<1>6. RecInv(new, rec, gen)
  BY <1>3, <1>4, <1>5 DEF RecInv, Shape, OneVersion, Fresh, Holding, Paging
<1>7. Goes(old, new)
  BY <1>4, <1>5 DEF Goes
<1> QED BY <1>6, <1>7 DEF Follows, new

(* Only the place in the program changes. *)
MayMove(rd, pc) ==
    /\ pc \in Planning \cup Paging =>
          /\ rd.pc \in Planning \cup Paging
          /\ pc \in Paging <=> rd.pc \in Paging
          /\ pc \in Holding => rd.pc \in Holding
          /\ pc \in {"coldbegin", "coldcommit"} => rd.pc \in {"coldbegin", "coldcommit"}
    /\ pc \notin Paging => rd.sent = {}

LEMMA MovesFollows ==
    ASSUME NEW rd, NEW rec, NEW gen, RecInv(rd, rec, gen), Running(rd),
           NEW pc \in ReadPCs \ {"idle", "generation"}, MayMove(rd, pc)
    PROVE  Follows(rd, [rd EXCEPT !.pc = pc], rec, gen)
<1> DEFINE new == [rd EXCEPT !.pc = pc]
<1>1. rd \in ReadRecord
  BY DEF RecInv, Shape
<1>2. /\ new \in ReadRecord /\ new.pc = pc
      /\ new.head = rd.head /\ new.plan = rd.plan /\ new.body = rd.body /\ new.at = rd.at
      /\ new.last = rd.last
      /\ new.header = rd.header /\ new.sent = rd.sent /\ new.promise = rd.promise
  BY <1>1 DEF ReadRecord, MayMove
<1> HIDE DEF new
<1>3. Shape(new)
  BY <1>2 DEF MayMove, RecInv, Shape, Holding, Paging
<1>4. OneVersion(new)
  BY <1>2 DEF MayMove, RecInv, OneVersion, Holding, Paging
<1>5. Fresh(new, rec, gen)
  BY <1>2 DEF MayMove, RecInv, Fresh, Holding, Paging
<1>6. Goes(rd, new)
  BY <1>2 DEF MayMove, Goes
<1> QED BY <1>3, <1>4, <1>5, <1>6 DEF Follows, RecInv, new

(* A request that ends as it is. *)
LEMMA EndsFollows ==
    ASSUME NEW rd, NEW rec, NEW gen, RecInv(rd, rec, gen), Running(rd), NEW pc \in Ends
    PROVE  Follows(rd, Ended(rd, pc), rec, gen)
BY EndedFollows DEF RecInv, Shape, OneVersion, Fresh

(* What becomes of a request that fails, also after it sent more bytes. *)
LEMMA FailedFollows ==
    ASSUME NEW old, NEW rd, NEW rec, NEW gen, NEW cause,
           old \in ReadRecord, RecInv(rd, rec, gen), Running(old), Running(rd),
           rd.promise = old.promise, rd.sent = {} => old.sent = {},
           \/ rd.sent = old.sent
           \/ \E v \in old.promise \ {None} : old.sent \subseteq {v} /\ rd.sent = {v}
    PROVE  Follows(old, Failed(rd, cause), rec, gen)
<1>1. rd \in ReadRecord /\ rd.sent \subseteq {rd.header} /\ rd.sent \subseteq rd.promise
  BY DEF RecInv, Shape, OneVersion, Fresh
<1>2. ASSUME NEW pc \in Ends
      PROVE  Follows(old, Ended(rd, pc), rec, gen)
  BY <1>1, EndedFollows
<1>3. CASE rd.sent = {} /\ cause = "changed" /\ rd.refetched = 0
  <2> DEFINE new == [rd EXCEPT !.pc = "refetch"]
  <2>1. Failed(rd, cause) = new
    BY <1>3 DEF Failed
  <2>2. Follows(rd, new, rec, gen)
    BY <1>3, MovesFollows DEF MayMove, ReadPCs, Planning, Paging
  <2>3. new.pc = "refetch" /\ new.sent = {}
    BY <1>1, <1>3 DEF ReadRecord
  <2> HIDE DEF new
  <2>4. Goes(old, new)
    BY <1>3, <2>2, <2>3 DEF Follows, Goes
  <2> QED BY <2>1, <2>2, <2>4 DEF Follows
<1>4. CASE rd.sent # {}
  BY <1>2, <1>4 DEF Failed, Ends
<1>5. CASE rd.sent = {} /\ ~(cause = "changed" /\ rd.refetched = 0)
  BY <1>2, <1>5 DEF Failed, Ends
<1> QED BY <1>3, <1>4, <1>5

LEMMA NotFoundFollows ==
    ASSUME NEW rd, NEW rec, NEW gen, RecInv(rd, rec, gen), Running(rd), rd.sent = {}
    PROVE  Follows(rd, NotFound(rd), rec, gen) /\ Follows(rd, NotStored(rd), rec, gen)
<1>1. Follows(rd, Ended(rd, "done"), rec, gen) /\ Follows(rd, Ended(rd, "failed"), rec, gen)
  BY EndsFollows DEF Ends
<1>2. Follows(rd, [rd EXCEPT !.pc = "forward"], rec, gen)
  BY MovesFollows DEF MayMove, ReadPCs, Planning, Paging
<1> QED BY <1>1, <1>2 DEF NotFound, NotStored

(* A plan is made from an object row that is not ahead of the generation. *)
LEMMA PlannedFollows ==
    ASSUME NEW rd, NEW rec, NEW gen \in Nat, RecInv(rd, rec, gen), Running(rd), rd.sent = {},
           NEW obj \in Version, obj.epoch <= gen
    PROVE  Follows(rd, Planned(rd, obj), rec, gen)
<1> DEFINE count == PageCount[obj.etag]
           planned == [rd EXCEPT !.plan = obj]
<1>0. rd \in ReadRecord /\ obj.etag \in ETags
  BY DEF RecInv, Shape, Version
<1>1. count \in Nat /\ 0 .. (count - 1) \subseteq Indexes /\ Indexes \subseteq Nat
      /\ 0 \in Indexes
  BY <1>0, ReadThroughAssumption
<1>2. rd.first \in Indexes /\ rd.last \in Indexes
  BY <1>0 DEF ReadRecord
<1> HIDE DEF count
<1>3. /\ planned \in ReadRecord /\ planned.plan = obj /\ planned.pc = rd.pc
      /\ planned.sent = {} /\ planned.promise = rd.promise /\ planned.header = rd.header
  BY <1>0 DEF ReadRecord
<1> HIDE DEF planned
<1>4. ASSUME NEW pc \in Ends PROVE Follows(rd, Ended(planned, pc), rec, gen)
  BY <1>0, <1>3, <1>4, EndedFollows
<1>5. Follows(rd, Ended(Headers(planned, obj.etag), "done"), rec, gen)
  <2> DEFINE headed == Headers(planned, obj.etag)
  <2>1. headed \in ReadRecord /\ headed.sent = {} /\ headed.promise = rd.promise
    BY <1>0, <1>3 DEF Headers, ReadRecord
  <2> HIDE DEF headed
  <2>2. Follows(rd, Ended(headed, "done"), rec, gen)
    BY <1>0, <2>1, EndedFollows DEF Ends
  <2> QED BY <2>2 DEF headed
<1>6. ASSUME NEW new \in ReadRecord, new.pc \in {"open", "coldget"}, new.plan = obj,
             new.last < count, new.sent = {}, new.promise = rd.promise
      PROVE  Follows(rd, new, rec, gen)
  <2>2. Shape(new)
    BY <1>6 DEF Shape, Holding, count
  <2>3. OneVersion(new)
    BY <1>6 DEF OneVersion
  <2>4. Fresh(new, rec, gen)
    BY <1>6 DEF RecInv, Fresh, Holding
  <2>5. Goes(rd, new)
    BY <1>6 DEF Goes
  <2> QED BY <2>2, <2>3, <2>4, <2>5 DEF Follows, RecInv
<1>7. Follows(rd, [planned EXCEPT !.pc = "forward"], rec, gen)
  <2> DEFINE new == [planned EXCEPT !.pc = "forward"]
  <2>1. /\ new \in ReadRecord /\ new.pc = "forward" /\ new.sent = {}
        /\ new.promise = rd.promise
    BY <1>3 DEF ReadRecord, ReadPCs
  <2> HIDE DEF new
  <2>2. Shape(new) /\ OneVersion(new) /\ Fresh(new, rec, gen)
    BY <2>1 DEF Shape, OneVersion, RecInv, Fresh, Planning, Paging, Holding
  <2>3. Goes(rd, new)
    BY <2>1 DEF Goes
  <2> QED BY <2>2, <2>3 DEF Follows, RecInv, new
<1>8. CASE rd.kind = "head" \/ (rd.kind = "full" /\ count = 0 /\ rd.refetched = 0)
  BY <1>5, <1>8 DEF Planned, planned, count
<1>9. CASE rd.kind = "full" /\ count = 0 /\ rd.refetched # 0
  BY <1>4, <1>9 DEF Planned, planned, count, Ends
<1>10. CASE rd.kind = "full" /\ count # 0
  <2> DEFINE pc == IF rd.refetched = 1 THEN "coldget" ELSE "open"
             new == [planned EXCEPT !.at = 0, !.last = count - 1, !.pc = pc]
  <2>1. count - 1 \in Indexes /\ count - 1 < count
    BY <1>1, <1>10
  <2>2. Planned(rd, obj) = new
    BY <1>10, Zenon DEF Planned, planned, count
  <2>3. pc \in {"open", "coldget"}
    OBVIOUS
  <2> HIDE DEF pc
  <2>4. /\ new \in ReadRecord /\ new.pc = pc /\ new.plan = obj /\ new.last = count - 1
        /\ new.sent = {} /\ new.promise = rd.promise
    BY <1>1, <1>3, <2>1, <2>3 DEF ReadRecord, ReadPCs
  <2> HIDE DEF new
  <2> QED BY <1>6, <2>1, <2>2, <2>3, <2>4
<1>11. CASE rd.kind = "range" /\ rd.first >= count
  BY <1>7, <1>11 DEF Planned, planned, count
<1>12. CASE rd.kind = "range" /\ ~(rd.first >= count)
  <2> DEFINE last == IF rd.last >= count THEN count - 1 ELSE rd.last
             new == [planned EXCEPT !.at = rd.first, !.pc = "open", !.last = last]
  <2>1. last \in Indexes /\ last < count
    <3>0. rd.first \in Nat /\ rd.last \in Nat /\ count \in Nat
      BY <1>1, <1>2
    <3>1. count - 1 \in 0 .. (count - 1) /\ count - 1 < count
      BY <1>12, <3>0
    <3>2. CASE rd.last >= count
      BY <1>1, <3>1, <3>2
    <3>3. CASE ~(rd.last >= count)
      BY <1>2, <3>0, <3>3
    <3> QED BY <3>2, <3>3
  <2>2. Planned(rd, obj) = new
    BY <1>12 DEF Planned, planned, count
  <2> HIDE DEF last
  <2>3. /\ new \in ReadRecord /\ new.pc = "open" /\ new.plan = obj /\ new.last = last
        /\ new.sent = {} /\ new.promise = rd.promise
    BY <1>2, <1>3, <2>1 DEF ReadRecord, ReadPCs
  <2> HIDE DEF new
  <2> QED BY <1>6, <2>1, <2>2, <2>3
<1> QED BY <1>0, <1>8, <1>9, <1>10, <1>11, <1>12 DEF ReadRecord

(* A request that is not at its last page has a next one. *)
LEMMA NextIndex ==
    ASSUME NEW rd, NEW rec, NEW gen, RecInv(rd, rec, gen), rd.pc \in Paging,
           rd.at < rd.last
    PROVE  rd.at + 1 \in Indexes
<1>1. rd \in ReadRecord /\ rd.plan \in Version /\ rd.last < PageCount[rd.plan.etag]
  BY DEF RecInv, Shape
<1>2. rd.plan.etag \in ETags /\ PageCount[rd.plan.etag] \in Nat
  BY <1>1, ReadThroughAssumption DEF Version
<1>3. rd.at \in Nat /\ rd.last \in Nat
  BY <1>1, ReadThroughAssumption DEF ReadRecord
<1>4. rd.at + 1 \in 0 .. (PageCount[rd.plan.etag] - 1)
  BY <1>1, <1>2, <1>3
<1> QED BY <1>2, <1>4, ReadThroughAssumption

(* A page of the planned version, and a promised one, is delivered. *)
LEMMA DeliveredFollows ==
    ASSUME NEW rd, NEW rec, NEW gen, RecInv(rd, rec, gen), rd.pc \in Paging,
           rd.plan.etag \in rd.promise
    PROVE  Follows(rd, Delivered(rd, rd.plan.etag), rec, gen)
<1> DEFINE bytes == rd.plan.etag
           copied == [rd EXCEPT !.header = bytes, !.sent = @ \cup {bytes}, !.body = None]
           next == [copied EXCEPT !.pc = "open", !.at = @ + 1]
<1>1. /\ rd \in ReadRecord /\ bytes \in ETags /\ bytes # None
      /\ rd.sent \subseteq {bytes} /\ Running(rd)
  BY NoneAssumption DEF RecInv, Shape, OneVersion, Version, Paging, Planning, Running, Ends
<1>2. /\ copied \in ReadRecord /\ copied.pc = rd.pc /\ copied.plan = rd.plan
      /\ copied.header = bytes /\ copied.sent = {bytes} /\ copied.promise = rd.promise
      /\ copied.at = rd.at /\ copied.last = rd.last
  BY <1>1 DEF ReadRecord
<1>3. bytes \in rd.promise \ {None}
  BY <1>1
<1>4. CASE rd.at < rd.last
  <2>1. Delivered(rd, bytes) = next
    BY <1>4 DEF Delivered
  <2>2. rd.at + 1 \in Indexes
    BY <1>4, NextIndex
  <2> HIDE DEF copied, bytes
  <2>3. /\ next \in ReadRecord /\ next.pc = "open" /\ next.plan = rd.plan
        /\ next.header = bytes /\ next.sent = {bytes} /\ next.promise = rd.promise
        /\ next.last = rd.last
    BY <1>2, <2>2 DEF ReadRecord, ReadPCs
  <2> HIDE DEF next
  <2>4. Shape(next)
    BY <2>3 DEF RecInv, Shape, Holding, Paging, Planning
  <2>5. OneVersion(next)
    BY <2>3 DEF OneVersion, Paging, bytes
  <2>6. Fresh(next, rec, gen)
    BY <1>1, <1>3, <2>3 DEF RecInv, Fresh, Holding, Paging, Planning
  <2>7. Goes(rd, next)
    BY <1>1, <1>3, <2>3 DEF Goes
  <2> QED BY <2>1, <2>4, <2>5, <2>6, <2>7 DEF Follows, RecInv, bytes
<1>5. CASE ~(rd.at < rd.last)
  <2>1. Delivered(rd, bytes) = Ended(copied, "done")
    BY <1>5 DEF Delivered
  <2> HIDE DEF copied, bytes
  <2>2. Follows(rd, Ended(copied, "done"), rec, gen)
    BY <1>1, <1>2, <1>3, EndedFollows DEF Ends
  <2> QED BY <2>1, <2>2 DEF bytes
<1> QED BY <1>4, <1>5

(* The invariant of a request when the epoch moves on past its own and     *)
(* fewer versions are recent.                                              *)
LEMMA RecAdvance ==
    ASSUME NEW rd, NEW rec, NEW gen \in Nat \cup {None}, RecInv(rd, rec, gen),
           NEW new \in Nat, gen \in Nat => gen < new, NEW few \in SUBSET rec
    PROVE  RecInv(rd, few, new)
<1>1. rd.pc \in Planning \cup Paging => rd.plan.epoch \in Nat
  BY DEF RecInv, Shape, Version
<1>2. Holding \subseteq Planning \cup Paging
  BY DEF Holding, Paging
<1>3. rd.pc \in Planning \cup Paging => rd.plan.epoch < new
  BY <1>1 DEF RecInv, Fresh
<1>4. rd.pc \in Planning \cup Paging => new \in Nat /\ rd.plan.epoch <= new
  BY <1>1, <1>3
<1>5. ~(rd.pc \in Holding /\ rd.plan.epoch = new)
  BY <1>1, <1>2, <1>3
<1>6. Fresh(rd, few, new)
  BY <1>4, <1>5 DEF RecInv, Fresh
<1> QED BY <1>6 DEF RecInv

(* The invariant of a request when the object is replaced. *)
LEMMA RecReplaced ==
    ASSUME NEW rd, NEW rec, NEW gen, RecInv(rd, rec, gen), NEW v \in ETags \cup {None}
    PROVE  /\ Running(rd) => RecInv([rd EXCEPT !.promise = @ \cup {v}], rec \cup {v}, gen)
           /\ ~Running(rd) => RecInv(rd, rec \cup {v}, gen)
<1> DEFINE new == [rd EXCEPT !.promise = @ \cup {v}]
<1>1. rd \in ReadRecord
  BY DEF RecInv, Shape
<1>2. /\ new \in ReadRecord /\ new.promise = rd.promise \cup {v}
      /\ new.pc = rd.pc /\ new.head = rd.head /\ new.plan = rd.plan /\ new.body = rd.body
      /\ new.last = rd.last /\ new.header = rd.header /\ new.sent = rd.sent
  BY <1>1 DEF ReadRecord
<1> HIDE DEF new
<1>3. Shape(new) /\ OneVersion(new)
  BY <1>2 DEF RecInv, Shape, OneVersion
<1>4. Running(rd) => Fresh(new, rec \cup {v}, gen)
  BY <1>2 DEF RecInv, Fresh, Running
<1>5. ~Running(rd) => Fresh(rd, rec \cup {v}, gen)
  BY DEF RecInv, Fresh
<1> QED BY <1>3, <1>4, <1>5 DEF RecInv, new

-----------------------------------------------------------------------------
(* The requests together.                                                  *)

(* Every request stays as it is or follows on from what it was. *)
Moves ==
    /\ read' = [q \in Readers |-> read'[q]]
    /\ \A q \in Readers : \/ read'[q] = read[q]
                          \/ Follows(read[q], read'[q], recent', generation')

(* The requests as they are fit what became of the rows. *)
Kept == \A q \in Readers : RecInv(read[q], recent', generation')

LEMMA KeptSame ==
    ASSUME Inv, recent' = recent, generation' = generation PROVE Kept
BY DEF Inv, ReadsInv, Kept

LEMMA StepMoves ==
    ASSUME Inv, NEW r \in Readers, NEW new, Step(r, new),
           Follows(read[r], new, recent', generation')
    PROVE  Moves
<1>1. read = [q \in Readers |-> read[q]]
  BY DEF Inv, TypeOK
<1> QED BY <1>1 DEF Step, Moves

LEMMA FinishMoves ==
    ASSUME Inv, NEW r \in Readers, NEW new, NEW cause, FinishFill(r, new, cause),
           Follows(read[r], new, recent', generation'),
           recent' = recent, generation' = generation
    PROVE  Moves
<1>1. read' = [q \in Readers |-> read'[q]] /\ read'[r] = new
  BY DEF FinishFill
<1>2. ASSUME NEW q \in Readers, q # r
      PROVE  read'[q] = read[q] \/ Follows(read[q], read'[q], recent, generation)
  <2>1. RecInv(read[q], recent, generation)
    BY DEF Inv, ReadsInv
  <2>2. CASE read[q].pc = "wait"
    <3>1. Running(read[q]) /\ read[q] \in ReadRecord
      BY <2>1, <2>2 DEF Running, Ends, RecInv, Shape
    <3>2. Follows(read[q], Failed(read[q], cause), recent, generation)
      BY <2>1, <3>1, FailedFollows
    <3>3. Follows(read[q], [read[q] EXCEPT !.pc = "woken"], recent, generation)
      BY <2>1, <2>2, <3>1, MovesFollows DEF MayMove, ReadPCs, Planning, Paging, Holding
    <3> QED BY <1>2, <3>2, <3>3 DEF FinishFill
  <2>3. CASE read[q].pc # "wait"
    BY <1>2, <2>3 DEF FinishFill
  <2> QED BY <2>2, <2>3
<1> QED BY <1>1, <1>2 DEF Moves

(* What the moves of requests leave true. *)
LEMMA MovesInv ==
    ASSUME Inv, Moves, Kept
    PROVE  read' \in [Readers -> ReadRecord] /\ ReadsInv'
<1>1. ASSUME NEW q \in Readers
      PROVE  RecInv(read'[q], recent', generation') /\ read'[q] \in ReadRecord
  <2>1. RecInv(read[q], recent', generation')
    BY DEF Kept
  <2>2. RecInv(read'[q], recent', generation')
    BY <2>1 DEF Moves, Follows
  <2> QED BY <2>2 DEF RecInv, Shape
<1> QED BY <1>1 DEF Moves, ReadsInv

(* A step of requests that leaves the rows alone *)
LEMMA OnlyReads ==
    ASSUME Inv, Moves, UNCHANGED <<upstream, rows, degraded, write, recent>>
    PROVE  Inv'
<1>1. Kept
  BY KeptSame DEF rows
<1>2. read' \in [Readers -> ReadRecord] /\ ReadsInv'
  BY <1>1, MovesInv
<1>3. TypeOK' /\ RowsInv'
  BY <1>2 DEF Inv, TypeOK, RowsInv, Quiet, rows
<1> QED BY <1>2, <1>3 DEF Inv

(* and one that also changes pages *)
PagesFit(new) ==
    /\ new \in [Indexes -> Page \cup {None}]
    /\ \A i \in Indexes : new[i] # None => new[i].bytes = new[i].etag /\ new[i].bytes \in recent

LEMMA ReadsAndPages ==
    ASSUME Inv, Moves, PagesFit(pages'),
           UNCHANGED <<upstream, generation, object, aged, degraded, write, recent>>
    PROVE  Inv'
<1>1. Kept
  BY KeptSame
<1>2. read' \in [Readers -> ReadRecord] /\ ReadsInv'
  BY <1>1, MovesInv
<1>3. TypeOK'
  BY <1>2 DEF Inv, TypeOK, PagesFit
<1>4. RowsInv'
  BY DEF Inv, RowsInv, Quiet, PagesFit
<1> QED BY <1>2, <1>3, <1>4 DEF Inv

LEMMA LookedFit ==
    ASSUME Inv, NEW rd, RecInv(rd, recent, generation), PageLooked(rd)
    PROVE  PagesFit(pages')
<1>1. PagesFit(pages) /\ pages \in [Indexes -> Page \cup {None}]
  BY DEF Inv, TypeOK, RowsInv, PagesFit
<1>2. rd.at \in Indexes
  BY DEF RecInv, Shape, ReadRecord
<1>3. CASE PageHit(rd)
  BY <1>1, <1>3 DEF PageLooked
<1>4. CASE ~PageHit(rd)
  <2>1. pages' = [pages EXCEPT ![rd.at] = None]
    BY <1>4 DEF PageLooked
  <2> QED BY <1>1, <1>2, <2>1 DEF PagesFit
<1> QED BY <1>3, <1>4

(* A hit gives bytes of the plan's version, which every read under way is  *)
(* promised.                                                               *)
LEMMA HitDelivers ==
    ASSUME Inv, NEW r \in Readers, read[r].pc \in Paging, PageHit(read[r])
    PROVE  LET rd == read[r]
           IN  Follows(rd, Delivered(rd, pages[rd.at].bytes), recent, generation)
<1> DEFINE rd == read[r]
<1>1. RecInv(rd, recent, generation) /\ rd.at \in Indexes
  BY DEF Inv, ReadsInv, RecInv, Shape, ReadRecord
<1>2. pages[rd.at].bytes = rd.plan.etag /\ rd.plan.etag \in recent
  BY <1>1 DEF Inv, RowsInv, PageHit, IsPageOf
<1>3. Running(rd)
  BY DEF Running, Paging, Ends
<1>4. rd.plan.etag \in rd.promise
  BY <1>1, <1>2, <1>3 DEF RecInv, Fresh
<1> QED BY <1>1, <1>2, <1>4, DeliveredFollows

(* A page that passes the fence was fetched after the last invalidation. *)
LEMMA FilledFit ==
    ASSUME Inv, NEW r \in Readers, read[r].pc \in Holding,
           IsCurrent(object, generation, read[r].plan),
           pages' = [pages EXCEPT ![read[r].at] = FilledPage(read[r])]
    PROVE  PagesFit(pages')
<1> DEFINE rd == read[r]
<1>1. PagesFit(pages) /\ pages \in [Indexes -> Page \cup {None}]
  BY DEF Inv, TypeOK, RowsInv, PagesFit
<1>2. RecInv(rd, recent, generation) /\ rd.at \in Indexes
  BY DEF Inv, ReadsInv, RecInv, Shape, ReadRecord
<1>3. rd.plan \in Version /\ rd.body = rd.plan.etag
  BY <1>2 DEF RecInv, Shape, Holding, Paging
<1>4. rd.body \in recent
  BY <1>2 DEF RecInv, Fresh, IsCurrent
<1>5. /\ FilledPage(rd) \in Page /\ FilledPage(rd).etag = rd.plan.etag
      /\ FilledPage(rd).bytes = rd.body
  BY <1>3 DEF FilledPage, Page, Version
<1> QED BY <1>1, <1>2, <1>3, <1>4, <1>5 DEF PagesFit

-----------------------------------------------------------------------------
(* One lemma per step of a request: the invariant is kept, and the clients *)
(* see what FreshReads allows (Moves).                                     *)

LEMMA RecordOf ==
    ASSUME Inv, NEW r \in Readers
    PROVE  RecInv(read[r], recent, generation) /\ read[r] \in ReadRecord
BY DEF Inv, ReadsInv, RecInv, Shape

LEMMA RowOf ==
    ASSUME Inv, object # None
    PROVE  object \in Version /\ generation \in Nat /\ object.epoch <= generation
BY DEF Inv, TypeOK, RowsInv

LEMMA GetObjectInv ==
    ASSUME Inv, NEW r \in Readers, GetObject(r)
    PROVE  Inv' /\ Moves
<1> DEFINE rd == read[r]
<1>1. RecInv(rd, recent, generation) /\ Running(rd) /\ rd.sent = {}
  BY RecordOf DEF GetObject, Running, Ends, RecInv, OneVersion, Paging
<1>2. CASE object = None
  <2>1. Follows(rd, [rd EXCEPT !.pc = "head"], recent, generation)
    BY <1>1, MovesFollows DEF MayMove, ReadPCs, Planning, Paging
  <2>2. Moves
    BY <1>2, <2>1, StepMoves DEF GetObject, rows
  <2> QED BY <2>2, OnlyReads DEF GetObject
<1>3. CASE object # None
  <2>1. Follows(rd, Planned(rd, object), recent, generation)
    BY <1>1, <1>3, RowOf, PlannedFollows
  <2>2. Moves
    BY <1>3, <2>1, StepMoves DEF GetObject, rows
  <2> QED BY <2>2, OnlyReads DEF GetObject
<1> QED BY <1>2, <1>3

LEMMA RereadObjectInv ==
    ASSUME Inv, NEW r \in Readers, RereadObject(r)
    PROVE  Inv' /\ Moves
<1> DEFINE rd == read[r]
<1>1. RecInv(rd, recent, generation) /\ Running(rd) /\ rd.sent = {}
  BY RecordOf DEF RereadObject, Running, Ends, RecInv, OneVersion, Paging
<1>2. CASE object = None
  <2>1. Follows(rd, NotStored(rd), recent, generation)
    BY <1>1, NotFoundFollows
  <2>2. Moves
    BY <1>2, <2>1, StepMoves DEF RereadObject, rows
  <2> QED BY <2>2, OnlyReads DEF RereadObject
<1>3. CASE object # None
  <2>1. Follows(rd, Planned(rd, object), recent, generation)
    BY <1>1, <1>3, RowOf, PlannedFollows
  <2>2. Moves
    BY <1>3, <2>1, StepMoves DEF RereadObject, rows
  <2> QED BY <2>2, OnlyReads DEF RereadObject
<1> QED BY <1>2, <1>3

LEMMA HeadUpstreamInv ==
    ASSUME Inv, NEW r \in Readers, HeadUpstream(r)
    PROVE  Inv' /\ Moves
<1> DEFINE rd == read[r]
<1>1. /\ RecInv(rd, recent, generation) /\ Running(rd) /\ rd.sent = {}
      /\ rd \in ReadRecord
  BY RecordOf DEF HeadUpstream, Running, Ends, RecInv, OneVersion, Paging
<1>2. CASE upstream = None
  <2>1. Follows(rd, NotFound(rd), recent, generation)
    BY <1>1, NotFoundFollows
  <2>2. Moves
    BY <1>2, <2>1, StepMoves DEF HeadUpstream, rows
  <2> QED BY <2>2, OnlyReads DEF HeadUpstream
<1>3. CASE upstream # None
  <2> DEFINE new == [rd EXCEPT !.pc = "generation", !.head = upstream]
  <2>1. upstream \in ETags
    BY <1>3 DEF Inv, TypeOK
  <2>2. /\ new \in ReadRecord /\ new.pc = "generation" /\ new.head = upstream
        /\ new.sent = {} /\ new.promise = rd.promise
    BY <1>1, <2>1 DEF ReadRecord, ReadPCs
  <2>3. Step(r, new)
    BY <1>3 DEF HeadUpstream
  <2> HIDE DEF new
  <2>4. RecInv(new, recent, generation)
    BY <1>1, <2>1, <2>2
    DEF RecInv, Shape, OneVersion, Fresh, Planning, Paging, Holding
  <2>5. Goes(rd, new)
    BY <1>1, <2>2 DEF Goes
  <2>6. Moves
    BY <2>3, <2>4, <2>5, StepMoves DEF HeadUpstream, rows, Follows
  <2> QED BY <2>6, OnlyReads DEF HeadUpstream
<1> QED BY <1>2, <1>3

LEMMA PutGenerationInv ==
    ASSUME Inv, NEW r \in Readers, PutGeneration(r)
    PROVE  Inv' /\ Moves
<1> DEFINE rd == read[r]
           plan == [etag |-> rd.head, epoch |-> generation']
           new == [rd EXCEPT !.pc = "upsert", !.head = None, !.plan = plan]
<1>1. /\ RecInv(rd, recent, generation) /\ Running(rd) /\ rd.sent = {}
      /\ rd \in ReadRecord /\ rd.head \in ETags
  BY RecordOf DEF PutGeneration, Running, Ends, RecInv, OneVersion, Shape, Paging
<1>2. generation \in Nat \cup {None} /\ generation' = EnsureGeneration(generation)
  BY DEF Inv, TypeOK, PutGeneration
<1>3. /\ generation' \in Nat
      /\ generation \in Nat => generation' = generation
      /\ generation \notin Nat => generation = None /\ generation' = 0
  BY <1>2, NoneAssumption DEF EnsureGeneration
<1>4. UNCHANGED <<upstream, object, pages, aged, degraded, write, recent>> /\ Step(r, new)
  BY DEF PutGeneration
<1>5. Kept
  <2>1. CASE generation \in Nat
    BY <1>3, <1>4, <2>1, KeptSame
  <2>2. CASE generation \notin Nat
    BY <1>2, <1>3, <1>4, <2>2, RecAdvance DEF Kept, Inv, ReadsInv
  <2> QED BY <2>1, <2>2
<1>6. plan \in Version /\ plan.epoch = generation' /\ plan.etag = rd.head
  BY <1>1, <1>3 DEF Version
<1> HIDE DEF plan
<1>7. /\ new \in ReadRecord /\ new.pc = "upsert" /\ new.plan = plan
      /\ new.sent = {} /\ new.promise = rd.promise
  BY <1>1, <1>6 DEF ReadRecord, ReadPCs
<1> HIDE DEF new
<1>8. Shape(new) /\ OneVersion(new)
  BY <1>6, <1>7 DEF Shape, OneVersion, Paging, Holding
<1>9. Fresh(new, recent', generation')
  BY <1>1, <1>3, <1>4, <1>6, <1>7 DEF RecInv, Fresh, Holding
<1>10. Goes(rd, new)
  BY <1>1, <1>7 DEF Goes
<1>11. Moves
  BY <1>4, <1>8, <1>9, <1>10, StepMoves DEF Follows, RecInv
<1>12. read' \in [Readers -> ReadRecord] /\ ReadsInv'
  BY <1>5, <1>11, MovesInv
<1>13. TypeOK' /\ RowsInv'
  BY <1>3, <1>4, <1>12 DEF Inv, TypeOK, RowsInv, Quiet
<1> QED BY <1>11, <1>12, <1>13 DEF Inv

LEMMA UpsertObjectInv ==
    ASSUME Inv, NEW r \in Readers, UpsertObject(r)
    PROVE  Inv' /\ Moves
<1> DEFINE rd == read[r]
<1>1. /\ RecInv(rd, recent, generation) /\ Running(rd) /\ rd.sent = {}
      /\ rd.plan \in Version /\ generation \in Nat /\ rd.plan.epoch <= generation
  BY RecordOf
  DEF UpsertObject, Running, Ends, RecInv, OneVersion, Shape, Fresh, Paging, Planning
<1>2. Follows(rd, [rd EXCEPT !.pc = "reread"], recent, generation)
  BY <1>1, MovesFollows DEF MayMove, ReadPCs, Planning, Paging, Holding, UpsertObject
<1>3. Moves
  BY <1>2, StepMoves DEF UpsertObject
<1>4. Kept
  BY KeptSame DEF UpsertObject
<1>5. read' \in [Readers -> ReadRecord] /\ ReadsInv'
  BY <1>3, <1>4, MovesInv
<1>6. TypeOK' /\ RowsInv'
  BY <1>1, <1>5 DEF Inv, TypeOK, RowsInv, Quiet, UpsertObject
<1> QED BY <1>3, <1>5, <1>6 DEF Inv

LEMMA OpenPageInv ==
    ASSUME Inv, NEW r \in Readers, OpenPage(r)
    PROVE  Inv' /\ Moves
<1> DEFINE rd == read[r]
<1>1. /\ RecInv(rd, recent, generation) /\ Running(rd) /\ rd.pc = "open"
      /\ PageLooked(rd)
  BY RecordOf DEF OpenPage, Running, Ends
<1>2. UNCHANGED <<upstream, generation, object, aged, degraded, write, recent>>
  BY DEF OpenPage
<1>3. Moves
  <2>1. CASE PageHit(rd)
    BY <1>1, <1>2, <2>1, HitDelivers, StepMoves DEF OpenPage, Paging
  <2>2. CASE ~PageHit(rd)
    <3>1. /\ Follows(rd, [rd EXCEPT !.pc = "coldget"], recent, generation)
          /\ Follows(rd, [rd EXCEPT !.pc = "join"], recent, generation)
      BY <1>1, MovesFollows DEF MayMove, ReadPCs, Planning, Paging, Holding
    <3> QED BY <1>2, <2>2, <3>1, StepMoves DEF OpenPage
  <2> QED BY <2>1, <2>2
<1> QED BY <1>1, <1>2, <1>3, LookedFit, ReadsAndPages

LEMMA OpenFilledPageInv ==
    ASSUME Inv, NEW r \in Readers, OpenFilledPage(r)
    PROVE  Inv' /\ Moves
<1> DEFINE rd == read[r]
<1>1. /\ RecInv(rd, recent, generation) /\ Running(rd) /\ rd.pc = "woken"
      /\ PageLooked(rd)
  BY RecordOf DEF OpenFilledPage, Running, Ends
<1>2. UNCHANGED <<upstream, generation, object, aged, degraded, write, recent>>
  BY DEF OpenFilledPage
<1>3. Moves
  <2>1. CASE PageHit(rd)
    BY <1>1, <1>2, <2>1, HitDelivers, StepMoves DEF OpenFilledPage, Paging
  <2>2. CASE ~PageHit(rd)
    <3>1. Follows(rd, [rd EXCEPT !.pc = "join"], recent, generation)
      BY <1>1, MovesFollows DEF MayMove, ReadPCs, Planning, Paging, Holding
    <3> QED BY <1>2, <2>2, <3>1, StepMoves DEF OpenFilledPage
  <2> QED BY <2>1, <2>2
<1> QED BY <1>1, <1>2, <1>3, LookedFit, ReadsAndPages

(* A fill that fails *)
LEMMA FillFailsMoves ==
    ASSUME Inv, NEW r \in Readers, NEW cause, FillFails(r, cause), Running(read[r]),
           recent' = recent, generation' = generation
    PROVE  Moves
<1>1. Follows(read[r], Failed(read[r], cause), recent, generation)
  BY RecordOf, FailedFollows
<1> QED BY <1>1, FinishMoves DEF FillFails

LEMMA FetchPageInv ==
    ASSUME Inv, NEW r \in Readers, FetchPage(r)
    PROVE  Inv' /\ Moves
<1> DEFINE rd == read[r]
           new == [rd EXCEPT !.pc = "begin", !.body = upstream]
<1>1. /\ RecInv(rd, recent, generation) /\ rd \in ReadRecord /\ Running(rd)
      /\ rd.pc = "fetch" /\ rd.plan \in Version
  BY RecordOf DEF FetchPage, Running, Ends, RecInv, Shape, Paging
<1>2. UNCHANGED <<upstream, rows, degraded, write, recent>>
  BY DEF FetchPage
<1>3. CASE upstream = None \/ upstream # rd.plan.etag
  <2>1. FillFails(r, "upstream") \/ FillFails(r, "changed")
    BY <1>3 DEF FetchPage
  <2>2. Moves
    BY <1>1, <1>2, <2>1, FillFailsMoves DEF rows
  <2> QED BY <1>2, <2>2, OnlyReads
<1>4. CASE upstream # None /\ upstream = rd.plan.etag
  <2>1. upstream \in ETags /\ upstream \in recent /\ upstream \in rd.promise
    BY <1>1, <1>4 DEF Inv, TypeOK, RowsInv, RecInv, Fresh
  <2>2. Step(r, new)
    BY <1>4 DEF FetchPage
  <2>3. /\ new \in ReadRecord /\ new.pc = "begin" /\ new.body = upstream
        /\ new.plan = rd.plan /\ new.at = rd.at /\ new.last = rd.last
        /\ new.header = rd.header /\ new.sent = rd.sent /\ new.promise = rd.promise
    BY <1>1, <2>1 DEF ReadRecord, ReadPCs
  <2> HIDE DEF new
  <2>4. Shape(new) /\ OneVersion(new)
    BY <1>1, <1>4, <2>3 DEF RecInv, Shape, OneVersion, Paging, Holding
  <2>5. Fresh(new, recent, generation)
    BY <1>1, <2>1, <2>3 DEF RecInv, Fresh, Paging, Holding
  <2>6. Goes(rd, new)
    BY <1>1, <2>3 DEF Goes
  <2>7. Moves
    BY <1>2, <2>2, <2>4, <2>5, <2>6, StepMoves DEF Follows, RecInv, rows
  <2> QED BY <1>2, <2>7, OnlyReads
<1> QED BY <1>3, <1>4

LEMMA BeginFillInv ==
    ASSUME Inv, NEW r \in Readers, BeginFill(r)
    PROVE  Inv' /\ Moves
<1> DEFINE rd == read[r]
<1>1. RecInv(rd, recent, generation) /\ Running(rd) /\ rd.pc = "begin"
  BY RecordOf DEF BeginFill, Running, Ends
<1>2. UNCHANGED <<upstream, rows, degraded, write, recent>>
  BY DEF BeginFill
<1>3. Follows(rd, [rd EXCEPT !.pc = "commit"], recent, generation)
  BY <1>1, MovesFollows DEF MayMove, ReadPCs, Planning, Paging, Holding
<1>4. Moves
  BY <1>1, <1>2, <1>3, StepMoves, FillFailsMoves DEF BeginFill, rows
<1> QED BY <1>2, <1>4, OnlyReads

LEMMA ReopenPageInv ==
    ASSUME Inv, NEW r \in Readers, ReopenPage(r)
    PROVE  Inv' /\ Moves
<1> DEFINE rd == read[r]
<1>1. /\ RecInv(rd, recent, generation) /\ Running(rd) /\ rd.pc = "reopen"
      /\ PageLooked(rd)
  BY RecordOf DEF ReopenPage, Running, Ends
<1>2. UNCHANGED <<upstream, generation, object, aged, degraded, write, recent>>
  BY DEF ReopenPage
<1>3. Moves
  <2>1. CASE PageHit(rd)
    BY <1>1, <1>2, <2>1, HitDelivers, FinishMoves DEF ReopenPage, Paging
  <2>2. CASE ~PageHit(rd)
    BY <1>1, <1>2, <2>2, FillFailsMoves DEF ReopenPage
  <2> QED BY <2>1, <2>2
<1> QED BY <1>1, <1>2, <1>3, LookedFit, ReadsAndPages

(* A request that holds a page sends it: what is sent stays of one         *)
(* version, and promised.                                                  *)
LEMMA HeldSent ==
    ASSUME NEW rd, NEW rec, NEW gen, RecInv(rd, rec, gen), rd.pc \in Holding,
           rd.sent # {} \/ rd.header = rd.plan.etag, NEW new,
           new = [rd EXCEPT !.sent = @ \cup {rd.body}]
    PROVE  /\ RecInv(new, rec, gen) /\ new.pc = rd.pc /\ new.promise = rd.promise
           /\ new.plan = rd.plan /\ new.at = rd.at
           /\ rd.body \in rd.promise \ {None} /\ rd.sent \subseteq {rd.body}
           /\ new.sent = {rd.body}
<1>1. /\ rd \in ReadRecord /\ rd.pc \in Paging /\ rd.plan \in Version
      /\ rd.body = rd.plan.etag /\ rd.body \in ETags
  BY DEF RecInv, Shape, Holding, Paging, Version
<1>2. /\ new \in ReadRecord /\ new.pc = rd.pc /\ new.head = rd.head /\ new.body = rd.body
      /\ new.plan = rd.plan /\ new.at = rd.at /\ new.last = rd.last
      /\ new.header = rd.header /\ new.sent = rd.sent \cup {rd.body}
      /\ new.promise = rd.promise
  BY <1>1 DEF ReadRecord
<1>3. rd.sent \subseteq {rd.body} /\ rd.body # None /\ rd.body \in rd.promise
  BY <1>1, NoneAssumption DEF RecInv, OneVersion, Fresh
<1>4. rd.header = rd.plan.etag
  BY <1>1, <1>3 DEF RecInv, OneVersion
<1>5. new.sent = {rd.body}
  BY <1>2, <1>3
<1>6. Shape(new) /\ OneVersion(new)
  BY <1>1, <1>2, <1>4, <1>5 DEF RecInv, Shape, OneVersion
<1>7. Fresh(new, rec, gen)
  BY <1>2, <1>3, <1>5 DEF RecInv, Fresh, Running
<1> QED BY <1>2, <1>3, <1>5, <1>6, <1>7 DEF RecInv

LEMMA CommitFillInv ==
    ASSUME Inv, NEW r \in Readers, CommitFill(r)
    PROVE  Inv' /\ Moves
<1> DEFINE rd == read[r]
           more == [rd EXCEPT !.sent = @ \cup {rd.body}]
<1>1. /\ RecInv(rd, recent, generation) /\ rd \in ReadRecord /\ Running(rd)
      /\ rd.pc = "commit" /\ rd.pc \in Holding /\ rd.pc \in Paging
  BY RecordOf DEF CommitFill, Running, Ends, Holding, Paging
<1>2. UNCHANGED <<upstream, generation, object, aged, degraded, write, recent>>
  BY DEF CommitFill
<1>3. CASE IsCurrent(object, generation, rd.plan)
  <2>1. pages' = [pages EXCEPT ![rd.at] = FilledPage(rd)]
    BY <1>3 DEF CommitFill
  <2>2. PagesFit(pages')
    BY <1>1, <1>3, <2>1, FilledFit
  <2>3. CASE rd.sent = {}
    <3>1. Follows(rd, [rd EXCEPT !.pc = "reopen"], recent, generation)
      BY <1>1, MovesFollows DEF MayMove, ReadPCs, Planning, Paging, Holding
    <3>2. Moves
      BY <1>2, <1>3, <2>3, <3>1, StepMoves DEF CommitFill
    <3> QED BY <1>2, <2>2, <3>2, ReadsAndPages
  <2>4. CASE rd.sent # {}
    <3>1. rd.body = rd.plan.etag /\ rd.body \in rd.promise
      BY <1>1 DEF RecInv, Shape, Fresh
    <3>2. Follows(rd, Delivered(rd, rd.body), recent, generation)
      BY <1>1, <3>1, DeliveredFollows
    <3>3. Moves
      BY <1>2, <1>3, <2>4, <3>2, FinishMoves DEF CommitFill
    <3> QED BY <1>2, <2>2, <3>3, ReadsAndPages
  <2> QED BY <2>3, <2>4
<1>4. CASE ~IsCurrent(object, generation, rd.plan)
  <2> DEFINE streamed == IF rd.sent = {} THEN rd ELSE more
  <2>1. pages' = pages /\ FinishFill(r, Failed(streamed, "store"), "store")
    BY <1>4 DEF CommitFill
  <2>2. Follows(rd, Failed(streamed, "store"), recent, generation)
    <3>1. CASE rd.sent = {}
      BY <1>1, <3>1, FailedFollows
    <3>2. CASE rd.sent # {}
      <4>1. /\ RecInv(more, recent, generation) /\ more.pc = rd.pc
            /\ more.promise = rd.promise /\ more.sent = {rd.body}
            /\ rd.body \in rd.promise \ {None} /\ rd.sent \subseteq {rd.body}
        BY <1>1, <3>2, HeldSent
      <4> HIDE DEF more
      <4>2. Running(more)
        BY <1>1, <4>1 DEF Running
      <4>3. Follows(rd, Failed(more, "store"), recent, generation)
        BY <1>1, <4>1, <4>2, FailedFollows
      <4> QED BY <3>2, <4>3
    <3> QED BY <3>1, <3>2
  <2>3. Moves
    BY <1>2, <2>1, <2>2, FinishMoves
  <2> QED BY <1>2, <2>1, <2>3, OnlyReads DEF rows
<1> QED BY <1>3, <1>4

LEMMA GetWholeObjectInv ==
    ASSUME Inv, NEW r \in Readers, GetWholeObject(r)
    PROVE  Inv' /\ Moves
<1> DEFINE rd == read[r]
           new == [Headers(rd, rd.plan.etag) EXCEPT !.pc = "coldbegin", !.body = upstream]
<1>1. /\ RecInv(rd, recent, generation) /\ rd \in ReadRecord /\ Running(rd)
      /\ rd.pc = "coldget" /\ rd.plan \in Version /\ rd.plan.etag \in ETags
  BY RecordOf DEF GetWholeObject, Running, Ends, RecInv, Shape, Paging, Version
<1>2. UNCHANGED <<upstream, rows, degraded, write, recent>>
  BY DEF GetWholeObject
<1>3. CASE upstream = None \/ upstream # rd.plan.etag
  <2>1. Step(r, Failed(rd, "upstream")) \/ Step(r, Failed(rd, "changed"))
    BY <1>3 DEF GetWholeObject
  <2>2. \A cause : Follows(rd, Failed(rd, cause), recent, generation)
    BY <1>1, FailedFollows
  <2>3. Moves
    BY <1>2, <2>1, <2>2, StepMoves DEF rows
  <2> QED BY <1>2, <2>3, OnlyReads
<1>4. CASE upstream # None /\ upstream = rd.plan.etag
  <2>1. upstream \in recent /\ upstream \in rd.promise
    BY <1>1, <1>4 DEF Inv, RowsInv, RecInv, Fresh
  <2>2. Step(r, new)
    BY <1>4 DEF GetWholeObject
  <2>3. /\ new \in ReadRecord /\ new.pc = "coldbegin" /\ new.body = upstream
        /\ new.plan = rd.plan /\ new.last = rd.last
        /\ new.header = upstream /\ new.sent = rd.sent /\ new.promise = rd.promise
    BY <1>1, <1>4 DEF ReadRecord, ReadPCs, Headers
  <2> HIDE DEF new
  <2>4. Shape(new) /\ OneVersion(new)
    BY <1>1, <1>4, <2>3 DEF RecInv, Shape, OneVersion, Paging, Holding
  <2>5. Fresh(new, recent, generation)
    BY <1>1, <2>1, <2>3 DEF RecInv, Fresh, Paging, Holding
  <2>6. Goes(rd, new)
    BY <1>1, <2>3 DEF Goes
  <2>7. Moves
    BY <1>2, <2>2, <2>4, <2>5, <2>6, StepMoves DEF Follows, RecInv, rows
  <2> QED BY <1>2, <2>7, OnlyReads
<1> QED BY <1>3, <1>4

LEMMA BeginColdPageInv ==
    ASSUME Inv, NEW r \in Readers, BeginColdPage(r)
    PROVE  Inv' /\ Moves
<1> DEFINE rd == read[r]
           more == [rd EXCEPT !.sent = @ \cup {rd.body}]
           new == [more EXCEPT !.pc = "coldcommit"]
<1>1. RecInv(rd, recent, generation) /\ rd \in ReadRecord
  BY RecordOf
<1>2. more.pc = rd.pc
  BY <1>1 DEF ReadRecord
<1>3. rd.pc = "coldbegin" /\ Running(rd) /\ rd.pc \in Holding /\ rd.header = rd.plan.etag
  BY <1>1, <1>2 DEF BeginColdPage, Running, Ends, Holding, RecInv, OneVersion
<1>4. UNCHANGED <<upstream, rows, degraded, write, recent>>
  BY DEF BeginColdPage
<1>5. /\ RecInv(more, recent, generation)
      /\ more.promise = rd.promise /\ more.sent = {rd.body}
      /\ rd.body \in rd.promise \ {None} /\ rd.sent \subseteq {rd.body}
  BY <1>1, <1>3, HeldSent
<1>6. Step(r, new) \/ Step(r, Failed(more, "store"))
  BY DEF BeginColdPage
<1> HIDE DEF more
<1>7. Running(more) /\ more.pc = "coldbegin"
  BY <1>2, <1>3 DEF Running
<1>8. Follows(rd, Failed(more, "store"), recent, generation)
  BY <1>1, <1>3, <1>5, <1>7, FailedFollows
<1>9. Follows(rd, new, recent, generation)
  <2>1. Follows(more, new, recent, generation)
    BY <1>5, <1>7, MovesFollows DEF MayMove, ReadPCs, Planning, Paging, Holding
  <2>2. new.pc = "coldcommit" /\ new.sent = {rd.body} /\ new.promise = rd.promise
    BY <1>5 DEF RecInv, Shape, ReadRecord
  <2> HIDE DEF new
  <2>3. Goes(rd, new)
    BY <1>3, <1>5, <2>2 DEF Goes
  <2> QED BY <2>1, <2>3 DEF Follows
<1>10. Moves
  BY <1>4, <1>6, <1>8, <1>9, StepMoves DEF rows
<1> QED BY <1>4, <1>10, OnlyReads

LEMMA CommitColdPageInv ==
    ASSUME Inv, NEW r \in Readers, CommitColdPage(r)
    PROVE  Inv' /\ Moves
<1> DEFINE rd == read[r]
           new == [rd EXCEPT !.pc = "coldbegin", !.at = @ + 1]
<1>1. /\ RecInv(rd, recent, generation) /\ rd \in ReadRecord /\ Running(rd)
      /\ rd.pc = "coldcommit" /\ rd.pc \in Holding /\ rd.pc \in Paging
  BY RecordOf DEF CommitColdPage, Running, Ends, Holding, Paging
<1>2. UNCHANGED <<upstream, generation, object, aged, degraded, write, recent>>
  BY DEF CommitColdPage
<1>3. PagesFit(pages')
  <2>1. CASE IsCurrent(object, generation, rd.plan)
    BY <1>1, <2>1, FilledFit DEF CommitColdPage
  <2>2. CASE ~IsCurrent(object, generation, rd.plan)
    BY <2>2 DEF CommitColdPage, PagesFit, Inv, TypeOK, RowsInv
  <2> QED BY <2>1, <2>2
<1>4. CASE rd.at < rd.last
  <2>1. rd.at + 1 \in Indexes
    BY <1>1, <1>4, NextIndex
  <2>2. Step(r, new)
    BY <1>4 DEF CommitColdPage
  <2>3. /\ new \in ReadRecord /\ new.pc = "coldbegin" /\ new.body = rd.body
        /\ new.plan = rd.plan /\ new.last = rd.last
        /\ new.header = rd.header /\ new.sent = rd.sent /\ new.promise = rd.promise
    BY <1>1, <2>1 DEF ReadRecord, ReadPCs
  <2> HIDE DEF new
  <2>4. Shape(new) /\ OneVersion(new)
    BY <1>1, <2>3 DEF RecInv, Shape, OneVersion, Paging, Holding
  <2>5. Fresh(new, recent, generation)
    BY <1>1, <2>3 DEF RecInv, Fresh, Paging, Holding
  <2>6. Goes(rd, new)
    BY <1>1, <2>3 DEF Goes
  <2>7. Moves
    BY <1>2, <2>2, <2>4, <2>5, <2>6, StepMoves DEF Follows, RecInv
  <2> QED BY <1>2, <1>3, <2>7, ReadsAndPages
<1>5. CASE ~(rd.at < rd.last)
  <2>1. Follows(rd, Ended(rd, "done"), recent, generation)
    BY <1>1, EndsFollows DEF Ends
  <2>2. Moves
    BY <1>2, <1>5, <2>1, StepMoves DEF CommitColdPage
  <2> QED BY <1>2, <1>3, <2>2, ReadsAndPages
<1> QED BY <1>4, <1>5

LEMMA ForwardInv ==
    ASSUME Inv, NEW r \in Readers, Forward(r)
    PROVE  Inv' /\ Moves
<1> DEFINE rd == read[r]
           bytes == IF upstream = None \/ rd.kind = "head" THEN {} ELSE {upstream}
           new == [rd EXCEPT !.header = upstream, !.sent = bytes]
<1>1. /\ RecInv(rd, recent, generation) /\ rd \in ReadRecord /\ Running(rd)
      /\ rd.sent = {}
  BY RecordOf DEF Forward, Running, Ends, RecInv, OneVersion, Paging
<1>2. UNCHANGED <<upstream, rows, degraded, write, recent>> /\ Step(r, Ended(new, "done"))
  BY DEF Forward
<1>3. upstream \in ETags \cup {None} /\ upstream \in rd.promise
  BY <1>1 DEF Inv, TypeOK, RowsInv, RecInv, Fresh
<1>4. bytes = {} \/ (upstream # None /\ bytes = {upstream})
  OBVIOUS
<1> HIDE DEF bytes
<1>5. /\ new \in ReadRecord /\ new.header = upstream /\ new.sent = bytes
      /\ new.promise = rd.promise
  BY <1>1, <1>3, <1>4 DEF ReadRecord
<1> HIDE DEF new
<1>6. Follows(rd, Ended(new, "done"), recent, generation)
  BY <1>1, <1>3, <1>4, <1>5, EndedFollows DEF Ends
<1>7. Moves
  BY <1>2, <1>6, StepMoves DEF rows
<1> QED BY <1>2, <1>7, OnlyReads

(* A request that begins *)
LEMMA OneStep ==
    ASSUME Inv, NEW r \in Readers, NEW new, Step(r, new), RecInv(new, recent, generation),
           UNCHANGED <<upstream, rows, degraded, write, recent>>
    PROVE  Inv'
<1>1. read \in [Readers -> ReadRecord] /\ new \in ReadRecord
  BY DEF Inv, TypeOK, RecInv, Shape
<1>2. /\ read' \in [Readers -> ReadRecord] /\ read'[r] = new
      /\ \A q \in Readers : q # r => read'[q] = read[q]
  BY <1>1 DEF Step
<1>3. recent' = recent /\ generation' = generation
  BY DEF rows
<1>4. ReadsInv'
  BY <1>2, <1>3, RecordOf DEF ReadsInv
<1>5. TypeOK' /\ RowsInv'
  BY <1>2 DEF Inv, TypeOK, RowsInv, Quiet, rows
<1> QED BY <1>4, <1>5 DEF Inv

LEMMA StartInv ==
    ASSUME Inv, NEW r \in Readers, NEW request \in Requests, Start(r, request)
    PROVE  Inv'
<1> DEFINE new == [ReadIdle EXCEPT !.pc = "get", !.kind = request.kind,
                       !.first = request.first, !.last = request.last, !.promise = recent]
<1>1. /\ request.kind \in {"head", "full", "range"} /\ request.first \in Indexes
      /\ request.last \in Indexes /\ 0 \in Indexes
  BY ReadThroughAssumption
<1>2. ReadIdle \in ReadRecord /\ ReadIdle.sent = {}
  BY <1>1 DEF ReadIdle, ReadRecord, ReadPCs
<1>3. recent \subseteq ETags \cup {None}
  BY DEF Inv, TypeOK
<1>4. /\ new \in ReadRecord /\ new.pc = "get" /\ new.sent = {} /\ new.promise = recent
  BY <1>1, <1>2, <1>3 DEF ReadRecord, ReadPCs
<1>5. Step(r, new) /\ UNCHANGED <<upstream, rows, degraded, write, recent>>
  BY DEF Start
<1> HIDE DEF new
<1>6. RecInv(new, recent, generation)
  BY <1>4 DEF RecInv, Shape, OneVersion, Fresh, Planning, Paging, Holding
<1> QED BY <1>5, <1>6, OneStep

LEMMA JoinFillInv ==
    ASSUME Inv, NEW r \in Readers, JoinFill(r)
    PROVE  Inv' /\ Moves
<1> DEFINE rd == read[r]
<1>1. RecInv(rd, recent, generation) /\ Running(rd) /\ rd.pc = "join"
  BY RecordOf DEF JoinFill, Running, Ends
<1>2. UNCHANGED <<upstream, rows, degraded, write, recent>>
  BY DEF JoinFill
<1>3. /\ Follows(rd, [rd EXCEPT !.pc = "wait"], recent, generation)
      /\ Follows(rd, [rd EXCEPT !.pc = "fetch"], recent, generation)
  BY <1>1, MovesFollows DEF MayMove, ReadPCs, Planning, Paging, Holding
<1>4. Step(r, [rd EXCEPT !.pc = "wait"]) \/ Step(r, [rd EXCEPT !.pc = "fetch"])
  BY DEF JoinFill
<1>5. Moves
  BY <1>2, <1>3, <1>4, StepMoves DEF rows
<1> QED BY <1>2, <1>5, OnlyReads

(* PutObject fails: the request is forwarded. *)
LEMMA PutObjectFailsInv ==
    ASSUME Inv, NEW r \in Readers, PutObjectFails(r)
    PROVE  Inv' /\ Moves
<1> DEFINE rd == read[r]
<1>1. RecInv(rd, recent, generation) /\ Running(rd) /\ rd.sent = {}
  BY RecordOf DEF PutObjectFails, Running, Ends, RecInv, OneVersion, Paging
<1>2. UNCHANGED <<upstream, rows, degraded, write, recent>> /\ Step(r, NotStored(rd))
  BY DEF PutObjectFails
<1>3. Follows(rd, NotStored(rd), recent, generation)
  BY <1>1, NotFoundFollows
<1>4. Moves
  BY <1>2, <1>3, StepMoves DEF rows
<1> QED BY <1>2, <1>4, OnlyReads

-----------------------------------------------------------------------------
(* Invalidations.                                                          *)

LEMMA InvalidatedKept ==
    ASSUME Inv, InvalidateRows, recent' \in SUBSET recent
    PROVE  Kept /\ generation' \in Nat
<1>1. generation \in Nat \cup {None}
  BY DEF Inv, TypeOK
<1>2. generation' = EnsureGeneration(generation) + 1
  BY DEF InvalidateRows, NextEpoch
<1>3. generation' \in Nat /\ (generation \in Nat => generation < generation')
  <2>1. CASE generation = None
    BY <1>2, <2>1, NoneAssumption DEF EnsureGeneration
  <2>2. CASE generation \in Nat
    <3>1. generation # None
      BY <2>2, NoneAssumption
    <3> QED BY <1>2, <2>2, <3>1 DEF EnsureGeneration
  <2> QED BY <1>1, <2>1, <2>2
<1>4. ASSUME NEW q \in Readers
      PROVE  RecInv(read[q], recent', generation')
  BY <1>1, <1>3, RecordOf, RecAdvance
<1> QED BY <1>3, <1>4 DEF Kept

LEMMA InvalidatedInv ==
    ASSUME Inv, InvalidateRows, upstream' = upstream,
           recent' \in SUBSET recent, upstream \in recent',
           read' \in [Readers -> ReadRecord], ReadsInv',
           write' \in [Writers -> {"idle", "answered", "lost", "done"}],
           degraded' \in BOOLEAN, Quiet' => recent' = {upstream}
    PROVE  Inv'
<1>1. generation' \in Nat
  BY InvalidatedKept
<1>2. /\ object' = None /\ pages' = NoPages /\ aged' = FALSE
      /\ pages' \in [Indexes -> Page \cup {None}] /\ \A i \in Indexes : pages'[i] = None
  BY DEF InvalidateRows, NoPages
<1>3. TypeOK'
  BY <1>1, <1>2 DEF Inv, TypeOK
<1>4. RowsInv'
  BY <1>2 DEF RowsInv
<1> QED BY <1>3, <1>4 DEF Inv

LEMMA RefetchInv ==
    ASSUME Inv, NEW r \in Readers, Refetch(r)
    PROVE  /\ Inv' /\ read' = [q \in Readers |-> read'[q]]
           /\ \A q \in Readers : Answered(read'[q]) = Answered(read[q])
<1> DEFINE rd == read[r]
           new == [rd EXCEPT !.pc = "get", !.plan = None, !.refetched = 1]
<1>1. /\ RecInv(rd, recent, generation) /\ rd \in ReadRecord /\ Running(rd)
      /\ rd.sent = {} /\ rd.pc = "refetch"
  BY RecordOf DEF Refetch, Running, Ends, RecInv, OneVersion, Paging
<1>2. /\ UNCHANGED <<upstream, degraded, write>> /\ recent' = {upstream}
      /\ Step(r, new) /\ InvalidateRows
  BY DEF Refetch
<1>3. upstream \in recent /\ recent' \in SUBSET recent /\ recent \subseteq rd.promise
  BY <1>1, <1>2 DEF Inv, RowsInv, RecInv, Fresh
<1>4. Kept
  BY <1>2, <1>3, InvalidatedKept
<1>5. /\ new \in ReadRecord /\ new.pc = "get" /\ new.sent = rd.sent
      /\ new.promise = rd.promise
  BY <1>1 DEF ReadRecord, ReadPCs
<1> HIDE DEF new
<1>6. RecInv(new, recent', generation')
  BY <1>1, <1>2, <1>3, <1>5
  DEF RecInv, Shape, OneVersion, Fresh, Planning, Paging, Holding
<1>7. Goes(rd, new)
  BY <1>1, <1>5 DEF Goes
<1>8. Moves
  BY <1>2, <1>6, <1>7, StepMoves DEF Follows
<1>9. read' \in [Readers -> ReadRecord] /\ ReadsInv'
  BY <1>4, <1>8, MovesInv
<1>10. Inv'
  BY <1>2, <1>3, <1>9, InvalidatedInv DEF Inv, TypeOK
<1>11. Answered(new) = Answered(rd)
  BY <1>1, <1>5 DEF Answered, Running, Ends
<1>12. \A q \in Readers : read'[q] = IF q = r THEN new ELSE read[q]
  BY <1>2 DEF Step, Inv, TypeOK
<1> QED BY <1>8, <1>10, <1>11, <1>12 DEF Moves

LEMMA ReadFailsInv ==
    ASSUME Inv, NEW r \in Readers, ReadFails(r)
    PROVE  Inv' /\ Moves
<1> DEFINE rd == read[r]
<1>1. RecInv(rd, recent, generation) /\ rd \in ReadRecord /\ Running(rd)
  BY RecordOf DEF ReadFails
<1>2. UNCHANGED <<upstream, degraded, write, recent>>
  BY DEF ReadFails
<1>3. CASE UNCHANGED rows
  <2>1. Follows(rd, Failed(rd, "fault"), recent, generation)
    BY <1>1, FailedFollows
  <2>2. Moves
    BY <1>1, <1>2, <1>3, <2>1, StepMoves, FillFailsMoves DEF ReadFails, rows
  <2> QED BY <1>2, <1>3, <2>2, OnlyReads
<1>4. CASE rd.pc = "refetch" /\ InvalidateRows
  <2>1. Kept
    BY <1>2, <1>4, InvalidatedKept
  <2>2. Follows(rd, Failed(rd, "fault"), recent', generation')
    BY <1>1, <2>1, FailedFollows DEF Kept
  <2>3. Moves
    BY <1>4, <2>2, StepMoves DEF ReadFails, Leading
  <2>4. read' \in [Readers -> ReadRecord] /\ ReadsInv'
    BY <2>1, <2>3, MovesInv
  <2>5. Inv'
    BY <1>2, <1>4, <2>4, InvalidatedInv DEF Inv, TypeOK, RowsInv, Quiet
  <2> QED BY <2>3, <2>5
<1> QED BY <1>3, <1>4 DEF ReadFails, InvalidateRowsFails

-----------------------------------------------------------------------------
(* Writes and maintenance.                                                 *)

LEMMA ReplacedReads ==
    ASSUME Inv, NEW v \in ETags \cup {None}, Replaced(v), generation' = generation
    PROVE  read' \in [Readers -> ReadRecord] /\ ReadsInv'
<1>1. ASSUME NEW q \in Readers
      PROVE  RecInv(read'[q], recent', generation')
  <2>1. RecInv(read[q], recent, generation) /\ read[q] \in ReadRecord
    BY RecordOf
  <2>2. recent' = recent \cup {v}
    BY DEF Replaced
  <2>3. CASE Running(read[q])
    <3>1. read'[q] = [read[q] EXCEPT !.promise = @ \cup {v}]
      BY <2>3 DEF Replaced
    <3>2. RecInv(read'[q], recent', generation')
      BY <2>1, <2>2, <2>3, <3>1, RecReplaced
    <3> QED BY <3>2
  <2>4. CASE ~Running(read[q])
    <3>1. read'[q] = read[q]
      BY <2>4 DEF Replaced
    <3> QED BY <2>1, <2>2, <2>4, <3>1, RecReplaced
  <2> QED BY <2>3, <2>4
<1>2. ASSUME NEW q \in Readers PROVE read'[q] \in ReadRecord
  BY <1>1 DEF RecInv, Shape
<1>3. read' = [q \in Readers |-> read'[q]]
  BY DEF Replaced
<1>4. read' \in [Readers -> ReadRecord]
  BY <1>2, <1>3
<1>5. ReadsInv'
  BY <1>1 DEF ReadsInv
<1> QED BY <1>4, <1>5

LEMMA ForwardWriteInv ==
    ASSUME Inv, NEW w \in Writers, NEW kind \in WriteKinds, ForwardWrite(w, kind)
    PROVE  Inv' /\ \E v \in ETags \cup {None} : Replaced(v)
<1>1. PICK v \in UpstreamAfter(kind) : Replaced(v)
  BY DEF ForwardWrite
<1>2. /\ upstream \in ETags \cup {None} /\ upstream \in recent
      /\ recent \subseteq ETags \cup {None}
  BY DEF Inv, TypeOK, RowsInv
<1>3. v \in ETags \cup {None}
  BY <1>2 DEF UpstreamAfter
<1>4. UNCHANGED <<rows, degraded>> /\ upstream' = v /\ recent' = recent \cup {v}
  BY <1>1 DEF ForwardWrite, Replaced
<1>5. read' \in [Readers -> ReadRecord] /\ ReadsInv'
  BY <1>1, <1>3, <1>4, ReplacedReads DEF rows
<1>6. /\ write \in [Writers -> {"idle", "answered", "lost", "done"}] /\ write[w] = "idle"
      /\ \/ write' = [write EXCEPT ![w] = "answered"]
         \/ ~ShouldInvalidateAfterWrite(kind) /\ write' = [write EXCEPT ![w] = "done"]
         \/ write' = [write EXCEPT ![w] = "lost"]
  BY DEF Inv, TypeOK, ForwardWrite
<1>7. TypeOK'
  BY <1>2, <1>3, <1>4, <1>5, <1>6 DEF Inv, TypeOK, rows
<1>8. Quiet' => recent' = {upstream'}
  <2>1. CASE write'[w] \in {"answered", "lost"}
    BY <2>1 DEF Quiet
  <2>2. CASE write'[w] \notin {"answered", "lost"}
    <3>1. ~ShouldInvalidateAfterWrite(kind)
      BY <1>6, <2>2
    <3>2. v = upstream
      BY <3>1 DEF UpstreamAfter, ShouldInvalidateAfterWrite
    <3>3. write' = [write EXCEPT ![w] = "done"]
      BY <1>6, <2>2
    <3>4. Quiet' => Quiet
      BY <1>4, <1>6, <3>3 DEF Quiet
    <3> QED BY <1>2, <1>4, <3>2, <3>4 DEF Inv, RowsInv
  <2> QED BY <2>1, <2>2
<1>9. RowsInv'
  BY <1>4, <1>8 DEF Inv, RowsInv, rows
<1> QED BY <1>1, <1>3, <1>5, <1>7, <1>9 DEF Inv

(* An invalidation leaves the requests as they are. *)
LEMMA SameReads ==
    ASSUME Inv, Kept, read' = read
    PROVE  read' \in [Readers -> ReadRecord] /\ ReadsInv'
<1>1. read' \in [Readers -> ReadRecord]
  BY DEF Inv, TypeOK
<1>2. ReadsInv'
  BY DEF ReadsInv, Kept
<1> QED BY <1>1, <1>2

LEMMA InvalidateAfterWriteInv ==
    ASSUME Inv, NEW w \in Writers, InvalidateAfterWrite(w)
    PROVE  Inv'
<1>1. /\ InvalidateRows /\ recent' = {upstream} /\ UNCHANGED <<upstream, degraded, read>>
      /\ write' = [write EXCEPT ![w] = "done"]
  BY DEF InvalidateAfterWrite
<1>2. recent' \in SUBSET recent
  BY <1>1 DEF Inv, RowsInv
<1>3. Kept
  BY <1>1, <1>2, InvalidatedKept
<1>4. write' \in [Writers -> {"idle", "answered", "lost", "done"}] /\ degraded' \in BOOLEAN
  BY <1>1 DEF Inv, TypeOK
<1>5. read' \in [Readers -> ReadRecord] /\ ReadsInv'
  BY <1>1, <1>3, SameReads
<1> QED BY <1>1, <1>2, <1>4, <1>5, InvalidatedInv

LEMMA InvalidationFailsInv ==
    ASSUME Inv, NEW w \in Writers, InvalidationFails(w)
    PROVE  Inv'
<1>1. /\ UNCHANGED <<upstream, read, recent>> /\ degraded' = TRUE
      /\ write' = [write EXCEPT ![w] = "done"]
  BY DEF InvalidationFails
<1>2. ~Quiet' /\ upstream \in recent /\ degraded' \in BOOLEAN
  BY <1>1 DEF Quiet, Inv, RowsInv
<1>3. write' \in [Writers -> {"idle", "answered", "lost", "done"}]
  BY <1>1 DEF Inv, TypeOK
<1>4. CASE InvalidateRows
  <2>1. Kept
    BY <1>1, <1>4, InvalidatedKept
  <2>2. read' \in [Readers -> ReadRecord] /\ ReadsInv'
    BY <1>1, <2>1, SameReads
  <2> QED BY <1>1, <1>2, <1>3, <1>4, <2>2, InvalidatedInv
<1>5. CASE UNCHANGED rows
  <2>1. read' \in [Readers -> ReadRecord] /\ ReadsInv'
    BY <1>1, <1>5, KeptSame, SameReads DEF rows
  <2>2. TypeOK'
    BY <1>1, <1>2, <1>3, <1>5, <2>1 DEF Inv, TypeOK, rows
  <2>3. RowsInv'
    BY <1>1, <1>2, <1>5 DEF Inv, RowsInv, rows
  <2> QED BY <2>1, <2>2, <2>3 DEF Inv
<1> QED BY <1>4, <1>5 DEF InvalidationFails, InvalidateRowsFails

LEMMA MaintenanceInv ==
    ASSUME Inv, Maintenance
    PROVE  Inv' /\ UNCHANGED <<upstream, read, recent>>
<1>1. UNCHANGED <<upstream, generation, degraded, read, write, recent>>
  BY DEF Maintenance, ObjectAges, CollectObject, EvictPage
<1>2. read' \in [Readers -> ReadRecord] /\ ReadsInv'
  BY <1>1, KeptSame, SameReads
<1>3. /\ object' = object \/ object' = None
      /\ aged' \in BOOLEAN
  BY DEF Maintenance, ObjectAges, CollectObject, EvictPage, Inv, TypeOK
<1>4. \/ pages' = pages
      \/ \E i \in Indexes : pages' = [pages EXCEPT ![i] = None]
  BY DEF Maintenance, ObjectAges, CollectObject, EvictPage
<1>5. PagesFit(pages) /\ pages \in [Indexes -> Page \cup {None}]
  BY DEF Inv, TypeOK, RowsInv, PagesFit
<1>6. PagesFit(pages')
  BY <1>4, <1>5 DEF PagesFit
<1>7. TypeOK'
  BY <1>1, <1>2, <1>3, <1>6 DEF Inv, TypeOK, PagesFit
<1>8. RowsInv'
  BY <1>1, <1>3, <1>6 DEF Inv, RowsInv, Quiet, PagesFit
<1> QED BY <1>1, <1>2, <1>7, <1>8 DEF Inv

-----------------------------------------------------------------------------
(* The invariant is inductive.                                             *)

LEMMA InitInv == Init => Inv
<1> SUFFICES ASSUME Init PROVE Inv
  OBVIOUS
<1>1. 0 \in Indexes
  BY ReadThroughAssumption
<1>2. ReadIdle \in ReadRecord
  BY <1>1 DEF ReadIdle, ReadRecord, ReadPCs
<1>3. ReadIdle.pc = "idle" /\ ReadIdle.sent = {}
  BY DEF ReadIdle
<1>4. RecInv(ReadIdle, recent, generation)
  BY <1>2, <1>3
  DEF RecInv, Shape, OneVersion, Fresh, Running, Planning, Paging, Holding
<1>5. \A r \in Readers : read[r] = ReadIdle
  BY DEF Init
<1>6. ReadsInv
  BY <1>4, <1>5 DEF ReadsInv
<1>7. TypeOK
  BY <1>2 DEF Init, TypeOK, NoPages
<1>8. RowsInv
  BY DEF Init, RowsInv, NoPages
<1> QED BY <1>6, <1>7, <1>8 DEF Inv

(* The steps whose requests go on as FreshReads' Answer lets them *)
LEMMA ProceedInv ==
    ASSUME Inv, NEW r \in Readers, Proceed(r), ~Refetch(r)
    PROVE  Inv' /\ Moves /\ UNCHANGED <<upstream, recent>>
<1>1. CASE GetObject(r)
  BY <1>1, GetObjectInv DEF GetObject
<1>2. CASE HeadUpstream(r)
  BY <1>2, HeadUpstreamInv DEF HeadUpstream
<1>3. CASE PutGeneration(r)
  BY <1>3, PutGenerationInv DEF PutGeneration
<1>4. CASE UpsertObject(r)
  BY <1>4, UpsertObjectInv DEF UpsertObject
<1>5. CASE RereadObject(r)
  BY <1>5, RereadObjectInv DEF RereadObject
<1>6. CASE OpenPage(r)
  BY <1>6, OpenPageInv DEF OpenPage
<1>7. CASE JoinFill(r)
  BY <1>7, JoinFillInv DEF JoinFill
<1>8. CASE OpenFilledPage(r)
  BY <1>8, OpenFilledPageInv DEF OpenFilledPage
<1>9. CASE FetchPage(r)
  BY <1>9, FetchPageInv DEF FetchPage
<1>10. CASE BeginFill(r)
  BY <1>10, BeginFillInv DEF BeginFill
<1>11. CASE CommitFill(r)
  BY <1>11, CommitFillInv DEF CommitFill
<1>12. CASE ReopenPage(r)
  BY <1>12, ReopenPageInv DEF ReopenPage
<1>13. CASE GetWholeObject(r)
  BY <1>13, GetWholeObjectInv DEF GetWholeObject
<1>14. CASE BeginColdPage(r)
  BY <1>14, BeginColdPageInv DEF BeginColdPage
<1>15. CASE CommitColdPage(r)
  BY <1>15, CommitColdPageInv DEF CommitColdPage
<1>16. CASE Forward(r)
  BY <1>16, ForwardInv DEF Forward
<1> QED
  BY <1>1, <1>2, <1>3, <1>4, <1>5, <1>6, <1>7, <1>8, <1>9, <1>10, <1>11, <1>12, <1>13,
     <1>14, <1>15, <1>16 DEF Proceed

LEMMA NextInv == Inv /\ [Next]_vars => Inv'
<1> SUFFICES ASSUME Inv, [Next]_vars PROVE Inv'
  OBVIOUS
<1>1. ASSUME NEW r \in Readers, ReadStep(r) PROVE Inv'
  BY <1>1, StartInv, ProceedInv, RefetchInv, PutObjectFailsInv, ReadFailsInv DEF ReadStep
<1>2. ASSUME NEW w \in Writers, WriteStep(w) PROVE Inv'
  BY <1>2, ForwardWriteInv, InvalidateAfterWriteInv, InvalidationFailsInv DEF WriteStep
<1>3. CASE Maintenance
  BY <1>3, MaintenanceInv
<1>4. CASE UNCHANGED vars
  <2>1. Kept
    BY <1>4, KeptSame DEF vars, rows
  <2>2. read' \in [Readers -> ReadRecord] /\ ReadsInv'
    BY <1>4, <2>1, SameReads DEF vars
  <2>3. TypeOK' /\ RowsInv'
    BY <1>4 DEF Inv, TypeOK, RowsInv, Quiet, vars, rows
  <2> QED BY <2>2, <2>3 DEF Inv
<1> QED BY <1>1, <1>2, <1>3, <1>4 DEF Next

LEMMA Invariance == Spec => []Inv
BY InitInv, NextInv, PTL DEF Spec

(* Types: requests and rows stay what the code declares, whatever the      *)
(* interleaving of ServeHTTP's requests with writes and maintenance.       *)
THEOREM Typing == Spec => []TypeOK
<1>1. Inv => TypeOK
  BY DEF Inv
<1> QED BY <1>1, Invariance, PTL

(* No read sends a byte of a version that was replaced and invalidated     *)
(* before the read began: handle's invalidation after a write, with the    *)
(* epoch fence of BeginPageWrite and Commit, suffices for any number of    *)
(* concurrent reads, fills, writes, refetches and evictions.               *)
THEOREM FreshBodies == Spec => []BodyIsFresh
<1>1. Inv => BodyIsFresh
  BY DEF Inv, ReadsInv, RecInv, Fresh, BodyIsFresh
<1> QED BY <1>1, Invariance, PTL

(* The pages of one response are of the version its ETag header names: the *)
(* plan of streamCachedPages and the If-Match of fetchAndStorePage keep it *)
(* through any change of the object while the response is under way.       *)
THEOREM OneVersionPerResponse == Spec => []ResponseIsOneVersion
<1>1. Inv => ResponseIsOneVersion
  BY DEF Inv, ReadsInv, RecInv, OneVersion, ResponseIsOneVersion
<1> QED BY <1>1, Invariance, PTL

(* When every write was answered and invalidated and the proxy does not    *)
(* call itself degraded, a page a read could hit is of the version         *)
(* upstream: no fill that began before a write (fetchAndStorePage,         *)
(* streamColdFullObject) gets past the fence of Commit after it.           *)
THEOREM CacheSettles == Spec => []CachedPagesCurrent
<1>1. Inv => CachedPagesCurrent
  BY DEF Inv, RowsInv, Quiet, CachedPagesCurrent
<1> QED BY <1>1, Invariance, PTL

-----------------------------------------------------------------------------
(* The read path implements FreshReads, step by step.                      *)

(* Records of FreshReads, compared field by field *)
Seen(S, P, Q) == [status : S, promise : P, sent : Q]

LEMMA SameSeen ==
    ASSUME NEW S, NEW P, NEW Q, NEW x \in Seen(S, P, Q), NEW y \in Seen(S, P, Q),
           x.status = y.status, x.promise = y.promise, x.sent = y.sent
    PROVE  x = y
BY DEF Seen

LEMMA GoesAnswers ==
    ASSUME NEW old, NEW new, Goes(old, new)
    PROVE  /\ Answered(old).status = "reading"
           /\ Answered(new) \in Promise!Answers(Answered(old))
<1> DEFINE a == Answered(old)
           s == Answered(new).status
           bytes == {a.sent} \cup {{v} : v \in {u \in a.promise \ {None} : a.sent \subseteq {u}}}
<1>1. a = [status |-> "reading", promise |-> old.promise, sent |-> old.sent]
  BY DEF Goes, Answered, Running
<1>2. s \in {"reading", "ended"}
  BY DEF Goes, Answered
<1>3. Answered(new) = [status |-> s, promise |-> old.promise, sent |-> new.sent]
  BY DEF Goes, Answered
<1>4. new.sent \in bytes
  BY <1>1 DEF Goes
<1> HIDE DEF s
<1> DEFINE S == {"reading", "ended"}
           P == {old.promise}
           Q == {old.sent, new.sent}
           x == [a EXCEPT !.status = s, !.sent = new.sent]
<1>5. Answered(new) = x
  <2>1. a \in Seen(S, P, Q) /\ a.promise = old.promise
    BY <1>1 DEF Seen
  <2>2. /\ Answered(new) \in Seen(S, P, Q) /\ Answered(new).status = s
        /\ Answered(new).promise = old.promise /\ Answered(new).sent = new.sent
    BY <1>2, <1>3 DEF Seen
  <2> HIDE DEF a
  <2>3. x \in Seen(S, P, Q) /\ x.status = s /\ x.promise = old.promise /\ x.sent = new.sent
    BY <1>2, <2>1 DEF Seen
  <2> HIDE DEF x, S, P, Q
  <2> QED BY <2>2, <2>3, SameSeen
<1> HIDE DEF a
<1>6. Answered(new) \in Promise!Answers(a)
  <2> DEFINE f(t, b) == [a EXCEPT !.status = t, !.sent = b]
  <2>1. Promise!Answers(a) = {f(t, b) : t \in {"reading", "ended"}, b \in bytes}
    BY DEF Promise!Answers
  <2>2. Answered(new) = f(s, new.sent)
    BY <1>5
  <2> HIDE DEF f, bytes
  <2> QED BY <1>2, <1>4, <2>1, <2>2
<1> QED BY <1>1, <1>6 DEF a

LEMMA GoAnswer ==
    ASSUME Moves, UNCHANGED <<upstream, recent>>
    PROVE  Promise!Answer
<1> DEFINE reader == [r \in Readers |-> Answered(read[r])]
           next == [r \in Readers |-> Answered(read'[r])]
<1>1. ASSUME NEW r \in Readers
      PROVE  \/ next[r] = reader[r]
             \/ reader[r].status = "reading" /\ next[r] \in Promise!Answers(reader[r])
  BY GoesAnswers DEF Moves, Follows
<1> HIDE DEF reader, next
<1>2. \A r \in Readers :
         next[r] \in UNION {Promise!Answers(reader[q]) \cup {reader[q]} : q \in Readers}
  BY <1>1
<1>3. next = [r \in Readers |-> next[r]]
  BY DEF next
<1>4. next \in [Readers -> UNION {Promise!Answers(reader[q]) \cup {reader[q]} : q \in Readers}]
  BY <1>2, <1>3
<1> QED BY <1>1, <1>4 DEF Promise!Answer, reader, next

LEMMA InitRefines == Init => Promise!Init
<1> SUFFICES ASSUME Init PROVE Promise!Init
  OBVIOUS
<1>1. \A r \in Readers :
         Answered(read[r]) = [status |-> "idle", promise |-> {}, sent |-> {}]
  BY DEF Init, ReadIdle, Answered
<1> QED BY <1>1 DEF Init, Promise!Init, Promise!Versions

LEMMA StartRefines ==
    ASSUME Inv, NEW r \in Readers, NEW request \in Requests, Start(r, request)
    PROVE  Promise!Begin(r)
<1> DEFINE reader == [q \in Readers |-> Answered(read[q])]
           next == [q \in Readers |-> Answered(read'[q])]
           new == [ReadIdle EXCEPT !.pc = "get", !.kind = request.kind,
                       !.first = request.first, !.last = request.last, !.promise = recent]
<1>1. read[r].pc = "idle" /\ read[r].sent = {}
  BY RecordOf DEF Start, RecInv, OneVersion, Paging, Ends
<1>2. reader[r] = [status |-> "idle", promise |-> read[r].promise, sent |-> {}]
  BY <1>1 DEF Answered
<1>3. new.pc = "get" /\ new.promise = recent /\ new.sent = {}
  BY DEF ReadIdle
<1>4. read \in [Readers -> ReadRecord] /\ read' = [read EXCEPT ![r] = new]
  BY DEF Start, Step, Inv, TypeOK
<1> HIDE DEF new
<1>5. Answered(new) = [status |-> "reading", promise |-> recent, sent |-> {}]
  BY <1>3 DEF Answered, Running, Ends
<1>6. next[r] = [status |-> "reading", promise |-> recent, sent |-> {}]
  BY <1>4, <1>5
<1>7. \A q \in Readers : q # r => next[q] = reader[q]
  BY <1>4
<1>8. [reader[r] EXCEPT !.status = "reading", !.promise = recent] = next[r]
  <2> DEFINE S == {"idle", "reading"}
             P == {read[r].promise, recent}
             Q == {{}}
             a == reader[r]
             x == [a EXCEPT !.status = "reading", !.promise = recent]
  <2>1. a \in Seen(S, P, Q) /\ a.sent = {}
    BY <1>2 DEF Seen
  <2>2. /\ next[r] \in Seen(S, P, Q) /\ next[r].status = "reading"
        /\ next[r].promise = recent /\ next[r].sent = {}
    BY <1>6 DEF Seen
  <2> HIDE DEF a, next
  <2>3. x \in Seen(S, P, Q) /\ x.status = "reading" /\ x.promise = recent /\ x.sent = {}
    BY <2>1 DEF Seen
  <2> HIDE DEF x, S, P, Q
  <2>4. x = next[r]
    BY <2>2, <2>3, SameSeen
  <2> QED BY <2>4 DEF x, a
<1>9. next = [reader EXCEPT ![r].status = "reading", ![r].promise = recent]
  BY <1>6, <1>7, <1>8
<1>10. UNCHANGED <<upstream, recent>>
  BY DEF Start
<1> QED BY <1>2, <1>9, <1>10 DEF Promise!Begin

LEMMA ReplacedRefines ==
    ASSUME Inv, NEW v \in ETags \cup {None}, Replaced(v)
    PROVE  Promise!Replace(v)
<1> DEFINE reader == [q \in Readers |-> Answered(read[q])]
           next == [q \in Readers |-> Answered(read'[q])]
<1>1. ASSUME NEW q \in Readers
      PROVE  next[q] = IF reader[q].status = "reading"
                       THEN [reader[q] EXCEPT !.promise = @ \cup {v}] ELSE reader[q]
  <2> DEFINE rd == read[q]
             new == [rd EXCEPT !.promise = @ \cup {v}]
  <2>0. rd \in ReadRecord
    BY RecordOf
  <2>1. CASE Running(rd)
    <3>1. new.pc = rd.pc /\ new.sent = rd.sent /\ new.promise = rd.promise \cup {v}
      BY <2>0 DEF ReadRecord
    <3>2. read'[q] = new
      BY <2>1 DEF Replaced
    <3> HIDE DEF new
    <3>3. Answered(new) = [status |-> "reading", promise |-> rd.promise \cup {v}, sent |-> rd.sent]
      BY <2>1, <3>1 DEF Answered, Running
    <3>4. reader[q] = [status |-> "reading", promise |-> rd.promise, sent |-> rd.sent]
      BY <2>1 DEF Answered, Running
    <3>5. next[q] = Answered(new)
      BY <3>2
    <3> HIDE DEF next, reader
    <3>6. [reader[q] EXCEPT !.promise = @ \cup {v}]
            = [status |-> "reading", promise |-> rd.promise \cup {v}, sent |-> rd.sent]
      BY <3>4
    <3>7. reader[q].status = "reading"
      BY <3>4
    <3> QED BY <3>3, <3>5, <3>6, <3>7
  <2>2. CASE ~Running(rd)
    BY <2>2 DEF Replaced, Answered
  <2> QED BY <2>1, <2>2
<1> QED BY <1>1 DEF Replaced, Promise!Replace

LEMMA SettleRefines ==
    ASSUME recent' = {upstream}, upstream' = upstream,
           \A q \in Readers : Answered(read'[q]) = Answered(read[q])
    PROVE  Promise!Settle
BY DEF Promise!Settle

LEMMA NextRefines ==
    ASSUME Inv, [Next]_vars
    PROVE  [Promise!Next]_(Promise!vars)
<1>1. ASSUME NEW r \in Readers, ReadStep(r) PROVE Promise!Next
  <2>1. CASE \E request \in Requests : Start(r, request)
    BY <2>1, StartRefines DEF Promise!Next
  <2>2. CASE Proceed(r) /\ ~Refetch(r)
    BY <2>2, ProceedInv, GoAnswer DEF Promise!Next
  <2>3. CASE Refetch(r)
    BY <2>3, RefetchInv, SettleRefines DEF Refetch, Promise!Next
  <2>4. CASE ReadFails(r)
    BY <2>4, ReadFailsInv, GoAnswer DEF ReadFails, Promise!Next
  <2>5. CASE PutObjectFails(r)
    BY <2>5, PutObjectFailsInv, GoAnswer DEF PutObjectFails, Promise!Next
  <2> QED BY <1>1, <2>1, <2>2, <2>3, <2>4, <2>5 DEF ReadStep
<1>2. ASSUME NEW w \in Writers, WriteStep(w) PROVE [Promise!Next]_(Promise!vars)
  <2>1. CASE \E kind \in WriteKinds : ForwardWrite(w, kind)
    <3>1. PICK v \in ETags \cup {None} : Replaced(v)
      BY <2>1, ForwardWriteInv
    <3> QED BY <3>1, ReplacedRefines DEF Promise!Next, Promise!Versions
  <2>2. CASE InvalidateAfterWrite(w)
    BY <2>2, SettleRefines DEF InvalidateAfterWrite, Promise!Next
  <2>3. CASE InvalidationFails(w)
    BY <2>3 DEF InvalidationFails, Promise!vars
  <2> QED BY <1>2, <2>1, <2>2, <2>3 DEF WriteStep
<1>3. CASE Maintenance
  BY <1>3, MaintenanceInv DEF Promise!vars
<1>4. CASE UNCHANGED vars
  BY <1>4 DEF vars, Promise!vars
<1> QED BY <1>1, <1>2, <1>3, <1>4 DEF Next

(* The read path of the proxy implements FreshReads: what a client sees of *)
(* ServeHTTP's cached reads, with their coalesced fills, refetches,        *)
(* fallbacks and failures, it could have seen of reads of the upstream     *)
(* store itself, up to versions replaced since the last invalidation.      *)
THEOREM ReadPathIsFresh == Spec => ReadsAreFresh
<1>1. Inv /\ [Next]_vars => [Promise!Next]_(Promise!vars)
  BY NextRefines
<1> QED BY <1>1, InitRefines, Invariance, PTL DEF Spec, ReadsAreFresh, Promise!Spec
=============================================================================
