-------------------------- MODULE PageStoreProofs ---------------------------
(* Proofs about PageStore for every set of versions, pages and operations. *)
EXTENDS PageStore, TLAPS

-----------------------------------------------------------------------------
(* Type correctness.                                                       *)

(* The records of operations that have not begun or have ended. *)
LEMMA NoPagesTable == NoPages \in Tables
  BY DEF NoPages, Tables

LEMMA EndedPut ==
    /\ Ended(PutIdle) \in PutRecord
    /\ Ended(PutIdle).pc = "done"
    /\ ~Running(Ended(PutIdle))
  <1>1. Ended(PutIdle) = [pc |-> "done", etag |-> None, epoch |-> None]
    BY DEF Ended, PutIdle
  <1> QED
    BY <1>1 DEF PutRecord, PutPCs, Running

LEMMA EndedFill ==
    /\ Ended(FillIdle) \in FillRecord
    /\ Ended(FillIdle).pc = "done"
    /\ ~Running(Ended(FillIdle))
  <1>1. Ended(FillIdle) = [pc |-> "done", version |-> None, index |-> None,
                           delta |-> 0]
    BY DEF Ended, FillIdle
  <1> QED
    BY <1>1 DEF FillRecord, FillPCs, Running

LEMMA EndedOpen ==
    /\ Ended(OpenIdle) \in OpenRecord
    /\ Ended(OpenIdle).pc = "done"
    /\ ~Running(Ended(OpenIdle))
  <1>1. Ended(OpenIdle) = [pc |-> "done", version |-> None, index |-> None,
                           row |-> None, deleted |-> 0, content |-> None]
    BY DEF Ended, OpenIdle
  <1> QED
    BY <1>1 DEF OpenRecord, OpenPCs, Running

InvalidateRecord == [pc : {"idle", "unlink", "adjust", "done"}, victims : Tables]

LEMMA EndedInvalidate == Ended(InvalidateIdle) \in InvalidateRecord
  <1>1. Ended(InvalidateIdle) = [pc |-> "done", victims |-> NoPages]
    BY DEF Ended, InvalidateIdle
  <1> QED
    BY <1>1, NoPagesTable DEF InvalidateRecord

LEMMA IdleWorker ==
    /\ WorkerIdle \in WorkerRecord(0)
    /\ WorkerIdle.pc = "select"
    /\ WorkerIdle.target = 0
  BY NoPagesTable DEF WorkerIdle, WorkerRecord, WorkerPCs

(* One operation moves on and leaves a well-formed record. *)
LEMMA PutUpdate ==
  ASSUME PutOK, NEW p \in Putters, NEW new \in PutRecord,
         put' = [put EXCEPT ![p] = new],
         Running(new) => /\ new.etag # None
                         /\ new.pc = "upsert" => new.epoch # None
  PROVE  PutOK'
  BY DEF PutOK, Running

LEMMA FillUpdate ==
  ASSUME FillOK, NEW f \in Fillers, NEW new \in FillRecord,
         fill' = [fill EXCEPT ![f] = new],
         Running(new) => new.version # None /\ new.index # None
  PROVE  FillOK'
  BY DEF FillOK, Running

LEMMA OpenUpdate ==
  ASSUME OpenOK, NEW r \in Readers, NEW new \in OpenRecord,
         open' = [open EXCEPT ![r] = new],
         Running(new) => /\ new.version # None
                         /\ new.index # None
                         /\ new.pc # "lookup" => new.row # None
  PROVE  OpenOK'
  BY DEF OpenOK, Running

LEMMA InvalidateUpdate ==
  ASSUME InvalidateOK, NEW v \in Invalidators, NEW new \in InvalidateRecord,
         invalidate' = [invalidate EXCEPT ![v] = new]
  PROVE  InvalidateOK'
  BY DEF InvalidateOK, InvalidateRecord

(* A restart ends the operations that are in progress. *)
LEMMA PutStopped ==
  ASSUME PutOK, put' = Stopped(put, PutIdle)
  PROVE  PutOK' /\ \A p \in Putters : ~Running(put'[p])
  <1>1. Ended(PutIdle) \in PutRecord /\ ~Running(Ended(PutIdle))
    BY EndedPut
  <1>2. put' = [p \in Putters |->
                  IF Running(put[p]) THEN Ended(PutIdle) ELSE put[p]]
    BY DEF PutOK, Stopped
  <1>3. \A p \in Putters : put'[p] \in PutRecord /\ ~Running(put'[p])
    BY <1>1, <1>2 DEF PutOK
  <1>4. put' \in [Putters -> PutRecord]
    BY <1>2, <1>3
  <1> QED
    BY <1>3, <1>4 DEF PutOK

LEMMA FillStopped ==
  ASSUME FillOK, fill' = Stopped(fill, FillIdle)
  PROVE  /\ FillOK'
         /\ \A f \in Fillers : ~Running(fill'[f])
         /\ \A f \in Fillers : fill'[f] = fill[f] \/ fill'[f].pc = "done"
  <1>1. /\ Ended(FillIdle) \in FillRecord
        /\ ~Running(Ended(FillIdle))
        /\ Ended(FillIdle).pc = "done"
    BY EndedFill
  <1>2. fill' = [f \in Fillers |->
                   IF Running(fill[f]) THEN Ended(FillIdle) ELSE fill[f]]
    BY DEF FillOK, Stopped
  <1>3. \A f \in Fillers : fill'[f] \in FillRecord /\ ~Running(fill'[f])
    BY <1>1, <1>2 DEF FillOK
  <1>4. fill' \in [Fillers -> FillRecord]
    BY <1>2, <1>3
  <1>5. \A f \in Fillers : fill'[f] = fill[f] \/ fill'[f].pc = "done"
    BY <1>1, <1>2
  <1> QED
    BY <1>3, <1>4, <1>5 DEF FillOK

LEMMA TypeInit == Init => TypeOK
  <1> SUFFICES ASSUME Init PROVE TypeOK
    OBVIOUS
  <1>1. RowsOK /\ FilesOK
    BY NoPagesTable DEF Init, RowsOK, FilesOK
  <1>2. PutOK
    BY DEF Init, PutOK, PutRecord, PutIdle, PutPCs, Running
  <1>3. FillOK
    BY DEF Init, FillOK, FillRecord, FillIdle, FillPCs, Running
  <1>4. OpenOK
    BY DEF Init, OpenOK, OpenRecord, OpenIdle, OpenPCs, Running
  <1>5. InvalidateOK
    BY NoPagesTable DEF Init, InvalidateOK, InvalidateIdle
  <1>6. WorkerOK
    BY IdleWorker DEF Init, WorkerOK
  <1>7. HistoryOK
    BY DEF Init, HistoryOK
  <1> QED
    BY <1>1, <1>2, <1>3, <1>4, <1>5, <1>6, <1>7 DEF Init, TypeOK

LEMMA PutTypes ==
  ASSUME TypeOK, NEW p \in Putters, PutStep(p)
  PROVE  TypeOK'
  <1>0. PutOK /\ put[p] \in PutRecord
    BY DEF TypeOK, PutOK
  <1>a. ASSUME put' = [put EXCEPT ![p] = Ended(PutIdle)] PROVE PutOK'
    <2>1. Ended(PutIdle) \in PutRecord /\ ~Running(Ended(PutIdle))
      BY EndedPut
    <2> QED
      BY <1>0, <1>a, <2>1, PutUpdate
  <1> USE DEF TypeOK, RowsOK, FilesOK, FillOK, OpenOK, InvalidateOK, WorkerOK,
              rows, memory, history, HistoryOK
  <1>1. ASSUME NEW etag \in ETags, EnsureGenerationRow(p, etag) PROVE TypeOK'
    <2> DEFINE new == [pc |-> "generation", etag |-> etag, epoch |-> None]
    <2>1. RowsOK'
      BY <1>1 DEF EnsureGenerationRow, EnsureGeneration
    <2>2. new \in PutRecord /\ new.etag # None /\ new.pc # "upsert"
      BY NoneAssumption DEF PutRecord, PutPCs
    <2>3. put' = [put EXCEPT ![p] = new]
      BY <1>1 DEF EnsureGenerationRow
    <2> HIDE DEF new
    <2>4. PutOK'
      BY <1>0, <2>2, <2>3, PutUpdate
    <2> QED
      BY <1>1, <2>1, <2>4 DEF EnsureGenerationRow
  <1>2. CASE ReadGeneration(p)
    <2> DEFINE new == [put[p] EXCEPT !.pc = "upsert", !.epoch = generation]
    <2>1. CASE generation = None
      BY <1>2, <1>a, <2>1 DEF ReadGeneration
    <2>2. CASE generation # None
      <3>1. new \in PutRecord /\ new.etag # None /\ new.epoch # None
        BY <1>0, <1>2, <2>2 DEF ReadGeneration, PutOK, PutRecord, PutPCs, Running
      <3>2. put' = [put EXCEPT ![p] = new]
        BY <1>2, <2>2 DEF ReadGeneration
      <3> HIDE DEF new
      <3>3. PutOK'
        BY <1>0, <3>1, <3>2, PutUpdate
      <3> QED
        BY <1>2, <3>3 DEF ReadGeneration
    <2> QED
      BY <2>1, <2>2
  <1>3. CASE UpsertObject(p)
    <2>1. RowsOK'
      BY <1>0, <1>3 DEF UpsertObject, PutOK, PutRecord, Running, Version
    <2> QED
      BY <1>3, <1>a, <2>1 DEF UpsertObject
  <1>4. CASE PutFails(p)
    BY <1>4, <1>a DEF PutFails
  <1> QED
    BY <1>1, <1>2, <1>3, <1>4 DEF PutStep

LEMMA FillTypes ==
  ASSUME TypeOK, NEW f \in Fillers, FillStep(f)
  PROVE  TypeOK'
  <1>0. /\ FillOK
        /\ fill[f] \in FillRecord
        /\ Ended(FillIdle) \in FillRecord
        /\ ~Running(Ended(FillIdle))
    <2>1. FillOK /\ fill[f] \in FillRecord
      BY DEF TypeOK, FillOK
    <2>2. Ended(FillIdle) \in FillRecord /\ ~Running(Ended(FillIdle))
      BY EndedFill
    <2> QED
      BY <2>1, <2>2
  <1>a. ASSUME Running(fill[f])
        PROVE  /\ fill[f].version \in Version
               /\ fill[f].index \in Indexes
               /\ PageBytes(f) \in Nat
               /\ fill[f].version # None
               /\ fill[f].index # None
    <2>1. /\ fill[f].version \in Version /\ fill[f].version # None
          /\ fill[f].index \in Indexes /\ fill[f].index # None
      BY <1>0, <1>a DEF FillOK, FillRecord
    <2> QED
      BY <2>1, StoreAssumption DEF PageBytes, Version
  <1>b. ASSUME NEW pc \in FillPCs, Running(fill[f]),
               fill' = [fill EXCEPT ![f].pc = pc]
        PROVE  FillOK'
    <2>1. [fill[f] EXCEPT !.pc = pc] \in FillRecord
      BY <1>0 DEF FillRecord
    <2>2. /\ [fill[f] EXCEPT !.pc = pc].version = fill[f].version
          /\ [fill[f] EXCEPT !.pc = pc].index = fill[f].index
      BY <1>0 DEF FillRecord
    <2>3. fill' = [fill EXCEPT ![f] = [fill[f] EXCEPT !.pc = pc]]
      BY <1>b
    <2> QED
      BY <1>0, <1>a, <1>b, <2>1, <2>2, <2>3, FillUpdate
  <1>c. ASSUME fill' = [fill EXCEPT ![f] = Ended(FillIdle)] PROVE FillOK'
    BY <1>0, <1>c, FillUpdate
  <1> USE DEF TypeOK, RowsOK, FilesOK, PutOK, OpenOK, InvalidateOK, WorkerOK,
              rows, memory, history, HistoryOK
  <1>1. ASSUME NEW i \in Indexes, PlanFill(f, i) PROVE TypeOK'
    <2> DEFINE new == [pc |-> "begin", version |-> object, index |-> i, delta |-> 0]
    <2>1. new \in FillRecord /\ new.version # None /\ new.index # None
      BY <1>1, StoreAssumption, NoneAssumption DEF PlanFill, FillRecord, FillPCs
    <2>2. fill' = [fill EXCEPT ![f] = new]
      BY <1>1 DEF PlanFill
    <2> HIDE DEF new
    <2>3. FillOK'
      BY <1>0, <2>1, <2>2, FillUpdate
    <2> QED
      BY <1>1, <2>3 DEF PlanFill
  <1>2. CASE BeginPageWrite(f)
    <2>1. FillOK'
      BY <1>2, <1>b, <1>c DEF BeginPageWrite, FillPCs, Running
    <2> QED
      BY <1>2, <2>1 DEF BeginPageWrite
  <1>3. CASE Abort(f)
    BY <1>3, <1>c DEF Abort
  <1>4. CASE RenamePage(f)
    <2>1. FilesOK'
      BY <1>4, <1>a DEF RenamePage, Without, FinalPath, PagePathForVersion, Paths,
         Version, Running
    <2>2. FillOK'
      BY <1>4, <1>b DEF RenamePage, FillPCs, Running
    <2> QED
      BY <1>4, <2>1, <2>2 DEF RenamePage
  <1>5. CASE PutPageIfCurrent(f)
    <2>1. Running(fill[f])
      BY <1>5 DEF PutPageIfCurrent, Running
    <2>2. RowsOK'
      BY <1>5, <1>a, <2>1 DEF PutPageIfCurrent, Tables, PageRow, Version, Touched
    <2> DEFINE row == pages[fill[f].index]
               d == PageBytes(f) - (IF row = None THEN 0 ELSE row.size)
               new == [fill[f] EXCEPT !.pc = "adjust", !.delta = d]
    <2>3. d \in Int
      BY <1>a, <2>1 DEF Tables, PageRow
    <2>4. new \in FillRecord /\ new.version # None /\ new.index # None
      BY <1>0, <1>a, <2>1, <2>3 DEF FillRecord, FillPCs
    <2>5. fill' = [fill EXCEPT ![f] = new]
      BY <1>5 DEF PutPageIfCurrent
    <2> HIDE DEF new
    <2>6. FillOK'
      BY <1>0, <2>4, <2>5, FillUpdate
    <2> QED
      BY <1>5, <2>2, <2>6 DEF PutPageIfCurrent
  <1>6. CASE RejectPage(f)
    <2>1. FillOK'
      BY <1>6, <1>b DEF RejectPage, FillPCs, Running
    <2> QED
      BY <1>6, <2>1 DEF RejectPage
  <1>7. CASE UnlinkRejectedPage(f)
    BY <1>7, <1>c DEF UnlinkRejectedPage, Without
  <1>8. CASE AdjustForPage(f)
    <2>1. FillOK'
      BY <1>8, <1>b DEF AdjustForPage, FillPCs, Running
    <2> QED
      BY <1>8, <2>1 DEF AdjustForPage
  <1>9. CASE RequestEviction(f)
    BY <1>9, <1>c DEF RequestEviction
  <1> QED
    BY <1>1, <1>2, <1>3, <1>4, <1>5, <1>6, <1>7, <1>8, <1>9 DEF FillStep

LEMMA OpenTypes ==
  ASSUME TypeOK, NEW r \in Readers, OpenStep(r)
  PROVE  TypeOK'
  <1>0. /\ OpenOK
        /\ open[r] \in OpenRecord
        /\ Ended(OpenIdle) \in OpenRecord
        /\ ~Running(Ended(OpenIdle))
    <2>1. OpenOK /\ open[r] \in OpenRecord
      BY DEF TypeOK, OpenOK
    <2>2. Ended(OpenIdle) \in OpenRecord /\ ~Running(Ended(OpenIdle))
      BY EndedOpen
    <2> QED
      BY <2>1, <2>2
  <1>a. ASSUME Running(open[r])
        PROVE  /\ open[r].version \in Version /\ open[r].version # None
               /\ open[r].index \in Indexes /\ open[r].index # None
               /\ open[r].pc # "lookup" => open[r].row # None
    BY <1>0, <1>a DEF OpenOK, OpenRecord
  <1>b. ASSUME NEW new \in OpenRecord, Running(open[r]), open[r].pc # "lookup",
               new.version = open[r].version, new.index = open[r].index,
               new.row = open[r].row,
               open' = [open EXCEPT ![r] = new]
        PROVE  OpenOK'
    BY <1>0, <1>a, <1>b, OpenUpdate
  <1>c. ASSUME open' = [open EXCEPT ![r] = Ended(OpenIdle)] PROVE OpenOK'
    BY <1>0, <1>c, OpenUpdate
  <1> USE DEF TypeOK, RowsOK, FilesOK, PutOK, FillOK, InvalidateOK, WorkerOK,
              rows, memory, history, HistoryOK
  <1>1. ASSUME NEW i \in Indexes, PlanOpen(r, i) PROVE TypeOK'
    <2> DEFINE new == [OpenIdle EXCEPT !.pc = "lookup", !.version = object,
                                       !.index = i]
    <2>0. object \in Version \cup {None} /\ object # None /\ i # None
      BY <1>1, StoreAssumption, NoneAssumption DEF PlanOpen
    <2>1. /\ new \in OpenRecord /\ new.pc = "lookup"
          /\ new.version # None /\ new.index # None
      BY <2>0 DEF OpenIdle, OpenRecord, OpenPCs
    <2>2. open' = [open EXCEPT ![r] = new]
      BY <1>1 DEF PlanOpen
    <2> HIDE DEF new
    <2>3. OpenOK'
      BY <1>0, <2>1, <2>2, OpenUpdate
    <2> QED
      BY <1>1, <2>3 DEF PlanOpen
  <1>2. CASE LookupPage(r)
    <2> DEFINE row == pages[open[r].index]
               new(pc) == [open[r] EXCEPT !.pc = pc, !.row = row]
    <2>1. CASE row = None
      BY <1>2, <1>c, <2>1 DEF LookupPage
    <2>2. CASE row # None
      <3>1. Running(open[r])
        BY <1>2 DEF LookupPage, Running
      <3>2. row \in PageRow
        BY <1>a, <2>2, <3>1 DEF Tables
      <3>3. PICK pc \in {"file", "stale"} : open' = [open EXCEPT ![r] = new(pc)]
        BY <1>2, <2>2 DEF LookupPage
      <3>4. /\ new(pc) \in OpenRecord
            /\ new(pc).version # None /\ new(pc).index # None /\ new(pc).row # None
        BY <1>0, <1>a, <2>2, <3>1, <3>2 DEF OpenRecord, OpenPCs
      <3> HIDE DEF new
      <3>5. OpenOK'
        BY <1>0, <3>3, <3>4, OpenUpdate
      <3> QED
        BY <1>2, <3>5 DEF LookupPage
    <2> QED
      BY <2>1, <2>2
  <1>3. CASE DeletePageIfCurrent(r)
    <2> DEFINE d == IF pages[open[r].index] = open[r].row THEN 1 ELSE 0
               new == [open[r] EXCEPT !.pc = "unlink", !.deleted = d]
    <2>0. d \in {0, 1} /\ "unlink" \in OpenPCs
      BY DEF OpenPCs
    <2>1. RowsOK'
      BY <1>3 DEF DeletePageIfCurrent, RowDeleted, Tables
    <2>2. /\ new \in OpenRecord /\ new.version = open[r].version
          /\ new.index = open[r].index /\ new.row = open[r].row
      <3> HIDE DEF d
      <3> QED
        BY <1>0, <2>0 DEF OpenRecord
    <2>3. open' = [open EXCEPT ![r] = new]
      BY <1>3 DEF DeletePageIfCurrent
    <2> HIDE DEF new
    <2>4. OpenOK'
      BY <1>3, <1>b, <2>2, <2>3 DEF DeletePageIfCurrent, Running
    <2> QED
      BY <1>3, <2>1, <2>4 DEF DeletePageIfCurrent
  <1>4. CASE OpenFile(r)
    <2>1. RowsOK'
      BY <1>4, <1>a DEF OpenFile, Running
    <2>2. ASSUME \E g \in files : open' = [open EXCEPT ![r].pc = "hit",
                                                     ![r].content = g.content]
          PROVE  OpenOK'
      <3>1. PICK g \in files : open' = [open EXCEPT ![r].pc = "hit",
                                                   ![r].content = g.content]
        BY <2>2
      <3> DEFINE new == [open[r] EXCEPT !.pc = "hit", !.content = g.content]
      <3>2. /\ new \in OpenRecord /\ new.version = open[r].version
            /\ new.index = open[r].index /\ new.row = open[r].row
        BY <1>0 DEF OpenRecord, OpenPCs
      <3>3. open' = [open EXCEPT ![r] = new]
        BY <3>1
      <3> HIDE DEF new
      <3> QED
        BY <1>4, <1>b, <3>2, <3>3 DEF OpenFile, Running
    <2>3. ASSUME NEW pc \in {"corrupt", "missing"},
                 open' = [open EXCEPT ![r].pc = pc]
          PROVE  OpenOK'
      <3> DEFINE new == [open[r] EXCEPT !.pc = pc]
      <3>1. /\ new \in OpenRecord /\ new.version = open[r].version
            /\ new.index = open[r].index /\ new.row = open[r].row
        BY <1>0 DEF OpenRecord, OpenPCs
      <3>2. open' = [open EXCEPT ![r] = new]
        BY <2>3
      <3> HIDE DEF new
      <3> QED
        BY <1>4, <1>b, <3>1, <3>2 DEF OpenFile, Running
    <2>4. OpenOK'
      BY <1>4, <2>2, <2>3 DEF OpenFile
    <2> QED
      BY <1>4, <2>1, <2>4 DEF OpenFile
  <1>5. CASE DeletePage(r)
    <2> DEFINE d == IF pages[open[r].index] = None THEN 0 ELSE 1
               pc == IF open[r].pc = "corrupt" THEN "unlink" ELSE "adjust"
               new == [open[r] EXCEPT !.pc = pc, !.deleted = d]
    <2>0. d \in {0, 1} /\ pc \in OpenPCs
      BY DEF OpenPCs
    <2>1. RowsOK'
      BY <1>5 DEF DeletePage, RowDeleted, Tables
    <2>2. /\ new \in OpenRecord /\ new.version = open[r].version
          /\ new.index = open[r].index /\ new.row = open[r].row
      <3> HIDE DEF d, pc
      <3> QED
        BY <1>0, <2>0 DEF OpenRecord
    <2>3. open' = [open EXCEPT ![r] = new]
      BY <1>5 DEF DeletePage
    <2> HIDE DEF new
    <2>4. OpenOK'
      BY <1>5, <1>b, <2>2, <2>3 DEF DeletePage, Running
    <2> QED
      BY <1>5, <2>1, <2>4 DEF DeletePage
  <1>6. CASE UnlinkOpened(r)
    <2> DEFINE new == [open[r] EXCEPT !.pc = "adjust"]
    <2>2. /\ new \in OpenRecord /\ new.version = open[r].version
          /\ new.index = open[r].index /\ new.row = open[r].row
      BY <1>0 DEF OpenRecord, OpenPCs
    <2>3. open' = [open EXCEPT ![r] = new]
      BY <1>6 DEF UnlinkOpened
    <2> HIDE DEF new
    <2>4. OpenOK'
      BY <1>6, <1>b, <2>2, <2>3 DEF UnlinkOpened, Running
    <2> QED
      BY <1>6, <2>4 DEF UnlinkOpened, Without
  <1>7. CASE AdjustForOpened(r)
    BY <1>7, <1>c DEF AdjustForOpened
  <1>8. CASE OpenReturns(r)
    BY <1>8, <1>c DEF OpenReturns
  <1> QED
    BY <1>1, <1>2, <1>3, <1>4, <1>5, <1>6, <1>7, <1>8 DEF OpenStep

LEMMA InvalidateTypes ==
  ASSUME TypeOK, NEW v \in Invalidators, InvalidateStep(v)
  PROVE  TypeOK'
  <1>a. InvalidateOK /\ invalidate[v] \in InvalidateRecord
    BY DEF TypeOK, InvalidateOK, InvalidateRecord
  <1>b. ASSUME invalidate' = [invalidate EXCEPT ![v] = Ended(InvalidateIdle)]
        PROVE  InvalidateOK'
    BY <1>a, <1>b, EndedInvalidate, InvalidateUpdate
  <1>c. ASSUME UNCHANGED <<put, fill, open, worker, evictionCh>>, RowsOK', FilesOK',
               InvalidateOK', HistoryOK'
        PROVE  TypeOK'
    BY <1>c DEF TypeOK, PutOK, FillOK, OpenOK, WorkerOK
  <1>1. ASSUME NEW m \in MinEpochs, InvalidateTx(v, m) PROVE TypeOK'
    <2>1. /\ generation' \in Nat
          /\ object' \in {object, None}
          /\ pages' \in {pages, NoPages}
          /\ old' \subseteq old
          /\ UNCHANGED <<accessed, touches>>
      <3>1. EnsureGeneration(generation) \in Nat
        BY DEF TypeOK, RowsOK, EnsureGeneration
      <3>2. generation' = NextEpoch(EnsureGeneration(generation), m)
        BY <1>1 DEF InvalidateTx
      <3>3. m \in Nat
        BY StoreAssumption
      <3>4. generation' \in Nat
        BY <3>1, <3>2, <3>3 DEF NextEpoch
      <3>5. /\ object' \in {object, None}
            /\ pages' \in {pages, NoPages}
            /\ old' \subseteq old
            /\ UNCHANGED <<accessed, touches>>
        BY <1>1 DEF InvalidateTx, CascadePages, memory
      <3> QED
        BY <3>4, <3>5
    <2>2. RowsOK'
      BY <2>1, NoPagesTable DEF TypeOK, RowsOK
    <2>3. InvalidateOK'
      <3> DEFINE unlink == [pc |-> "unlink", victims |-> pages]
      <3>1. unlink \in InvalidateRecord
        BY DEF TypeOK, RowsOK, InvalidateRecord
      <3>2. \/ invalidate' = [invalidate EXCEPT ![v] = unlink]
            \/ invalidate' = [invalidate EXCEPT ![v] = Ended(InvalidateIdle)]
        BY <1>1 DEF InvalidateTx
      <3> HIDE DEF unlink
      <3> QED
        BY <1>a, <1>b, <3>1, <3>2, InvalidateUpdate
    <2>4. HistoryOK'
      BY <1>1 DEF TypeOK, HistoryOK, InvalidateTx
    <2>5. UNCHANGED <<put, fill, open, worker, evictionCh, files>>
      BY <1>1 DEF InvalidateTx, memory
    <2> QED
      BY <1>c, <2>2, <2>3, <2>4, <2>5 DEF TypeOK, FilesOK
  <1>d. ASSUME UNCHANGED <<rows, touches>> PROVE RowsOK'
    BY <1>d DEF TypeOK, RowsOK, rows
  <1>e. ASSUME files' \subseteq files PROVE FilesOK'
    BY <1>e DEF TypeOK, FilesOK
  <1>f. ASSUME UNCHANGED history PROVE HistoryOK'
    BY <1>f DEF TypeOK, HistoryOK, history
  <1>2. CASE UnlinkInvalidated(v)
    <2> DEFINE new == [invalidate[v] EXCEPT !.pc = "adjust"]
    <2>1. new \in InvalidateRecord
      BY <1>a DEF InvalidateRecord
    <2>2. invalidate' = [invalidate EXCEPT ![v] = new]
      BY <1>2 DEF UnlinkInvalidated
    <2> HIDE DEF new
    <2>3. InvalidateOK'
      BY <1>a, <2>1, <2>2, InvalidateUpdate
    <2> QED
      BY <1>2, <1>c, <1>d, <1>e, <1>f, <2>3
      DEF TypeOK, UnlinkInvalidated, Without, memory
  <1>3. ASSUME NEW i \in Indexes, UnlinkInvalidatedFails(v, i) PROVE TypeOK'
    BY <1>3, <1>b, <1>c, <1>d, <1>e, <1>f
    DEF TypeOK, UnlinkInvalidatedFails, Without, memory
  <1>4. CASE AdjustForInvalidated(v)
    BY <1>4, <1>b, <1>c, <1>d, <1>e, <1>f DEF TypeOK, AdjustForInvalidated
  <1> QED
    BY <1>1, <1>2, <1>3, <1>4 DEF InvalidateStep

LEMMA WorkerTypes ==
  ASSUME TypeOK, WorkerStep
  PROVE  TypeOK'
  <1>0. /\ WorkerIdle \in WorkerRecord(0)
        /\ WorkerIdle.pc = "select"
        /\ WorkerIdle.target = 0
    BY IdleWorker
  <1>a. ASSUME worker' = WorkerIdle PROVE WorkerOK'
    BY <1>0, <1>a DEF WorkerOK
  <1>b. worker \in WorkerRecord(worker.target)
    BY DEF TypeOK, WorkerOK
  <1>c. ASSUME NEW pc \in WorkerPCs, worker' = [worker EXCEPT !.pc = pc],
               pc \in {"unlink", "adjust"} => worker.index # None /\ worker.row # None
        PROVE  WorkerOK'
    BY <1>b, <1>c DEF WorkerOK, WorkerRecord
  <1> USE DEF TypeOK, RowsOK, FilesOK, PutOK, FillOK, OpenOK, InvalidateOK,
              rows, memory, history, HistoryOK
  <1>1. CASE WakeEvict
    <2>1. WorkerOK'
      BY <1>1, <1>c DEF WakeEvict, WorkerPCs
    <2> QED
      BY <1>1, <2>1 DEF WakeEvict
  <1>2. CASE SelectVictims
    <2>1. ASSUME worker' # WorkerIdle PROVE WorkerOK'
      <3> DEFINE target == cachedSize - MaxSize
      <3>1. PICK S \in SUBSET Indexes :
               worker' = [pc |-> "row", batch |-> Only(S, pages),
                          order |-> accessed, target |-> target, removed |-> 0,
                          index |-> None, row |-> None, deleted |-> 0]
        BY <1>2, <2>1 DEF SelectVictims
      <3>2. Only(S, pages) \in Tables
        BY DEF Only, Tables
      <3> HIDE DEF target
      <3>3. /\ worker' \in WorkerRecord(target)
            /\ worker'.target = target
            /\ worker'.pc = "row"
        BY <3>1, <3>2 DEF WorkerRecord, WorkerPCs
      <3> QED
        BY <3>3 DEF WorkerOK
    <2> QED
      BY <1>2, <1>a, <2>1 DEF SelectVictims
  <1>3. ASSUME NEW i \in Indexes, DeleteVictim(i) PROVE TypeOK'
    <2> DEFINE row == worker.batch[i]
               batch == [worker.batch EXCEPT ![i] = None]
               d == IF pages[i] = None THEN 0 ELSE 1
    <2>1. RowsOK'
      BY <1>3 DEF DeleteVictim, RowDeleted, Tables
    <2>2. worker.batch \in Tables
      BY <1>b DEF WorkerRecord
    <2>3. row \in PageRow /\ row # None /\ batch \in Tables /\ i # None
      BY <1>3, <2>2, StoreAssumption, NoneAssumption DEF DeleteVictim, Cached, Tables
    <2>4. d \in {0, 1}
      OBVIOUS
    <2>5. worker' = [worker EXCEPT !.pc = "unlink", !.index = i, !.row = row,
                                   !.batch = batch, !.deleted = d]
      BY <1>3 DEF DeleteVictim
    <2>6. WorkerOK'
      <3> HIDE DEF row, batch, d
      <3>1. /\ worker' \in WorkerRecord(worker.target)
            /\ worker'.target = worker.target
            /\ worker'.index = i
            /\ worker'.row = row
        BY <1>b, <2>3, <2>4, <2>5 DEF WorkerRecord, WorkerPCs
      <3> QED
        BY <2>3, <3>1 DEF WorkerOK
    <2> QED
      BY <1>3, <2>1, <2>6 DEF DeleteVictim
  <1>4. CASE UnlinkVictim
    <2>1. WorkerOK'
      BY <1>4, <1>c DEF UnlinkVictim, WorkerPCs, WorkerOK
    <2> QED
      BY <1>4, <2>1 DEF UnlinkVictim, Without
  <1>5. CASE EvictStatementFails \/ UnlinkVictimFails
    BY <1>5, <1>a DEF EvictStatementFails, UnlinkVictimFails, EvictGivesUp
  <1>6. CASE AdjustForVictim
    <2> DEFINE removed == worker.removed + worker.row.size
    <2>1. removed \in Int
      BY <1>6, <1>b DEF AdjustForVictim, WorkerOK, WorkerRecord, PageRow
    <2>2. \/ worker' = [worker EXCEPT !.pc = "row", !.removed = removed]
          \/ worker' = [WorkerIdle EXCEPT !.pc = "check"]
      BY <1>6 DEF AdjustForVictim
    <2> HIDE DEF removed
    <2>3. WorkerOK'
      <3>1. CASE worker' = [worker EXCEPT !.pc = "row", !.removed = removed]
        BY <1>b, <2>1, <3>1 DEF WorkerOK, WorkerRecord, WorkerPCs
      <3>2. CASE worker' = [WorkerIdle EXCEPT !.pc = "check"]
        BY <1>0, <3>2 DEF WorkerOK, WorkerRecord, WorkerPCs
      <3> QED
        BY <2>2, <3>1, <3>2
    <2> QED
      BY <1>6, <2>3 DEF AdjustForVictim
  <1>7. CASE FlushTouches
    BY <1>7 DEF FlushTouches, Touched, WorkerOK
  <1>8. CASE DeleteOldPageLessObjects
    <2>1. WorkerOK'
      BY <1>8, <1>c DEF DeleteOldPageLessObjects, WorkerPCs
    <2> QED
      BY <1>8, <2>1 DEF DeleteOldPageLessObjects
  <1>9. CASE DeleteOldUnreferencedGenerations
    BY <1>9, <1>a DEF DeleteOldUnreferencedGenerations, CollectGeneration
  <1> QED
    BY <1>1, <1>2, <1>3, <1>4, <1>5, <1>6, <1>7, <1>8, <1>9
       DEF WorkerStep, EvictStep

LEMMA ReopenTypes ==
  ASSUME TypeOK, NEW corrupt \in BOOLEAN, Reopen(corrupt)
  PROVE  TypeOK'
  <1>1. RowsOK' /\ FilesOK'
    <2>1. CASE corrupt
      BY <2>1, NoPagesTable DEF TypeOK, RowsOK, FilesOK, Reopen
    <2>2. CASE ~corrupt
      <3>1. generation' \in Nat \cup {None}
        BY <2>2 DEF TypeOK, RowsOK, Reopen, Version
      <3>2. old' \subseteq {"generation", "object"}
        <4>1. old' \in {old, old \cup {"generation"}}
          BY <2>2 DEF Reopen
        <4> QED
          BY <4>1 DEF TypeOK, RowsOK
      <3>3. /\ UNCHANGED <<object, pages, files, accessed>>
            /\ touches' = {}
        BY <2>2 DEF Reopen
      <3> QED
        BY <3>1, <3>2, <3>3 DEF TypeOK, RowsOK, FilesOK
    <2> QED
      BY <2>1, <2>2
  <1>2. PutOK'
    BY PutStopped DEF TypeOK, Reopen
  <1>3. FillOK'
    BY FillStopped DEF TypeOK, Reopen
  <1>4. OpenOK'
    <2>1. Ended(OpenIdle) \in OpenRecord /\ ~Running(Ended(OpenIdle))
      BY EndedOpen
    <2>2. open' = [r \in Readers |->
                     IF Running(open[r]) THEN Ended(OpenIdle) ELSE open[r]]
      BY DEF TypeOK, OpenOK, Reopen, Stopped
    <2> QED
      BY <2>1, <2>2 DEF TypeOK, OpenOK, Running
  <1>5. InvalidateOK'
    <2>1. invalidate' = [v \in Invalidators |->
                           IF Running(invalidate[v]) THEN Ended(InvalidateIdle)
                           ELSE invalidate[v]]
      BY DEF TypeOK, InvalidateOK, Reopen, Stopped
    <2> QED
      BY <2>1, EndedInvalidate DEF TypeOK, InvalidateOK, InvalidateRecord
  <1>6. WorkerOK'
    BY IdleWorker DEF WorkerOK, Reopen
  <1>7. evictionCh' \in BOOLEAN
    BY Zenon DEF Reopen
  <1>8. HistoryOK'
    <2>1. overtaken' = {} /\ adrift' = {}
      BY DEF Reopen
    <2>2. rowAdrift' \in BOOLEAN /\ gaveUp' \in BOOLEAN
      <3>1. CASE corrupt
        BY <3>1, Zenon DEF Reopen
      <3>2. CASE ~corrupt
        <4>1. /\ rowAdrift' = (rowAdrift /\ generation # None)
              /\ gaveUp' = (PagesSize(pages) > MaxSize)
          BY <3>2, Zenon DEF Reopen
        <4>2. rowAdrift' \in BOOLEAN
          BY <4>1, Zenon
        <4>3. gaveUp' \in BOOLEAN
          BY <4>1, SMT
        <4> QED
          BY <4>2, <4>3
      <3> QED
        BY <3>1, <3>2
    <2> QED
      BY <2>1, <2>2 DEF HistoryOK
  <1> QED
    BY <1>1, <1>2, <1>3, <1>4, <1>5, <1>6, <1>7, <1>8 DEF TypeOK

LEMMA EnvironmentTypes ==
  ASSUME TypeOK, Environment
  PROVE  TypeOK'
  <1> USE DEF TypeOK, RowsOK, FilesOK, PutOK, FillOK, OpenOK, InvalidateOK,
              WorkerOK, rows, memory, history, HistoryOK
  <1>1. CASE RowsAge
    BY <1>1 DEF RowsAge
  <1>2. ASSUME NEW f \in files, DamageFile(f) PROVE TypeOK'
    BY <1>2 DEF DamageFile
  <1>3. ASSUME NEW corrupt \in BOOLEAN, Reopen(corrupt) PROVE TypeOK'
    <2> HIDE DEF TypeOK
    <2> QED
      BY <1>3, ReopenTypes
  <1> QED
    BY <1>1, <1>2, <1>3 DEF Environment

LEMMA TypeNext == TypeOK /\ [Next]_vars => TypeOK'
  <1> SUFFICES ASSUME TypeOK, [Next]_vars PROVE TypeOK'
    OBVIOUS
  <1>1. CASE UNCHANGED vars
    BY <1>1 DEF vars, rows, memory, history, TypeOK, RowsOK, FilesOK, PutOK,
       FillOK, OpenOK, InvalidateOK, WorkerOK, HistoryOK
  <1>2. CASE Next
    BY <1>2, PutTypes, FillTypes, OpenTypes, InvalidateTypes, WorkerTypes,
       EnvironmentTypes DEF Next
  <1> QED
    BY <1>1, <1>2

(* PageStore is type correct: no interleaving of operations, eviction,     *)
(* collection, file damage and restarts leaves an operation without the    *)
(* version, index, epoch or row that its next step reads.                  *)
THEOREM TypeCorrect == Spec => []TypeOK
  BY TypeInit, TypeNext, PTL DEF Spec

-----------------------------------------------------------------------------
(* Page rows stay behind their fences.                                     *)

LEMMA FencedNext == TypeOK /\ PagesFenced /\ [Next]_vars => PagesFenced'
  <1> SUFFICES ASSUME TypeOK, PagesFenced, [Next]_vars PROVE PagesFenced'
    OBVIOUS
  <1>0. /\ generation \in Nat \cup {None}
        /\ object \in Version \cup {None}
        /\ pages \in Tables
    BY DEF TypeOK, RowsOK
  <1> USE DEF PagesFenced
  <1>1. CASE UNCHANGED <<generation, object, pages>>
    BY <1>1
  <1>2. ASSUME NEW p \in Putters, PutStep(p) PROVE PagesFenced'
    <2>1. ASSUME NEW etag \in ETags, EnsureGenerationRow(p, etag)
          PROVE  PagesFenced'
      BY <2>1 DEF EnsureGenerationRow, EnsureGeneration
    <2>2. CASE UpsertObject(p)
      <3>1. object' # None
        BY <2>2, NoneIsNoRow DEF UpsertObject, TypeOK, PutOK, PutRecord, Running,
           Version
      <3> QED
        BY <2>2, <3>1 DEF UpsertObject
    <2> QED
      BY <1>1, <1>2, <2>1, <2>2 DEF PutStep, ReadGeneration, PutFails, rows
  <1>3. ASSUME NEW f \in Fillers, FillStep(f) PROVE PagesFenced'
    <2>1. CASE PutPageIfCurrent(f)
      <3>1. generation \in Nat /\ fill[f].version.epoch = generation
        BY <1>0, <2>1 DEF PutPageIfCurrent, IsCurrent
      <3>2. UNCHANGED <<generation, object>> /\ object # None
        BY <2>1 DEF PutPageIfCurrent, IsCurrent
      <3>3. \A i \in Indexes : pages'[i] = pages[i] \/ pages'[i].epoch = generation
        BY <1>0, <2>1, <3>1 DEF PutPageIfCurrent, Tables
      <3> QED
        BY <1>0, <3>1, <3>2, <3>3, NoneAssumption
    <2> QED
      BY <1>1, <1>3, <2>1 DEF FillStep, PlanFill, BeginPageWrite, Abort, RenamePage,
         RejectPage, UnlinkRejectedPage, AdjustForPage, RequestEviction, rows
  <1>4. ASSUME NEW i \in Indexes, RowDeleted(i), UNCHANGED <<generation, object>>
        PROVE  PagesFenced'
    BY <1>0, <1>4 DEF RowDeleted, Tables
  <1>5. ASSUME NEW r \in Readers, OpenStep(r) PROVE PagesFenced'
    <2>1. CASE DeletePageIfCurrent(r)
      <3>1. open[r].index \in Indexes
        BY <2>1 DEF DeletePageIfCurrent, TypeOK, OpenOK, OpenRecord, Running
      <3> QED
        BY <1>1, <1>4, <2>1, <3>1 DEF DeletePageIfCurrent
    <2>2. CASE DeletePage(r)
      <3>1. open[r].index \in Indexes
        BY <2>2 DEF DeletePage, TypeOK, OpenOK, OpenRecord, Running
      <3> QED
        BY <1>4, <2>2, <3>1 DEF DeletePage
    <2> QED
      BY <1>1, <1>5, <2>1, <2>2 DEF OpenStep, PlanOpen, LookupPage, OpenFile,
         UnlinkOpened, AdjustForOpened, OpenReturns, rows
  <1>6. ASSUME NEW v \in Invalidators, InvalidateStep(v) PROVE PagesFenced'
    <2>1. ASSUME NEW m \in MinEpochs, InvalidateTx(v, m) PROVE PagesFenced'
      <3>1. CASE ShouldDeleteObject(object, m)
        BY <2>1, <3>1 DEF InvalidateTx, CascadePages, NoPages
      <3>2. CASE ~ShouldDeleteObject(object, m)
        <4>1. UNCHANGED <<object, pages>>
          BY <2>1, <3>2 DEF InvalidateTx, CascadePages
        <4>2. /\ generation' \in Nat
              /\ generation # None => generation <= generation'
          <5>1. /\ EnsureGeneration(generation) \in Nat
                /\ generation # None => EnsureGeneration(generation) = generation
            BY <1>0 DEF EnsureGeneration
          <5>2. generation' = NextEpoch(EnsureGeneration(generation), m)
            BY <2>1 DEF InvalidateTx
          <5>3. m \in Nat
            BY StoreAssumption
          <5> QED
            BY <5>1, <5>2, <5>3 DEF NextEpoch
        <4>3. \A i \in Indexes : pages[i] # None => pages[i].epoch \in Nat
          BY <1>0 DEF Tables, PageRow
        <4> QED
          BY <1>0, <4>1, <4>2, <4>3, NoneAssumption
      <3> QED
        BY <3>1, <3>2
    <2> QED
      BY <1>1, <1>6, <2>1 DEF InvalidateStep, UnlinkInvalidated,
         UnlinkInvalidatedFails, AdjustForInvalidated, rows
  <1>7. CASE WorkerStep
    <2>1. ASSUME NEW i \in Indexes, DeleteVictim(i) PROVE PagesFenced'
      BY <1>4, <2>1 DEF DeleteVictim
    <2>2. CASE DeleteOldPageLessObjects
      BY <2>2 DEF DeleteOldPageLessObjects, Cached
    <2>3. CASE DeleteOldUnreferencedGenerations
      BY <2>3 DEF DeleteOldUnreferencedGenerations, CollectGeneration
    <2> QED
      BY <1>1, <1>7, <2>1, <2>2, <2>3 DEF WorkerStep, EvictStep, WakeEvict,
         SelectVictims, UnlinkVictim, EvictStatementFails, UnlinkVictimFails,
         EvictGivesUp, AdjustForVictim, FlushTouches, rows
  <1>8. CASE Environment
    <2>1. ASSUME NEW corrupt \in BOOLEAN, Reopen(corrupt) PROVE PagesFenced'
      BY <2>1 DEF Reopen, NoPages
    <2> QED
      BY <1>1, <1>8, <2>1 DEF Environment, RowsAge, DamageFile, rows
  <1> QED
    BY <1>1, <1>2, <1>3, <1>5, <1>6, <1>7, <1>8 DEF Next, vars, rows

(* For any versions, pages, operations and limits, with collection,        *)
(* eviction and restarts: no page row outlives its object row or its       *)
(* generation row, or is of a later epoch than the generation.             *)
THEOREM FencedPages == Spec => []PagesFenced
  <1>1. Init => PagesFenced
    BY DEF Init, PagesFenced, NoPages
  <1> QED
    BY <1>1, FencedNext, TypeCorrect, PTL DEF Spec

-----------------------------------------------------------------------------
(* What OpenPage serves is what the caller planned to read.                *)

(* The bytes of a page of a version *)
SizeOf(index, etag) == PageLen[etag][index]

(* Every page file holds the version its path names, whole or truncated,   *)
(* every page row has the size of its version's page, and a reader past    *)
(* the test of the row goes on with a row of its own version.              *)
FilesNamed ==
    \A g \in files : g.content = g.path[2]

RowsSized ==
    \A i \in Indexes : pages[i] # None => pages[i].size = SizeOf(i, pages[i].etag)

ReadersChecked ==
    \A r \in Readers : open[r].pc \in {"file", "hit"} =>
        /\ IsPageOf(open[r].row, open[r].version)
        /\ open[r].row.size = SizeOf(open[r].index, open[r].row.etag)

ReadInv == FilesNamed /\ RowsSized /\ ReadersChecked /\ HitIsPlannedVersion

LEMMA ReadInit == Init => ReadInv
  <1> SUFFICES ASSUME Init PROVE ReadInv
    OBVIOUS
  <1>1. FilesNamed
    BY DEF Init, FilesNamed
  <1>2. RowsSized
    BY DEF Init, RowsSized, NoPages
  <1>3. \A r \in Readers : open[r].pc = "idle"
    BY DEF Init, OpenIdle
  <1> QED
    BY <1>1, <1>2, <1>3 DEF ReadInv, ReadersChecked, HitIsPlannedVersion

LEMMA FilesNamedNext == TypeOK /\ FilesNamed /\ [Next]_vars => FilesNamed'
  <1> SUFFICES ASSUME TypeOK, FilesNamed, [Next]_vars PROVE FilesNamed'
    OBVIOUS
  <1>1. ASSUME files' \subseteq files PROVE FilesNamed'
    BY <1>1 DEF FilesNamed
  <1>2. ASSUME NEW f \in Fillers, RenamePage(f) PROVE FilesNamed'
    <2> DEFINE new == [path |-> FinalPath(f), content |-> fill[f].version.etag,
                       size |-> PageBytes(f)]
    <2>1. FinalPath(f)[2] = fill[f].version.etag
      BY DEF FinalPath, PagePathForVersion
    <2>2. new.content = new.path[2]
      BY <2>1
    <2>3. files' \subseteq files \cup {new}
      BY <1>2 DEF RenamePage, Without
    <2> HIDE DEF new
    <2> QED
      BY <2>2, <2>3 DEF FilesNamed
  <1>3. ASSUME NEW f \in files, DamageFile(f) PROVE FilesNamed'
    BY <1>3 DEF FilesNamed, DamageFile, TypeOK, FilesOK
  <1>4. ASSUME NEW corrupt \in BOOLEAN, Reopen(corrupt) PROVE files' \subseteq files
    BY <1>4 DEF Reopen
  <1>5. ASSUME NEW p \in Putters, PutStep(p) PROVE files' \subseteq files
    BY <1>5 DEF PutStep, EnsureGenerationRow, ReadGeneration, UpsertObject, PutFails
  <1>6. ASSUME NEW f \in Fillers, FillStep(f) PROVE FilesNamed'
    BY <1>1, <1>2, <1>6 DEF FillStep, PlanFill, BeginPageWrite, Abort,
       PutPageIfCurrent, RejectPage, UnlinkRejectedPage, AdjustForPage,
       RequestEviction, Without
  <1>7. ASSUME NEW r \in Readers, OpenStep(r) PROVE files' \subseteq files
    BY <1>7 DEF OpenStep, PlanOpen, LookupPage, DeletePageIfCurrent, OpenFile,
       DeletePage, UnlinkOpened, AdjustForOpened, OpenReturns, Without
  <1>8. ASSUME NEW v \in Invalidators, InvalidateStep(v) PROVE files' \subseteq files
    BY <1>8 DEF InvalidateStep, InvalidateTx, UnlinkInvalidated,
       UnlinkInvalidatedFails, AdjustForInvalidated, Without
  <1>9. CASE WorkerStep
    <2>1. files' \subseteq files
      BY <1>9 DEF WorkerStep, EvictStep, WakeEvict, SelectVictims, DeleteVictim,
         UnlinkVictim, EvictStatementFails, UnlinkVictimFails, EvictGivesUp,
         AdjustForVictim, FlushTouches,
         DeleteOldPageLessObjects, DeleteOldUnreferencedGenerations, Without
    <2> QED
      BY <1>1, <2>1
  <1>10. CASE RowsAge \/ UNCHANGED vars
    BY <1>1, <1>10 DEF RowsAge, vars
  <1> QED
    BY <1>1, <1>3, <1>4, <1>5, <1>6, <1>7, <1>8, <1>9, <1>10 DEF Next, Environment

LEMMA RowsSizedNext == TypeOK /\ RowsSized /\ [Next]_vars => RowsSized'
  <1> SUFFICES ASSUME TypeOK, RowsSized, [Next]_vars PROVE RowsSized'
    OBVIOUS
  <1>0. pages \in Tables
    BY DEF TypeOK, RowsOK
  <1>1. ASSUME \A i \in Indexes : pages'[i] \in {pages[i], None} PROVE RowsSized'
    BY <1>1 DEF RowsSized
  <1>2. ASSUME NEW f \in Fillers, PutPageIfCurrent(f) PROVE RowsSized'
    BY <1>0, <1>2 DEF RowsSized, PutPageIfCurrent, PageBytes, SizeOf, Tables
  <1>3. ASSUME NEW i \in Indexes, RowDeleted(i) PROVE RowsSized'
    BY <1>0, <1>1, <1>3 DEF RowDeleted, Tables
  <1>4. ASSUME pages' = NoPages PROVE RowsSized'
    BY <1>1, <1>4 DEF NoPages
  <1>5. ASSUME UNCHANGED pages PROVE RowsSized'
    BY <1>1, <1>5
  <1>6. ASSUME NEW corrupt \in BOOLEAN, Reopen(corrupt) PROVE RowsSized'
    BY <1>4, <1>5, <1>6 DEF Reopen
  <1>7. ASSUME NEW p \in Putters, PutStep(p) PROVE RowsSized'
    BY <1>5, <1>7 DEF PutStep, EnsureGenerationRow, ReadGeneration, UpsertObject,
       PutFails, rows
  <1>8. ASSUME NEW f \in Fillers, FillStep(f) PROVE RowsSized'
    BY <1>2, <1>5, <1>8 DEF FillStep, PlanFill, BeginPageWrite, Abort, RenamePage,
       RejectPage, UnlinkRejectedPage, AdjustForPage, RequestEviction, rows
  <1>9. ASSUME NEW r \in Readers, OpenStep(r) PROVE RowsSized'
    <2>1. CASE DeletePageIfCurrent(r) \/ DeletePage(r)
      <3>1. open[r].index \in Indexes
        BY <2>1 DEF DeletePageIfCurrent, DeletePage, TypeOK, OpenOK, OpenRecord,
           Running
      <3> QED
        BY <1>3, <1>5, <2>1, <3>1 DEF DeletePageIfCurrent, DeletePage
    <2> QED
      BY <1>5, <1>9, <2>1 DEF OpenStep, PlanOpen, LookupPage, OpenFile,
         UnlinkOpened, AdjustForOpened, OpenReturns, rows
  <1>10. ASSUME NEW v \in Invalidators, InvalidateStep(v) PROVE RowsSized'
    BY <1>4, <1>5, <1>10 DEF InvalidateStep, InvalidateTx, CascadePages,
       UnlinkInvalidated, UnlinkInvalidatedFails, AdjustForInvalidated, rows
  <1>11. CASE WorkerStep
    <2>1. ASSUME NEW i \in Indexes, DeleteVictim(i) PROVE RowsSized'
      BY <1>3, <2>1 DEF DeleteVictim
    <2> QED
      BY <1>5, <1>11, <2>1 DEF WorkerStep, EvictStep, WakeEvict, SelectVictims,
         UnlinkVictim, EvictStatementFails, UnlinkVictimFails, EvictGivesUp,
         AdjustForVictim, FlushTouches,
         DeleteOldPageLessObjects, DeleteOldUnreferencedGenerations, rows
  <1> QED
    BY <1>5, <1>6, <1>7, <1>8, <1>9, <1>10, <1>11 DEF Next, Environment, RowsAge,
       DamageFile, vars, rows

LEMMA ReadersNext ==
  TypeOK /\ ReadInv /\ [Next]_vars => ReadersChecked' /\ HitIsPlannedVersion'
  <1> SUFFICES ASSUME TypeOK, ReadInv, [Next]_vars
               PROVE  ReadersChecked' /\ HitIsPlannedVersion'
    OBVIOUS
  <1> DEFINE Good(o) ==
        /\ o.pc \in {"file", "hit"} =>
             /\ IsPageOf(o.row, o.version)
             /\ o.row.size = SizeOf(o.index, o.row.etag)
        /\ o.pc = "hit" =>
             /\ o.content = o.version.etag
             /\ o.row.size = SizeOf(o.index, o.version.etag)
  <1>0. \A r \in Readers : Good(open[r])
    BY DEF ReadInv, ReadersChecked, HitIsPlannedVersion, SizeOf
  <1>1. SUFFICES \A r \in Readers : Good(open'[r])
    BY DEF ReadersChecked, HitIsPlannedVersion, SizeOf
  <1>2. ASSUME UNCHANGED open PROVE \A r \in Readers : Good(open'[r])
    BY <1>0, <1>2
  <1>3. ASSUME NEW r \in Readers, NEW new, Good(new), open' = [open EXCEPT ![r] = new]
        PROVE  \A q \in Readers : Good(open'[q])
    <2>1. open \in [Readers -> OpenRecord]
      BY DEF TypeOK, OpenOK
    <2> HIDE DEF Good
    <2> QED
      BY <1>0, <1>3, <2>1
  <1>4. Good(Ended(OpenIdle))
    BY EndedOpen
  <1>5. ASSUME NEW r \in Readers, OpenStep(r) PROVE \A q \in Readers : Good(open'[q])
    <2>0. open[r] \in OpenRecord
      BY DEF TypeOK, OpenOK
    <2>1. ASSUME NEW i \in Indexes, PlanOpen(r, i) PROVE \A q \in Readers : Good(open'[q])
      <3> DEFINE new == [OpenIdle EXCEPT !.pc = "lookup", !.version = object,
                                         !.index = i]
      <3>1. Good(new)
        BY DEF OpenIdle
      <3>2. open' = [open EXCEPT ![r] = new]
        BY <2>1 DEF PlanOpen
      <3> HIDE DEF new, Good
      <3> QED
        BY <1>3, <3>1, <3>2
    <2>2. CASE LookupPage(r)
      <3> DEFINE row == pages[open[r].index]
      <3>1. CASE row = None
        <4> HIDE DEF Good
        <4> QED
          BY <1>3, <1>4, <2>2, <3>1 DEF LookupPage
      <3>2. CASE row # None /\ IsPageOf(row, open[r].version)
        <4> DEFINE new == [open[r] EXCEPT !.pc = "file", !.row = row]
        <4>1. open[r].index \in Indexes
          BY <2>0, <2>2 DEF LookupPage, TypeOK, OpenOK, OpenRecord, Running
        <4>2. row.size = SizeOf(open[r].index, row.etag)
          BY <3>2, <4>1 DEF ReadInv, RowsSized
        <4>3. Good(new)
          BY <2>0, <3>2, <4>2 DEF OpenRecord, IsPageOf
        <4>4. open' = [open EXCEPT ![r] = new]
          BY <2>2, <3>2 DEF LookupPage
        <4> HIDE DEF new, Good
        <4> QED
          BY <1>3, <4>3, <4>4
      <3>3. CASE row # None /\ ~IsPageOf(row, open[r].version)
        <4> DEFINE new == [open[r] EXCEPT !.pc = "stale", !.row = row]
        <4>1. Good(new)
          BY <2>0 DEF OpenRecord
        <4>2. open' = [open EXCEPT ![r] = new]
          BY <2>2, <3>3 DEF LookupPage
        <4> HIDE DEF new, Good
        <4> QED
          BY <1>3, <4>1, <4>2
      <3> QED
        BY <3>1, <3>2, <3>3
    <2>3. CASE OpenFile(r)
      <3>1. /\ open[r].version \in Version
            /\ open[r].index \in Indexes
            /\ open[r].row \in PageRow
        BY <2>0, <2>3 DEF OpenFile, TypeOK, OpenOK, OpenRecord, Running
      <3>2. ASSUME NEW g \in files, g.path = PathOf(open[r].index, open[r].row),
                   open' = [open EXCEPT ![r].pc = "hit", ![r].content = g.content]
            PROVE  \A q \in Readers : Good(open'[q])
        <4> DEFINE new == [open[r] EXCEPT !.pc = "hit", !.content = g.content]
        <4>1. g.content = open[r].row.etag
          BY <3>2 DEF ReadInv, FilesNamed, PathOf, PagePathForVersion
        <4>2. /\ open[r].row.etag = open[r].version.etag
              /\ open[r].row.size = SizeOf(open[r].index, open[r].row.etag)
              /\ IsPageOf(open[r].row, open[r].version)
          BY <1>0, <2>3 DEF OpenFile, IsPageOf
        <4>3. Good(new)
          BY <2>0, <4>1, <4>2 DEF OpenRecord
        <4>4. open' = [open EXCEPT ![r] = new]
          BY <3>2
        <4> HIDE DEF new, Good
        <4> QED
          BY <1>3, <4>3, <4>4
      <3>3. ASSUME NEW pc \in {"corrupt", "missing"},
                   open' = [open EXCEPT ![r].pc = pc]
            PROVE  \A q \in Readers : Good(open'[q])
        <4> DEFINE new == [open[r] EXCEPT !.pc = pc]
        <4>1. Good(new)
          BY <2>0 DEF OpenRecord
        <4>2. open' = [open EXCEPT ![r] = new]
          BY <3>3
        <4> HIDE DEF new, Good
        <4> QED
          BY <1>3, <4>1, <4>2
      <3> HIDE DEF Good
      <3> QED
        BY <2>3, <3>2, <3>3 DEF OpenFile
    <2>4. CASE DeletePageIfCurrent(r)
      <3> DEFINE d == IF pages[open[r].index] = open[r].row THEN 1 ELSE 0
                 new == [open[r] EXCEPT !.pc = "unlink", !.deleted = d]
      <3>1. open' = [open EXCEPT ![r] = new]
        BY <2>4 DEF DeletePageIfCurrent
      <3>2. Good(new)
        BY <2>0 DEF OpenRecord
      <3> HIDE DEF new, Good
      <3> QED
        BY <1>3, <3>1, <3>2
    <2>5. CASE DeletePage(r)
      <3> DEFINE d == IF pages[open[r].index] = None THEN 0 ELSE 1
                 pc == IF open[r].pc = "corrupt" THEN "unlink" ELSE "adjust"
                 new == [open[r] EXCEPT !.pc = pc, !.deleted = d]
      <3>1. open' = [open EXCEPT ![r] = new]
        BY <2>5 DEF DeletePage
      <3>2. Good(new)
        BY <2>0 DEF OpenRecord
      <3> HIDE DEF new, Good
      <3> QED
        BY <1>3, <3>1, <3>2
    <2>6. CASE UnlinkOpened(r)
      <3> DEFINE new == [open[r] EXCEPT !.pc = "adjust"]
      <3>1. open' = [open EXCEPT ![r] = new]
        BY <2>6 DEF UnlinkOpened
      <3>2. Good(new)
        BY <2>0 DEF OpenRecord
      <3> HIDE DEF new, Good
      <3> QED
        BY <1>3, <3>1, <3>2
    <2>7. CASE AdjustForOpened(r) \/ OpenReturns(r)
      <3> HIDE DEF Good
      <3> QED
        BY <1>3, <1>4, <2>7 DEF AdjustForOpened, OpenReturns
    <2> HIDE DEF Good
    <2> QED
      BY <1>5, <2>1, <2>2, <2>3, <2>4, <2>5, <2>6, <2>7 DEF OpenStep
  <1>6. ASSUME NEW corrupt \in BOOLEAN, Reopen(corrupt)
        PROVE  \A q \in Readers : Good(open'[q])
    <2>1. open' = [q \in Readers |->
                     IF Running(open[q]) THEN Ended(OpenIdle) ELSE open[q]]
      BY <1>6 DEF Reopen, Stopped, TypeOK, OpenOK
    <2> HIDE DEF Good
    <2> QED
      BY <1>0, <1>4, <2>1
  <1>7. ASSUME NEW p \in Putters, PutStep(p) PROVE UNCHANGED open
    BY <1>7 DEF PutStep, EnsureGenerationRow, ReadGeneration, UpsertObject, PutFails
  <1>8. ASSUME NEW f \in Fillers, FillStep(f) PROVE UNCHANGED open
    BY <1>8 DEF FillStep, PlanFill, BeginPageWrite, Abort, RenamePage,
       PutPageIfCurrent, RejectPage, UnlinkRejectedPage, AdjustForPage,
       RequestEviction
  <1>9. ASSUME NEW v \in Invalidators, InvalidateStep(v) PROVE UNCHANGED open
    BY <1>9 DEF InvalidateStep, InvalidateTx, UnlinkInvalidated,
       UnlinkInvalidatedFails, AdjustForInvalidated
  <1>10. ASSUME WorkerStep PROVE UNCHANGED open
    BY <1>10 DEF WorkerStep, EvictStep, WakeEvict, SelectVictims, DeleteVictim,
       UnlinkVictim, EvictStatementFails, UnlinkVictimFails, EvictGivesUp,
       AdjustForVictim, FlushTouches,
       DeleteOldPageLessObjects, DeleteOldUnreferencedGenerations
  <1>11. ASSUME RowsAge \/ (\E f \in files : DamageFile(f)) \/ UNCHANGED vars
         PROVE  UNCHANGED open
    BY <1>11 DEF RowsAge, DamageFile, vars
  <1> HIDE DEF Good
  <1> QED
    BY <1>2, <1>5, <1>6, <1>7, <1>8, <1>9, <1>10, <1>11 DEF Next, Environment

(* Whatever commits, invalidations, evictions, damaged files and restarts  *)
(* do to the page in the meantime, OpenPage hands out only the complete    *)
(* bytes of the version its caller asked for.                              *)
THEOREM HitsArePlanned == Spec => []HitIsPlannedVersion
  <1>1. TypeOK /\ ReadInv /\ [Next]_vars => ReadInv'
    BY FilesNamedNext, RowsSizedNext, ReadersNext DEF ReadInv
  <1>2. ReadInv => HitIsPlannedVersion
    BY DEF ReadInv
  <1> QED
    BY <1>1, <1>2, ReadInit, TypeCorrect, PTL DEF Spec

-----------------------------------------------------------------------------
(* The epoch fence.                                                        *)

(* All epochs in use have been reached, and a fill that an invalidation    *)
(* overtook is behind the generation until its commit is refused, except   *)
(* where the generation row was collected under them.                      *)
FillFenced(f) ==
    \/ fill[f].pc \in {"unlink", "done"}
    \/ /\ fill[f].pc \in {"begin", "write", "commit"}
       /\ generation # None
       /\ fill[f].version.epoch < generation

FenceInv ==
    /\ EpochsReached
    /\ \A f \in overtaken \ adrift : FillFenced(f)

LEMMA FenceInit == Init => FenceInv
  <1> SUFFICES ASSUME Init PROVE FenceInv
    OBVIOUS
  <1>1. \A p \in Putters : put[p].pc = "idle"
    BY DEF Init, PutIdle
  <1>2. \A f \in Fillers : ~Running(fill[f])
    BY DEF Init, FillIdle, Running
  <1>3. EpochsReached
    BY <1>1, <1>2 DEF Init, EpochsReached
  <1> QED
    BY <1>3 DEF Init, FenceInv

(* A step of PutObject keeps the fence when the epochs it writes have been *)
(* reached.                                                                *)
LEMMA PutFence ==
  ASSUME FenceInv, UNCHANGED <<generation, fill, overtaken, adrift>>,
         object' # None /\ ~rowAdrift' =>
            generation # None /\ object'.epoch <= generation,
         \A q \in Putters : put'[q].pc = "upsert" =>
            put'[q] = put[q] \/ (generation # None /\ put'[q].epoch <= generation)
  PROVE  FenceInv'
  <1>1. \A q \in Putters \ adrift' : put'[q].pc = "upsert" =>
           generation' # None /\ put'[q].epoch <= generation'
    BY DEF FenceInv, EpochsReached
  <1>2. \A f \in Fillers \ adrift' : Running(fill[f])' =>
           generation' # None /\ fill'[f].version.epoch <= generation'
    BY DEF FenceInv, EpochsReached, Running
  <1>3. \A f \in overtaken' \ adrift' : FillFenced(f)'
    BY DEF FenceInv, FillFenced
  <1> QED
    BY <1>1, <1>2, <1>3 DEF FenceInv, EpochsReached

(* So does a step of a fill f that goes on with a reached epoch.           *)
LEMMA FillFence ==
  ASSUME FenceInv, NEW f \in Fillers, overtaken \subseteq Fillers,
         UNCHANGED <<generation, object, put, overtaken, rowAdrift>>,
         adrift \subseteq adrift',
         \A g \in Fillers \ {f} : fill'[g] = fill[g],
         f \notin adrift' /\ Running(fill'[f]) =>
            generation # None /\ fill'[f].version.epoch <= generation,
         f \in overtaken \ adrift' => FillFenced(f)'
  PROVE  FenceInv'
  <1>1. \A g \in Fillers \ adrift' : Running(fill'[g]) =>
           generation' # None /\ fill'[g].version.epoch <= generation'
    BY DEF FenceInv, EpochsReached
  <1>2. \A g \in overtaken' \ adrift' : FillFenced(g)'
    BY DEF FenceInv, FillFenced
  <1>3. \A q \in Putters \ adrift' : put'[q].pc = "upsert" =>
           generation' # None /\ put'[q].epoch <= generation'
    BY DEF FenceInv, EpochsReached
  <1> QED
    BY <1>1, <1>2, <1>3 DEF FenceInv, EpochsReached

(* Page reads, the end of an invalidation and eviction leave the epochs    *)
(* and the fills alone.                                                    *)
LEMMA OpenLeaves ==
  ASSUME NEW r \in Readers, OpenStep(r)
  PROVE  UNCHANGED <<generation, object, put, fill, overtaken, adrift, rowAdrift>>
  <1>1. CASE \E i \in Indexes : PlanOpen(r, i)
    BY <1>1 DEF PlanOpen, rows, history
  <1>2. CASE LookupPage(r)
    BY <1>2 DEF LookupPage, rows, history
  <1>3. CASE DeletePageIfCurrent(r)
    BY <1>3 DEF DeletePageIfCurrent, rows, history
  <1>4. CASE OpenFile(r)
    BY <1>4 DEF OpenFile, rows, history
  <1>5. CASE DeletePage(r)
    BY <1>5 DEF DeletePage, rows, history
  <1>6. CASE UnlinkOpened(r)
    BY <1>6 DEF UnlinkOpened, rows, history
  <1>7. CASE AdjustForOpened(r)
    BY <1>7 DEF AdjustForOpened, rows, history
  <1>8. CASE OpenReturns(r)
    BY <1>8 DEF OpenReturns, rows, history
  <1> QED
    BY <1>1, <1>2, <1>3, <1>4, <1>5, <1>6, <1>7, <1>8 DEF OpenStep

LEMMA InvalidateLeaves ==
  ASSUME NEW v \in Invalidators,
         \/ UnlinkInvalidated(v)
         \/ \E i \in Indexes : UnlinkInvalidatedFails(v, i)
         \/ AdjustForInvalidated(v)
  PROVE  UNCHANGED <<generation, object, put, fill, overtaken, adrift, rowAdrift>>
  <1>1. CASE UnlinkInvalidated(v)
    BY <1>1 DEF UnlinkInvalidated, rows, history
  <1>2. CASE \E i \in Indexes : UnlinkInvalidatedFails(v, i)
    BY <1>2 DEF UnlinkInvalidatedFails, rows, history
  <1>3. CASE AdjustForInvalidated(v)
    BY <1>3 DEF AdjustForInvalidated, rows, history
  <1> QED
    BY <1>1, <1>2, <1>3

LEMMA EvictLeaves ==
  ASSUME EvictStep \/ FlushTouches
  PROVE  UNCHANGED <<generation, object, put, fill, overtaken, adrift, rowAdrift>>
  <1>1. CASE WakeEvict
    BY <1>1 DEF WakeEvict, rows, history
  <1>2. CASE SelectVictims
    BY <1>2 DEF SelectVictims, rows, history
  <1>3. CASE \E i \in Indexes : DeleteVictim(i)
    BY <1>3 DEF DeleteVictim, rows, history
  <1>4. CASE UnlinkVictim
    BY <1>4 DEF UnlinkVictim, rows, history
  <1>5. CASE EvictStatementFails \/ UnlinkVictimFails
    BY <1>5 DEF EvictStatementFails, UnlinkVictimFails, EvictGivesUp, rows, history
  <1>6. CASE AdjustForVictim
    BY <1>6 DEF AdjustForVictim, rows, history
  <1>7. CASE FlushTouches
    BY <1>7 DEF FlushTouches, rows, history
  <1> QED
    BY <1>1, <1>2, <1>3, <1>4, <1>5, <1>6, <1>7 DEF EvictStep

LEMMA FenceNext == TypeOK /\ FenceInv /\ [Next]_vars => FenceInv'
  <1> SUFFICES ASSUME TypeOK, FenceInv, [Next]_vars PROVE FenceInv'
    OBVIOUS
  <1>0. /\ generation \in Nat \cup {None}
        /\ object \in Version \cup {None}
        /\ put \in [Putters -> PutRecord]
        /\ fill \in [Fillers -> FillRecord]
        /\ overtaken \subseteq Fillers
        /\ rowAdrift \in BOOLEAN
        /\ \A f \in Fillers : Running(fill[f]) => fill[f].version \in Version
        /\ \A p \in Putters : put[p].pc = "upsert" => put[p].epoch \in Nat
    BY DEF TypeOK, RowsOK, PutOK, FillOK, HistoryOK, FillRecord, PutRecord, Running
  <1>1. CASE UNCHANGED <<generation, object, put, fill, overtaken, adrift, rowAdrift>>
    BY <1>1 DEF FenceInv, EpochsReached, FillFenced
  <1>2. ASSUME NEW p \in Putters, PutStep(p) PROVE FenceInv'
    <2>0. /\ object # None /\ ~rowAdrift =>
                generation # None /\ object.epoch <= generation
          /\ \A q \in Putters \ adrift : put[q].pc = "upsert" =>
                generation # None /\ put[q].epoch <= generation
      BY DEF FenceInv, EpochsReached
    <2>1. ASSUME NEW etag \in ETags, EnsureGenerationRow(p, etag) PROVE FenceInv'
      <3>1. generation # None => generation' = generation
        BY <2>1 DEF EnsureGenerationRow, EnsureGeneration
      <3>2. generation' # None
        BY <1>0, <2>1, NoneAssumption DEF EnsureGenerationRow, EnsureGeneration
      <3>3. UNCHANGED <<object, fill, overtaken, adrift, rowAdrift>>
        BY <2>1 DEF EnsureGenerationRow, history
      <3>4. \A q \in Putters : put'[q].pc = "upsert" => put'[q] = put[q]
        BY <1>0, <2>1 DEF EnsureGenerationRow
      <3>5. EpochsReached'
        BY <2>0, <3>1, <3>2, <3>3, <3>4 DEF FenceInv, EpochsReached
      <3>6. ASSUME NEW f \in overtaken' \ adrift' PROVE FillFenced(f)'
        BY <3>1, <3>3, <3>6 DEF FenceInv, FillFenced
      <3> QED
        BY <3>5, <3>6 DEF FenceInv
    <2>2. CASE ReadGeneration(p)
      <3>1. put'[p].pc = "upsert" => generation # None /\ put'[p].epoch = generation
        <4>1. CASE generation = None
          BY <1>0, <2>2, <4>1, EndedPut DEF ReadGeneration
        <4>2. CASE generation # None
          BY <1>0, <2>2, <4>2 DEF ReadGeneration, PutRecord
        <4> QED
          BY <4>1, <4>2
      <3>2. \A q \in Putters \ {p} : put'[q] = put[q]
        BY <1>0, <2>2 DEF ReadGeneration
      <3>3. UNCHANGED <<generation, object, fill, overtaken, adrift, rowAdrift>>
        BY <2>2 DEF ReadGeneration, rows, history
      <3>4. put'[p].pc = "upsert" => generation # None /\ put'[p].epoch <= generation
        BY <1>0, <3>1
      <3> QED
        BY <2>0, <3>2, <3>3, <3>4, PutFence
    <2>3. CASE UpsertObject(p)
      <3>1. put[p].pc = "upsert"
        BY <2>3 DEF UpsertObject
      <3>2. object' = [etag |-> put[p].etag, epoch |-> put[p].epoch]
        BY <2>3 DEF UpsertObject
      <3>3. ~rowAdrift' => generation # None /\ object'.epoch <= generation
        <4>1. rowAdrift' <=> p \in adrift
          BY <2>3 DEF UpsertObject
        <4>2. object'.epoch = put[p].epoch
          BY <3>2
        <4> QED
          BY <2>0, <3>1, <4>1, <4>2
      <3>4. \A q \in Putters : put'[q].pc = "upsert" => put'[q] = put[q]
        <4>1. put'[p].pc = "done"
          BY <1>0, <2>3, EndedPut DEF UpsertObject
        <4>2. \A q \in Putters \ {p} : put'[q] = put[q]
          BY <1>0, <2>3 DEF UpsertObject
        <4> QED
          BY <4>1, <4>2
      <3>5. UNCHANGED <<generation, fill, overtaken, adrift>>
        BY <2>3 DEF UpsertObject
      <3> QED
        BY <3>3, <3>4, <3>5, PutFence
    <2>4. CASE PutFails(p)
      <3>1. \A q \in Putters : put'[q].pc = "upsert" => put'[q] = put[q]
        <4>1. put'[p].pc = "done"
          BY <1>0, <2>4, EndedPut DEF PutFails
        <4>2. \A q \in Putters \ {p} : put'[q] = put[q]
          BY <1>0, <2>4 DEF PutFails
        <4> QED
          BY <4>1, <4>2
      <3>2. UNCHANGED <<generation, object, fill, overtaken, adrift, rowAdrift>>
        BY <2>4 DEF PutFails, rows, history
      <3> QED
        BY <2>0, <3>1, <3>2, PutFence
    <2> QED
      BY <1>2, <2>1, <2>2, <2>3, <2>4 DEF PutStep
  <1>3. ASSUME NEW f \in Fillers, FillStep(f) PROVE FenceInv'
    <2>0. fill[f] \in FillRecord
      BY <1>0
    <2>1. /\ UNCHANGED <<generation, object, put, overtaken, rowAdrift>>
          /\ adrift \subseteq adrift'
      BY <1>3 DEF FillStep, PlanFill, BeginPageWrite, Abort, RenamePage,
         PutPageIfCurrent, RejectPage, UnlinkRejectedPage, AdjustForPage,
         RequestEviction, rows, history
    <2>2. \A g \in Fillers \ {f} : fill'[g] = fill[g]
      BY <1>0, <1>3 DEF FillStep, PlanFill, BeginPageWrite, Abort, RenamePage,
         PutPageIfCurrent, RejectPage, UnlinkRejectedPage, AdjustForPage,
         RequestEviction
    <2>a. /\ object # None /\ ~rowAdrift =>
                generation # None /\ object.epoch <= generation
          /\ f \notin adrift /\ Running(fill[f]) =>
                generation # None /\ fill[f].version.epoch <= generation
          /\ f \in overtaken \ adrift => FillFenced(f)
      BY DEF FenceInv, EpochsReached
    <2>3. ASSUME NEW i \in Indexes, PlanFill(f, i) PROVE FenceInv'
      <3>1. fill[f].pc = "idle" /\ object # None
        BY <2>3 DEF PlanFill
      <3>2. f \in overtaken => f \in adrift
        BY <2>a, <3>1 DEF FillFenced
      <3>3. fill'[f].version = object
        BY <1>0, <2>3 DEF PlanFill
      <3>4. rowAdrift => f \in adrift'
        BY <2>3 DEF PlanFill
      <3>5. f \notin adrift' =>
               generation # None /\ fill'[f].version.epoch <= generation
        BY <2>a, <3>1, <3>3, <3>4
      <3>6. ~(f \in overtaken \ adrift')
        BY <2>1, <3>2
      <3> QED
        BY <1>0, <2>1, <2>2, <3>5, <3>6, FillFence
    <2>4. ASSUME fill'[f] = Ended(FillIdle) PROVE FenceInv'
      <3>1. fill'[f].pc = "done"
        BY <2>4, EndedFill
      <3>2. ~Running(fill'[f]) /\ FillFenced(f)'
        BY <3>1 DEF Running, FillFenced
      <3> QED
        BY <1>0, <2>1, <2>2, <3>2, FillFence
    <2>5. ASSUME Running(fill[f]), fill'[f].version = fill[f].version,
                 \/ fill'[f].pc \in {"write", "commit"}
                    /\ fill[f].pc \in {"begin", "write"}
                 \/ fill'[f].pc = "unlink"
                 \/ f \notin overtaken \ adrift
          PROVE  FenceInv'
      <3>1. f \in overtaken \ adrift' => FillFenced(f)'
        BY <2>1, <2>5, <2>a DEF FillFenced
      <3> QED
        BY <1>0, <2>1, <2>2, <2>5, <2>a, <3>1, FillFence
    <2>6. CASE BeginPageWrite(f)
      <3>1. CASE IsCurrent(object, generation, fill[f].version)
        <4>1. /\ fill[f].pc = "begin"
              /\ fill'[f].pc = "write"
              /\ fill'[f].version = fill[f].version
          BY <1>0, <2>0, <2>6, <3>1 DEF BeginPageWrite, FillRecord
        <4> QED
          BY <2>5, <4>1 DEF Running
      <3>2. CASE ~IsCurrent(object, generation, fill[f].version)
        BY <1>0, <2>4, <2>6, <3>2 DEF BeginPageWrite
      <3> QED
        BY <3>1, <3>2
    <2>7. CASE RenamePage(f)
      <3>1. /\ fill[f].pc = "write"
            /\ fill'[f].pc = "commit"
            /\ fill'[f].version = fill[f].version
        BY <1>0, <2>0, <2>7 DEF RenamePage, FillRecord
      <3> QED
        BY <2>5, <3>1 DEF Running
    <2>8. CASE PutPageIfCurrent(f)
      <3>1. fill[f].pc = "commit" /\ fill[f].version.epoch = generation
        BY <2>8 DEF PutPageIfCurrent, IsCurrent
      <3>2. f \notin overtaken \ adrift
        BY <1>0, <2>a, <3>1 DEF FillFenced, Running, Version
      <3>3. fill'[f].version = fill[f].version
        BY <1>0, <2>0, <2>8 DEF PutPageIfCurrent, FillRecord
      <3> QED
        BY <2>5, <3>1, <3>2, <3>3 DEF Running
    <2>9. CASE RejectPage(f)
      <3>1. /\ fill[f].pc = "commit"
            /\ fill'[f].pc = "unlink"
            /\ fill'[f].version = fill[f].version
        BY <1>0, <2>0, <2>9 DEF RejectPage, FillRecord
      <3> QED
        BY <2>5, <3>1 DEF Running
    <2>10. CASE AdjustForPage(f)
      <3>1. fill[f].pc = "adjust" /\ fill'[f].version = fill[f].version
        BY <1>0, <2>0, <2>10 DEF AdjustForPage, FillRecord
      <3>2. f \notin overtaken \ adrift
        BY <2>a, <3>1 DEF FillFenced
      <3> QED
        BY <2>5, <3>1, <3>2 DEF Running
    <2>11. CASE Abort(f) \/ UnlinkRejectedPage(f) \/ RequestEviction(f)
      BY <1>0, <2>4, <2>11 DEF Abort, UnlinkRejectedPage, RequestEviction
    <2> QED
      BY <1>3, <2>3, <2>6, <2>7, <2>8, <2>9, <2>10, <2>11 DEF FillStep
  <1>4. ASSUME NEW r \in Readers, OpenStep(r) PROVE FenceInv'
    BY <1>1, <1>4, OpenLeaves
  <1>5. ASSUME NEW v \in Invalidators, InvalidateStep(v) PROVE FenceInv'
    <2>1. ASSUME NEW m \in MinEpochs, InvalidateTx(v, m) PROVE FenceInv'
      <3> DEFINE current == EnsureGeneration(generation)
                 next == NextEpoch(current, m)
      <3>1. /\ next \in Nat
            /\ generation # None => current = generation
            /\ current <= next
        <4>1. m \in Nat
          BY StoreAssumption
        <4>2. generation \in Nat \cup {None}
          BY <1>0
        <4> QED
          BY <4>1, <4>2 DEF NextEpoch, EnsureGeneration
      <3>2. /\ generation' = next
            /\ object' \in {object, None}
            /\ UNCHANGED <<put, fill, adrift, rowAdrift>>
            /\ overtaken' = IF next > current
                            THEN overtaken \cup {f \in Fillers :
                                   fill[f].pc \in {"begin", "write", "commit"}}
                            ELSE overtaken
        BY <2>1 DEF InvalidateTx
      <3> HIDE DEF current, next
      <3>4. next # None
        BY <3>1, NoneAssumption
      <3>5. EpochsReached'
        <4>1. ASSUME object' # None, ~rowAdrift PROVE object'.epoch <= next
          <5>1. object' = object /\ object # None
            BY <3>2, <4>1
          <5>2. object.epoch \in Nat
            BY <1>0, <5>1 DEF Version
          <5>3. generation # None /\ object.epoch <= generation
            BY <4>1, <5>1 DEF FenceInv, EpochsReached
          <5>4. generation \in Nat
            BY <1>0, <5>3
          <5> QED
            BY <3>1, <5>1, <5>2, <5>3, <5>4
        <4>2. ASSUME NEW p \in Putters \ adrift, put[p].pc = "upsert"
              PROVE  put[p].epoch <= next
          <5>1. put[p].epoch \in Nat
            BY <1>0, <4>2
          <5>2. generation # None /\ put[p].epoch <= generation
            BY <4>2 DEF FenceInv, EpochsReached
          <5>3. generation \in Nat
            BY <1>0, <5>2
          <5> QED
            BY <3>1, <5>1, <5>2, <5>3
        <4>3. ASSUME NEW f \in Fillers \ adrift, Running(fill[f])
              PROVE  fill[f].version.epoch <= next
          <5>1. fill[f].version.epoch \in Nat
            BY <1>0, <4>3 DEF Version
          <5>2. generation # None /\ fill[f].version.epoch <= generation
            BY <4>3 DEF FenceInv, EpochsReached
          <5>3. generation \in Nat
            BY <1>0, <5>2
          <5> QED
            BY <3>1, <5>1, <5>2, <5>3
        <4> QED
          BY <3>2, <3>4, <4>1, <4>2, <4>3 DEF EpochsReached
      <3>6. ASSUME NEW f \in overtaken' \ adrift' PROVE FillFenced(f)'
        <4>1. CASE f \in overtaken
          <5>1. FillFenced(f) /\ f \in Fillers
            BY <1>0, <3>2, <3>6, <4>1 DEF FenceInv
          <5>2. CASE fill[f].pc \in {"unlink", "done"}
            BY <3>2, <5>2 DEF FillFenced
          <5>3. CASE fill[f].pc \in {"begin", "write", "commit"}
            <6>1. generation # None /\ fill[f].version.epoch < generation
              BY <5>1, <5>3 DEF FillFenced
            <6>2. fill[f].version \in Version
              BY <1>0, <5>1, <5>3 DEF Running
            <6>3. fill[f].version.epoch \in Nat
              BY <6>2 DEF Version
            <6>4. generation \in Nat /\ current = generation
              BY <1>0, <3>1, <6>1
            <6>5. fill[f].version.epoch < next
              BY <3>1, <6>1, <6>3, <6>4
            <6> QED
              BY <3>2, <3>4, <5>3, <6>5 DEF FillFenced
          <5> QED
            BY <5>1, <5>2, <5>3 DEF FillFenced
        <4>2. CASE f \notin overtaken
          <5>1. /\ f \in Fillers
                /\ fill[f].pc \in {"begin", "write", "commit"}
                /\ next > current
            BY <3>2, <3>6, <4>2
          <5>2. /\ generation # None
                /\ fill[f].version.epoch <= generation
            BY <3>2, <3>6, <5>1 DEF FenceInv, EpochsReached, Running
          <5>3. generation \in Nat /\ fill[f].version.epoch \in Nat
            BY <1>0, <5>1, <5>2 DEF Running, Version
          <5>4. fill[f].version.epoch < next
            BY <3>1, <5>1, <5>2, <5>3
          <5> QED
            BY <3>2, <3>4, <5>1, <5>4 DEF FillFenced
        <4> QED
          BY <4>1, <4>2
      <3> QED
        BY <3>5, <3>6 DEF FenceInv
    <2>2. CASE \/ UnlinkInvalidated(v)
               \/ \E i \in Indexes : UnlinkInvalidatedFails(v, i)
               \/ AdjustForInvalidated(v)
      BY <1>1, <2>2, InvalidateLeaves
    <2> QED
      BY <1>5, <2>1, <2>2 DEF InvalidateStep
  <1>6. CASE WorkerStep
    <2>1. CASE DeleteOldPageLessObjects
      <3>1. /\ UNCHANGED <<generation, put, fill, overtaken, adrift, rowAdrift>>
            /\ object' \in {object, None}
        BY <2>1 DEF DeleteOldPageLessObjects, history
      <3> QED
        BY <3>1 DEF FenceInv, EpochsReached, FillFenced
    <2>2. CASE DeleteOldUnreferencedGenerations
      <3>1. UNCHANGED <<object, put, fill, overtaken, rowAdrift>>
        BY <2>2 DEF DeleteOldUnreferencedGenerations
      <3>2. CASE UNCHANGED <<generation, adrift>>
        BY <1>1, <3>1, <3>2
      <3>3. CASE CollectGeneration /\ object = None
        <4>1. /\ \A p \in Putters \ adrift' : put[p].pc # "upsert"
              /\ \A f \in Fillers \ adrift' : ~Running(fill[f])
              /\ adrift \subseteq adrift'
          BY <3>3 DEF CollectGeneration
        <4>2. EpochsReached'
          BY <3>1, <3>3, <4>1 DEF EpochsReached, Running
        <4>3. ASSUME NEW f \in overtaken' \ adrift' PROVE FillFenced(f)'
          <5>1. f \in Fillers /\ FillFenced(f)
            BY <1>0, <3>1, <4>1, <4>3 DEF FenceInv
          <5>2. ~Running(fill[f])
            BY <4>1, <4>3, <5>1
          <5>3. fill[f].pc \in {"unlink", "done"}
            BY <5>1, <5>2 DEF FillFenced, Running
          <5> QED
            BY <3>1, <5>3 DEF FillFenced
        <4> QED
          BY <4>2, <4>3 DEF FenceInv
      <3> QED
        BY <2>2, <3>2, <3>3 DEF DeleteOldUnreferencedGenerations
    <2>3. CASE EvictStep \/ FlushTouches
      BY <1>1, <2>3, EvictLeaves
    <2> QED
      BY <1>6, <2>1, <2>2, <2>3 DEF WorkerStep
  <1>7. CASE Environment
    <2>1. ASSUME NEW corrupt \in BOOLEAN, Reopen(corrupt) PROVE FenceInv'
      <3>1. /\ \A p \in Putters : ~Running(put'[p])
            /\ \A f \in Fillers : ~Running(fill'[f])
        BY <2>1, PutStopped, FillStopped DEF TypeOK, Reopen
      <3>2. overtaken' = {}
        BY <2>1 DEF Reopen
      <3>3. object' # None /\ ~rowAdrift' =>
               generation' # None /\ object'.epoch <= generation'
        <4>1. CASE corrupt
          BY <2>1, <4>1 DEF Reopen
        <4>2. CASE ~corrupt /\ generation = None
          <5>1. ASSUME object' # None
                PROVE  generation' = object'.epoch /\ object' \in Version
            BY <1>0, <2>1, <4>2, <5>1 DEF Reopen
          <5>2. object' # None => object'.epoch \in Nat
            BY <5>1 DEF Version
          <5> QED
            BY <5>1, <5>2, NoneAssumption
        <4>3. CASE ~corrupt /\ generation # None
          <5>1. generation' = generation /\ object' = object
            BY <2>1, <4>3 DEF Reopen
          <5>2. rowAdrift' <=> rowAdrift
            BY <2>1, <4>3 DEF Reopen
          <5> QED
            BY <5>1, <5>2 DEF FenceInv, EpochsReached
        <4> QED
          BY <4>1, <4>2, <4>3
      <3>4. EpochsReached'
        BY <3>1, <3>3 DEF EpochsReached, Running
      <3> QED
        BY <3>2, <3>4 DEF FenceInv
    <2> QED
      BY <1>1, <1>7, <2>1 DEF Environment, RowsAge, DamageFile, rows, history
  <1> QED
    BY <1>1, <1>2, <1>3, <1>4, <1>5, <1>6, <1>7 DEF Next, vars, rows, history

(* The epochs in use never run ahead of the generation row they were read  *)
(* from, for any number of concurrent calls, peer and local invalidations, *)
(* evictions, collections and restarts.                                    *)
THEOREM EpochsAreReached == Spec => []EpochsReached
  <1>1. FenceInv => EpochsReached
    BY DEF FenceInv
  <1> QED
    BY <1>1, FenceInit, FenceNext, TypeCorrect, PTL DEF Spec

(* A page fill that was under way when an invalidation advanced the epoch  *)
(* is never committed, for any number of concurrent PutObjects, fills,     *)
(* peer and local invalidations, evictions, collections and restarts,      *)
(* unless the generation row its epoch was read from was collected in the  *)
(* meantime.                                                               *)
THEOREM FencedFills == Spec => []NoResurrection
  <1>1. FenceInv => NoResurrection
    BY DEF FenceInv, FillFenced, NoResurrection
  <1> QED
    BY <1>1, FenceInit, FenceNext, TypeCorrect, PTL DEF Spec
=============================================================================
