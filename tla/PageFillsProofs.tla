--------------------------- MODULE PageFillsProofs --------------------------
(***************************************************************************)
(* PageFills for every set of peers, readers, requests and limits: permits *)
(* are neither lost nor given back twice, nobody waits for a fill that     *)
(* nobody makes, and a page has one fill at a time.                        *)
(***************************************************************************)
EXTENDS PageFills, FiniteSetTheorems, WellFoundedInduction, TLAPS

(* A set of pages that is not empty has a first page. *)
LEMMA SmallestPage ==
    ASSUME NEW S \in SUBSET Nat, S # {}
    PROVE  \E i \in S : \A j \in S : i <= j
<1> DEFINE R == OpToRel(<, Nat)
<1>1. IsWellFoundedOn(R, Nat)
  BY NatLessThanWellFounded, Zenon
<1>2. \A i, j \in Nat : i < j => <<i, j>> \in R
  BY DEF OpToRel
<1> HIDE DEF R
<1>3. PICK i \in S : \A j \in S : ~(<<j, i>> \in R)
  BY <1>1, WFMin, Zenon
<1>4. \A j \in S : ~(j < i)
  BY <1>2, <1>3, Zenon
<1> QED BY <1>4

LEMMA NextPageIsOne ==
    ASSUME NEW wk, wk.todo \in SUBSET Indexes, wk.todo # {}
    PROVE  NextPage(wk) \in wk.todo
<1>1. wk.todo \in SUBSET Nat
  BY PageFillsAssumption, Zenon
<1>2. \E i \in wk.todo : \A j \in wk.todo : i <= j
  BY <1>1, SmallestPage
<1> QED BY <1>2 DEF NextPage

-----------------------------------------------------------------------------
(* The inductive invariant.                                                *)

(* TypeOK without the count of faults, which no action looks at. *)
Typed ==
    /\ cached \subseteq Indexes
    /\ fills \in [Indexes -> Readers \cup {None}]
    /\ global \in [Peers -> Nat]
    /\ perObject \in [Peers -> Nat]
    /\ worker \in [Readers -> [Peers -> WorkType]]
    /\ frames \in [Readers -> [Peers -> SUBSET Indexes]]
    /\ cut \in [Readers -> [Peers -> BOOLEAN]]
    /\ read \in [Readers -> ReadType]

Rest == {"idle", "ended"}

(* A worker that is not at rest has a page to serve, and serves pages that *)
(* its peer owns.                                                          *)
WorkOK(wk, o) == wk.pc \notin Rest => /\ wk.todo # {}
                                      /\ \A i \in wk.todo : Owner[i] = o
WorkersOK == \A r \in Readers, o \in Peers : WorkOK(worker[r][o], o)

(* pageFills has the page of every fill, and nothing else. *)
FillsListed == \A r \in Readers, o \in Peers :
    Fills(worker[r][o]) => fills[NextPage(worker[r][o])] = r
ListedFills == \A i \in Indexes :
    fills[i] # None => /\ Fills(worker[fills[i]][Owner[i]])
                       /\ NextPage(worker[fills[i]][Owner[i]]) = i

Coalesced == FillsListed /\ ListedFills /\ WaitersHaveLeader

(* A request has a worker only where it has asked for pages; one that is   *)
(* over leaves its workers behind.                                         *)
Over == Ends \cup {"forward"}
Allows(rd, o) ==
    \/ rd.pc \in Over
    \/ rd.pc # "idle" /\ o \in rd.opened
    \/ rd.pc = "await" /\ o = rd.asked
    \/ rd.pc = "local" /\ o = rd.peer
Plan(rd) ==
    /\ rd.pc \notin Over \cup {"idle"} => rd.at \in Indexes /\ rd.at .. rd.last \subseteq Indexes
    /\ rd.pc \notin Over \cup {"idle"} => rd.peer \notin rd.opened
    /\ rd.pc = "await" => rd.asked \in Peers \ {rd.peer}
Placed ==
    /\ \A r \in Readers, o \in Peers : ~Allows(read[r], o) => worker[r][o].pc \in Rest
    /\ \A r \in Readers : Plan(read[r])

(* PermitsAccounted, for one kind of permits at a time *)
GlobalOK == \A o \in Peers :
    /\ global[o] = Cardinality({r \in Readers : HoldsGlobal(worker[r][o])})
    /\ global[o] <= PeerLimit

ObjectOK == \A o \in Peers :
    /\ perObject[o] = Cardinality({r \in Readers : HoldsObject(worker[r][o])})
    /\ perObject[o] <= ObjectLimit

Inv == Typed /\ WorkersOK /\ Coalesced /\ Placed /\ GlobalOK /\ ObjectOK

-----------------------------------------------------------------------------
(* One worker takes a step.                                                *)

LEMMA OneWorker ==
    ASSUME Typed, NEW r \in Readers, NEW o \in Peers, NEW wk \in WorkType, Work(r, o, wk)
    PROVE  /\ worker' \in [Readers -> [Peers -> WorkType]]
           /\ worker'[r][o] = wk
           /\ \A q \in Readers, p \in Peers : (q # r \/ p # o) => worker'[q][p] = worker[q][p]
BY DEF Typed, Work

LEMMA WorkersStep ==
    ASSUME Typed, WorkersOK, NEW r \in Readers, NEW o \in Peers, NEW wk \in WorkType,
           Work(r, o, wk), WorkOK(wk, o)
    PROVE  WorkersOK'
<1> SUFFICES ASSUME NEW q \in Readers, NEW p \in Peers
             PROVE  WorkOK(worker'[q][p], p)
  BY DEF WorkersOK, WorkOK
<1>1. CASE q = r /\ p = o
  BY <1>1, OneWorker
<1>2. CASE q # r \/ p # o
  BY <1>2, OneWorker DEF WorkersOK
<1> QED BY <1>1, <1>2

(* A worker that fills nothing goes on, neither waiting nor leading. *)
LEMMA AsideStep ==
    ASSUME Typed, Coalesced, NEW r \in Readers, NEW o \in Peers, NEW wk \in WorkType,
           Work(r, o, wk), ~Leads(worker[r][o]), ~Leads(wk), wk.pc # "wait",
           fills' = fills
    PROVE  Coalesced'
<1>1. FillsListed'
  <2> SUFFICES ASSUME NEW q \in Readers, NEW p \in Peers, Fills(worker'[q][p])
               PROVE  fills[NextPage(worker'[q][p])] = q
    BY DEF FillsListed, Fills, NextPage
  <2>1. q # r \/ p # o
    BY OneWorker DEF Leads
  <2> QED BY <2>1, OneWorker DEF Coalesced, FillsListed
<1>2. ListedFills'
  <2> SUFFICES ASSUME NEW i \in Indexes, fills[i] # None
               PROVE  /\ Fills(worker'[fills[i]][Owner[i]])
                      /\ NextPage(worker'[fills[i]][Owner[i]]) = i
    BY DEF ListedFills, Fills, NextPage
  <2>1. /\ Fills(worker[fills[i]][Owner[i]])
        /\ NextPage(worker[fills[i]][Owner[i]]) = i
        /\ fills[i] \in Readers /\ Owner[i] \in Peers
    BY PageFillsAssumption DEF Coalesced, ListedFills, Typed
  <2>2. fills[i] # r \/ Owner[i] # o
    BY <2>1 DEF Leads
  <2> QED BY <2>1, <2>2, OneWorker
<1>3. WaitersHaveLeader'
  <2> SUFFICES ASSUME NEW q \in Readers, NEW l \in Readers, NEW p \in Peers,
                      worker'[q][p].pc = "wait", worker'[q][p].on = l
               PROVE  /\ Leads(worker'[l][p])
                      /\ NextPage(worker'[l][p]) = NextPage(worker'[q][p])
    BY DEF WaitersHaveLeader, Waits, Leads, Fills, NextPage
  <2>1. worker'[q][p] = worker[q][p]
    BY OneWorker
  <2>2. /\ Leads(worker[l][p])
        /\ NextPage(worker[l][p]) = NextPage(worker[q][p])
    BY <2>1 DEF Coalesced, WaitersHaveLeader, Waits
  <2>3. worker'[l][p] = worker[l][p]
    BY <2>2, OneWorker
  <2> QED BY <2>1, <2>2, <2>3
<1> QED BY <1>1, <1>2, <1>3 DEF Coalesced

(* A fill goes on. *)
LEMMA FillStep ==
    ASSUME Typed, Coalesced, NEW r \in Readers, NEW o \in Peers, NEW wk \in WorkType,
           Work(r, o, wk), Fills(worker[r][o]), Fills(wk), wk.todo = worker[r][o].todo,
           fills' = fills
    PROVE  Coalesced'
<1>0. /\ NextPage(wk) = NextPage(worker[r][o])
      /\ \A q \in Readers, p \in Peers :
            /\ Fills(worker'[q][p]) <=> Fills(worker[q][p])
            /\ Leads(worker'[q][p]) <=> Leads(worker[q][p])
            /\ NextPage(worker'[q][p]) = NextPage(worker[q][p])
  <2>1. NextPage(wk) = NextPage(worker[r][o])
    BY DEF NextPage
  <2>2. ASSUME NEW q \in Readers, NEW p \in Peers
        PROVE  /\ Fills(worker'[q][p]) <=> Fills(worker[q][p])
               /\ Leads(worker'[q][p]) <=> Leads(worker[q][p])
               /\ NextPage(worker'[q][p]) = NextPage(worker[q][p])
    <3>1. CASE q = r /\ p = o
      BY <3>1, <2>1, OneWorker DEF Leads
    <3>2. CASE q # r \/ p # o
      BY <3>2, OneWorker
    <3> QED BY <3>1, <3>2
  <2> QED BY <2>1, <2>2
<1>1. FillsListed'
  <2> SUFFICES ASSUME NEW q \in Readers, NEW p \in Peers, Fills(worker'[q][p])
               PROVE  fills[NextPage(worker'[q][p])] = q
    BY DEF FillsListed, Fills, NextPage
  <2> QED BY <1>0 DEF Coalesced, FillsListed
<1>2. ListedFills'
  <2> SUFFICES ASSUME NEW i \in Indexes, fills[i] # None
               PROVE  /\ Fills(worker'[fills[i]][Owner[i]])
                      /\ NextPage(worker'[fills[i]][Owner[i]]) = i
    BY DEF ListedFills, Fills, NextPage
  <2>1. /\ Fills(worker[fills[i]][Owner[i]])
        /\ NextPage(worker[fills[i]][Owner[i]]) = i
        /\ fills[i] \in Readers /\ Owner[i] \in Peers
    BY PageFillsAssumption DEF Coalesced, ListedFills, Typed
  <2> QED BY <2>1, <1>0
<1>3. WaitersHaveLeader'
  <2> SUFFICES ASSUME NEW q \in Readers, NEW l \in Readers, NEW p \in Peers,
                      worker'[q][p].pc = "wait", worker'[q][p].on = l
               PROVE  /\ Leads(worker'[l][p])
                      /\ NextPage(worker'[l][p]) = NextPage(worker'[q][p])
    BY DEF WaitersHaveLeader, Waits, Leads, Fills, NextPage
  <2>1. worker'[q][p] = worker[q][p]
    BY OneWorker DEF Fills
  <2>2. /\ Leads(worker[l][p])
        /\ NextPage(worker[l][p]) = NextPage(worker[q][p])
    BY <2>1 DEF Coalesced, WaitersHaveLeader, Waits
  <2> QED BY <2>2, <1>0
<1> QED BY <1>1, <1>2, <1>3 DEF Coalesced

(* Nothing of the workers or of pageFills changes. *)
LEMMA CoalescedKept ==
    ASSUME Coalesced, worker' = worker, fills' = fills
    PROVE  Coalesced'
<1>1. FillsListed'
  BY DEF Coalesced, FillsListed, Fills, NextPage
<1>2. ListedFills'
  BY DEF Coalesced, ListedFills, Fills, NextPage
<1>3. WaitersHaveLeader'
  BY DEF Coalesced, WaitersHaveLeader, Waits, Leads, Fills, NextPage
<1> QED BY <1>1, <1>2, <1>3 DEF Coalesced

(* One of a finite set of readers starts or stops to hold a permit. *)
LEMMA OneMore ==
    ASSUME NEW S \in SUBSET Readers, NEW T \in SUBSET Readers, NEW r \in Readers,
           r \notin S, T = S \cup {r}
    PROVE  Cardinality(T) = Cardinality(S) + 1
BY PageFillsAssumption, FS_Subset, FS_AddElement

LEMMA OneLess ==
    ASSUME NEW S \in SUBSET Readers, NEW T \in SUBSET Readers, NEW r \in Readers,
           r \in S, T = S \ {r}
    PROVE  /\ Cardinality(T) = Cardinality(S) - 1
           /\ Cardinality(T) \in Nat
BY PageFillsAssumption, FS_Subset, FS_RemoveElement, FS_CardinalityType

-----------------------------------------------------------------------------
(* The two counters of permits. *)

LEMMA GlobalSame ==
    ASSUME Typed, GlobalOK, NEW r \in Readers, NEW o \in Peers, NEW wk \in WorkType,
           Work(r, o, wk), global' = global, HoldsGlobal(wk) <=> HoldsGlobal(worker[r][o])
    PROVE  GlobalOK'
<1>1. \A q \in Readers, p \in Peers : HoldsGlobal(worker'[q][p]) <=> HoldsGlobal(worker[q][p])
  BY OneWorker
<1>2. \A p \in Peers : {q \in Readers : HoldsGlobal(worker'[q][p])}
                         = {q \in Readers : HoldsGlobal(worker[q][p])}
  BY <1>1
<1> QED BY <1>2, Zenon DEF GlobalOK, HoldsGlobal

LEMMA GlobalTaken ==
    ASSUME Typed, GlobalOK, NEW r \in Readers, NEW o \in Peers, NEW wk \in WorkType,
           Work(r, o, wk), global[o] < PeerLimit, global' = [global EXCEPT ![o] = @ + 1],
           ~HoldsGlobal(worker[r][o]), HoldsGlobal(wk)
    PROVE  GlobalOK'
<1> DEFINE Old(p) == {q \in Readers : HoldsGlobal(worker[q][p])}
           New(p) == {q \in Readers : HoldsGlobal(worker'[q][p])}
<1>1. New(o) = Old(o) \cup {r} /\ r \notin Old(o)
  BY OneWorker
<1>2. \A p \in Peers \ {o} : New(p) = Old(p)
  BY OneWorker
<1>3. /\ global'[o] = global[o] + 1
      /\ \A p \in Peers \ {o} : global'[p] = global[p]
      /\ global[o] \in Nat /\ PeerLimit \in Nat
  BY PageFillsAssumption DEF Typed
<1>4. Cardinality(New(o)) = Cardinality(Old(o)) + 1
  BY <1>1, OneMore
<1>5. \A p \in Peers : global[p] = Cardinality(Old(p)) /\ global[p] <= PeerLimit
  BY DEF GlobalOK
<1> HIDE DEF Old, New
<1>6. \A p \in Peers : global'[p] = Cardinality(New(p)) /\ global'[p] <= PeerLimit
  BY <1>2, <1>3, <1>4, <1>5
<1> QED BY <1>6 DEF GlobalOK, HoldsGlobal, New

LEMMA GlobalReturned ==
    ASSUME Typed, GlobalOK, NEW r \in Readers, NEW o \in Peers, NEW wk \in WorkType,
           Work(r, o, wk), global' = [global EXCEPT ![o] = @ - 1],
           HoldsGlobal(worker[r][o]), ~HoldsGlobal(wk)
    PROVE  GlobalOK' /\ global' \in [Peers -> Nat]
<1> DEFINE Old(p) == {q \in Readers : HoldsGlobal(worker[q][p])}
           New(p) == {q \in Readers : HoldsGlobal(worker'[q][p])}
<1>1. New(o) = Old(o) \ {r} /\ r \in Old(o)
  BY OneWorker
<1>2. \A p \in Peers \ {o} : New(p) = Old(p)
  BY OneWorker
<1>3. /\ global'[o] = global[o] - 1
      /\ \A p \in Peers \ {o} : global'[p] = global[p]
      /\ global \in [Peers -> Nat] /\ PeerLimit \in Nat
  BY PageFillsAssumption DEF Typed
<1>4. Cardinality(New(o)) = Cardinality(Old(o)) - 1 /\ Cardinality(New(o)) \in Nat
  BY <1>1, OneLess, Zenon
<1>5. \A p \in Peers : global[p] = Cardinality(Old(p)) /\ global[p] <= PeerLimit
  BY DEF GlobalOK
<1> HIDE DEF Old, New
<1>6. \A p \in Peers : global'[p] = Cardinality(New(p)) /\ global'[p] <= PeerLimit
  BY <1>2, <1>3, <1>4, <1>5
<1>7. global' \in [Peers -> Nat]
  <2>1. global'[o] \in Nat
    BY <1>3, <1>4, <1>5
  <2> QED BY <2>1, <1>3
<1> QED BY <1>6, <1>7 DEF GlobalOK, HoldsGlobal, New

LEMMA ObjectSame ==
    ASSUME Typed, ObjectOK, NEW r \in Readers, NEW o \in Peers, NEW wk \in WorkType,
           Work(r, o, wk), perObject' = perObject, HoldsObject(wk) <=> HoldsObject(worker[r][o])
    PROVE  ObjectOK'
<1>1. \A q \in Readers, p \in Peers : HoldsObject(worker'[q][p]) <=> HoldsObject(worker[q][p])
  BY OneWorker
<1>2. \A p \in Peers : {q \in Readers : HoldsObject(worker'[q][p])}
                         = {q \in Readers : HoldsObject(worker[q][p])}
  BY <1>1
<1> QED BY <1>2, Zenon DEF ObjectOK, HoldsObject

LEMMA ObjectTaken ==
    ASSUME Typed, ObjectOK, NEW r \in Readers, NEW o \in Peers, NEW wk \in WorkType,
           Work(r, o, wk), perObject[o] < ObjectLimit, perObject' = [perObject EXCEPT ![o] = @ + 1],
           ~HoldsObject(worker[r][o]), HoldsObject(wk)
    PROVE  ObjectOK'
<1> DEFINE Old(p) == {q \in Readers : HoldsObject(worker[q][p])}
           New(p) == {q \in Readers : HoldsObject(worker'[q][p])}
<1>1. New(o) = Old(o) \cup {r} /\ r \notin Old(o)
  BY OneWorker
<1>2. \A p \in Peers \ {o} : New(p) = Old(p)
  BY OneWorker
<1>3. /\ perObject'[o] = perObject[o] + 1
      /\ \A p \in Peers \ {o} : perObject'[p] = perObject[p]
      /\ perObject[o] \in Nat /\ ObjectLimit \in Nat
  BY PageFillsAssumption DEF Typed
<1>4. Cardinality(New(o)) = Cardinality(Old(o)) + 1
  BY <1>1, OneMore
<1>5. \A p \in Peers : perObject[p] = Cardinality(Old(p)) /\ perObject[p] <= ObjectLimit
  BY DEF ObjectOK
<1> HIDE DEF Old, New
<1>6. \A p \in Peers : perObject'[p] = Cardinality(New(p)) /\ perObject'[p] <= ObjectLimit
  BY <1>2, <1>3, <1>4, <1>5
<1> QED BY <1>6 DEF ObjectOK, HoldsObject, New

LEMMA ObjectReturned ==
    ASSUME Typed, ObjectOK, NEW r \in Readers, NEW o \in Peers, NEW wk \in WorkType,
           Work(r, o, wk), perObject' = [perObject EXCEPT ![o] = @ - 1],
           HoldsObject(worker[r][o]), ~HoldsObject(wk)
    PROVE  ObjectOK' /\ perObject' \in [Peers -> Nat]
<1> DEFINE Old(p) == {q \in Readers : HoldsObject(worker[q][p])}
           New(p) == {q \in Readers : HoldsObject(worker'[q][p])}
<1>1. New(o) = Old(o) \ {r} /\ r \in Old(o)
  BY OneWorker
<1>2. \A p \in Peers \ {o} : New(p) = Old(p)
  BY OneWorker
<1>3. /\ perObject'[o] = perObject[o] - 1
      /\ \A p \in Peers \ {o} : perObject'[p] = perObject[p]
      /\ perObject \in [Peers -> Nat] /\ ObjectLimit \in Nat
  BY PageFillsAssumption DEF Typed
<1>4. Cardinality(New(o)) = Cardinality(Old(o)) - 1 /\ Cardinality(New(o)) \in Nat
  BY <1>1, OneLess
<1>5. \A p \in Peers : perObject[p] = Cardinality(Old(p)) /\ perObject[p] <= ObjectLimit
  BY DEF ObjectOK
<1> HIDE DEF Old, New
<1>6. \A p \in Peers : perObject'[p] = Cardinality(New(p)) /\ perObject'[p] <= ObjectLimit
  BY <1>2, <1>3, <1>4, <1>5
<1>7. perObject' \in [Peers -> Nat]
  <2>1. perObject'[o] \in Nat
    BY <1>3, <1>4, <1>5
  <2> QED BY <2>1, <1>3
<1> QED BY <1>6, <1>7 DEF ObjectOK, HoldsObject, New

LEMMA PermitsSplit == PermitsAccounted <=> GlobalOK /\ ObjectOK
BY Zenon DEF PermitsAccounted, GlobalOK, ObjectOK

-----------------------------------------------------------------------------
(* The steps of a worker.                                                  *)

LEMMA PlacedStep ==
    ASSUME Typed, Placed, NEW r \in Readers, NEW o \in Peers, NEW wk \in WorkType,
           Work(r, o, wk), read' = read, worker[r][o].pc \notin Rest
    PROVE  Placed'
<1>1. Allows(read[r], o)
  BY DEF Placed
<1>2. \A q \in Readers, p \in Peers : ~Allows(read[q], p) => worker'[q][p].pc \in Rest
  BY <1>1, OneWorker DEF Placed
<1> QED BY <1>2 DEF Placed, Allows, Plan

(* A worker that has no part in a fill, before or after *)
LEMMA AsideCore ==
    ASSUME Inv, NEW r \in Readers, NEW o \in Peers, NEW wk \in WorkType,
           Work(r, o, wk), WorkOK(wk, o), ~Leads(worker[r][o]), ~Leads(wk), wk.pc # "wait",
           UNCHANGED <<cached, fills, permits, cut>>,
           frames' \in [Readers -> [Peers -> SUBSET Indexes]],
           read' \in [Readers -> ReadType], Placed'
    PROVE  Inv'
<1>1. Typed'
  BY OneWorker DEF Inv, Typed, permits
<1>2. WorkersOK'
  BY WorkersStep DEF Inv
<1>3. Coalesced'
  BY AsideStep DEF Inv
<1>5. GlobalOK'
  <2>1. HoldsGlobal(wk) <=> HoldsGlobal(worker[r][o])
    BY DEF HoldsGlobal, Leads, Fills
  <2> QED BY <2>1, GlobalSame DEF Inv, permits
<1>6. ObjectOK'
  <2>1. HoldsObject(wk) <=> HoldsObject(worker[r][o])
    BY DEF HoldsObject, Leads, Fills
  <2> QED BY <2>1, ObjectSame DEF Inv, permits
<1> QED BY <1>1, <1>2, <1>3, <1>5, <1>6 DEF Inv

LEMMA WorkerAside ==
    ASSUME Inv, NEW r \in Readers, NEW o \in Peers, NEW wk \in WorkType,
           Work(r, o, wk), WorkOK(wk, o), worker[r][o].pc \notin Rest,
           ~Leads(worker[r][o]), ~Leads(wk), wk.pc # "wait",
           UNCHANGED <<cached, fills, permits, read, cut>>,
           frames' \in [Readers -> [Peers -> SUBSET Indexes]]
    PROVE  Inv'
<1>1. read' \in [Readers -> ReadType] /\ Placed'
  BY PlacedStep DEF Inv, Typed
<1> QED BY <1>1, AsideCore

(* A fill goes on, with the permits it takes and gives back. *)
LEMMA FillsCore ==
    ASSUME Inv, NEW r \in Readers, NEW o \in Peers, NEW wk \in WorkType,
           Work(r, o, wk), Fills(worker[r][o]), Fills(wk), wk.todo = worker[r][o].todo,
           UNCHANGED <<fills, cut>>, cached' \subseteq Indexes,
           frames' \in [Readers -> [Peers -> SUBSET Indexes]],
           global' \in [Peers -> Nat], perObject' \in [Peers -> Nat],
           GlobalOK', ObjectOK',
           read' \in [Readers -> ReadType], Placed'
    PROVE  Inv'
<1>1. Typed'
  BY OneWorker DEF Inv, Typed
<1>2. WorkersOK'
  <2>1. worker[r][o].pc \notin Rest
    BY DEF Fills, Rest
  <2>2. WorkOK(wk, o)
    BY <2>1 DEF Inv, WorkersOK, WorkOK
  <2> QED BY <2>2, WorkersStep DEF Inv
<1>3. Coalesced'
  BY FillStep DEF Inv
<1> QED BY <1>1, <1>2, <1>3 DEF Inv

LEMMA WorkerFills ==
    ASSUME Inv, NEW r \in Readers, NEW o \in Peers, NEW wk \in WorkType,
           Work(r, o, wk), Fills(worker[r][o]), Fills(wk), wk.todo = worker[r][o].todo,
           UNCHANGED <<fills, read, cut>>, cached' \subseteq Indexes,
           frames' \in [Readers -> [Peers -> SUBSET Indexes]],
           global' \in [Peers -> Nat], perObject' \in [Peers -> Nat],
           GlobalOK', ObjectOK'
    PROVE  Inv'
<1>1. read' \in [Readers -> ReadType] /\ Placed'
  BY PlacedStep, Zenon DEF Inv, Typed, Fills, Rest
<1> QED BY <1>1, FillsCore

(* The same with the permits it has. *)
LEMMA WorkerHolds ==
    ASSUME Inv, NEW r \in Readers, NEW o \in Peers, NEW wk \in WorkType,
           Work(r, o, wk), HoldsObject(worker[r][o]), HoldsObject(wk),
           wk.todo = worker[r][o].todo,
           UNCHANGED <<fills, permits, read, cut>>, cached' \subseteq Indexes,
           frames' \in [Readers -> [Peers -> SUBSET Indexes]]
    PROVE  Inv'
<1>1. /\ HoldsGlobal(wk) /\ HoldsGlobal(worker[r][o])
      /\ Fills(wk) /\ Fills(worker[r][o])
  BY DEF HoldsObject, HoldsGlobal, Fills
<1>2. global' = global /\ perObject' = perObject
  BY DEF permits
<1>3. GlobalOK'
  BY <1>1, <1>2, GlobalSame DEF Inv
<1>4. ObjectOK'
  BY <1>1, <1>2, ObjectSame DEF Inv
<1>5. global' \in [Peers -> Nat] /\ perObject' \in [Peers -> Nat]
  BY <1>2 DEF Inv, Typed
<1> QED BY <1>1, <1>3, <1>4, <1>5, WorkerFills

-----------------------------------------------------------------------------
(* What becomes of a worker's record.                                      *)

LEMMA WorkerHas ==
    ASSUME Inv, NEW r \in Readers, NEW o \in Peers
    PROVE  worker[r][o] \in WorkType /\ WorkOK(worker[r][o], o)
BY DEF Inv, Typed, WorkersOK

LEMMA EndedHas ==
    ASSUME NEW wk \in WorkType, NEW done \in BOOLEAN, NEW o
    PROVE  /\ WorkEnded(wk, done) \in WorkType
           /\ WorkEnded(wk, done).pc = "ended"
           /\ WorkOK(WorkEnded(wk, done), o)
BY Zenon DEF WorkEnded, WorkIdle, WorkType, WorkOK, Rest

LEMMA ServedHas ==
    ASSUME NEW wk \in WorkType, NEW o \in Peers, wk.pc \notin Rest, WorkOK(wk, o)
    PROVE  /\ Served(wk) \in WorkType
           /\ Served(wk).pc \in {"ended", "open"}
           /\ WorkOK(Served(wk), o)
<1> DEFINE left == wk.todo \ {NextPage(wk)}
<1>1. CASE left = {}
  <2>1. Served(wk) = WorkEnded(wk, TRUE)
    BY <1>1 DEF Served
  <2> QED BY <2>1, EndedHas, Zenon
<1>2. CASE left # {}
  <2>1. Served(wk) = [wk EXCEPT !.pc = "open", !.todo = left, !.on = None]
    BY <1>2, Zenon DEF Served
  <2>2. left \in SUBSET Indexes /\ \A i \in left : Owner[i] = o
    BY DEF WorkType, WorkOK
  <2> HIDE DEF left
  <2>3. Served(wk) \in WorkType
    BY <2>1, <2>2, Zenon DEF WorkType
  <2>4. Served(wk).pc = "open" /\ Served(wk).todo = left
    BY <2>1 DEF WorkType
  <2> QED BY <2>2, <2>3, <2>4, <1>2 DEF WorkOK
<1> QED BY <1>1, <1>2

(* The next page of a worker that is not at rest is a page of its peer. *)
LEMMA PageHas ==
    ASSUME NEW wk \in WorkType, NEW o, wk.pc \notin Rest, WorkOK(wk, o)
    PROVE  NextPage(wk) \in Indexes /\ Owner[NextPage(wk)] = o
<1>1. NextPage(wk) \in wk.todo
  BY NextPageIsOne DEF WorkType, WorkOK
<1> QED BY <1>1 DEF WorkType, WorkOK

LEMMA OpenPageInv ==
    ASSUME Inv, NEW r \in Readers, NEW o \in Peers, OpenPage(r, o)
    PROVE  Inv'
<1> DEFINE wk == worker[r][o]
<1>1. wk \in WorkType /\ WorkOK(wk, o) /\ wk.pc \in {"open", "reopen"}
  BY WorkerHas DEF OpenPage
<1>2. frames' \in [Readers -> [Peers -> SUBSET Indexes]]
  BY DEF OpenPage, links, Inv, Typed
<1>3. ASSUME NEW new \in WorkType, Work(r, o, new), new.pc \in {"send", "join"},
             new.todo = wk.todo
      PROVE  Inv'
  <2>1. ~Leads(wk) /\ ~Leads(new) /\ new.pc # "wait" /\ wk.pc \notin Rest
    BY <1>1, <1>3 DEF Leads, Fills, Rest
  <2>2. WorkOK(new, o)
    BY <1>1, <1>3, <2>1 DEF WorkOK
  <2> QED BY <1>2, <1>3, <2>1, <2>2, WorkerAside DEF OpenPage, links
<1>4. CASE NextPage(wk) \in cached
  <2>1. Work(r, o, Sending(wk, "send"))
    BY <1>4 DEF OpenPage
  <2>2. /\ Sending(wk, "send") \in WorkType /\ Sending(wk, "send").pc = "send"
        /\ Sending(wk, "send").todo = wk.todo
    BY <1>1, Zenon DEF Sending, WorkType
  <2> QED BY <1>3, <2>1, <2>2
<1>5. CASE NextPage(wk) \notin cached
  <2>1. Work(r, o, [wk EXCEPT !.pc = "join", !.on = None])
    BY <1>5 DEF OpenPage
  <2>2. /\ [wk EXCEPT !.pc = "join", !.on = None] \in WorkType
        /\ [wk EXCEPT !.pc = "join", !.on = None].pc = "join"
        /\ [wk EXCEPT !.pc = "join", !.on = None].todo = wk.todo
    BY <1>1, Zenon DEF WorkType
  <2> QED BY <1>3, <2>1, <2>2, Zenon
<1> QED BY <1>4, <1>5

(* A fill whose pc, and perhaps error, changes. *)
FillPcs == {"acquire", "object", "fetch", "write", "commit", "release", "delete", "close"}

LEMMA MovedHas ==
    ASSUME NEW wk \in WorkType, NEW to \in FillPcs
    PROVE  /\ [wk EXCEPT !.pc = to] \in WorkType
           /\ [wk EXCEPT !.pc = to].pc = to
           /\ [wk EXCEPT !.pc = to].todo = wk.todo
BY DEF WorkType, FillPcs

LEMMA MovedErrHas ==
    ASSUME NEW wk \in WorkType, NEW to \in FillPcs, NEW e \in BOOLEAN
    PROVE  /\ [wk EXCEPT !.pc = to, !.err = e] \in WorkType
           /\ [wk EXCEPT !.pc = to, !.err = e].pc = to
           /\ [wk EXCEPT !.pc = to, !.err = e].todo = wk.todo
BY Zenon DEF WorkType, FillPcs

LEMMA AcquireGlobalInv ==
    ASSUME Inv, NEW r \in Readers, NEW o \in Peers, AcquireGlobal(r, o)
    PROVE  Inv'
<1> DEFINE wk == worker[r][o]
<1>1. wk \in WorkType /\ wk.pc = "acquire" /\ Fills(wk)
  BY WorkerHas DEF AcquireGlobal, Fills
<1>2. /\ UNCHANGED <<fills, read, cut, perObject, frames, cached>>
      /\ cached' \subseteq Indexes /\ frames' \in [Readers -> [Peers -> SUBSET Indexes]]
      /\ perObject' \in [Peers -> Nat]
  BY DEF AcquireGlobal, links, Inv, Typed
<1>3. ~HoldsGlobal(wk) /\ ~HoldsObject(wk)
  BY <1>1 DEF HoldsGlobal, HoldsObject
<1>4. CASE global[o] < PeerLimit
  <2> DEFINE new == [wk EXCEPT !.pc = "object"]
  <2>1. Work(r, o, new) /\ global' = [global EXCEPT ![o] = @ + 1]
    BY <1>4 DEF AcquireGlobal
  <2>2. new \in WorkType /\ new.pc = "object" /\ new.todo = wk.todo
    BY <1>1, MovedHas, Zenon DEF FillPcs
  <2> HIDE DEF new
  <2>3. HoldsGlobal(new) /\ ~HoldsObject(new) /\ Fills(new)
    BY <2>2 DEF HoldsGlobal, HoldsObject, Fills
  <2>4. GlobalOK'
    BY <1>3, <1>4, <2>1, <2>2, <2>3, GlobalTaken, Zenon DEF Inv
  <2>5. ObjectOK'
    BY <1>2, <1>3, <2>1, <2>2, <2>3, ObjectSame DEF Inv
  <2>6. global' \in [Peers -> Nat]
    BY <2>1 DEF Inv, Typed
  <2> QED BY <1>1, <1>2, <2>1, <2>2, <2>3, <2>4, <2>5, <2>6, WorkerFills
<1>5. CASE ~(global[o] < PeerLimit)
  <2> DEFINE new == [wk EXCEPT !.pc = "delete", !.err = TRUE]
  <2>1. Work(r, o, new) /\ global' = global
    BY <1>5 DEF AcquireGlobal, Overloaded
  <2>2. new \in WorkType /\ new.pc = "delete" /\ new.todo = wk.todo
    BY <1>1, MovedErrHas, Zenon DEF FillPcs
  <2> HIDE DEF new
  <2>3. ~HoldsGlobal(new) /\ ~HoldsObject(new) /\ Fills(new)
    BY <2>2 DEF HoldsGlobal, HoldsObject, Fills
  <2>4. GlobalOK'
    BY <1>3, <2>1, <2>2, <2>3, GlobalSame DEF Inv
  <2>5. ObjectOK'
    BY <1>2, <1>3, <2>1, <2>2, <2>3, ObjectSame DEF Inv
  <2>6. global' \in [Peers -> Nat]
    BY <2>1 DEF Inv, Typed
  <2> QED BY <1>1, <1>2, <2>1, <2>2, <2>3, <2>4, <2>5, <2>6, WorkerFills
<1> QED BY <1>4, <1>5

LEMMA AcquireObjectInv ==
    ASSUME Inv, NEW r \in Readers, NEW o \in Peers, AcquireObject(r, o)
    PROVE  Inv'
<1> DEFINE wk == worker[r][o]
<1>1. wk \in WorkType /\ wk.pc = "object" /\ Fills(wk)
  BY WorkerHas DEF AcquireObject, Fills
<1>2. /\ UNCHANGED <<fills, read, cut, frames, cached>>
      /\ cached' \subseteq Indexes /\ frames' \in [Readers -> [Peers -> SUBSET Indexes]]
  BY DEF AcquireObject, links, Inv, Typed
<1>3. HoldsGlobal(wk) /\ ~HoldsObject(wk)
  BY <1>1 DEF HoldsGlobal, HoldsObject
<1>4. CASE perObject[o] < ObjectLimit
  <2> DEFINE new == [wk EXCEPT !.pc = "fetch"]
  <2>1. Work(r, o, new) /\ global' = global /\ perObject' = [perObject EXCEPT ![o] = @ + 1]
    BY <1>4 DEF AcquireObject
  <2>2. new \in WorkType /\ new.pc = "fetch" /\ new.todo = wk.todo
    BY <1>1, MovedHas, Zenon DEF FillPcs
  <2> HIDE DEF new
  <2>3. HoldsGlobal(new) /\ HoldsObject(new) /\ Fills(new)
    BY <2>2 DEF HoldsGlobal, HoldsObject, Fills
  <2>4. GlobalOK'
    BY <1>3, <2>1, <2>2, <2>3, GlobalSame DEF Inv
  <2>5. ObjectOK'
    BY <1>3, <1>4, <2>1, <2>2, <2>3, ObjectTaken, Zenon DEF Inv
  <2>6. global' \in [Peers -> Nat] /\ perObject' \in [Peers -> Nat]
    BY <2>1 DEF Inv, Typed
  <2> QED BY <1>1, <1>2, <2>1, <2>2, <2>3, <2>4, <2>5, <2>6, WorkerFills
<1>5. CASE ~(perObject[o] < ObjectLimit)
  <2> DEFINE new == [wk EXCEPT !.pc = "delete", !.err = TRUE]
  <2>1. Work(r, o, new) /\ global' = [global EXCEPT ![o] = @ - 1] /\ perObject' = perObject
    BY <1>5 DEF AcquireObject, Overloaded
  <2>2. new \in WorkType /\ new.pc = "delete" /\ new.todo = wk.todo
    BY <1>1, MovedErrHas, Zenon DEF FillPcs
  <2> HIDE DEF new
  <2>3. ~HoldsGlobal(new) /\ ~HoldsObject(new) /\ Fills(new)
    BY <2>2 DEF HoldsGlobal, HoldsObject, Fills
  <2>4. GlobalOK' /\ global' \in [Peers -> Nat]
    BY <1>3, <2>1, <2>2, <2>3, GlobalReturned, Zenon DEF Inv
  <2>5. ObjectOK'
    BY <1>3, <2>1, <2>2, <2>3, ObjectSame DEF Inv
  <2>6. perObject' \in [Peers -> Nat]
    BY <2>1 DEF Inv, Typed
  <2> QED BY <1>1, <1>2, <2>1, <2>2, <2>3, <2>4, <2>5, <2>6, WorkerFills
<1> QED BY <1>4, <1>5

LEMMA ReleaseInv ==
    ASSUME Inv, NEW r \in Readers, NEW o \in Peers, Release(r, o)
    PROVE  Inv'
<1> DEFINE wk == worker[r][o]
           new == [wk EXCEPT !.pc = "delete"]
<1>1. wk \in WorkType /\ wk.pc = "release" /\ Fills(wk)
  BY WorkerHas DEF Release, Fills
<1>2. /\ UNCHANGED <<fills, read, cut, frames, cached>>
      /\ cached' \subseteq Indexes /\ frames' \in [Readers -> [Peers -> SUBSET Indexes]]
  BY DEF Release, links, Inv, Typed
<1>3. HoldsGlobal(wk) /\ HoldsObject(wk)
  BY <1>1 DEF HoldsGlobal, HoldsObject
<1>4. /\ Work(r, o, new) /\ global' = [global EXCEPT ![o] = @ - 1]
      /\ perObject' = [perObject EXCEPT ![o] = @ - 1]
  BY DEF Release
<1>5. new \in WorkType /\ new.pc = "delete" /\ new.todo = wk.todo
  BY <1>1, MovedHas, Zenon DEF FillPcs
<1> HIDE DEF new
<1>6. ~HoldsGlobal(new) /\ ~HoldsObject(new) /\ Fills(new)
  BY <1>5 DEF HoldsGlobal, HoldsObject, Fills
<1>7. GlobalOK' /\ global' \in [Peers -> Nat]
  BY <1>3, <1>4, <1>5, <1>6, GlobalReturned, Zenon DEF Inv
<1>8. ObjectOK' /\ perObject' \in [Peers -> Nat]
  BY <1>3, <1>4, <1>5, <1>6, ObjectReturned, Zenon DEF Inv
<1> QED BY <1>1, <1>2, <1>4, <1>5, <1>6, <1>7, <1>8, WorkerFills

(* A fill that has its permits and keeps them. *)
LEMMA HeldStep ==
    ASSUME Inv, NEW r \in Readers, NEW o \in Peers, NEW new \in WorkType, Work(r, o, new),
           worker[r][o].pc \in {"fetch", "write", "commit"},
           new.pc \in {"write", "commit", "release"}, new.todo = worker[r][o].todo,
           UNCHANGED <<fills, permits, read, cut>>, cached' \subseteq Indexes,
           frames' \in [Readers -> [Peers -> SUBSET Indexes]]
    PROVE  Inv'
<1>1. HoldsObject(worker[r][o]) /\ HoldsObject(new)
  BY DEF HoldsObject
<1> QED BY <1>1, WorkerHolds

LEMMA FetchPageInv ==
    ASSUME Inv, NEW r \in Readers, NEW o \in Peers, FetchPage(r, o)
    PROVE  Inv'
<1> DEFINE wk == worker[r][o]
           new == Sending(wk, "write")
<1>1. wk \in WorkType /\ wk.pc = "fetch" /\ Work(r, o, new)
  BY WorkerHas DEF FetchPage
<1>2. new \in WorkType /\ new.pc = "write" /\ new.todo = wk.todo
  BY <1>1, Zenon DEF Sending, WorkType
<1>3. /\ UNCHANGED <<fills, permits, read, cut>> /\ cached' \subseteq Indexes
      /\ frames' \in [Readers -> [Peers -> SUBSET Indexes]]
  BY DEF FetchPage, links, Inv, Typed
<1> HIDE DEF new
<1> QED BY <1>1, <1>2, <1>3, HeldStep

LEMMA FillFailsInv ==
    ASSUME Inv, NEW r \in Readers, NEW o \in Peers, FillFails(r, o)
    PROVE  Inv'
<1> DEFINE wk == worker[r][o]
           new == [wk EXCEPT !.pc = "release", !.err = TRUE]
<1>1. wk \in WorkType /\ wk.pc \in {"fetch", "write"} /\ Work(r, o, new)
  BY WorkerHas DEF FillFails
<1>2. new \in WorkType /\ new.pc = "release" /\ new.todo = wk.todo
  BY <1>1, MovedErrHas, Zenon DEF FillPcs
<1>3. /\ UNCHANGED <<fills, permits, read, cut>> /\ cached' \subseteq Indexes
      /\ frames' \in [Readers -> [Peers -> SUBSET Indexes]]
  BY DEF FillFails, links, Inv, Typed
<1> HIDE DEF new
<1> QED BY <1>1, <1>2, <1>3, HeldStep

LEMMA CommitPageInv ==
    ASSUME Inv, NEW r \in Readers, NEW o \in Peers, CommitPage(r, o)
    PROVE  Inv'
<1> DEFINE wk == worker[r][o]
           new == [wk EXCEPT !.pc = "release"]
<1>1. wk \in WorkType /\ WorkOK(wk, o) /\ wk.pc = "commit" /\ Work(r, o, new)
  BY WorkerHas DEF CommitPage
<1>2. new \in WorkType /\ new.pc = "release" /\ new.todo = wk.todo
  BY <1>1, MovedHas, Zenon DEF FillPcs
<1>3. cached' \subseteq Indexes
  <2>1. NextPage(wk) \in Indexes
    BY <1>1, PageHas DEF Rest
  <2> QED BY <2>1 DEF CommitPage, Inv, Typed
<1>4. /\ UNCHANGED <<fills, permits, read, cut>>
      /\ frames' \in [Readers -> [Peers -> SUBSET Indexes]]
  BY DEF CommitPage, links, Inv, Typed
<1> HIDE DEF new
<1> QED BY <1>1, <1>2, <1>3, <1>4, HeldStep

LEMMA StoreFailsInv ==
    ASSUME Inv, NEW r \in Readers, NEW o \in Peers, StoreFails(r, o)
    PROVE  Inv'
<1> DEFINE wk == worker[r][o]
<1>1. wk \in WorkType /\ wk.pc = "commit"
  BY WorkerHas DEF StoreFails
<1>2. /\ UNCHANGED <<fills, permits, read, cut>> /\ cached' \subseteq Indexes
      /\ frames' \in [Readers -> [Peers -> SUBSET Indexes]]
  BY DEF StoreFails, links, Inv, Typed
<1>3. PICK new \in WorkType :
         new.pc = "release" /\ new.todo = wk.todo /\ Work(r, o, new)
  <2>1. \/ Work(r, o, [wk EXCEPT !.pc = "release", !.err = TRUE])
        \/ Work(r, o, [wk EXCEPT !.pc = "release"])
    BY DEF StoreFails
  <2>2. CASE Work(r, o, [wk EXCEPT !.pc = "release", !.err = TRUE])
    BY <1>1, <2>2, MovedErrHas, Zenon DEF FillPcs
  <2>3. CASE Work(r, o, [wk EXCEPT !.pc = "release"])
    BY <1>1, <2>3, MovedHas, Zenon DEF FillPcs
  <2> QED BY <2>1, <2>2, <2>3
<1> QED BY <1>1, <1>2, <1>3, HeldStep

(* What a worker that has no permit ends or goes on with *)
LEMMA AsideTo ==
    ASSUME Inv, NEW r \in Readers, NEW o \in Peers, NEW new \in WorkType, Work(r, o, new),
           worker[r][o].pc \in {"open", "reopen", "wait", "send"},
           new.pc \in {"ended", "open"}, WorkOK(new, o),
           UNCHANGED <<cached, fills, permits, read, cut>>,
           frames' \in [Readers -> [Peers -> SUBSET Indexes]]
    PROVE  Inv'
<1>1. /\ ~Leads(worker[r][o]) /\ ~Leads(new) /\ new.pc # "wait"
      /\ worker[r][o].pc \notin Rest
  BY DEF Leads, Fills, Rest
<1> QED BY <1>1, WorkerAside

LEMMA CancelledInv ==
    ASSUME Inv, NEW r \in Readers, NEW o \in Peers, Cancelled(r, o)
    PROVE  Inv'
<1> DEFINE wk == worker[r][o]
<1>1. wk \in WorkType
  BY WorkerHas
<1>2. /\ UNCHANGED <<cached, fills, permits, read, cut>> /\ cached' \subseteq Indexes
      /\ frames' \in [Readers -> [Peers -> SUBSET Indexes]]
  BY DEF Cancelled, links, Inv, Typed
<1>3. CASE wk.pc \in {"open", "reopen", "wait", "send"} /\ Work(r, o, WorkEnded(wk, FALSE))
  BY <1>1, <1>2, <1>3, EndedHas, AsideTo, Zenon
<1>4. CASE /\ wk.pc \in {"fetch", "write"}
           /\ Work(r, o, [wk EXCEPT !.pc = "release", !.err = TRUE])
  <2> DEFINE new == [wk EXCEPT !.pc = "release", !.err = TRUE]
  <2>1. new \in WorkType /\ new.pc = "release" /\ new.todo = wk.todo
    BY <1>1, MovedErrHas, Zenon DEF FillPcs
  <2> HIDE DEF new
  <2>2. Work(r, o, new)
    BY <1>4 DEF new
  <2> QED BY <1>1, <1>2, <1>4, <2>1, <2>2, HeldStep
<1> QED BY <1>3, <1>4, Zenon DEF Cancelled

(* A frame is written, into the buffers or as it is read. *)
LEMMA FrameWrittenInv ==
    ASSUME Inv, NEW r \in Readers, NEW o \in Peers, Writes(worker[r][o]),
           Work(r, o, FrameWritten(worker[r][o])),
           UNCHANGED <<cached, fills, permits, cut, read>>,
           frames' \in [Readers -> [Peers -> SUBSET Indexes]]
    PROVE  Inv'
<1> DEFINE wk == worker[r][o]
<1>1. wk \in WorkType /\ WorkOK(wk, o)
  BY WorkerHas
<1>2. cached' \subseteq Indexes
  BY DEF Inv, Typed
<1>3. CASE wk.pc = "write"
  <2> DEFINE new == [wk EXCEPT !.pc = "commit"]
  <2>1. new \in WorkType /\ new.pc = "commit" /\ new.todo = wk.todo
    BY <1>1, MovedHas, Zenon DEF FillPcs
  <2>2. Work(r, o, new)
    BY <1>3 DEF FrameWritten
  <2> HIDE DEF new
  <2> QED BY <1>2, <1>3, <2>1, <2>2, HeldStep
<1>4. CASE wk.pc = "send"
  <2>1. Work(r, o, Served(wk))
    BY <1>4 DEF FrameWritten
  <2>2. /\ Served(wk) \in WorkType /\ Served(wk).pc \in {"ended", "open"}
        /\ WorkOK(Served(wk), o)
    BY <1>1, <1>4, ServedHas DEF Rest
  <2> QED BY <1>4, <2>1, <2>2, AsideTo
<1> QED BY <1>3, <1>4 DEF Writes

LEMMA WritePageInv ==
    ASSUME Inv, NEW r \in Readers, NEW o \in Peers, WritePage(r, o)
    PROVE  Inv'
<1> DEFINE wk == worker[r][o]
<1>1. frames' \in [Readers -> [Peers -> SUBSET Indexes]]
  <2>1. NextPage(wk) \in Indexes
    BY WorkerHas, PageHas DEF WritePage, Writes, Rest
  <2>2. frames \in [Readers -> [Peers -> SUBSET Indexes]]
    BY DEF Inv, Typed
  <2>3. \/ frames' = frames
        \/ frames' = [frames EXCEPT ![r][o] = @ \cup {NextPage(wk)}]
    BY DEF WritePage
  <2> HIDE DEF wk
  <2> QED BY <2>1, <2>2, <2>3
<1> QED BY <1>1, FrameWrittenInv DEF WritePage

-----------------------------------------------------------------------------
(* Joining and leaving pageFills.                                          *)

LEMMA JoinFillInv ==
    ASSUME Inv, NEW r \in Readers, NEW o \in Peers, JoinFill(r, o)
    PROVE  Inv'
<1> DEFINE wk == worker[r][o]
           i == NextPage(wk)
<1>1. wk \in WorkType /\ WorkOK(wk, o) /\ wk.pc = "join" /\ wk.pc \notin Rest
  BY WorkerHas DEF JoinFill, Rest
<1>2. i \in Indexes /\ Owner[i] = o
  BY <1>1, PageHas
<1>3. /\ UNCHANGED <<cached, global, perObject, frames, cut, read>>
  BY DEF JoinFill, links, permits
<1>4. ~Leads(wk) /\ ~HoldsGlobal(wk) /\ ~HoldsObject(wk)
  BY <1>1 DEF Leads, Fills, HoldsGlobal, HoldsObject
<1>5. CASE fills[i] = None
  <2> DEFINE new == [wk EXCEPT !.pc = "acquire", !.err = FALSE]
  <2>1. Work(r, o, new) /\ fills' = [fills EXCEPT ![i] = r]
    BY <1>5 DEF JoinFill
  <2>2. new \in WorkType /\ new.pc = "acquire" /\ new.todo = wk.todo
    BY <1>1, MovedErrHas, Zenon DEF FillPcs
  <2> HIDE DEF new
  <2>3. /\ NextPage(new) = i /\ WorkOK(new, o) /\ Fills(new) /\ Leads(new)
        /\ ~HoldsGlobal(new) /\ ~HoldsObject(new)
    BY <1>1, <2>2 DEF NextPage, WorkOK, Fills, Leads, HoldsGlobal, HoldsObject
  <2>4. /\ worker' \in [Readers -> [Peers -> WorkType]] /\ worker'[r][o] = new
        /\ \A q \in Readers, p \in Peers : (q # r \/ p # o) => worker'[q][p] = worker[q][p]
    BY <2>1, <2>2, OneWorker DEF Inv
  <2>5. /\ fills' \in [Indexes -> Readers \cup {None}] /\ fills'[i] = r
        /\ \A j \in Indexes : j # i => fills'[j] = fills[j]
    BY <1>2, <2>1 DEF Inv, Typed
  <2> HIDE DEF wk, i
  <2>6. Typed'
    BY <1>3, <2>4, <2>5 DEF Inv, Typed
  <2>7. WorkersOK'
    BY <2>1, <2>2, <2>3, WorkersStep DEF Inv
  <2>8. FillsListed'
    <3> SUFFICES ASSUME NEW q \in Readers, NEW p \in Peers, Fills(worker'[q][p])
                 PROVE  fills'[NextPage(worker'[q][p])] = q
      BY DEF FillsListed, Fills, NextPage
    <3>1. CASE q = r /\ p = o
      BY <3>1, <2>3, <2>4, <2>5
    <3>2. CASE q # r \/ p # o
      <4>1. Fills(worker[q][p]) /\ worker'[q][p] = worker[q][p]
        BY <3>2, <2>4
      <4>2. fills[NextPage(worker[q][p])] = q
        BY <4>1 DEF Inv, Coalesced, FillsListed
      <4>3. NextPage(worker[q][p]) \in Indexes
        BY <4>1, WorkerHas, PageHas DEF Fills, Rest
      <4>4. NextPage(worker[q][p]) # i
        BY <4>2, <1>5, PageFillsAssumption
      <4> QED BY <4>1, <4>2, <4>3, <4>4, <2>5
    <3> QED BY <3>1, <3>2
  <2>9. ListedFills'
    <3> SUFFICES ASSUME NEW j \in Indexes, fills'[j] # None
                 PROVE  /\ Fills(worker'[fills'[j]][Owner[j]])
                        /\ NextPage(worker'[fills'[j]][Owner[j]]) = j
      BY DEF ListedFills, Fills, NextPage
    <3>1. CASE j = i
      BY <3>1, <1>2, <2>3, <2>4, <2>5
    <3>2. CASE j # i
      <4>1. fills'[j] = fills[j] /\ fills[j] \in Readers /\ Owner[j] \in Peers
        BY <3>2, <2>5, PageFillsAssumption
      <4>2. Fills(worker[fills[j]][Owner[j]]) /\ NextPage(worker[fills[j]][Owner[j]]) = j
        BY <4>1 DEF Inv, Coalesced, ListedFills
      <4>3. fills[j] # r \/ Owner[j] # o
        BY <4>2, <1>4 DEF wk, Leads
      <4> QED BY <4>1, <4>2, <4>3, <2>4
    <3> QED BY <3>1, <3>2
  <2>10. WaitersHaveLeader'
    <3> SUFFICES ASSUME NEW q \in Readers, NEW l \in Readers, NEW p \in Peers,
                        worker'[q][p].pc = "wait", worker'[q][p].on = l
                 PROVE  /\ Leads(worker'[l][p])
                        /\ NextPage(worker'[l][p]) = NextPage(worker'[q][p])
      BY DEF WaitersHaveLeader, Waits, Leads, Fills, NextPage
    <3>1. worker'[q][p] = worker[q][p]
      BY <2>2, <2>4
    <3>2. Leads(worker[l][p]) /\ NextPage(worker[l][p]) = NextPage(worker[q][p])
      BY <3>1 DEF Inv, Coalesced, WaitersHaveLeader, Waits
    <3>3. worker'[l][p] = worker[l][p]
      BY <3>2, <1>4, <2>4 DEF wk
    <3> QED BY <3>1, <3>2, <3>3
  <2>11. Placed'
    BY <1>1, <1>3, <2>1, <2>2, PlacedStep DEF Inv, wk
  <2>12. GlobalOK'
    BY <1>3, <1>4, <2>1, <2>2, <2>3, GlobalSame DEF Inv, wk
  <2>13. ObjectOK'
    BY <1>3, <1>4, <2>1, <2>2, <2>3, ObjectSame DEF Inv, wk
  <2> QED BY <2>6, <2>7, <2>8, <2>9, <2>10, <2>11, <2>12, <2>13 DEF Inv, Coalesced
<1>6. CASE fills[i] # None
  <2> DEFINE new == [wk EXCEPT !.pc = "wait", !.on = fills[i]]
  <2>1. Work(r, o, new) /\ fills' = fills
    BY <1>6 DEF JoinFill
  <2>2. fills[i] \in Readers
    BY <1>2, <1>6 DEF Inv, Typed
  <2>3. new \in WorkType /\ new.pc = "wait" /\ new.todo = wk.todo /\ new.on = fills[i]
    BY <1>1, <2>2, Zenon DEF WorkType
  <2> HIDE DEF new
  <2>4. /\ NextPage(new) = i /\ WorkOK(new, o) /\ ~Leads(new)
        /\ ~HoldsGlobal(new) /\ ~HoldsObject(new)
    BY <1>1, <2>3 DEF NextPage, WorkOK, Fills, Leads, HoldsGlobal, HoldsObject
  <2>5. /\ worker' \in [Readers -> [Peers -> WorkType]] /\ worker'[r][o] = new
        /\ \A q \in Readers, p \in Peers : (q # r \/ p # o) => worker'[q][p] = worker[q][p]
    BY <2>1, <2>3, OneWorker DEF Inv
  <2> HIDE DEF wk, i
  <2>6. Typed'
    BY <1>3, <2>1, <2>5 DEF Inv, Typed
  <2>7. WorkersOK'
    BY <2>1, <2>3, <2>4, WorkersStep DEF Inv
  <2>8. FillsListed'
    <3> SUFFICES ASSUME NEW q \in Readers, NEW p \in Peers, Fills(worker'[q][p])
                 PROVE  fills[NextPage(worker'[q][p])] = q
      BY <2>1 DEF FillsListed, Fills, NextPage
    <3>1. worker'[q][p] = worker[q][p]
      BY <2>4, <2>5 DEF Leads
    <3> QED BY <3>1 DEF Inv, Coalesced, FillsListed
  <2>9. ListedFills'
    <3> SUFFICES ASSUME NEW j \in Indexes, fills[j] # None
                 PROVE  /\ Fills(worker'[fills[j]][Owner[j]])
                        /\ NextPage(worker'[fills[j]][Owner[j]]) = j
      BY <2>1 DEF ListedFills, Fills, NextPage
    <3>1. /\ Fills(worker[fills[j]][Owner[j]]) /\ NextPage(worker[fills[j]][Owner[j]]) = j
          /\ fills[j] \in Readers /\ Owner[j] \in Peers
      BY PageFillsAssumption DEF Inv, Typed, Coalesced, ListedFills
    <3>2. fills[j] # r \/ Owner[j] # o
      BY <3>1, <1>4 DEF wk, Leads
    <3> QED BY <3>1, <3>2, <2>5
  <2>10. WaitersHaveLeader'
    <3> SUFFICES ASSUME NEW q \in Readers, NEW l \in Readers, NEW p \in Peers,
                        worker'[q][p].pc = "wait", worker'[q][p].on = l
                 PROVE  /\ Leads(worker'[l][p])
                        /\ NextPage(worker'[l][p]) = NextPage(worker'[q][p])
      BY DEF WaitersHaveLeader, Waits, Leads, Fills, NextPage
    <3>1. CASE q = r /\ p = o
      <4>1. l = fills[i] /\ p = Owner[i] /\ NextPage(worker'[q][p]) = i
        BY <3>1, <1>2, <2>3, <2>4, <2>5
      <4>2. Fills(worker[l][p]) /\ NextPage(worker[l][p]) = i
        BY <4>1, <1>2, <1>6 DEF Inv, Coalesced, ListedFills
      <4>3. worker'[l][p] = worker[l][p]
        BY <4>2, <1>4, <2>5 DEF wk, Leads
      <4> QED BY <4>1, <4>2, <4>3 DEF Leads
    <3>2. CASE q # r \/ p # o
      <4>1. worker'[q][p] = worker[q][p]
        BY <3>2, <2>5
      <4>2. Leads(worker[l][p]) /\ NextPage(worker[l][p]) = NextPage(worker[q][p])
        BY <4>1 DEF Inv, Coalesced, WaitersHaveLeader, Waits
      <4>3. worker'[l][p] = worker[l][p]
        BY <4>2, <1>4, <2>5 DEF wk
      <4> QED BY <4>1, <4>2, <4>3
    <3> QED BY <3>1, <3>2
  <2>11. Placed'
    BY <1>1, <1>3, <2>1, <2>3, PlacedStep DEF Inv, wk
  <2>12. GlobalOK'
    BY <1>3, <1>4, <2>1, <2>3, <2>4, GlobalSame DEF Inv, wk
  <2>13. ObjectOK'
    BY <1>3, <1>4, <2>1, <2>3, <2>4, ObjectSame DEF Inv, wk
  <2> QED BY <2>6, <2>7, <2>8, <2>9, <2>10, <2>11, <2>12, <2>13 DEF Inv, Coalesced
<1> QED BY <1>5, <1>6

LEMMA DeleteFillInv ==
    ASSUME Inv, NEW r \in Readers, NEW o \in Peers, DeleteFill(r, o)
    PROVE  Inv'
<1> DEFINE wk == worker[r][o]
           i == NextPage(wk)
           new == [wk EXCEPT !.pc = "close"]
<1>1. /\ wk \in WorkType /\ WorkOK(wk, o) /\ wk.pc = "delete" /\ wk.pc \notin Rest
      /\ Work(r, o, new) /\ fills' = [fills EXCEPT ![i] = None]
  BY WorkerHas DEF DeleteFill, Rest
<1>2. i \in Indexes /\ Owner[i] = o
  BY <1>1, PageHas
<1>3. UNCHANGED <<cached, global, perObject, frames, cut, read>>
  BY DEF DeleteFill, links, permits
<1>4. Fills(wk) /\ ~HoldsGlobal(wk) /\ ~HoldsObject(wk)
  BY <1>1 DEF Fills, HoldsGlobal, HoldsObject
<1>5. new \in WorkType /\ new.pc = "close" /\ new.todo = wk.todo
  BY <1>1, MovedHas, Zenon DEF FillPcs
<1>6. fills[i] = r
  BY <1>4 DEF Inv, Coalesced, FillsListed
<1> HIDE DEF new
<1>7. /\ NextPage(new) = i /\ WorkOK(new, o) /\ ~Fills(new) /\ Leads(new)
      /\ ~HoldsGlobal(new) /\ ~HoldsObject(new)
  BY <1>1, <1>5 DEF NextPage, WorkOK, Fills, Leads, HoldsGlobal, HoldsObject
<1>8. /\ worker' \in [Readers -> [Peers -> WorkType]] /\ worker'[r][o] = new
      /\ \A q \in Readers, p \in Peers : (q # r \/ p # o) => worker'[q][p] = worker[q][p]
  BY <1>1, <1>5, OneWorker DEF Inv
<1>9. /\ fills' \in [Indexes -> Readers \cup {None}] /\ fills'[i] = None
      /\ \A j \in Indexes : j # i => fills'[j] = fills[j]
  BY <1>1, <1>2 DEF Inv, Typed
<1> HIDE DEF wk, i
<1>10. Typed'
  BY <1>3, <1>8, <1>9 DEF Inv, Typed
<1>11. WorkersOK'
  BY <1>1, <1>5, <1>7, WorkersStep DEF Inv
<1>12. FillsListed'
  <2> SUFFICES ASSUME NEW q \in Readers, NEW p \in Peers, Fills(worker'[q][p])
               PROVE  fills'[NextPage(worker'[q][p])] = q
    BY DEF FillsListed, Fills, NextPage
  <2>1. (q # r \/ p # o) /\ worker'[q][p] = worker[q][p]
    BY <1>7, <1>8
  <2>2. fills[NextPage(worker[q][p])] = q
    BY <2>1 DEF Inv, Coalesced, FillsListed
  <2>3. NextPage(worker[q][p]) \in Indexes /\ Owner[NextPage(worker[q][p])] = p
    BY <2>1, WorkerHas, PageHas DEF Fills, Rest
  <2>4. NextPage(worker[q][p]) # i
    BY <2>1, <2>2, <2>3, <1>2, <1>6
  <2> QED BY <2>1, <2>2, <2>3, <2>4, <1>9
<1>13. ListedFills'
  <2> SUFFICES ASSUME NEW j \in Indexes, fills'[j] # None
               PROVE  /\ Fills(worker'[fills'[j]][Owner[j]])
                      /\ NextPage(worker'[fills'[j]][Owner[j]]) = j
    BY DEF ListedFills, Fills, NextPage
  <2>1. /\ j # i /\ fills'[j] = fills[j] /\ fills[j] \in Readers
        /\ Owner[j] \in Peers
    BY <1>9, PageFillsAssumption
  <2>2. Fills(worker[fills[j]][Owner[j]]) /\ NextPage(worker[fills[j]][Owner[j]]) = j
    BY <2>1 DEF Inv, Coalesced, ListedFills
  <2>3. fills[j] # r \/ Owner[j] # o
    BY <2>1, <2>2 DEF wk, i
  <2> QED BY <2>1, <2>2, <2>3, <1>8
<1>14. WaitersHaveLeader'
  <2> SUFFICES ASSUME NEW q \in Readers, NEW l \in Readers, NEW p \in Peers,
                      worker'[q][p].pc = "wait", worker'[q][p].on = l
               PROVE  /\ Leads(worker'[l][p])
                      /\ NextPage(worker'[l][p]) = NextPage(worker'[q][p])
    BY DEF WaitersHaveLeader, Waits, Leads, Fills, NextPage
  <2>1. worker'[q][p] = worker[q][p]
    BY <1>5, <1>8
  <2>2. Leads(worker[l][p]) /\ NextPage(worker[l][p]) = NextPage(worker[q][p])
    BY <2>1 DEF Inv, Coalesced, WaitersHaveLeader, Waits
  <2>3. CASE l = r /\ p = o
    BY <2>1, <2>2, <2>3, <1>7, <1>8 DEF wk, i
  <2>4. CASE l # r \/ p # o
    BY <2>1, <2>2, <2>4, <1>8
  <2> QED BY <2>3, <2>4
<1>15. Placed'
  BY <1>1, <1>3, <1>5, PlacedStep DEF Inv, wk
<1>16. GlobalOK'
  BY <1>1, <1>3, <1>4, <1>5, <1>7, GlobalSame DEF Inv, wk
<1>17. ObjectOK'
  BY <1>1, <1>3, <1>4, <1>5, <1>7, ObjectSame DEF Inv, wk
<1> QED BY <1>10, <1>11, <1>12, <1>13, <1>14, <1>15, <1>16, <1>17 DEF Inv, Coalesced

(* A worker when a call it may be waiting for is closed *)
LEMMA CloseHas ==
    ASSUME Inv, NEW r \in Readers, NEW o \in Peers, CloseCall(r, o),
           NEW q \in Readers, NEW p \in Peers
    PROVE  /\ worker'[q][p] \in WorkType /\ WorkOK(worker'[q][p], p)
           /\ (q = r /\ p = o) => worker'[q][p].pc \in {"ended", "open"}
           /\ ((q # r \/ p # o) /\ ~(p = o /\ Waits(q, o, r)))
                 => worker'[q][p] = worker[q][p]
           /\ (q # r /\ p = o /\ Waits(q, o, r)) => worker'[q][p].pc \in {"ended", "reopen"}
<1> DEFINE wk == worker[r][o]
<1>1. /\ wk \in WorkType /\ WorkOK(wk, o) /\ wk.pc = "close" /\ wk.pc \notin Rest
      /\ worker[q][p] \in WorkType /\ WorkOK(worker[q][p], p)
  BY WorkerHas DEF CloseCall, Rest
<1>2. worker'[q] = [worker[q] EXCEPT ![o] =
              IF q = r THEN (IF wk.err THEN WorkEnded(wk, FALSE) ELSE Served(wk))
              ELSE IF Waits(q, o, r) THEN Woken(worker[q][o], wk.err) ELSE worker[q][o]]
  BY DEF CloseCall
<1>3. worker[q] \in [Peers -> WorkType]
  BY DEF Inv, Typed
<1>4. CASE p # o
  BY <1>1, <1>2, <1>3, <1>4
<1>5. CASE p = o /\ q = r
  <2>1. \/ worker'[q][p] = WorkEnded(wk, FALSE)
        \/ worker'[q][p] = Served(wk)
    BY <1>2, <1>3, <1>5, Zenon
  <2>2. worker'[q][p] \in WorkType /\ WorkOK(worker'[q][p], p)
        /\ worker'[q][p].pc \in {"ended", "open"}
    <3>1. CASE worker'[q][p] = WorkEnded(wk, FALSE)
      BY <3>1, <1>1, <1>5, EndedHas, Zenon
    <3>2. CASE worker'[q][p] = Served(wk)
      BY <3>2, <1>1, <1>5, ServedHas, Zenon
    <3> QED BY <2>1, <3>1, <3>2, Zenon
  <2> QED BY <2>2, <1>5, Zenon
<1>6. CASE p = o /\ q # r /\ Waits(q, o, r)
  <2> DEFINE new == [worker[q][p] EXCEPT !.pc = "reopen"]
  <2>1. worker'[q][p] = WorkEnded(worker[q][p], FALSE) \/ worker'[q][p] = new
    BY <1>2, <1>3, <1>6, Zenon DEF Woken
  <2>2. new \in WorkType /\ new.pc = "reopen" /\ new.todo = worker[q][p].todo
    BY <1>1 DEF WorkType
  <2> HIDE DEF new
  <2>3. WorkOK(new, p)
    BY <1>1, <1>6, <2>2 DEF WorkOK, Waits, Rest
  <2> QED BY <2>1, <2>2, <2>3, <1>1, <1>6, EndedHas, Zenon
<1>7. CASE p = o /\ q # r /\ ~Waits(q, o, r)
  BY <1>1, <1>2, <1>3, <1>7
<1> QED BY <1>4, <1>5, <1>6, <1>7

LEMMA CloseCallInv ==
    ASSUME Inv, NEW r \in Readers, NEW o \in Peers, CloseCall(r, o)
    PROVE  Inv'
<1> DEFINE wk == worker[r][o]
<1>1. wk.pc = "close" /\ UNCHANGED <<cached, fills, global, perObject, frames, cut, read>>
  BY DEF CloseCall, links, permits
<1>2. ~Fills(wk) /\ wk.pc \notin Rest /\ wk.pc # "wait"
  BY <1>1 DEF Fills, Rest
<1>3. \A q \in Readers, p \in Peers :
         Fills(worker'[q][p]) \/ Fills(worker[q][p]) => worker'[q][p] = worker[q][p]
  <2> SUFFICES ASSUME NEW q \in Readers, NEW p \in Peers,
                      Fills(worker'[q][p]) \/ Fills(worker[q][p])
               PROVE  worker'[q][p] = worker[q][p]
    OBVIOUS
  <2>1. CASE q = r /\ p = o
    BY <2>1, <1>2, CloseHas DEF Fills
  <2>2. CASE q # r /\ p = o /\ Waits(q, o, r)
    BY <2>2, CloseHas DEF Fills, Waits
  <2>3. CASE (q # r \/ p # o) /\ ~(p = o /\ Waits(q, o, r))
    BY <2>3, CloseHas
  <2> QED BY <2>1, <2>2, <2>3
<1>4. Typed'
  <2>1. worker' \in [Readers -> [Peers -> WorkType]]
    <3>1. /\ DOMAIN worker' = Readers
          /\ \A q \in Readers : worker'[q] = [p \in Peers |-> worker'[q][p]]
          /\ worker' = [q \in Readers |-> worker'[q]]
      BY Zenon DEF CloseCall, Inv, Typed
    <3>2. \A q \in Readers, p \in Peers : worker'[q][p] \in WorkType
      BY CloseHas
    <3> QED BY <3>1, <3>2
  <2> QED BY <2>1, <1>1 DEF Inv, Typed
<1>5. WorkersOK'
  <2>1. \A q \in Readers, p \in Peers : WorkOK(worker'[q][p], p)
    BY CloseHas
  <2> QED BY <2>1 DEF WorkersOK, WorkOK
<1>6. FillsListed'
  <2> SUFFICES ASSUME NEW q \in Readers, NEW p \in Peers, Fills(worker'[q][p])
               PROVE  fills[NextPage(worker'[q][p])] = q
    BY <1>1 DEF FillsListed, Fills, NextPage
  <2> QED BY <1>3 DEF Inv, Coalesced, FillsListed
<1>7. ListedFills'
  <2> SUFFICES ASSUME NEW j \in Indexes, fills[j] # None
               PROVE  /\ Fills(worker'[fills[j]][Owner[j]])
                      /\ NextPage(worker'[fills[j]][Owner[j]]) = j
    BY <1>1 DEF ListedFills, Fills, NextPage
  <2>1. /\ Fills(worker[fills[j]][Owner[j]]) /\ NextPage(worker[fills[j]][Owner[j]]) = j
        /\ fills[j] \in Readers /\ Owner[j] \in Peers
    BY PageFillsAssumption DEF Inv, Typed, Coalesced, ListedFills
  <2> QED BY <2>1, <1>3
<1>8. WaitersHaveLeader'
  <2> SUFFICES ASSUME NEW q \in Readers, NEW l \in Readers, NEW p \in Peers,
                      worker'[q][p].pc = "wait", worker'[q][p].on = l
               PROVE  /\ Leads(worker'[l][p])
                      /\ NextPage(worker'[l][p]) = NextPage(worker'[q][p])
    BY DEF WaitersHaveLeader, Waits, Leads, Fills, NextPage
  <2>1. worker'[q][p] = worker[q][p] /\ ~(p = o /\ l = r)
    BY CloseHas DEF Waits
  <2>2. Leads(worker[l][p]) /\ NextPage(worker[l][p]) = NextPage(worker[q][p])
    BY <2>1 DEF Inv, Coalesced, WaitersHaveLeader, Waits
  <2>3. ~Waits(l, o, r) \/ p # o
    BY <2>2 DEF Waits, Leads, Fills
  <2>4. worker'[l][p] = worker[l][p]
    BY <2>1, <2>3, CloseHas
  <2> QED BY <2>1, <2>2, <2>4
<1>9. Placed'
  <2>1. \A q \in Readers, p \in Peers : worker[q][p].pc \in Rest => worker'[q][p].pc \in Rest
    <3> SUFFICES ASSUME NEW q \in Readers, NEW p \in Peers, worker[q][p].pc \in Rest
                 PROVE  worker'[q][p] = worker[q][p]
      OBVIOUS
    <3>1. (q # r \/ p # o) /\ ~(p = o /\ Waits(q, o, r))
      BY <1>2 DEF Waits, Rest
    <3> QED BY <3>1, CloseHas
  <2>2. \A q \in Readers, p \in Peers : ~Allows(read[q], p) => worker'[q][p].pc \in Rest
    BY <2>1 DEF Inv, Placed
  <2> QED BY <2>2, <1>1 DEF Inv, Placed, Allows, Plan
<1>10. \A q \in Readers, p \in Peers :
          /\ HoldsGlobal(worker'[q][p]) <=> HoldsGlobal(worker[q][p])
          /\ HoldsObject(worker'[q][p]) <=> HoldsObject(worker[q][p])
  <2>1. \A w : HoldsGlobal(w) \/ HoldsObject(w) => Fills(w)
    BY DEF HoldsGlobal, HoldsObject, Fills
  <2> QED BY <2>1, <1>3
<1>11. GlobalOK'
  <2>1. \A p \in Peers : {q \in Readers : HoldsGlobal(worker'[q][p])}
                           = {q \in Readers : HoldsGlobal(worker[q][p])}
    BY <1>10
  <2> QED BY <2>1, <1>1, Zenon DEF Inv, GlobalOK, HoldsGlobal
<1>12. ObjectOK'
  <2>1. \A p \in Peers : {q \in Readers : HoldsObject(worker'[q][p])}
                           = {q \in Readers : HoldsObject(worker[q][p])}
    BY <1>10
  <2> QED BY <2>1, <1>1 DEF Inv, ObjectOK, HoldsObject
<1> QED BY <1>4, <1>5, <1>6, <1>7, <1>8, <1>9, <1>11, <1>12 DEF Inv, Coalesced

-----------------------------------------------------------------------------
(* The steps of a coordinator.                                             *)

LEMMA OneRead ==
    ASSUME Typed, NEW r \in Readers, NEW rd \in ReadType, Step(r, rd)
    PROVE  /\ read' \in [Readers -> ReadType] /\ read'[r] = rd
           /\ \A q \in Readers : q # r => read'[q] = read[q]
BY DEF Typed, Step

LEMMA ReadPlaced ==
    ASSUME Inv, NEW r \in Readers, NEW rd \in ReadType, Step(r, rd), Plan(rd),
           \A q \in Readers, o \in Peers :
               q # r => worker'[q][o] = worker[q][o],
           \A o \in Peers : Allows(rd, o) \/ worker'[r][o].pc \in Rest
    PROVE  Placed'
<1>1. ASSUME NEW q \in Readers, NEW p \in Peers, ~Allows(read'[q], p)
      PROVE  worker'[q][p].pc \in Rest
  <2>1. Typed /\ (~Allows(read[q], p) => worker[q][p].pc \in Rest)
    BY Zenon DEF Inv, Placed
  <2>2. read'[r] = rd /\ (q # r => read'[q] = read[q])
    BY <2>1, OneRead, Zenon
  <2>3. CASE q = r
    BY <1>1, <2>2, <2>3, Zenon
  <2>4. CASE q # r
    BY <1>1, <2>1, <2>2, <2>4, Zenon
  <2> QED BY <2>3, <2>4
<1>2. \A q \in Readers : Plan(read'[q])
  BY OneRead DEF Inv, Placed
<1> QED BY <1>1, <1>2 DEF Placed, Allows, Plan

LEMMA ReadStep ==
    ASSUME Inv, NEW r \in Readers, NEW rd \in ReadType, Step(r, rd), Plan(rd),
           \A o \in Peers : Allows(read[r], o) => Allows(rd, o) \/ worker[r][o].pc \in Rest,
           UNCHANGED <<cached, fills, permits, worker>>,
           frames' \in [Readers -> [Peers -> SUBSET Indexes]],
           cut' \in [Readers -> [Peers -> BOOLEAN]]
    PROVE  Inv'
<1>1. Typed'
  BY OneRead DEF Inv, Typed, permits
<1>2. WorkersOK'
  BY DEF Inv, WorkersOK, WorkOK
<1>3. Coalesced'
  BY CoalescedKept DEF Inv
<1>4. Placed'
  <2>1. \A o \in Peers : Allows(rd, o) \/ worker[r][o].pc \in Rest
    BY DEF Inv, Placed
  <2> QED BY <2>1, ReadPlaced
<1>5. GlobalOK'
  BY Zenon DEF Inv, GlobalOK, permits, HoldsGlobal
<1>6. ObjectOK'
  BY Zenon DEF Inv, ObjectOK, permits, HoldsObject
<1> QED BY <1>1, <1>2, <1>3, <1>4, <1>5, <1>6 DEF Inv

LEMMA ReadHas ==
    ASSUME Inv, NEW r \in Readers
    PROVE  read[r] \in ReadType /\ Plan(read[r])
BY DEF Inv, Typed, Placed

LEMMA OpenedHas ==
    ASSUME NEW rd \in ReadType, rd.at \in Indexes, rd.at .. rd.last \subseteq Indexes,
           rd.peer \notin rd.opened
    PROVE  /\ Opened(rd) \in ReadType /\ Plan(Opened(rd))
           /\ Opened(rd).pc \in {"stream", "opening"} /\ Opened(rd).opened = rd.opened
<1>1. \/ Opened(rd) = [rd EXCEPT !.asked = None, !.pc = "stream"]
      \/ Opened(rd) = [rd EXCEPT !.asked = None, !.pc = "opening"]
  BY Zenon DEF Opened
<1> QED BY <1>1, Zenon DEF ReadType, Plan, Over, Ends

LEMMA PlanHas ==
    ASSUME NEW rd \in ReadType
    PROVE  rd.at \in Nat /\ rd.last \in Nat
<1>1. Indexes \subseteq Nat
  BY PageFillsAssumption
<1>2. rd.at \in Indexes \cup {0} /\ rd.last \in Indexes \cup {0}
  BY DEF ReadType
<1>3. \A i \in Indexes \cup {0} : i \in Nat
  BY <1>1
<1> QED BY <1>2, <1>3

LEMMA DeliveredHas ==
    ASSUME NEW rd \in ReadType, rd.at \in Indexes, rd.at .. rd.last \subseteq Indexes,
           rd.peer \notin rd.opened
    PROVE  /\ Delivered(rd) \in ReadType /\ Plan(Delivered(rd))
           /\ Delivered(rd).pc \in {"stream", "ends"} /\ Delivered(rd).opened = rd.opened
<1>1. rd.at \in Nat /\ rd.last \in Nat
  BY PlanHas
<1>2. CASE rd.at < rd.last
  <2>1. Delivered(rd) = [rd EXCEPT !.pc = "stream", !.at = rd.at + 1]
    BY <1>2 DEF Delivered
  <2>2. rd.at + 1 \in Indexes /\ (rd.at + 1) .. rd.last \subseteq Indexes
    BY <1>1, <1>2
  <2> QED BY <2>1, <2>2, Zenon DEF ReadType, Plan, Over, Ends
<1>3. CASE ~(rd.at < rd.last)
  <2>1. Delivered(rd) = [rd EXCEPT !.pc = "ends"]
    BY <1>3 DEF Delivered
  <2> QED BY <2>1 DEF ReadType, Plan, Over, Ends
<1> QED BY <1>2, <1>3

(* A read that is over, or falls back *)
LEMMA OverHas ==
    ASSUME NEW to \in Over
    PROVE  /\ [ReadIdle EXCEPT !.pc = to] \in ReadType /\ Plan([ReadIdle EXCEPT !.pc = to])
           /\ \A o : Allows([ReadIdle EXCEPT !.pc = to], o)
BY DEF ReadIdle, ReadType, Plan, Over, Ends, Allows

(* The connections of a read are closed. *)
LEMMA ClosedHas ==
    ASSUME Inv, NEW r \in Readers, Closed(r)
    PROVE  cut' \in [Readers -> [Peers -> BOOLEAN]]
BY DEF Inv, Typed, Closed

LEMMA OverInv ==
    ASSUME Inv, NEW r \in Readers, NEW to \in Over, Step(r, [ReadIdle EXCEPT !.pc = to]),
           UNCHANGED <<cached, fills, permits, worker, frames>>,
           cut' \in [Readers -> [Peers -> BOOLEAN]]
    PROVE  Inv'
<1>1. frames' \in [Readers -> [Peers -> SUBSET Indexes]]
  BY DEF Inv, Typed
<1> QED BY <1>1, OverHas, ReadStep

LEMMA AbortInv ==
    ASSUME Inv, NEW r \in Readers, Abort(r)
    PROVE  Inv'
BY OverInv, ClosedHas DEF Abort, Over, Ends

LEMMA StartInv ==
    ASSUME Inv, NEW r \in Readers, NEW req \in Requests[r], Start(r, req)
    PROVE  Inv'
<1> DEFINE rd == [ReadIdle EXCEPT !.peer = req.peer, !.at = req.first, !.last = req.last]
<1>1. /\ rd \in ReadType /\ rd.at \in Indexes /\ rd.at .. rd.last \subseteq Indexes
      /\ rd.peer \notin rd.opened
  BY PageFillsAssumption, Zenon DEF ReadIdle, ReadType
<1>2. Step(r, Opened(rd)) /\ read[r].pc = "idle"
  BY DEF Start
<1>3. \A o \in Peers : ~Allows(read[r], o)
  BY <1>2 DEF Allows, Over, Ends
<1>4. /\ UNCHANGED <<cached, fills, permits, worker>>
      /\ frames' \in [Readers -> [Peers -> SUBSET Indexes]]
      /\ cut' \in [Readers -> [Peers -> BOOLEAN]]
  BY DEF Start, links, Inv, Typed
<1> HIDE DEF rd
<1> QED BY <1>1, <1>2, <1>3, <1>4, OpenedHas, ReadStep

(* A worker begins where the read has none. *)
LEMMA BeginWork ==
    ASSUME Inv, NEW r \in Readers, NEW o \in Peers, NEW rd \in ReadType, NEW S \in SUBSET Indexes,
           Step(r, rd), Work(r, o, [WorkIdle EXCEPT !.pc = "open", !.todo = S]),
           S # {}, \A i \in S : Owner[i] = o, worker[r][o].pc \in Rest, Plan(rd),
           Allows(rd, o), \A p \in Peers : Allows(read[r], p) => Allows(rd, p),
           UNCHANGED <<cached, fills, permits, links>>
    PROVE  Inv'
<1> DEFINE new == [WorkIdle EXCEPT !.pc = "open", !.todo = S]
<1>1. new \in WorkType /\ new.pc = "open" /\ new.todo = S
  BY Zenon DEF WorkIdle, WorkType
<1>2. Work(r, o, new)
  OBVIOUS
<1> HIDE DEF new
<1>3. WorkOK(new, o)
  BY <1>1 DEF WorkOK
<1>4. ~Leads(worker[r][o]) /\ ~Leads(new) /\ new.pc # "wait"
  BY <1>1 DEF Leads, Fills, Rest
<1>5. Placed'
  <2>1. \A q \in Readers, p \in Peers : (q # r \/ p # o) => worker'[q][p] = worker[q][p]
    BY <1>1, <1>2, OneWorker DEF Inv
  <2>2. \A p \in Peers : Allows(rd, p) \/ worker'[r][p].pc \in Rest
    BY <2>1 DEF Inv, Placed
  <2> QED BY <2>1, <2>2, ReadPlaced
<1>6. /\ read' \in [Readers -> ReadType]
      /\ frames' \in [Readers -> [Peers -> SUBSET Indexes]]
      /\ UNCHANGED <<cached, fills, permits, cut>>
  BY OneRead DEF Inv, Typed, links
<1> QED BY <1>1, <1>2, <1>3, <1>4, <1>5, <1>6, AsideCore

LEMMA OpenBatchInv ==
    ASSUME Inv, NEW r \in Readers, NEW o \in Peers, OpenBatch(r, o)
    PROVE  Inv'
<1> DEFINE rd == read[r]
           new == [rd EXCEPT !.pc = "await", !.asked = o]
           S == PagesAt(rd, o)
<1>1. rd \in ReadType /\ Plan(rd) /\ rd.pc = "opening"
  BY ReadHas DEF OpenBatch
<1>2. o # rd.peer /\ o \notin rd.opened /\ S # {}
  BY DEF OpenBatch, BatchesLeft
<1>3. rd.at \in Indexes /\ rd.at .. rd.last \subseteq Indexes /\ rd.peer \notin rd.opened
  BY <1>1 DEF Plan, Over, Ends
<1>4. S \in SUBSET Indexes /\ \A i \in S : Owner[i] = o
  BY <1>3 DEF PagesAt
<1>5. new \in ReadType /\ Plan(new)
  BY <1>1, <1>2, <1>3, Zenon DEF ReadType, Plan, Over, Ends
<1>6. ~Allows(rd, o)
  BY <1>1, <1>2 DEF Allows, Over, Ends
<1>7. worker[r][o].pc \in Rest
  BY <1>6 DEF Inv, Placed
<1>8. Allows(new, o) /\ \A p \in Peers : Allows(rd, p) => Allows(new, p)
  BY <1>1 DEF Allows, ReadType, Over, Ends
<1>9. /\ Step(r, new) /\ Work(r, o, [WorkIdle EXCEPT !.pc = "open", !.todo = S])
      /\ UNCHANGED <<cached, fills, permits, links>>
  BY DEF OpenBatch
<1> HIDE DEF new, S
<1> QED BY <1>2, <1>4, <1>5, <1>7, <1>8, <1>9, BeginWork, Zenon

LEMMA StreamLocalInv ==
    ASSUME Inv, NEW r \in Readers, StreamLocal(r)
    PROVE  Inv'
<1> DEFINE rd == read[r]
           o == rd.peer
           new == [rd EXCEPT !.pc = "local"]
<1>1. rd \in ReadType /\ Plan(rd) /\ rd.pc = "stream" /\ Owner[rd.at] = o
  BY ReadHas DEF StreamLocal
<1>2. rd.at \in Indexes /\ rd.at .. rd.last \subseteq Indexes /\ o \notin rd.opened
  BY <1>1 DEF Plan, Over, Ends
<1>3. o \in Peers
  BY <1>1, <1>2, PageFillsAssumption, Zenon
<1>4. new \in ReadType /\ Plan(new)
  BY <1>1, <1>2 DEF ReadType, Plan, Over, Ends
<1>5. ~Allows(rd, o)
  BY <1>1, <1>2 DEF Allows, Over, Ends
<1>6. worker[r][o].pc \in Rest
  BY <1>3, <1>5 DEF Inv, Placed
<1>7. Allows(new, o) /\ \A p \in Peers : Allows(rd, p) => Allows(new, p)
  BY <1>1 DEF Allows, ReadType, Over, Ends
<1>8. /\ Step(r, new) /\ Work(r, o, [WorkIdle EXCEPT !.pc = "open", !.todo = {rd.at}])
      /\ UNCHANGED <<cached, fills, permits, links>>
  BY DEF StreamLocal
<1> HIDE DEF new
<1>9. {rd.at} \in SUBSET Indexes /\ {rd.at} # {} /\ \A i \in {rd.at} : Owner[i] = o
  BY <1>1, <1>2
<1> QED BY <1>3, <1>4, <1>6, <1>7, <1>8, <1>9, BeginWork, Zenon

LEMMA BatchAnsweredInv ==
    ASSUME Inv, NEW r \in Readers, BatchAnswered(r)
    PROVE  Inv'
<1> DEFINE rd == read[r]
           new == [rd EXCEPT !.opened = @ \cup {rd.asked}]
<1>1. rd \in ReadType /\ Plan(rd) /\ rd.pc = "await"
  BY ReadHas DEF BatchAnswered
<1>2. /\ rd.at \in Indexes /\ rd.at .. rd.last \subseteq Indexes
      /\ rd.peer \notin rd.opened /\ rd.asked # rd.peer /\ rd.asked \in Peers
  BY <1>1 DEF Plan, Over, Ends
<1>3. /\ new \in ReadType /\ new.at = rd.at /\ new.last = rd.last
      /\ new.peer = rd.peer /\ new.opened = rd.opened \cup {rd.asked}
  BY <1>1, <1>2 DEF ReadType
<1>4. /\ new.at \in Indexes /\ new.at .. new.last \subseteq Indexes
      /\ new.peer \notin new.opened
  BY <1>2, <1>3
<1>5. Step(r, Opened(new))
  BY DEF BatchAnswered
<1> HIDE DEF new
<1>6. /\ Opened(new) \in ReadType /\ Plan(Opened(new))
      /\ Opened(new).pc \in {"stream", "opening"}
      /\ Opened(new).opened = rd.opened \cup {rd.asked}
  BY <1>3, <1>4, OpenedHas
<1>7. \A o \in Peers : Allows(rd, o) => Allows(Opened(new), o)
  BY <1>1, <1>6 DEF Allows, Over, Ends
<1>8. /\ UNCHANGED <<cached, fills, permits, worker>>
      /\ frames' \in [Readers -> [Peers -> SUBSET Indexes]]
      /\ cut' \in [Readers -> [Peers -> BOOLEAN]]
  BY DEF BatchAnswered, links, Inv, Typed
<1> QED BY <1>5, <1>6, <1>7, <1>8, ReadStep

LEMMA BatchRefusedInv ==
    ASSUME Inv, NEW r \in Readers, BatchRefused(r)
    PROVE  Inv'
BY OverInv, ClosedHas, Zenon DEF BatchRefused, Over

LEMMA ForwardInv ==
    ASSUME Inv, NEW r \in Readers, Forward(r)
    PROVE  Inv'
<1>1. cut' \in [Readers -> [Peers -> BOOLEAN]]
  BY DEF Forward, links, Inv, Typed
<1> QED BY <1>1, OverInv DEF Forward, Over, Ends, links

(* The page at hand was delivered. *)
LEMMA DeliveredPlan ==
    ASSUME Inv, NEW r \in Readers, read[r].pc \in {"stream", "local"}
    PROVE  /\ Delivered(read[r]) \in ReadType /\ Plan(Delivered(read[r]))
           /\ \A o \in Peers : (Allows(read[r], o) /\ (read[r].pc = "local" => o # read[r].peer))
                                 => Allows(Delivered(read[r]), o)
<1> DEFINE rd == read[r]
<1>1. rd \in ReadType /\ Plan(rd)
  BY ReadHas
<1>2. rd.at \in Indexes /\ rd.at .. rd.last \subseteq Indexes /\ rd.peer \notin rd.opened
  BY <1>1 DEF Plan, Over, Ends
<1>3. /\ Delivered(rd) \in ReadType /\ Plan(Delivered(rd))
      /\ Delivered(rd).pc \in {"stream", "ends"} /\ Delivered(rd).opened = rd.opened
  BY <1>1, <1>2, DeliveredHas
<1> HIDE DEF rd
<1>4. \A o \in Peers : (Allows(rd, o) /\ (rd.pc = "local" => o # rd.peer))
                         => Allows(Delivered(rd), o)
  BY <1>3 DEF Allows, Over, Ends, rd
<1> QED BY <1>3, <1>4 DEF rd

LEMMA TakeFrameInv ==
    ASSUME Inv, NEW r \in Readers, TakeFrame(r)
    PROVE  Inv'
<1>1. read[r].pc = "stream" /\ Step(r, Delivered(read[r]))
  BY DEF TakeFrame
<1>2. UNCHANGED <<cached, fills, permits, worker>> /\ cut' \in [Readers -> [Peers -> BOOLEAN]]
  BY DEF TakeFrame, Inv, Typed
<1>3. frames' \in [Readers -> [Peers -> SUBSET Indexes]]
  <2>1. frames \in [Readers -> [Peers -> SUBSET Indexes]]
    BY DEF Inv, Typed
  <2>2. frames' = [frames EXCEPT ![r][Owner[read[r].at]] = @ \ {read[r].at}]
    BY DEF TakeFrame
  <2> QED BY <2>1, <2>2, Zenon
<1> QED BY <1>1, <1>2, <1>3, DeliveredPlan, ReadStep

LEMMA LocalServedInv ==
    ASSUME Inv, NEW r \in Readers, LocalServed(r)
    PROVE  Inv'
<1>1. CASE Abort(r)
  BY <1>1, AbortInv
<1>2. CASE Step(r, Delivered(read[r])) /\ UNCHANGED <<cached, fills, permits, worker, links>>
  <2>1. read[r].pc = "local" /\ worker[r][read[r].peer].pc \in Rest
    BY DEF LocalServed, Rest
  <2>2. /\ frames' \in [Readers -> [Peers -> SUBSET Indexes]]
        /\ cut' \in [Readers -> [Peers -> BOOLEAN]]
    BY <1>2 DEF Inv, Typed, links
  <2> QED BY <1>2, <2>1, <2>2, DeliveredPlan, ReadStep
<1> QED BY <1>1, <1>2 DEF LocalServed

LEMMA FinishBatchesInv ==
    ASSUME Inv, NEW r \in Readers, FinishBatches(r)
    PROVE  Inv'
<1>1. CASE Abort(r)
  BY <1>1, AbortInv
<1>2. CASE /\ Step(r, [ReadIdle EXCEPT !.pc = "done"]) /\ Closed(r)
           /\ UNCHANGED <<cached, fills, permits, worker, frames>>
  BY <1>2, OverInv, ClosedHas DEF Over, Ends
<1> QED BY <1>1, <1>2 DEF FinishBatches

LEMMA ExpireInv ==
    ASSUME Inv, NEW r \in Readers, NEW o \in Peers, Expire(r, o)
    PROVE  Inv'
<1>1. UNCHANGED <<cached, fills, global, perObject, worker, frames, read>>
  BY DEF Expire, permits
<1>2. cut' \in [Readers -> [Peers -> BOOLEAN]]
  BY DEF Expire, Inv, Typed
<1>3. Typed'
  BY <1>1, <1>2 DEF Inv, Typed
<1>4. WorkersOK'
  BY <1>1 DEF Inv, WorkersOK, WorkOK
<1>5. Coalesced'
  BY <1>1, CoalescedKept DEF Inv
<1>6. Placed'
  BY <1>1 DEF Inv, Placed, Allows, Plan
<1>7. GlobalOK'
  BY <1>1 DEF Inv, GlobalOK, HoldsGlobal
<1>8. ObjectOK'
  BY <1>1 DEF Inv, ObjectOK, HoldsObject
<1> QED BY <1>3, <1>4, <1>5, <1>6, <1>7, <1>8 DEF Inv

(* The owner writes a frame as the coordinator reads it. *)
LEMMA CopyFrameInv ==
    ASSUME Inv, NEW r \in Readers, CopyFrame(r)
    PROVE  Inv'
<1> DEFINE rd == read[r]
           o == Owner[rd.at]
           wk == worker[r][o]
<1>1. /\ rd.pc = "stream" /\ Writes(wk) /\ Work(r, o, FrameWritten(wk))
      /\ Step(r, Delivered(rd)) /\ UNCHANGED <<cached, fills, permits, links>>
  BY DEF CopyFrame
<1>2. rd \in ReadType /\ Plan(rd)
  BY ReadHas
<1>3. o \in Peers
  <2>1. rd.at \in Indexes
    BY <1>1, <1>2 DEF Plan, Over, Ends
  <2> QED BY <2>1, PageFillsAssumption, Zenon
<1>4. wk \in WorkType /\ WorkOK(wk, o)
  BY <1>3, WorkerHas
<1>5. /\ Delivered(rd) \in ReadType /\ Plan(Delivered(rd))
      /\ \A p \in Peers : Allows(rd, p) => Allows(Delivered(rd), p)
  BY <1>1, DeliveredPlan
<1>6. wk.pc \in {"write", "send"} /\ wk.pc \notin Rest
  BY <1>1 DEF Writes, Rest
<1>7. Allows(rd, o)
  BY <1>3, <1>6 DEF Inv, Placed
<1>8. /\ UNCHANGED <<cached, fills, permits, global, perObject, cut>> /\ cached' \subseteq Indexes
      /\ frames' \in [Readers -> [Peers -> SUBSET Indexes]]
      /\ global' \in [Peers -> Nat] /\ perObject' \in [Peers -> Nat]
  BY <1>1 DEF links, permits, Inv, Typed
<1> HIDE DEF o, wk, rd
<1>9. ASSUME NEW new \in WorkType, Work(r, o, new)
      PROVE  read' \in [Readers -> ReadType] /\ Placed'
  <2>1. \A q \in Readers, p \in Peers : (q # r \/ p # o) => worker'[q][p] = worker[q][p]
    BY <1>3, <1>9, OneWorker DEF Inv
  <2>2. \A p \in Peers : Allows(Delivered(rd), p) \/ worker'[r][p].pc \in Rest
    BY <1>5, <1>7, <2>1 DEF Inv, Placed, rd
  <2>3. \A q \in Readers, p \in Peers : q # r => worker'[q][p] = worker[q][p]
    BY <2>1, Zenon
  <2>4. Placed'
    BY <1>1, <1>5, <2>2, <2>3, ReadPlaced, Zenon
  <2> QED BY <1>1, <1>5, <2>4, OneRead DEF Inv
<1>10. CASE wk.pc = "write"
  <2> DEFINE new == [wk EXCEPT !.pc = "commit"]
  <2>1. new \in WorkType /\ new.pc = "commit" /\ new.todo = wk.todo
    BY <1>4, MovedHas, Zenon DEF FillPcs
  <2>2. Work(r, o, new)
    BY <1>1, <1>10 DEF FrameWritten
  <2> HIDE DEF new
  <2>3. /\ Fills(wk) /\ Fills(new) /\ HoldsGlobal(wk) /\ HoldsGlobal(new)
        /\ HoldsObject(wk) /\ HoldsObject(new)
    BY <1>10, <2>1 DEF Fills, HoldsGlobal, HoldsObject
  <2>4. GlobalOK'
    BY <1>3, <1>8, <2>1, <2>2, <2>3, GlobalSame DEF Inv, wk
  <2>5. ObjectOK'
    BY <1>3, <1>8, <2>1, <2>2, <2>3, ObjectSame DEF Inv, wk
  <2>6. read' \in [Readers -> ReadType] /\ Placed'
    BY <2>1, <2>2, <1>9
  <2> QED BY <1>3, <1>8, <2>1, <2>2, <2>3, <2>4, <2>5, <2>6, FillsCore DEF wk
<1>11. CASE wk.pc = "send"
  <2> DEFINE new == Served(wk)
  <2>1. new \in WorkType /\ new.pc \in {"ended", "open"} /\ WorkOK(new, o)
    BY <1>3, <1>4, <1>6, ServedHas
  <2>2. Work(r, o, new)
    BY <1>1, <1>11 DEF FrameWritten
  <2> HIDE DEF new
  <2>3. ~Leads(wk) /\ ~Leads(new) /\ new.pc # "wait"
    BY <1>11, <2>1 DEF Leads, Fills
  <2>4. read' \in [Readers -> ReadType] /\ Placed'
    BY <2>1, <2>2, <1>9
  <2> QED BY <1>3, <1>8, <2>1, <2>2, <2>3, <2>4, AsideCore DEF wk
<1> QED BY <1>6, <1>10, <1>11

LEMMA EvictInv ==
    ASSUME Inv, NEW i \in Indexes, Evict(i)
    PROVE  Inv'
<1>1. UNCHANGED <<fills, global, perObject, worker, frames, cut, read>> /\ cached' \subseteq Indexes
  BY DEF Evict, permits, links, Inv, Typed
<1>2. Typed'
  BY <1>1 DEF Inv, Typed
<1>3. WorkersOK'
  BY <1>1 DEF Inv, WorkersOK, WorkOK
<1>4. Coalesced'
  BY <1>1, CoalescedKept DEF Inv
<1>5. Placed'
  BY <1>1 DEF Inv, Placed, Allows, Plan
<1>6. GlobalOK'
  BY <1>1 DEF Inv, GlobalOK, HoldsGlobal
<1>7. ObjectOK'
  BY <1>1 DEF Inv, ObjectOK, HoldsObject
<1> QED BY <1>2, <1>3, <1>4, <1>5, <1>6, <1>7 DEF Inv

-----------------------------------------------------------------------------
(* The theorems.                                                           *)

LEMMA InitInv == Init => Inv
<1> SUFFICES ASSUME Init PROVE Inv
  OBVIOUS
<1>1. WorkIdle \in WorkType /\ WorkIdle.pc = "idle" /\ ReadIdle \in ReadType
      /\ ReadIdle.pc = "idle"
  BY DEF WorkIdle, WorkType, ReadIdle, ReadType
<1>2. \A r \in Readers, o \in Peers : worker[r][o] = WorkIdle /\ read[r] = ReadIdle
  BY DEF Init
<1>3. Typed
  BY <1>1 DEF Init, Typed
<1>4. WorkersOK
  BY <1>1, <1>2 DEF WorkersOK, WorkOK, Rest
<1>5. Coalesced
  <2>1. \A i \in Indexes : fills[i] = None
    BY DEF Init
  <2>2. \A r \in Readers, o \in Peers : ~Fills(worker[r][o]) /\ worker[r][o].pc # "wait"
    BY <1>1, <1>2 DEF Fills
  <2> QED BY <2>1, <2>2 DEF Coalesced, FillsListed, ListedFills, WaitersHaveLeader, Waits
<1>6. Placed
  <2>1. \A r \in Readers : Plan(read[r])
    BY DEF Init, ReadIdle, Plan, Over, Ends
  <2> QED BY <1>1, <1>2, <2>1 DEF Placed, Rest
<1>7. \A o \in Peers : /\ {r \in Readers : HoldsGlobal(worker[r][o])} = {}
                        /\ {r \in Readers : HoldsObject(worker[r][o])} = {}
  BY <1>1, <1>2 DEF HoldsGlobal, HoldsObject
<1>8. GlobalOK /\ ObjectOK
  <2>1. Cardinality({}) = 0 /\ PeerLimit \in Nat /\ ObjectLimit \in Nat
    BY FS_EmptySet, PageFillsAssumption
  <2>2. \A o \in Peers : global[o] = 0 /\ perObject[o] = 0
    BY DEF Init
  <2>3. \A o \in Peers : /\ Cardinality({r \in Readers : HoldsGlobal(worker[r][o])}) = 0
                          /\ Cardinality({r \in Readers : HoldsObject(worker[r][o])}) = 0
    BY <1>7, <2>1, Zenon
  <2>4. 0 <= PeerLimit /\ 0 <= ObjectLimit
    BY <2>1
  <2> QED BY <2>2, <2>3, <2>4, Zenon DEF GlobalOK, ObjectOK
<1> QED BY <1>3, <1>4, <1>5, <1>6, <1>8 DEF Inv

LEMMA NextInv == Inv /\ [Next]_vars => Inv'
<1> SUFFICES ASSUME Inv, [Next]_vars PROVE Inv'
  OBVIOUS
<1>1. ASSUME NEW r \in Readers, Coordinate(r)
      PROVE  Inv'
  <2>1. CASE FrameMissing(r)
    BY <2>1, AbortInv DEF FrameMissing
  <2>2. ASSUME NEW o \in Peers, Deadline(r, o) PROVE Inv'
    BY <2>2, ExpireInv DEF Deadline
  <2> QED BY <1>1, <2>1, <2>2, BatchAnsweredInv, BatchRefusedInv, ForwardInv, TakeFrameInv,
             CopyFrameInv, StreamLocalInv, LocalServedInv, FinishBatchesInv, OpenBatchInv
          DEF Coordinate
<1>2. ASSUME NEW r \in Readers, NEW o \in Peers, WorkerStep(r, o)
      PROVE  Inv'
  <2>1. CASE CommitCancelled(r, o)
    BY <2>1, StoreFailsInv DEF CommitCancelled
  <2> QED BY <1>2, <2>1, OpenPageInv, JoinFillInv, AcquireGlobalInv, AcquireObjectInv,
             FetchPageInv, WritePageInv, CommitPageInv, ReleaseInv, DeleteFillInv,
             CloseCallInv, CancelledInv
          DEF WorkerStep
<1>3. CASE Fault
  <2>1. ASSUME NEW r \in Readers, ClientGone(r) PROVE Inv'
    BY <2>1, AbortInv DEF ClientGone
  <2> QED BY <1>3, <2>1, FillFailsInv, StoreFailsInv, ExpireInv, EvictInv DEF Fault
<1>4. CASE Progress
  BY <1>1, <1>2, <1>4 DEF Progress
<1>5. ASSUME NEW r \in Readers, NEW req \in Requests[r], Start(r, req)
      PROVE  Inv'
  BY <1>5, StartInv
<1>6. CASE UNCHANGED vars
  <2>1. UNCHANGED <<cached, fills, global, perObject, worker, frames, cut, read>>
    BY <1>6 DEF vars, permits, links
  <2>2. Typed'
    BY <2>1 DEF Inv, Typed
  <2>3. WorkersOK'
    BY <2>1 DEF Inv, WorkersOK, WorkOK
  <2>4. Coalesced'
    BY <2>1, CoalescedKept DEF Inv
  <2>5. Placed'
    BY <2>1 DEF Inv, Placed, Allows, Plan
  <2>6. GlobalOK'
    BY <2>1 DEF Inv, GlobalOK, HoldsGlobal
  <2>7. ObjectOK'
    BY <2>1 DEF Inv, ObjectOK, HoldsObject
  <2> QED BY <2>2, <2>3, <2>4, <2>5, <2>6, <2>7 DEF Inv
<1> QED BY <1>3, <1>4, <1>5, <1>6 DEF Next

(* No permit of a fill is lost, given back twice or taken over the limit,  *)
(* on any path through a fill (tryAcquirePeerFill, the deferred releases). *)
THEOREM PermitsTheorem == Spec => []PermitsAccounted
<1>1. Inv => PermitsAccounted
  BY PermitsSplit DEF Inv
<1> QED BY <1>1, InitInv, NextInv, PTL DEF Spec

(* Whoever waits for a fill waits for a request that fills that page and   *)
(* will close the call (fillMissingPage and its variants).                 *)
THEOREM WaitersTheorem == Spec => []WaitersHaveLeader
<1>1. Inv => WaitersHaveLeader
  BY DEF Inv, Coalesced
<1> QED BY <1>1, InitInv, NextInv, PTL DEF Spec

(* A page is filled by one request at a time, as pageFillMu and pageFills  *)
(* are there to ensure.                                                    *)
THEOREM OneFillTheorem == Spec => []OneFillPerPage
<1>1. Inv => OneFillPerPage
  BY DEF Inv, Coalesced, FillsListed, OneFillPerPage
<1> QED BY <1>1, InitInv, NextInv, PTL DEF Spec

(* The types, the count of faults included. *)
THEOREM TypeTheorem == Spec => []TypeOK
<1>1. Inv /\ faults \in 0 .. MaxFaults => TypeOK
  BY DEF Inv, Typed, TypeOK
<1>2. Init => faults \in 0 .. MaxFaults
  BY PageFillsAssumption DEF Init
<1>3. faults \in 0 .. MaxFaults /\ [Next]_vars => (faults \in 0 .. MaxFaults)'
  <2>1. MaxFaults \in Nat
    BY PageFillsAssumption
  <2> QED BY <2>1 DEF Next, Progress, Fault, vars
<1> QED BY <1>1, <1>2, <1>3, InitInv, NextInv, PTL DEF Spec
=============================================================================
