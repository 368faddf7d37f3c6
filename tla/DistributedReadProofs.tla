----------------------- MODULE DistributedReadProofs ------------------------
(***************************************************************************)
(* DistributedRead for every ring of peers, ownership of pages, and number *)
(* of reads, writes, faults and restarts: pages lie at their owners, bodies*)
(* are of one version unless an owner swapped it, and they are fresh while *)
(* every write led the epochs of the other peers.                          *)
(*                                                                         *)
(* The argument for freshness: a peer whose epoch moves on drops its pages *)
(* and can store none of those it fetched before.  A write that leads has  *)
(* an epoch that no peer had reached, so a peer that has reached it since, *)
(* or has confirmed the write, holds only versions since the write.        *)
(***************************************************************************)
EXTENDS DistributedRead, TLAPS, WellFoundedInduction, NaturalsInduction

Metadata == {"get", "head", "generation", "upsert", "reread"}
Sending  == {"stream", "fetch", "begin", "commit", "ends"}
Planning == {"upsert", "reread", "batch", "await"} \cup Sending
Filling  == {"begin", "commit"}
Admitting == {"get", "advance", "generation", "upsert", "reread"}

(* A read at its coordinator.  Its plan is not ahead of the epoch of the   *)
(* coordinator, and what it holds is a page of the plan's version.         *)
ReadOK(rd, gen) ==
    /\ rd \in Reads
    /\ rd.pc = "generation" => rd.head \in ETags
    /\ rd.pc \in Planning => rd.plan \in Plans /\ rd.plan.epoch <= gen[rd.peer]
    /\ rd.pc = "await" => rd.asked \in Peers
    /\ rd.pc \in {"fetch"} \cup Filling => PageOwner[rd.at] = rd.peer
    /\ rd.pc \in Filling => rd.body = rd.plan.etag
    /\ rd.pc \in Sending => rd.header = rd.plan.etag
    /\ rd.pc \notin Sending \cup Ends => rd.sent = {}

(* A request at the page owner o: pages of o are left to serve. *)
Over(sv) == sv.pc \in {"idle", "ended"}

ServeOK(sv, o, gen) ==
    /\ sv \in Serves
    /\ ~Over(sv) => /\ sv.plan \in Plans /\ sv.want # {}
                    /\ \A i \in sv.want : PageOwner[i] = o
    /\ sv.pc \in {"open", "fetch"} \cup Filling => sv.plan.epoch <= gen[o]
    /\ sv.pc = "upsert" => sv.epoch <= gen[o]
    /\ sv.pc \in Filling => sv.body = sv.plan.etag
    /\ sv.pc \in Admitting => ~sv.swapped

(* A read and its request at a page owner: until a plan is made there is   *)
(* none; then it serves the plan's version, unless it is swapped.          *)
Paired(rd, sv) ==
    /\ rd.pc \in Metadata => sv.pc = "idle" /\ \A i \in Indexes : sv.frames[i] = None
    /\ Attached(rd) /\ ~sv.swapped =>
          /\ ~Over(sv) => sv.plan.etag = rd.plan.etag
          /\ \A i \in Indexes : sv.frames[i] \in {None, rd.plan.etag}

OneBody(rd, svs) ==
    (\A o \in Peers : ~svs[o].swapped) => rd.sent \subseteq {rd.header}

(* The rows of a peer *)
RowsOK(p) ==
    /\ object[p] = None => pages[p] = NoPages
    /\ object[p] # None => object[p].epoch <= generation[p]
    /\ \A i \in Indexes : pages[p][i] # None =>
          PageOwner[i] = p /\ pages[p][i].bytes = pages[p][i].etag

-----------------------------------------------------------------------------
(* Versions that a peer stores, or holds and may still store *)
HeldByRead(rd, p, e, b) ==
    rd.peer = p /\ rd.pc \in Filling /\ rd.plan.epoch = e /\ rd.body = b
HeldByServe(sv, e, b) == sv.pc \in Filling /\ sv.plan.epoch = e /\ sv.body = b

Bytes(p) ==
    {b \in ETags : \/ \E i \in Indexes : pages[p][i] # None /\ pages[p][i].bytes = b
                   \/ \E r \in Readers : \/ HeldByRead(read[r], p, generation[p], b)
                                         \/ HeldByServe(serve[r][p], generation[p], b)}

(* Versions that make up for all a peer may give a read *)
Covers(versions) == upstream \in versions /\ \A p \in Peers : Bytes(p) \subseteq versions

(* Peers that took over the epoch of a write, or confirmed it *)
Reached(wr, p) == (p \notin wr.todo /\ ~wr.failed) \/ generation[p] >= wr.epoch

ReadFresh(rd) ==
    /\ rd.sent \subseteq rd.promise
    /\ rd.pc \in Filling => rd.body \in rd.promise
PairFresh(rd, sv) ==
    Attached(rd) => /\ sv.pc \in Filling => sv.body \in rd.promise
                    /\ \A i \in Indexes : sv.frames[i] # None => sv.frames[i] \in rd.promise
WriteFresh(wr) ==
    wr.pc = "sending" =>
        /\ wr.epoch \in Nat \ {0} /\ upstream \in wr.since
        /\ \A p \in Peers : Reached(wr, p) => Bytes(p) \subseteq wr.since

(* A read with its requests at the page owners *)
Request(rd, svs, gen) ==
    /\ ReadOK(rd, gen) /\ OneBody(rd, svs)
    /\ \A o \in Peers : ServeOK(svs[o], o, gen) /\ Paired(rd, svs[o])
RequestFresh(rd, svs) == ReadFresh(rd) /\ \A o \in Peers : PairFresh(rd, svs[o])

RequestsInv == \A r \in Readers : Request(read[r], serve[r], generation)
RowsInv == \A p \in Peers : RowsOK(p)
FreshInv ==
    /\ Covers(recent)
    /\ \A r \in Readers : /\ RequestFresh(read[r], serve[r])
                          /\ Running(read[r]) => Covers(read[r].promise)
    /\ \A w \in Writers : WriteFresh(write[w])

Inv == TypeOK /\ RequestsInv /\ RowsInv /\ (led => FreshInv)

-----------------------------------------------------------------------------
(* What a step does to the rows, to a request and to the bytes.            *)

(* A peer keeps its epoch and stores what it held, or it moves on and      *)
(* drops its pages.                                                        *)
RowsStep ==
    /\ generation' \in [Peers -> Nat] /\ object' \in [Peers -> Opt(Rows)]
    /\ pages' \in [Peers -> [Indexes -> Opt(Cells)]]
    /\ RowsInv'
    /\ \A p \in Peers :
          \/ /\ generation'[p] = generation[p]
             /\ \A i \in Indexes : pages'[p][i] # None => pages'[p][i].bytes \in Bytes(p)
          \/ generation'[p] > generation[p] /\ pages'[p] = NoPages

(* The read starts, or goes on with its promise; what is held was held, or *)
(* is fetched in this step.                                                *)
Goes(old, new) ==
    /\ Running(new) => \/ Running(old) /\ new.promise = old.promise
                       \/ new.promise = recent
    /\ \A p \in Peers, e \in Nat, b \in ETags :
          HeldByRead(new, p, e, b) => HeldByRead(old, p, e, b) \/ b = upstream
ServeGoes(old, new) ==
    \A e \in Nat, b \in ETags : HeldByServe(new, e, b) => HeldByServe(old, e, b) \/ b = upstream

Follows(old, olds, new, news) == Goes(old, new) /\ \A o \in Peers : ServeGoes(olds[o], news[o])

LEMMA GoesSame ==
    ASSUME NEW rd, NEW svs PROVE Follows(rd, svs, rd, svs)
BY Zenon DEF Follows, Goes, ServeGoes

LEMMA RequestLater ==
    ASSUME NEW rd, NEW svs, NEW gen \in [Peers -> Nat], Request(rd, svs, gen),
           NEW later \in [Peers -> Nat], \A p \in Peers : later[p] >= gen[p]
    PROVE  Request(rd, svs, later)
<1>1. ReadOK(rd, later)
  <2>1. rd.pc \in Planning => rd.plan.epoch <= later[rd.peer]
    <3>1. rd \in Reads
      BY DEF Request, ReadOK
    <3>2. rd.peer \in Peers
      BY <3>1 DEF Reads
    <3>3. gen[rd.peer] \in Nat /\ later[rd.peer] \in Nat /\ later[rd.peer] >= gen[rd.peer]
      BY <3>2
    <3>4. rd.pc \in Planning => rd.plan.epoch \in Nat /\ rd.plan.epoch <= gen[rd.peer]
      BY DEF Request, ReadOK, Plans
    <3> QED BY <3>3, <3>4
  <2> QED BY <2>1 DEF Request, ReadOK
<1>2. ASSUME NEW o \in Peers PROVE ServeOK(svs[o], o, later)
  <2>1. gen[o] \in Nat /\ later[o] \in Nat /\ later[o] >= gen[o]
    OBVIOUS
  <2>2. ServeOK(svs[o], o, gen)
    BY DEF Request
  <2>3. svs[o].pc \in {"open", "fetch"} \cup Filling => svs[o].plan.epoch \in Nat
    BY <2>2 DEF ServeOK, Over, Plans, Filling
  <2>4. svs[o].pc = "upsert" => svs[o].epoch \in Nat
    BY <2>2 DEF ServeOK, Serves
  <2>5. svs[o].pc \in {"open", "fetch"} \cup Filling => svs[o].plan.epoch <= later[o]
    BY <2>1, <2>2, <2>3 DEF ServeOK
  <2>6. svs[o].pc = "upsert" => svs[o].epoch <= later[o]
    BY <2>1, <2>2, <2>4 DEF ServeOK
  <2> QED BY <2>2, <2>5, <2>6, Zenon DEF ServeOK
<1> QED BY <1>1, <1>2 DEF Request

(* What a peer may serve later it may serve now, or fetches in this step, or *)
(* its epoch moved on.                                                       *)
BytesKept ==
    \A p \in Peers :
        \/ generation'[p] = generation[p] /\ Bytes(p)' \subseteq Bytes(p) \cup {upstream}
        \/ Bytes(p)' \subseteq {upstream}

LEMMA BytesStep ==
    ASSUME Inv, RowsStep, \A r \in Readers : Follows(read[r], serve[r], read'[r], serve'[r])
    PROVE  BytesKept
<1> SUFFICES ASSUME NEW p \in Peers
             PROVE  \/ generation'[p] = generation[p] /\ Bytes(p)' \subseteq Bytes(p) \cup {upstream}
                    \/ Bytes(p)' \subseteq {upstream}
  BY DEF BytesKept
<1>1. generation[p] \in Nat /\ generation'[p] \in Nat
  BY DEF Inv, TypeOK, RowsStep
<1>2. ASSUME NEW b \in ETags, NEW r \in Readers, b # upstream,
             \/ HeldByRead(read'[r], p, generation'[p], b)
             \/ HeldByServe(serve'[r][p], generation'[p], b)
      PROVE  \/ HeldByRead(read[r], p, generation'[p], b)
             \/ HeldByServe(serve[r][p], generation'[p], b)
  BY <1>1, <1>2 DEF Follows, Goes, ServeGoes
<1>3. CASE generation'[p] = generation[p] /\ \A i \in Indexes :
              pages'[p][i] # None => pages'[p][i].bytes \in Bytes(p)
  <2>1. ASSUME NEW b \in Bytes(p)', b # upstream PROVE b \in Bytes(p)
    BY <1>2, <1>3, <2>1, Zenon DEF Bytes
  <2> QED BY <1>3, <2>1
<1>4. CASE generation'[p] > generation[p] /\ pages'[p] = NoPages
  <2>1. ASSUME NEW b \in Bytes(p)', b # upstream PROVE FALSE
    <3>1. b \in ETags /\ \A i \in Indexes : pages'[p][i] = None
      BY <1>4, <2>1 DEF Bytes, NoPages
    <3>2. PICK r \in Readers : \/ HeldByRead(read'[r], p, generation'[p], b)
                               \/ HeldByServe(serve'[r][p], generation'[p], b)
      BY <2>1, <3>1 DEF Bytes
    <3>3. \/ HeldByRead(read[r], p, generation'[p], b)
          \/ HeldByServe(serve[r][p], generation'[p], b)
      BY <1>2, <2>1, <3>1, <3>2
    <3>4. ReadOK(read[r], generation) /\ ServeOK(serve[r][p], p, generation)
      BY DEF Inv, RequestsInv, Request
    <3>5. CASE HeldByRead(read[r], p, generation'[p], b)
      <4>1. read[r].plan.epoch <= generation[p] /\ read[r].plan.epoch = generation'[p]
        BY <3>4, <3>5, Zenon DEF HeldByRead, ReadOK, Planning, Sending, Filling
      <4> QED BY <1>1, <1>4, <4>1
    <3>6. CASE HeldByServe(serve[r][p], generation'[p], b)
      <4>1. serve[r][p].plan.epoch <= generation[p] /\ serve[r][p].plan.epoch = generation'[p]
        BY <3>4, <3>6, Zenon DEF HeldByServe, ServeOK
      <4> QED BY <1>1, <1>4, <4>1
    <3> QED BY <3>3, <3>5, <3>6
  <2> QED BY <2>1
<1> QED BY <1>3, <1>4, Zenon DEF RowsStep

(* An invalidation goes on for the same epoch; peers it went over have     *)
(* confirmed it, or moved on in this step.                                 *)
WriteGoes(old, new) ==
    new.pc = "sending" =>
        /\ old.pc = "sending" /\ new.epoch = old.epoch /\ new.since = old.since
        /\ \A p \in Peers : generation'[p] = generation[p] /\ p \notin new.todo /\ ~new.failed =>
              Reached(old, p)

LEMMA FreshFollows ==
    ASSUME Inv, led, BytesKept, UNCHANGED upstream,
           \A r \in Readers : Goes(read[r], read'[r]) /\ RequestFresh(read'[r], serve'[r]),
           \A w \in Writers : WriteGoes(write[w], write'[w]) \/ WriteFresh(write[w])',
           UNCHANGED recent \/ Covers(recent)'
    PROVE  FreshInv'
<1>1. ASSUME NEW X, Covers(X) PROVE upstream \in X /\ \A p \in Peers : Bytes(p)' \subseteq X
  BY <1>1 DEF Covers, BytesKept
<1>2. ASSUME NEW w \in Writers PROVE WriteFresh(write[w])'
  <2>1. CASE WriteGoes(write[w], write'[w]) /\ write'[w].pc = "sending"
    <3> DEFINE wr == write[w]  new == write'[w]
    <3>1. /\ wr.epoch \in Nat \ {0} /\ upstream \in wr.since
          /\ \A p \in Peers : Reached(wr, p) => Bytes(p) \subseteq wr.since
      BY <2>1, Zenon DEF Inv, FreshInv, WriteFresh, WriteGoes
    <3>2. new.epoch = wr.epoch /\ new.since = wr.since
      BY <2>1, Zenon DEF WriteGoes
    <3>3. ASSUME NEW p \in Peers, (p \notin new.todo /\ ~new.failed) \/ generation'[p] >= new.epoch
          PROVE  Bytes(p)' \subseteq wr.since
      <4>1. CASE generation'[p] = generation[p] /\ Bytes(p)' \subseteq Bytes(p) \cup {upstream}
        <5>1. Reached(wr, p)
          BY <2>1, <3>2, <3>3, <4>1, Zenon DEF Reached, WriteGoes
        <5> QED BY <3>1, <4>1, <5>1
      <4>2. CASE Bytes(p)' \subseteq {upstream}
        BY <3>1, <4>2
      <4> QED BY <4>1, <4>2 DEF BytesKept
    <3> QED BY <3>1, <3>2, <3>3, Zenon DEF WriteFresh, Reached
  <2>2. CASE write'[w].pc # "sending"
    BY <2>2, Zenon DEF WriteFresh
  <2> QED BY <2>1, <2>2
<1>3. Covers(recent)'
  <2>1. CASE UNCHANGED recent
    BY <1>1, <2>1, Zenon DEF Inv, FreshInv, Covers
  <2> QED BY <2>1
<1>4. ASSUME NEW r \in Readers, Running(read'[r]) PROVE Covers(read[r].promise)'
  <2>1. Covers(read'[r].promise)
    BY <1>4, Zenon DEF Goes, Inv, FreshInv
  <2>2. upstream \in read'[r].promise /\ \A p \in Peers : Bytes(p)' \subseteq read'[r].promise
    BY <1>1, <2>1, Zenon
  <2> QED BY <2>2, Zenon DEF Covers
<1> QED BY <1>2, <1>3, <1>4 DEF FreshInv

(* A step of one request: the read r and its requests at page owners *)
LEMMA RequestSteps ==
    ASSUME Inv, NEW r \in Readers, NEW new, NEW news \in [Peers -> Serves],
           read' = [read EXCEPT ![r] = new], serve' = [serve EXCEPT ![r] = news],
           RowsStep, Request(new, news, generation'), led => RequestFresh(new, news),
           Follows(read[r], serve[r], new, news),
           UNCHANGED <<upstream, write, recent, led>>,
           missed' \in [Peers -> [Peers -> Nat]], faults' \in Nat
    PROVE  Inv'
<1>1. read \in [Readers -> Reads] /\ serve \in [Readers -> [Peers -> Serves]]
  BY DEF Inv, TypeOK
<1>2. /\ read'[r] = new /\ serve'[r] = news
      /\ \A q \in Readers : q # r => read'[q] = read[q] /\ serve'[q] = serve[q]
  BY <1>1
<1>3. new \in Reads
  BY Zenon DEF Request, ReadOK
<1>4. TypeOK'
  BY <1>1, <1>3, Zenon DEF Inv, TypeOK, RowsStep
<1>5. generation \in [Peers -> Nat] /\ generation' \in [Peers -> Nat]
  BY Zenon DEF Inv, TypeOK, RowsStep
<1>6. ASSUME NEW p \in Peers PROVE generation'[p] >= generation[p]
  <2>1. generation[p] \in Nat /\ generation'[p] \in Nat
    BY <1>5
  <2>2. generation'[p] = generation[p] \/ generation'[p] > generation[p]
    BY Zenon DEF RowsStep
  <2> QED BY <2>1, <2>2
<1>7. ASSUME NEW q \in Readers PROVE Request(read'[q], serve'[q], generation')
  <2>1. Request(read[q], serve[q], generation)
    BY Zenon DEF Inv, RequestsInv
  <2>2. Request(read[q], serve[q], generation')
    BY <1>5, <1>6, <2>1, RequestLater, Zenon
  <2> QED BY <1>2, <2>2, Zenon
<1>8. \A q \in Readers : Follows(read[q], serve[q], read'[q], serve'[q])
  BY <1>2, GoesSame
<1>9. ASSUME led PROVE FreshInv'
  <2>1. BytesKept
    BY <1>8, BytesStep
  <2>2. ASSUME NEW q \in Readers
        PROVE  Goes(read[q], read'[q]) /\ RequestFresh(read'[q], serve'[q])
    BY <1>2, <1>8, <1>9, Zenon DEF Follows, Inv, FreshInv
  <2>3. \A w \in Writers : WriteGoes(write[w], write'[w])
    BY Zenon DEF WriteGoes, Reached
  <2> QED BY <1>9, <2>1, <2>2, <2>3, FreshFollows, Zenon
<1> QED BY <1>4, <1>7, <1>9, Zenon DEF Inv, RequestsInv, RowsStep

-----------------------------------------------------------------------------
(* The calls of a cache.                                                   *)

LEMMA PageOf ==
    ASSUME Inv, NEW p \in Peers, NEW i \in Indexes, pages[p][i] # None
    PROVE  /\ pages[p][i] \in Cells /\ pages[p][i].bytes \in Bytes(p)
           /\ pages[p][i].bytes = pages[p][i].etag /\ PageOwner[i] = p /\ object[p] # None
<1>1. pages[p][i] \in Cells
  BY DEF Inv, TypeOK, Opt
<1>2. pages[p][i].bytes \in ETags
  BY <1>1, Zenon DEF Cells
<1>3. pages[p][i].bytes \in Bytes(p)
  BY <1>2, Zenon DEF Bytes
<1> QED BY <1>1, <1>3 DEF Inv, RowsInv, RowsOK, NoPages

LEMMA RowsSame ==
    ASSUME Inv, UNCHANGED rows PROVE RowsStep
<1>1. RowsInv'
  BY Zenon DEF Inv, RowsInv, RowsOK, rows
<1> QED BY <1>1, PageOf, Zenon DEF RowsStep, Inv, TypeOK, rows

LEMMA RowsLooked ==
    ASSUME Inv, NEW p \in Peers, NEW i \in Indexes, NEW plan, PageLooked(p, i, plan),
           UNCHANGED <<generation, object>>
    PROVE  RowsStep
<1>1. CASE PageHit(p, i, plan)
  BY <1>1, RowsSame DEF PageLooked, rows
<1>2. CASE ~PageHit(p, i, plan)
  <2>1. pages \in [Peers -> [Indexes -> Opt(Cells)]] /\ pages' = [pages EXCEPT ![p][i] = None]
    BY <1>2, Zenon DEF PageLooked, Inv, TypeOK
  <2>2. pages' \in [Peers -> [Indexes -> Opt(Cells)]]
    BY <2>1 DEF Opt
  <2>3. \A q \in Peers, j \in Indexes : pages'[q][j] # None => pages'[q][j] = pages[q][j]
    BY <2>1
  <2>4. ASSUME NEW q \in Peers, pages[q] = NoPages PROVE pages'[q] = NoPages
    BY <2>1, <2>4, Zenon DEF NoPages
  <2>5. RowsInv'
    BY <2>3, <2>4 DEF Inv, RowsInv, RowsOK
  <2> QED BY <2>2, <2>3, <2>5, PageOf DEF RowsStep, Inv, TypeOK
<1> QED BY <1>1, <1>2

LEMMA RowsStored ==
    ASSUME Inv, NEW p \in Peers, NEW i \in Indexes, PageOwner[i] = p, NEW plan \in Plans,
           NEW bytes \in Bytes(p), bytes = plan.etag, MayStore(p, plan),
           Stored(p, i, plan, bytes), UNCHANGED <<generation, object>>
    PROVE  RowsStep
<1> DEFINE cell == [etag |-> plan.etag, epoch |-> plan.epoch, bytes |-> bytes]
<1>1. pages \in [Peers -> [Indexes -> Opt(Cells)]] /\ pages' = [pages EXCEPT ![p][i] = cell]
  BY Zenon DEF Stored, Inv, TypeOK
<1>2. cell \in Cells /\ cell.bytes = bytes /\ cell.etag = bytes
  BY DEF Cells, Plans
<1> HIDE DEF cell
<1>3. pages' \in [Peers -> [Indexes -> Opt(Cells)]]
  BY <1>1, <1>2, Zenon DEF Opt
<1>4. /\ pages'[p][i] = cell
      /\ \A q \in Peers, j \in Indexes : q # p \/ j # i => pages'[q][j] = pages[q][j]
      /\ \A q \in Peers : q # p => pages'[q] = pages[q]
  BY <1>1
<1>5. object[p] # None
  BY Zenon DEF MayStore, IsCurrent
<1>6. RowsInv'
  BY <1>2, <1>4, <1>5 DEF Inv, RowsInv, RowsOK
<1>7. \A q \in Peers, j \in Indexes : pages'[q][j] # None => pages'[q][j].bytes \in Bytes(q)
  BY <1>2, <1>4, PageOf
<1> QED BY <1>3, <1>6, <1>7, Zenon DEF RowsStep, Inv, TypeOK

LEMMA RowsUpserted ==
    ASSUME Inv, NEW p \in Peers, NEW row \in Rows, row.epoch <= generation[p],
           object' = [object EXCEPT ![p] = row], UNCHANGED <<generation, pages>>
    PROVE  RowsStep
<1>1. object \in [Peers -> Opt(Rows)]
  BY DEF Inv, TypeOK
<1>2. object' \in [Peers -> Opt(Rows)]
  BY <1>1 DEF Opt
<1>3. object'[p] = row /\ \A q \in Peers : q # p => object'[q] = object[q]
  BY <1>1
<1>4. row # None
  BY DistributedAssumption DEF Rows
<1>5. RowsInv'
  BY <1>3, <1>4 DEF Inv, RowsInv, RowsOK
<1> QED BY <1>2, <1>5, PageOf, Zenon DEF RowsStep, Inv, TypeOK

LEMMA RowsInvalidated ==
    ASSUME Inv, NEW p \in Peers, NEW m \in Nat, InvalidateObject(p, m)
    PROVE  /\ RowsStep /\ generation'[p] >= m
           /\ m = 0 => generation'[p] = generation[p] + 1
           /\ \A q \in Peers : q # p => generation'[q] = generation[q]
<1> DEFINE deleted == ShouldDeleteObject(object[p], m)
           epoch == NextEpoch(generation[p], m)
<1>1. /\ generation \in [Peers -> Nat] /\ object \in [Peers -> Opt(Rows)]
      /\ pages \in [Peers -> [Indexes -> Opt(Cells)]]
  BY Zenon DEF Inv, TypeOK
<1>2. /\ generation' = [generation EXCEPT ![p] = epoch]
      /\ object' = IF deleted THEN [object EXCEPT ![p] = None] ELSE object
      /\ pages' = IF deleted THEN [pages EXCEPT ![p] = NoPages] ELSE pages
  BY Zenon DEF InvalidateObject
<1>3. epoch \in Nat /\ epoch >= generation[p] /\ epoch >= m /\ (m = 0 => epoch = generation[p] + 1)
  <2>1. generation[p] \in Nat
    BY <1>1
  <2> QED BY <2>1 DEF NextEpoch
<1>4. ASSUME epoch # generation[p], ~deleted PROVE object[p] = None
  <2>1. SUFFICES ASSUME object[p] # None PROVE FALSE
    OBVIOUS
  <2>2. object[p] \in Rows /\ object[p].epoch <= generation[p]
    BY <1>1, <2>1 DEF Opt, Inv, RowsInv, RowsOK
  <2>3. object[p].epoch \in Nat /\ generation[p] \in Nat
    BY <1>1, <2>2, Zenon DEF Rows
  <2> QED BY <1>4, <2>1, <2>2, <2>3 DEF ShouldDeleteObject, NextEpoch
<1>5. NoPages \in [Indexes -> Opt(Cells)]
  BY DEF NoPages, Opt
<1> HIDE DEF deleted, epoch
<1>6. /\ generation' \in [Peers -> Nat] /\ object' \in [Peers -> Opt(Rows)]
      /\ pages' \in [Peers -> [Indexes -> Opt(Cells)]]
  BY <1>1, <1>2, <1>3, <1>5, Zenon DEF Opt
<1>7. /\ generation'[p] = epoch
      /\ deleted => object'[p] = None /\ pages'[p] = NoPages
      /\ ~deleted => object'[p] = object[p] /\ pages'[p] = pages[p]
      /\ \A q \in Peers : q # p => /\ generation'[q] = generation[q] /\ object'[q] = object[q]
                                   /\ pages'[q] = pages[q]
  BY <1>1, <1>2, Zenon
<1>8. ASSUME NEW q \in Peers PROVE RowsOK(q)'
  <2>0. RowsOK(q)
    BY DEF Inv, RowsInv
  <2>1. CASE q # p
    BY <1>7, <2>0, <2>1, Zenon DEF RowsOK
  <2>2. CASE q = p /\ deleted
    BY <1>7, <2>2, Zenon DEF RowsOK, NoPages
  <2>3. CASE q = p /\ ~deleted
    <3>1. object[p] # None => object[p].epoch <= epoch
      <4>1. ASSUME object[p] # None PROVE object[p].epoch \in Nat /\ generation[p] \in Nat
        BY <1>1, <4>1 DEF Opt, Rows
      <4> QED BY <1>3, <2>0, <2>3, <4>1 DEF RowsOK
    <3> QED BY <1>7, <2>0, <2>3, <3>1, Zenon DEF RowsOK
  <2> QED BY <2>1, <2>2, <2>3
<1>9. ASSUME NEW q \in Peers
      PROVE  \/ /\ generation'[q] = generation[q]
                /\ \A i \in Indexes : pages'[q][i] # None => pages'[q][i].bytes \in Bytes(q)
             \/ generation'[q] > generation[q] /\ pages'[q] = NoPages
  <2>1. CASE q # p
    BY <1>7, <2>1, PageOf, Zenon
  <2>2. CASE q = p /\ epoch = generation[p]
    BY <1>7, <2>2, PageOf DEF NoPages
  <2>3. CASE q = p /\ epoch # generation[p]
    <3>1. epoch > generation[p]
      <4>1. generation[p] \in Nat
        BY <1>1
      <4> QED BY <1>3, <2>3, <4>1
    <3>2. pages'[p] = NoPages
      <4>1. object[p] = None => pages[p] = NoPages
        BY Zenon DEF Inv, RowsInv, RowsOK
      <4> QED BY <1>4, <1>7, <2>3, <4>1, Zenon
    <3> QED BY <1>7, <2>3, <3>1, <3>2, Zenon
  <2> QED BY <2>1, <2>2, <2>3, Zenon
<1>10. RowsStep
  BY <1>6, <1>8, <1>9, Zenon DEF RowsStep, RowsInv
<1> QED BY <1>3, <1>7, <1>10, Zenon

-----------------------------------------------------------------------------
(* Steps of a coordinator.                                                 *)

(* A plan is made from the metadata, or kept. *)
Onward(old, new) ==
    /\ new.pc \in Metadata => old.pc \in Metadata
    /\ Attached(new) => \/ old.pc \in Metadata
                        \/ Attached(old) /\ new.plan = old.plan /\ new.promise = old.promise

LEMMA ReadSteps ==
    ASSUME Inv, NEW r \in Readers, NEW new, Step(r, new), RowsStep,
           ReadOK(new, generation'), OneBody(new, serve[r]), led => ReadFresh(new),
           Goes(read[r], new), Onward(read[r], new),
           UNCHANGED <<upstream, serve, write, recent, led>>,
           missed' \in [Peers -> [Peers -> Nat]], faults' \in Nat
    PROVE  Inv'
<1>1. serve \in [Readers -> [Peers -> Serves]] /\ serve[r] \in [Peers -> Serves]
  BY Zenon DEF Inv, TypeOK
<1>2. serve' = [serve EXCEPT ![r] = serve[r]]
  BY <1>1, Zenon
<1>3. ASSUME NEW p \in Peers PROVE generation'[p] >= generation[p]
  <2>1. generation[p] \in Nat /\ generation'[p] \in Nat
    BY Zenon DEF Inv, TypeOK, RowsStep
  <2>2. generation'[p] = generation[p] \/ generation'[p] > generation[p]
    BY Zenon DEF RowsStep
  <2> QED BY <2>1, <2>2
<1>4. Request(read[r], serve[r], generation)
  BY Zenon DEF Inv, RequestsInv
<1>5. Request(read[r], serve[r], generation')
  <2>1. generation \in [Peers -> Nat] /\ generation' \in [Peers -> Nat]
    BY Zenon DEF Inv, TypeOK, RowsStep
  <2> QED BY <1>3, <1>4, <2>1, RequestLater, Zenon
<1>6. ASSUME NEW o \in Peers PROVE Paired(new, serve[r][o])
  <2>1. Paired(read[r], serve[r][o])
    BY <1>4, Zenon DEF Request
  <2> QED BY <2>1, Zenon DEF Paired, Onward, Over
<1>7. Request(new, serve[r], generation')
  BY <1>5, <1>6, Zenon DEF Request
<1>8. ASSUME led PROVE RequestFresh(new, serve[r])
  <2>1. ASSUME NEW o \in Peers PROVE PairFresh(new, serve[r][o])
    <3>1. Paired(read[r], serve[r][o]) /\ PairFresh(read[r], serve[r][o])
      BY <1>4, <1>8, Zenon DEF Request, Inv, FreshInv, RequestFresh
    <3> QED BY <3>1, Zenon DEF Paired, PairFresh, Onward, Filling
  <2> QED BY <1>8, <2>1, Zenon DEF RequestFresh
<1>9. Follows(read[r], serve[r], new, serve[r])
  BY GoesSame, Zenon DEF Follows
<1> QED BY <1>1, <1>2, <1>7, <1>8, <1>9, RequestSteps, Zenon DEF Step

LEMMA ReadAt ==
    ASSUME Inv, NEW r \in Readers
    PROVE  /\ read[r] \in Reads /\ ReadOK(read[r], generation) /\ read[r].peer \in Peers
           /\ read[r].at \in Indexes /\ OneBody(read[r], serve[r])
           /\ led => ReadFresh(read[r])
           /\ generation[read[r].peer] \in Nat
           /\ object[read[r].peer] \in Opt(Rows)
<1>1. read[r] \in Reads /\ ReadOK(read[r], generation) /\ OneBody(read[r], serve[r])
  BY Zenon DEF Inv, RequestsInv, Request, ReadOK
<1>2. read[r].peer \in Peers /\ read[r].at \in Indexes
  BY <1>1, Zenon DEF Reads
<1> QED BY <1>1, <1>2, Zenon DEF Inv, TypeOK, FreshInv, RequestFresh

LEMMA AsideSame ==
    ASSUME Inv, UNCHANGED aside
    PROVE  /\ missed' \in [Peers -> [Peers -> Nat]] /\ faults' \in Nat
           /\ UNCHANGED <<recent, led>>
BY Zenon DEF Inv, TypeOK, aside

LEMMA Faulted ==
    ASSUME Inv, Fault PROVE faults' \in Nat
<1>1. faults \in Nat /\ faults' = faults + 1
  BY Zenon DEF Inv, TypeOK, Fault
<1> QED BY <1>1

LEMMA ReadEnds ==
    ASSUME Inv, NEW r \in Readers, NEW rd \in Reads, NEW pc \in Ends, Step(r, Ended(rd, pc)),
           RowsStep, OneBody(rd, serve[r]), led => rd.sent \subseteq rd.promise,
           UNCHANGED <<upstream, serve, write, recent, led>>,
           missed' \in [Peers -> [Peers -> Nat]], faults' \in Nat
    PROVE  Inv'
<1> DEFINE new == Ended(rd, pc)
<1>1. ReadIdle \in Reads
  BY DistributedAssumption, Zenon DEF ReadIdle, Reads, ReadPCs, Opt
<1>2. /\ new \in Reads /\ new.pc = pc /\ new.sent = rd.sent /\ new.header = rd.header
      /\ new.promise = rd.promise
  BY <1>1, Zenon DEF Ended, Reads, ReadPCs
<1>3. Step(r, new)
  BY Zenon
<1> HIDE DEF new
<1>4. ReadOK(new, generation')
  BY <1>2, Zenon DEF ReadOK, Ends, Planning, Sending, Filling
<1>5. OneBody(new, serve[r]) /\ (led => ReadFresh(new))
  BY <1>2, Zenon DEF OneBody, ReadFresh, Ends, Filling
<1>6. Goes(read[r], new)
  BY <1>2, Zenon DEF Goes, Running, HeldByRead, Ends, Filling
<1>7. Onward(read[r], new)
  BY <1>2, Zenon DEF Onward, Ends, Metadata, Attached
<1> QED BY <1>3, <1>4, <1>5, <1>6, <1>7, ReadSteps, Zenon

LEMMA ReadOpens ==
    ASSUME Inv, NEW r \in Readers, NEW rd \in Reads, Step(r, Opened(rd)),
           rd.plan \in Plans, rd.plan.epoch <= generation[rd.peer], rd.sent = {},
           Running(read[r]), rd.promise = read[r].promise,
           read[r].pc \in Metadata \/ (Attached(read[r]) /\ rd.plan = read[r].plan),
           UNCHANGED <<upstream, rows, serve, write, aside>>
    PROVE  Inv'
<1> DEFINE new == Opened(rd)
<1>1. rd.plan.etag \in ETags
  BY Zenon DEF Plans
<1>2. /\ new \in Reads /\ new.pc \in {"batch", "stream"} /\ new.plan = rd.plan
      /\ new.peer = rd.peer /\ new.sent = {} /\ new.promise = rd.promise
      /\ new.pc = "stream" => new.header = rd.plan.etag
  BY <1>1, Zenon DEF Opened, Reads, ReadPCs, Opt
<1>3. Step(r, new)
  BY Zenon
<1> HIDE DEF new
<1>4. generation' = generation
  BY Zenon DEF rows
<1>5. ReadOK(new, generation')
  BY <1>2, <1>4, Zenon DEF ReadOK, Planning, Sending, Filling
<1>6. OneBody(new, serve[r]) /\ (led => ReadFresh(new))
  BY <1>2, Zenon DEF OneBody, ReadFresh, Filling
<1>7. Goes(read[r], new)
  BY <1>2, Zenon DEF Goes, HeldByRead, Filling
<1>8. Onward(read[r], new)
  BY <1>2, Zenon DEF Onward, Metadata
<1> QED BY <1>3, <1>5, <1>6, <1>7, <1>8, ReadSteps, RowsSame, AsideSame, Zenon

LEMMA ReadPlans ==
    ASSUME Inv, NEW r \in Readers, read[r].pc \in Metadata, NEW obj \in Rows,
           obj = object[read[r].peer], Step(r, Planned(read[r], obj)),
           UNCHANGED <<upstream, rows, serve, write, aside>>
    PROVE  Inv'
<1> DEFINE plan == [etag |-> obj.etag, epoch |-> obj.epoch]
           rd == [read[r] EXCEPT !.at = read[r].first, !.plan = plan]
<1>1. read[r] \in Reads /\ read[r].peer \in Peers /\ ReadOK(read[r], generation)
  BY ReadAt, Zenon
<1>2. plan \in Plans /\ plan.epoch = obj.epoch
  BY Zenon DEF Plans, Rows
<1>3. obj.epoch <= generation[read[r].peer]
  <2>1. obj # None
    BY DistributedAssumption, Zenon DEF Rows
  <2> QED BY <1>1, <2>1, Zenon DEF Inv, RowsInv, RowsOK
<1> HIDE DEF plan
<1>4. rd \in Reads /\ rd.plan = plan /\ rd.peer = read[r].peer /\ rd.sent = read[r].sent
      /\ rd.promise = read[r].promise
  BY <1>1, <1>2, Zenon DEF Reads, Opt
<1>5. Step(r, Opened(rd))
  BY Zenon DEF Planned, plan
<1> HIDE DEF rd
<1>6. read[r].sent = {} /\ Running(read[r])
  BY <1>1, Zenon DEF ReadOK, Metadata, Sending, Ends, Running
<1> QED BY <1>2, <1>3, <1>4, <1>5, <1>6, ReadOpens, Zenon

LEMMA GetObjectInv ==
    ASSUME Inv, NEW r \in Readers, GetObject(r) PROVE Inv'
<1> DEFINE rd == read[r]  obj == object[read[r].peer]
<1>0. /\ rd \in Reads /\ ReadOK(rd, generation) /\ obj \in Opt(Rows) /\ OneBody(rd, serve[r])
      /\ led => ReadFresh(rd)
  BY ReadAt, Zenon
<1>1. CASE obj = None \/ obj.identity
  <2> DEFINE new == [rd EXCEPT !.pc = "head"]
  <2>1. /\ new \in Reads /\ new.pc = "head" /\ new.sent = rd.sent /\ new.promise = rd.promise
        /\ new.header = rd.header
    BY <1>0 DEF Reads, ReadPCs
  <2>2. rd.pc = "get" /\ Step(r, new) /\ UNCHANGED <<upstream, rows, serve, write, aside>>
    BY <1>1 DEF GetObject
  <2> HIDE DEF new
  <2>3. ReadOK(new, generation')
    BY <1>0, <2>1, <2>2, Zenon DEF ReadOK, Planning, Sending, Filling, Ends
  <2>4. OneBody(new, serve[r]) /\ (led => ReadFresh(new))
    BY <1>0, <2>1, Zenon DEF OneBody, ReadFresh, Filling
  <2>5. Goes(rd, new) /\ Onward(rd, new)
    BY <2>1, <2>2, Zenon DEF Goes, Onward, Running, HeldByRead, Filling, Metadata, Attached, Ends
  <2> QED BY <2>2, <2>3, <2>4, <2>5, ReadSteps, RowsSame, AsideSame, Zenon
<1>2. CASE ~(obj = None \/ obj.identity)
  <2>1. obj \in Rows
    BY <1>0, <1>2, Zenon DEF Opt
  <2>2. /\ Step(r, Planned(rd, obj)) /\ rd.pc = "get"
        /\ UNCHANGED <<upstream, rows, serve, write, aside>>
    BY <1>2, Zenon DEF GetObject
  <2> QED BY <2>1, <2>2, ReadPlans, Zenon DEF Metadata
<1> QED BY <1>1, <1>2, Zenon

LEMMA HeadUpstreamInv ==
    ASSUME Inv, NEW r \in Readers, HeadUpstream(r) PROVE Inv'
<1> DEFINE rd == read[r]  new == [rd EXCEPT !.pc = "generation", !.head = upstream]
<1>0. rd \in Reads /\ ReadOK(rd, generation) /\ OneBody(rd, serve[r]) /\ (led => ReadFresh(rd))
  BY ReadAt, Zenon
<1>1. upstream \in ETags
  BY Zenon DEF Inv, TypeOK
<1>2. /\ new \in Reads /\ new.pc = "generation" /\ new.head = upstream /\ new.sent = rd.sent
      /\ new.promise = rd.promise /\ new.header = rd.header
  BY <1>0, <1>1, Zenon DEF Reads, ReadPCs, Opt
<1>3. rd.pc = "head" /\ Step(r, new) /\ UNCHANGED <<upstream, rows, serve, write, aside>>
  BY DEF HeadUpstream
<1> HIDE DEF new
<1>4. ReadOK(new, generation')
  BY <1>0, <1>1, <1>2, <1>3, Zenon DEF ReadOK, Planning, Sending, Filling, Ends
<1>5. OneBody(new, serve[r]) /\ (led => ReadFresh(new))
  BY <1>0, <1>2, Zenon DEF OneBody, ReadFresh, Filling
<1>6. Goes(rd, new) /\ Onward(rd, new)
  BY <1>2, <1>3, Zenon DEF Goes, Onward, Running, HeldByRead, Filling, Metadata, Attached, Ends
<1> QED BY <1>3, <1>4, <1>5, <1>6, ReadSteps, RowsSame, AsideSame, Zenon

(* A step of a read that sends nothing and fetches no page *)
LEMMA ReadMoves ==
    ASSUME Inv, NEW r \in Readers, NEW new, Step(r, new), RowsStep, ReadOK(new, generation'),
           new.pc \notin Filling, new.sent = read[r].sent, new.header = read[r].header,
           new.promise = read[r].promise, Running(read[r]), Onward(read[r], new),
           UNCHANGED <<upstream, serve, write, recent, led>>,
           missed' \in [Peers -> [Peers -> Nat]], faults' \in Nat
    PROVE  Inv'
<1>1. OneBody(new, serve[r]) /\ (led => ReadFresh(new))
  BY ReadAt, Zenon DEF OneBody, ReadFresh
<1>2. Goes(read[r], new)
  BY Zenon DEF Goes, HeldByRead
<1> QED BY <1>1, <1>2, ReadSteps, Zenon

LEMMA ReadGenerationInv ==
    ASSUME Inv, NEW r \in Readers, ReadGeneration(r) PROVE Inv'
<1> DEFINE rd == read[r]
           plan == [etag |-> rd.head, epoch |-> generation[rd.peer]]
           new == [rd EXCEPT !.pc = "upsert", !.head = None, !.plan = plan]
<1>0. rd \in Reads /\ ReadOK(rd, generation) /\ generation[rd.peer] \in Nat
  BY ReadAt, Zenon
<1>1. rd.pc = "generation" /\ Step(r, new) /\ UNCHANGED <<upstream, rows, serve, write, aside>>
  BY DEF ReadGeneration
<1>2. plan \in Plans /\ plan.epoch <= generation[rd.peer]
  BY <1>0, <1>1 DEF Plans, ReadOK
<1> HIDE DEF plan
<1>3. /\ new \in Reads /\ new.pc = "upsert" /\ new.plan = plan /\ new.sent = rd.sent
      /\ new.promise = rd.promise /\ new.header = rd.header /\ new.peer = rd.peer
  BY <1>0, <1>2, Zenon DEF Reads, ReadPCs, Opt
<1> HIDE DEF new
<1>4. ReadOK(new, generation')
  BY <1>0, <1>1, <1>2, <1>3, Zenon DEF ReadOK, Planning, Sending, Filling, Ends, rows
<1>5. Running(rd) /\ Onward(rd, new) /\ new.pc \notin Filling
  BY <1>1, <1>3, Zenon DEF Onward, Running, Metadata, Attached, Ends, Filling
<1> QED BY <1>1, <1>3, <1>4, <1>5, ReadMoves, RowsSame, AsideSame, Zenon

LEMMA UpsertObjectInv ==
    ASSUME Inv, NEW r \in Readers, UpsertObject(r) PROVE Inv'
<1> DEFINE rd == read[r]
           row == [etag |-> rd.plan.etag, epoch |-> rd.plan.epoch, identity |-> FALSE]
           new == [rd EXCEPT !.pc = "reread"]
<1>0. rd \in Reads /\ ReadOK(rd, generation) /\ rd.peer \in Peers
  BY ReadAt, Zenon
<1>1. /\ rd.pc = "upsert" /\ Step(r, new) /\ object' = [object EXCEPT ![rd.peer] = row]
      /\ UNCHANGED <<upstream, generation, pages, serve, write, aside>>
  BY DEF UpsertObject
<1>2. rd.plan \in Plans /\ rd.plan.epoch <= generation[rd.peer]
  BY <1>0, <1>1, Zenon DEF ReadOK, Planning
<1>3. row \in Rows /\ row.epoch <= generation[rd.peer]
  BY <1>2, Zenon DEF Rows, Plans
<1> HIDE DEF row
<1>4. RowsStep
  BY <1>0, <1>1, <1>3, RowsUpserted, Zenon
<1>5. /\ new \in Reads /\ new.pc = "reread" /\ new.plan = rd.plan /\ new.sent = rd.sent
      /\ new.promise = rd.promise /\ new.header = rd.header /\ new.peer = rd.peer
  BY <1>0, Zenon DEF Reads, ReadPCs
<1> HIDE DEF new
<1>6. ReadOK(new, generation')
  BY <1>0, <1>1, <1>2, <1>5, Zenon DEF ReadOK, Planning, Sending, Filling, Ends
<1>7. Running(rd) /\ Onward(rd, new) /\ new.pc \notin Filling
  BY <1>1, <1>5, Zenon DEF Onward, Running, Metadata, Attached, Ends, Filling
<1> QED BY <1>1, <1>4, <1>5, <1>6, <1>7, ReadMoves, AsideSame, Zenon

(* The read is passed on. *)
LEMMA ReadForwards ==
    ASSUME Inv, NEW r \in Readers, NEW new \in Reads, Step(r, new), RowsStep,
           new.pc = "forward", new.sent = read[r].sent, new.header = read[r].header,
           new.promise = read[r].promise, read[r].pc \in Metadata \cup {"await"},
           UNCHANGED <<upstream, serve, write, recent, led>>,
           missed' \in [Peers -> [Peers -> Nat]], faults' \in Nat
    PROVE  Inv'
<1>1. ReadOK(read[r], generation)
  BY ReadAt, Zenon
<1>2. ReadOK(new, generation')
  BY <1>1, Zenon DEF ReadOK, Planning, Sending, Filling, Ends, Metadata
<1>3. Running(read[r]) /\ Onward(read[r], new) /\ new.pc \notin Filling
  BY Zenon DEF Onward, Running, Metadata, Attached, Ends, Filling
<1> QED BY <1>2, <1>3, ReadMoves, Zenon

LEMMA RereadObjectInv ==
    ASSUME Inv, NEW r \in Readers, RereadObject(r) PROVE Inv'
<1> DEFINE rd == read[r]  obj == object[read[r].peer]
<1>0. rd \in Reads /\ obj \in Opt(Rows)
  BY ReadAt, Zenon
<1>1. CASE obj = None
  <2> DEFINE new == [rd EXCEPT !.pc = "forward"]
  <2>1. /\ new \in Reads /\ new.pc = "forward" /\ new.sent = rd.sent
        /\ new.promise = rd.promise /\ new.header = rd.header
    BY <1>0, Zenon DEF Reads, ReadPCs
  <2>2. rd.pc = "reread" /\ Step(r, new) /\ UNCHANGED <<upstream, rows, serve, write, aside>>
    BY <1>1 DEF RereadObject
  <2> QED BY <2>1, <2>2, ReadForwards, RowsSame, AsideSame, Zenon DEF Metadata
<1>2. CASE obj # None
  <2>1. obj \in Rows
    BY <1>0, <1>2, Zenon DEF Opt
  <2>2. /\ Step(r, Planned(rd, obj)) /\ rd.pc = "reread"
        /\ UNCHANGED <<upstream, rows, serve, write, aside>>
    BY <1>2, Zenon DEF RereadObject
  <2> QED BY <2>1, <2>2, ReadPlans, Zenon DEF Metadata
<1> QED BY <1>1, <1>2, Zenon

LEMMA BatchAnsweredInv ==
    ASSUME Inv, NEW r \in Readers, BatchAnswered(r) PROVE Inv'
<1> DEFINE rd == read[r]
           new == [rd EXCEPT !.opened = @ \cup {rd.asked}, !.asked = None]
<1>0. rd \in Reads /\ ReadOK(rd, generation)
  BY ReadAt, Zenon
<1>1. /\ rd.pc = "await" /\ Step(r, Opened(new))
      /\ UNCHANGED <<upstream, rows, serve, write, aside>>
  BY DEF BatchAnswered
<1>2. rd.asked \in Peers /\ rd.plan \in Plans /\ rd.plan.epoch <= generation[rd.peer] /\ rd.sent = {}
  BY <1>0, <1>1, Zenon DEF ReadOK, Planning, Sending, Ends
<1>3. /\ new \in Reads /\ new.plan = rd.plan /\ new.peer = rd.peer /\ new.sent = rd.sent
      /\ new.promise = rd.promise
  BY <1>0, <1>2, Zenon DEF Reads, Opt
<1> HIDE DEF new
<1>4. Running(rd) /\ Attached(rd)
  BY <1>1, Zenon DEF Running, Attached, Ends
<1> QED BY <1>1, <1>2, <1>3, <1>4, ReadOpens, Zenon

(* A step of a read and of its request at the page owner o *)
LEMMA BothStep ==
    ASSUME Inv, NEW r \in Readers, NEW o \in Peers, NEW new, NEW sv,
           Step(r, new), Handle(r, o, sv), RowsStep,
           ReadOK(new, generation'), ServeOK(sv, o, generation'), Paired(new, sv),
           \/ new.sent = {}
           \/ /\ new.sent = read[r].sent /\ new.header = read[r].header
              /\ serve[r][o].swapped => sv.swapped,
           led => ReadFresh(new) /\ PairFresh(new, sv),
           Goes(read[r], new), Onward(read[r], new), ServeGoes(serve[r][o], sv),
           UNCHANGED <<upstream, write, recent, led>>,
           missed' \in [Peers -> [Peers -> Nat]], faults' \in Nat
    PROVE  Inv'
<1> DEFINE news == [serve[r] EXCEPT ![o] = sv]
<1>1. serve \in [Readers -> [Peers -> Serves]] /\ serve[r] \in [Peers -> Serves] /\ sv \in Serves
  BY Zenon DEF Inv, TypeOK, ServeOK
<1>2. serve' = [serve EXCEPT ![r] = news] /\ news \in [Peers -> Serves]
  BY <1>1, Zenon DEF Handle
<1>3. news[o] = sv /\ \A p \in Peers : p # o => news[p] = serve[r][p]
  BY <1>1, Zenon
<1> HIDE DEF news
<1>4. ASSUME NEW p \in Peers PROVE generation'[p] >= generation[p]
  <2>1. generation[p] \in Nat /\ generation'[p] \in Nat
    BY Zenon DEF Inv, TypeOK, RowsStep
  <2>2. generation'[p] = generation[p] \/ generation'[p] > generation[p]
    BY Zenon DEF RowsStep
  <2> QED BY <2>1, <2>2
<1>5. Request(read[r], serve[r], generation)
  BY Zenon DEF Inv, RequestsInv
<1>6. Request(read[r], serve[r], generation')
  <2>1. generation \in [Peers -> Nat] /\ generation' \in [Peers -> Nat]
    BY Zenon DEF Inv, TypeOK, RowsStep
  <2> QED BY <1>4, <1>5, <2>1, RequestLater, Zenon
<1>7. ASSUME NEW p \in Peers, p # o PROVE Paired(new, serve[r][p])
  <2>1. Paired(read[r], serve[r][p])
    BY <1>5, Zenon DEF Request
  <2> QED BY <2>1, Zenon DEF Paired, Onward, Over
<1>8. OneBody(new, news)
  <2>1. CASE new.sent = {}
    BY <2>1, Zenon DEF OneBody
  <2>2. CASE /\ new.sent = read[r].sent /\ new.header = read[r].header
             /\ serve[r][o].swapped => sv.swapped
    <3>1. OneBody(read[r], serve[r])
      BY <1>5, Zenon DEF Request
    <3>2. (\A p \in Peers : ~news[p].swapped) => (\A p \in Peers : ~serve[r][p].swapped)
      BY <1>3, <2>2, Zenon
    <3> QED BY <2>2, <3>1, <3>2, Zenon DEF OneBody
  <2> QED BY <2>1, <2>2, Zenon
<1>9. Request(new, news, generation')
  BY <1>3, <1>6, <1>7, <1>8, Zenon DEF Request
<1>10. ASSUME led PROVE RequestFresh(new, news)
  <2>1. ASSUME NEW p \in Peers, p # o PROVE PairFresh(new, serve[r][p])
    <3>1. Paired(read[r], serve[r][p]) /\ PairFresh(read[r], serve[r][p])
      BY <1>5, <1>10, Zenon DEF Request, Inv, FreshInv, RequestFresh
    <3> QED BY <3>1, Zenon DEF Paired, PairFresh, Onward, Filling
  <2> QED BY <1>3, <1>10, <2>1, Zenon DEF RequestFresh
<1>11. Follows(read[r], serve[r], new, news)
  <2>1. \A p \in Peers : ServeGoes(serve[r][p], serve[r][p])
    BY Zenon DEF ServeGoes
  <2> QED BY <1>3, <2>1, Zenon DEF Follows
<1> QED BY <1>2, <1>9, <1>10, <1>11, RequestSteps, Zenon DEF Step

LEMMA OpenBatchInv ==
    ASSUME Inv, NEW r \in Readers, NEW o \in Peers, OpenBatch(r, o) PROVE Inv'
<1> DEFINE rd == read[r]
           new == [rd EXCEPT !.pc = "await", !.asked = o]
           sv == [ServeIdle EXCEPT !.pc = "get", !.plan = rd.plan, !.want = PagesAt(rd, o)]
<1>0. rd \in Reads /\ ReadOK(rd, generation) /\ (led => ReadFresh(rd))
  BY ReadAt, Zenon
<1>1. /\ rd.pc = "batch" /\ o \in BatchesLeft(rd) /\ Step(r, new) /\ Handle(r, o, sv)
      /\ UNCHANGED <<upstream, rows, write, aside>>
  BY DEF OpenBatch
<1>2. rd.plan \in Plans /\ rd.plan.epoch <= generation[rd.peer] /\ rd.sent = {}
  BY <1>0, <1>1 DEF ReadOK, Planning, Sending, Ends
<1>3. /\ new \in Reads /\ new.plan = rd.plan /\ new.peer = rd.peer /\ new.sent = rd.sent
      /\ new.promise = rd.promise /\ new.pc = "await" /\ new.asked = o
  BY <1>0, Zenon DEF Reads, Opt, ReadPCs
<1>4. /\ PagesAt(rd, o) \subseteq Indexes /\ PagesAt(rd, o) # {}
      /\ \A i \in PagesAt(rd, o) : PageOwner[i] = o
  <2>1. rd.first \in Indexes /\ rd.last \in Indexes
    BY <1>0, Zenon DEF Reads
  <2>2. ASSUME NEW a \in Nat, NEW b \in Nat PROVE a .. b \subseteq 0 .. b
    OBVIOUS
  <2>3. rd.first .. rd.last \subseteq 0 .. rd.last
    BY <2>1, <2>2, DistributedAssumption, Zenon
  <2>4. rd.first .. rd.last \subseteq Indexes
    BY <2>1, <2>3, DistributedAssumption, Zenon
  <2> QED BY <1>1, <2>4 DEF PagesAt, BatchesLeft
<1>5. ServeIdle \in Serves
  BY Zenon DEF ServeIdle, Serves, ServePCs, NoPages, Opt
<1>6. /\ sv \in Serves /\ sv.pc = "get" /\ sv.plan = rd.plan /\ sv.want = PagesAt(rd, o)
      /\ sv.frames = NoPages /\ ~sv.swapped
  <2>1. /\ sv.frames = ServeIdle.frames /\ ServeIdle.frames = NoPages
        /\ sv.swapped = ServeIdle.swapped /\ ~ServeIdle.swapped
    BY DEF ServeIdle
  <2> QED BY <1>2, <1>4, <1>5, <2>1, Zenon DEF Serves, ServePCs, Opt
<1> HIDE DEF new, sv
<1>7. ReadOK(new, generation')
  BY <1>0, <1>1, <1>2, <1>3, Zenon DEF ReadOK, Planning, Sending, Filling, Ends, rows
<1>8. ServeOK(sv, o, generation')
  BY <1>2, <1>4, <1>6, Zenon DEF ServeOK, Over, Filling, Admitting
<1>9. Paired(new, sv)
  BY <1>3, <1>6, Zenon DEF Paired, NoPages, Metadata
<1>10. led => ReadFresh(new) /\ PairFresh(new, sv)
  BY <1>0, <1>3, <1>6, Zenon DEF ReadFresh, PairFresh, NoPages, Filling
<1>11. Goes(rd, new) /\ Onward(rd, new)
  BY <1>1, <1>3, Zenon DEF Goes, Onward, Running, HeldByRead, Filling, Metadata, Attached, Ends
<1>12. ServeGoes(serve[r][o], sv)
  BY <1>6, Zenon DEF ServeGoes, HeldByServe, Filling
<1>13. UNCHANGED rows /\ UNCHANGED <<recent, led>> /\ UNCHANGED <<upstream, write>>
       /\ missed' \in [Peers -> [Peers -> Nat]] /\ faults' \in Nat
  BY <1>1, AsideSame, Zenon
<1>14. RowsStep
  BY <1>13, RowsSame, Zenon
<1> QED BY <1>1, <1>2, <1>3, <1>7, <1>8, <1>9, <1>10, <1>11, <1>12, <1>13, <1>14, BothStep, Zenon

Discarded(rd) == [rd EXCEPT !.pc = "forward", !.plan = None, !.asked = None]

LEMMA DiscardFacts ==
    ASSUME Inv, NEW r \in Readers, read[r].pc = "await", DiscardLocalPlanningState(r)
    PROVE  LET new == Discarded(read[r])
           IN  /\ Step(r, new) /\ RowsStep
               /\ new \in Reads /\ new.pc = "forward" /\ new.sent = read[r].sent /\ new.sent = {}
               /\ new.header = read[r].header /\ new.promise = read[r].promise
<1> DEFINE new == Discarded(read[r])
<1>1. /\ read[r] \in Reads /\ ReadOK(read[r], generation) /\ read[r].peer \in Peers
  BY ReadAt
<1>2. read[r].sent = {}
  BY <1>1 DEF ReadOK, Sending, Ends
<1>3. /\ new \in Reads /\ new.pc = "forward" /\ new.sent = read[r].sent
      /\ new.header = read[r].header /\ new.promise = read[r].promise
  BY <1>1, Zenon DEF Discarded, Reads, ReadPCs, Opt
<1>4. RowsStep
  BY <1>1, RowsInvalidated DEF DiscardLocalPlanningState
<1>5. Step(r, new)
  BY Zenon DEF Discarded, DiscardLocalPlanningState
<1> QED BY <1>2, <1>3, <1>4, <1>5, Zenon

LEMMA BatchRefusedInv ==
    ASSUME Inv, NEW r \in Readers, BatchRefused(r) PROVE Inv'
<1> DEFINE new == Discarded(read[r])
<1>1. /\ read[r].pc = "await" /\ DiscardLocalPlanningState(r)
      /\ UNCHANGED <<upstream, serve, write, aside>>
  BY Zenon DEF BatchRefused
<1>2. /\ Step(r, new) /\ RowsStep /\ new \in Reads /\ new.pc = "forward"
      /\ new.sent = read[r].sent /\ new.header = read[r].header
      /\ new.promise = read[r].promise
  BY <1>1, DiscardFacts, Zenon
<1> HIDE DEF new
<1> QED BY <1>1, <1>2, ReadForwards, AsideSame, Zenon

LEMMA ServeIdleOK ==
    ASSUME NEW o \in Peers, NEW gen
    PROVE  /\ ServeIdle \in Serves /\ ServeOK(ServeIdle, o, gen) /\ ServeIdle.pc = "idle"
           /\ \A i \in Indexes : ServeIdle.frames[i] = None
           /\ ~ServeIdle.swapped
<1>1. ServeIdle \in Serves
  BY Zenon DEF ServeIdle, Serves, ServePCs, NoPages, Opt
<1>2. /\ ServeIdle.pc = "idle" /\ \A i \in Indexes : ServeIdle.frames[i] = None
      /\ ~ServeIdle.swapped
  BY Zenon DEF ServeIdle, NoPages
<1> QED BY <1>1, <1>2, Zenon DEF ServeOK, Over, Filling, Admitting

LEMMA BatchFailsInv ==
    ASSUME Inv, NEW r \in Readers, BatchFails(r) PROVE Inv'
<1> DEFINE new == Discarded(read[r])
<1>1. /\ Fault /\ read[r].pc = "await" /\ DiscardLocalPlanningState(r)
      /\ UNCHANGED <<upstream, write, missed, recent, led>>
  BY Zenon DEF BatchFails
<1>2. /\ Step(r, new) /\ RowsStep /\ new \in Reads /\ new.pc = "forward" /\ new.sent = {}
      /\ new.sent = read[r].sent /\ new.header = read[r].header
      /\ new.promise = read[r].promise
  BY <1>1, DiscardFacts, Zenon
<1> HIDE DEF new
<1>3. faults' \in Nat /\ missed' \in [Peers -> [Peers -> Nat]]
  BY <1>1, Faulted, Zenon DEF Inv, TypeOK
<1>4. CASE UNCHANGED serve
  BY <1>1, <1>2, <1>3, <1>4, ReadForwards, Zenon
<1>5. CASE Handle(r, read[r].asked, ServeIdle)
  <2> DEFINE o == read[r].asked
  <2>1. o \in Peers
    BY <1>1, ReadAt, Zenon DEF ReadOK
  <2> HIDE DEF o
  <2>2. Handle(r, o, ServeIdle)
    BY <1>5, Zenon DEF o
  <2>3. ReadOK(new, generation')
    BY <1>2, Zenon DEF ReadOK, Planning, Sending, Filling, Ends
  <2>4. Goes(read[r], new) /\ Onward(read[r], new)
    BY <1>1, <1>2, Zenon DEF Goes, Onward, Running, HeldByRead, Filling, Metadata, Attached, Ends
  <2>5. ServeOK(ServeIdle, o, generation') /\ ServeGoes(serve[r][o], ServeIdle)
    BY <2>1, ServeIdleOK, Zenon DEF ServeGoes, HeldByServe, Filling
  <2>6. Paired(new, ServeIdle) /\ ReadFresh(new) /\ PairFresh(new, ServeIdle)
    BY <1>2, Zenon DEF Paired, ReadFresh, PairFresh, Attached, Metadata, Filling
  <2> QED BY <1>1, <1>2, <1>3, <2>1, <2>2, <2>3, <2>4, <2>5, <2>6, BothStep, Zenon
<1> QED BY <1>1, <1>4, <1>5, Zenon DEF BatchFails

LEMMA ForwardInv ==
    ASSUME Inv, NEW r \in Readers, Forward(r) PROVE Inv'
<1> DEFINE rd == [read[r] EXCEPT !.header = upstream, !.sent = {upstream}]
<1>1. read[r] \in Reads /\ upstream \in ETags
  BY ReadAt, Zenon DEF Inv, TypeOK
<1>2. /\ rd \in Reads /\ rd.header = upstream /\ rd.sent = {upstream}
      /\ rd.promise = read[r].promise
  BY <1>1, Zenon DEF Reads, Opt
<1>3. /\ read[r].pc = "forward" /\ Step(r, Ended(rd, "done"))
      /\ UNCHANGED <<upstream, rows, serve, write, aside>>
  BY DEF Forward
<1> HIDE DEF rd
<1>4. OneBody(rd, serve[r])
  BY <1>2, Zenon DEF OneBody
<1>5. led => rd.sent \subseteq rd.promise
  <2>1. Running(read[r])
    BY <1>3, Zenon DEF Running, Ends
  <2> QED BY <1>2, <2>1, Zenon DEF Inv, FreshInv, Covers
<1> QED BY <1>2, <1>3, <1>4, <1>5, ReadEnds, RowsSame, AsideSame, Zenon DEF Ends

LEMMA DeliveredFacts ==
    ASSUME NEW rd \in Reads, NEW bytes \in ETags
    PROVE  LET new == Delivered(rd, bytes)
           IN  /\ new \in Reads /\ new.pc \in {"stream", "ends"} /\ new.peer = rd.peer
               /\ new.plan = rd.plan /\ new.header = rd.header /\ new.promise = rd.promise
               /\ new.sent = rd.sent \cup {bytes}
<1> DEFINE new == Delivered(rd, bytes)
           copied == [rd EXCEPT !.sent = @ \cup {bytes}, !.body = None]
<1>1. /\ copied \in Reads /\ copied.peer = rd.peer /\ copied.plan = rd.plan
      /\ copied.header = rd.header /\ copied.promise = rd.promise
      /\ copied.sent = rd.sent \cup {bytes} /\ copied.at = rd.at
  BY Zenon DEF Reads, Opt
<1>2. new = IF rd.at < rd.last THEN [copied EXCEPT !.pc = "stream", !.at = copied.at + 1]
            ELSE [copied EXCEPT !.pc = "ends"]
  BY DEF Delivered
<1> SUFFICES /\ new \in Reads /\ new.pc \in {"stream", "ends"} /\ new.peer = rd.peer
             /\ new.plan = rd.plan /\ new.header = rd.header /\ new.promise = rd.promise
             /\ new.sent = rd.sent \cup {bytes}
  BY Zenon
<1> HIDE DEF copied, new
<1>3. CASE rd.at < rd.last
  <2>1. rd.at \in Indexes /\ rd.last \in Indexes /\ rd.at \in Nat /\ rd.last \in Nat
    BY DistributedAssumption, Zenon DEF Reads
  <2>2. rd.at + 1 \in 0 .. rd.last
    BY <1>3, <2>1
  <2> DEFINE n == copied.at + 1
  <2>3. n \in Indexes
    BY <1>1, <2>1, <2>2, DistributedAssumption, Zenon
  <2>4. new = [copied EXCEPT !.pc = "stream", !.at = n]
    BY <1>2, <1>3
  <2> HIDE DEF n
  <2> QED BY <1>1, <2>3, <2>4, Zenon DEF Reads, ReadPCs
<1>4. CASE ~(rd.at < rd.last)
  BY <1>1, <1>2, <1>4 DEF Reads, ReadPCs
<1> QED BY <1>3, <1>4, Zenon

LEMMA ReadDelivers ==
    ASSUME Inv, NEW r \in Readers, NEW bytes \in ETags, Step(r, Delivered(read[r], bytes)),
           read[r].pc \in Sending, generation' = generation, RowsStep,
           (\A o \in Peers : ~serve[r][o].swapped) => bytes = read[r].header,
           led => bytes \in read[r].promise,
           UNCHANGED <<upstream, serve, write, aside>>
    PROVE  Inv'
<1> DEFINE rd == read[r]  new == Delivered(rd, bytes)
<1>0. /\ rd \in Reads /\ ReadOK(rd, generation) /\ OneBody(rd, serve[r])
      /\ led => ReadFresh(rd)
  BY ReadAt, Zenon
<1>1. /\ new \in Reads /\ new.pc \in {"stream", "ends"} /\ new.peer = rd.peer
      /\ new.plan = rd.plan /\ new.header = rd.header /\ new.promise = rd.promise
      /\ new.sent = rd.sent \cup {bytes}
  BY <1>0, DeliveredFacts, Zenon
<1>2. Step(r, new)
  BY Zenon
<1> HIDE DEF new
<1>3. ReadOK(new, generation')
  BY <1>0, <1>1, Zenon DEF ReadOK, Planning, Sending, Filling
<1>4. OneBody(new, serve[r]) /\ (led => ReadFresh(new))
  BY <1>0, <1>1, Zenon DEF OneBody, ReadFresh, Filling
<1>5. Goes(rd, new) /\ Onward(rd, new)
  BY <1>1, Zenon DEF Goes, Onward, Running, HeldByRead, Filling, Metadata, Attached, Ends, Sending
<1> QED BY <1>2, <1>3, <1>4, <1>5, ReadSteps, AsideSame, Zenon

(* The response is cut off. *)
LEMMA ReadAborts ==
    ASSUME Inv, NEW r \in Readers, Step(r, Aborted(read[r])), RowsStep,
           UNCHANGED <<upstream, serve, write, recent, led>>,
           missed' \in [Peers -> [Peers -> Nat]], faults' \in Nat
    PROVE  Inv'
<1>1. /\ read[r] \in Reads /\ OneBody(read[r], serve[r])
      /\ led => read[r].sent \subseteq read[r].promise
  BY ReadAt, Zenon DEF ReadFresh
<1> QED BY <1>1, ReadEnds, Zenon DEF Aborted, Ends

LEMMA StreamLocalPageInv ==
    ASSUME Inv, NEW r \in Readers, StreamLocalPage(r) PROVE Inv'
<1> DEFINE rd == read[r]  p == read[r].peer  i == read[r].at
<1>0. /\ rd \in Reads /\ ReadOK(rd, generation) /\ p \in Peers /\ i \in Indexes
  BY ReadAt, Zenon
<1>1. /\ rd.pc = "stream" /\ PageOwner[i] = p /\ PageLooked(p, i, rd.plan)
      /\ Step(r, IF PageHit(p, i, rd.plan) THEN Delivered(rd, pages[p][i].bytes)
                 ELSE [rd EXCEPT !.pc = "fetch"])
      /\ UNCHANGED <<upstream, generation, object, serve, write, aside>>
  BY Zenon DEF StreamLocalPage
<1>2. RowsStep
  BY <1>0, <1>1, RowsLooked, Zenon
<1>3. CASE PageHit(p, i, rd.plan)
  <2>1. /\ pages[p][i] \in Cells /\ pages[p][i].bytes \in Bytes(p)
        /\ pages[p][i].bytes = pages[p][i].etag
    BY <1>0, <1>3, PageOf, Zenon DEF PageHit
  <2>2. pages[p][i].bytes \in ETags
    BY <2>1, Zenon DEF Cells
  <2>3. pages[p][i].bytes = rd.header
    BY <1>0, <1>1, <1>3, <2>1, Zenon DEF PageHit, IsPageOf, ReadOK, Sending
  <2>4. led => pages[p][i].bytes \in rd.promise
    <3>1. Running(rd)
      BY <1>1, Zenon DEF Running, Ends
    <3> QED BY <1>0, <2>1, <3>1, Zenon DEF Inv, FreshInv, Covers
  <2>5. Step(r, Delivered(rd, pages[p][i].bytes))
    BY <1>1, <1>3, Zenon
  <2> QED BY <1>1, <1>2, <2>2, <2>3, <2>4, <2>5, ReadDelivers, Zenon DEF Sending
<1>4. CASE ~PageHit(p, i, rd.plan)
  <2> DEFINE new == [rd EXCEPT !.pc = "fetch"]
  <2>1. /\ new \in Reads /\ new.pc = "fetch" /\ new.sent = rd.sent /\ new.promise = rd.promise
        /\ new.header = rd.header /\ new.plan = rd.plan /\ new.peer = rd.peer /\ new.at = rd.at
    BY <1>0, Zenon DEF Reads, ReadPCs
  <2>2. Step(r, new)
    BY <1>1, <1>4
  <2> HIDE DEF new
  <2>3. ReadOK(new, generation')
    BY <1>0, <1>1, <2>1, Zenon DEF ReadOK, Planning, Sending, Filling, Ends
  <2>4. Running(rd) /\ Onward(rd, new) /\ new.pc \notin Filling
    BY <1>1, <2>1, Zenon DEF Onward, Running, Metadata, Attached, Ends, Filling
  <2> QED BY <1>1, <1>2, <2>1, <2>2, <2>3, <2>4, ReadMoves, AsideSame, Zenon
<1> QED BY <1>3, <1>4, Zenon

LEMMA StreamRemotePageInv ==
    ASSUME Inv, NEW r \in Readers, StreamRemotePage(r) PROVE Inv'
<1> DEFINE rd == read[r]  i == read[r].at  o == PageOwner[read[r].at]  sv == serve[r][o]
<1>0. /\ rd \in Reads /\ ReadOK(rd, generation) /\ i \in Indexes
  BY ReadAt, Zenon
<1>1. /\ rd.pc = "stream" /\ UNCHANGED <<upstream, rows, serve, write, aside>>
      /\ \/ sv.frames[i] # None /\ Step(r, Delivered(rd, sv.frames[i]))
         \/ Step(r, Aborted(rd))
  BY Zenon DEF StreamRemotePage
<1>2. o \in Peers
  BY <1>0, DistributedAssumption, Zenon
<1>3. sv \in Serves /\ Paired(rd, sv) /\ (led => PairFresh(rd, sv))
  BY <1>2, Zenon DEF Inv, RequestsInv, Request, ServeOK, FreshInv, RequestFresh
<1>4. Attached(rd) /\ rd.header = rd.plan.etag
  BY <1>0, <1>1, Zenon DEF Attached, ReadOK, Sending
<1>5. RowsStep /\ generation' = generation
  BY <1>1, RowsSame, Zenon DEF rows
<1>6. CASE sv.frames[i] # None /\ Step(r, Delivered(rd, sv.frames[i]))
  <2>1. sv.frames[i] \in ETags
    BY <1>0, <1>3, <1>6, Zenon DEF Serves, Opt
  <2>2. (\A q \in Peers : ~serve[r][q].swapped) => sv.frames[i] = rd.header
    BY <1>0, <1>2, <1>3, <1>4, <1>6, Zenon DEF Paired
  <2>3. led => sv.frames[i] \in rd.promise
    BY <1>0, <1>3, <1>4, <1>6, Zenon DEF PairFresh
  <2> QED BY <1>1, <1>5, <1>6, <2>1, <2>2, <2>3, ReadDelivers, Zenon DEF Sending
<1>7. CASE Step(r, Aborted(rd))
  BY <1>1, <1>5, <1>7, ReadAborts, AsideSame, Zenon
<1> QED BY <1>1, <1>6, <1>7, Zenon

LEMMA FetchLocalPageInv ==
    ASSUME Inv, NEW r \in Readers, FetchLocalPage(r) PROVE Inv'
<1> DEFINE rd == read[r]
<1>0. /\ rd \in Reads /\ ReadOK(rd, generation) /\ OneBody(rd, serve[r])
      /\ led => ReadFresh(rd)
  BY ReadAt, Zenon
<1>1. /\ rd.pc = "fetch" /\ UNCHANGED <<upstream, rows, serve, write, aside>>
      /\ Step(r, IF upstream = rd.plan.etag THEN [rd EXCEPT !.pc = "begin", !.body = upstream]
                 ELSE Aborted(rd))
  BY DEF FetchLocalPage
<1>2. CASE upstream = rd.plan.etag
  <2> DEFINE new == [rd EXCEPT !.pc = "begin", !.body = upstream]
  <2>0. upstream \in ETags
    BY DEF Inv, TypeOK
  <2>1. /\ new \in Reads /\ new.pc = "begin" /\ new.sent = rd.sent /\ new.promise = rd.promise
        /\ new.header = rd.header /\ new.plan = rd.plan /\ new.peer = rd.peer /\ new.at = rd.at
        /\ new.body = upstream
    BY <1>0, <2>0, Zenon DEF Reads, ReadPCs, Opt
  <2>2. Step(r, new)
    BY <1>1, <1>2
  <2> HIDE DEF new
  <2>3. ReadOK(new, generation')
    BY <1>0, <1>1, <1>2, <2>1, Zenon DEF ReadOK, Planning, Sending, Filling, Ends, rows
  <2>4. Running(rd)
    BY <1>1 DEF Running, Ends
  <2>5. Goes(rd, new) /\ Onward(rd, new)
    BY <1>1, <2>1, <2>4, Zenon DEF Goes, Onward, HeldByRead, Metadata, Attached
  <2>6. OneBody(new, serve[r])
    BY <1>0, <2>1, Zenon DEF OneBody
  <2>7. led => ReadFresh(new)
    BY <1>0, <2>1, <2>4, Zenon DEF ReadFresh, Inv, FreshInv, Covers
  <2> QED BY <1>1, <2>2, <2>3, <2>5, <2>6, <2>7, ReadSteps, RowsSame, AsideSame
<1>3. CASE upstream # rd.plan.etag
  BY <1>1, <1>3, ReadAborts, RowsSame, AsideSame
<1> QED BY <1>2, <1>3, Zenon

LEMMA BeginLocalPageInv ==
    ASSUME Inv, NEW r \in Readers, BeginLocalPage(r) PROVE Inv'
<1> DEFINE rd == read[r]
<1>0. /\ rd \in Reads /\ ReadOK(rd, generation) /\ OneBody(rd, serve[r])
      /\ led => ReadFresh(rd)
  BY ReadAt
<1>1. /\ rd.pc = "begin" /\ UNCHANGED <<upstream, rows, serve, write, aside>>
      /\ Step(r, IF MayStore(rd.peer, rd.plan) THEN [rd EXCEPT !.pc = "commit"] ELSE Aborted(rd))
  BY DEF BeginLocalPage
<1>2. CASE MayStore(rd.peer, rd.plan)
  <2> DEFINE new == [rd EXCEPT !.pc = "commit"]
  <2>1. /\ new \in Reads /\ new.pc = "commit" /\ new.sent = rd.sent /\ new.promise = rd.promise
        /\ new.header = rd.header /\ new.plan = rd.plan /\ new.peer = rd.peer /\ new.at = rd.at
        /\ new.body = rd.body
    BY <1>0, Zenon DEF Reads, ReadPCs
  <2>2. Step(r, new)
    BY <1>1, <1>2
  <2> HIDE DEF new
  <2>3. ReadOK(new, generation')
    BY <1>0, <1>1, <2>1, Zenon DEF ReadOK, Planning, Sending, Filling, Ends, rows
  <2>4. Goes(rd, new) /\ Onward(rd, new)
    BY <1>1, <2>1, Zenon DEF Goes, Onward, HeldByRead, Metadata, Attached, Running, Ends, Filling
  <2>5. OneBody(new, serve[r]) /\ (led => ReadFresh(new))
    BY <1>0, <1>1, <2>1, Zenon DEF OneBody, ReadFresh, Filling
  <2> QED BY <1>1, <2>2, <2>3, <2>4, <2>5, ReadSteps, RowsSame, AsideSame
<1>3. CASE ~MayStore(rd.peer, rd.plan)
  BY <1>1, <1>3, ReadAborts, RowsSame, AsideSame
<1> QED BY <1>2, <1>3, Zenon

LEMMA CommitLocalPageInv ==
    ASSUME Inv, NEW r \in Readers, CommitLocalPage(r) PROVE Inv'
<1> DEFINE rd == read[r]  p == read[r].peer  i == read[r].at
<1>0. /\ rd \in Reads /\ ReadOK(rd, generation) /\ OneBody(rd, serve[r])
      /\ led => ReadFresh(rd)
      /\ p \in Peers /\ i \in Indexes
  BY ReadAt, Zenon
<1>1. rd.pc = "commit" /\ UNCHANGED <<upstream, generation, object, serve, write, aside>>
  BY Zenon DEF CommitLocalPage
<1>2. /\ rd.plan \in Plans /\ rd.body = rd.plan.etag /\ rd.header = rd.plan.etag
      /\ PageOwner[i] = p /\ (led => rd.body \in rd.promise)
  BY <1>0, <1>1, Zenon DEF ReadOK, Planning, Sending, Filling, ReadFresh
<1>3. rd.body \in ETags
  BY <1>2, Zenon DEF Plans
<1>4. CASE MayStore(p, rd.plan)
  <2>1. Stored(p, i, rd.plan, rd.body) /\ Step(r, Delivered(rd, rd.body))
    BY <1>4 DEF CommitLocalPage
  <2>2. HeldByRead(rd, p, generation[p], rd.body)
    BY <1>1, <1>4, Zenon DEF HeldByRead, MayStore, IsCurrent, Filling
  <2>3. rd.body \in Bytes(p)
    BY <1>3, <2>2, Zenon DEF Bytes
  <2>4. RowsStep
    BY <1>0, <1>1, <1>2, <1>4, <2>1, <2>3, RowsStored, Zenon
  <2> QED BY <1>1, <1>2, <1>3, <2>1, <2>4, ReadDelivers, Zenon DEF Sending
<1>5. CASE ~MayStore(p, rd.plan)
  <2> DEFINE new == [rd EXCEPT !.sent = @ \cup {rd.body}]
  <2>1. /\ new \in Reads /\ new.sent = rd.sent \cup {rd.body} /\ new.promise = rd.promise
        /\ new.header = rd.header
    BY <1>0, <1>3, Zenon DEF Reads
  <2>2. Step(r, Ended(new, "aborted")) /\ UNCHANGED rows
    BY <1>1, <1>5 DEF CommitLocalPage, Aborted, rows
  <2> HIDE DEF new
  <2>3. OneBody(new, serve[r]) /\ (led => new.sent \subseteq new.promise)
    BY <1>0, <1>2, <2>1, Zenon DEF OneBody, ReadFresh
  <2> QED BY <1>1, <2>1, <2>2, <2>3, ReadEnds, RowsSame, AsideSame, Zenon DEF Ends
<1> QED BY <1>4, <1>5, Zenon

LEMMA FinishBatchesInv ==
    ASSUME Inv, NEW r \in Readers, FinishBatches(r) PROVE Inv'
<1>1. /\ Step(r, Ended(read[r], "done")) \/ Step(r, Aborted(read[r]))
      /\ UNCHANGED <<upstream, rows, serve, write, aside>>
  BY Zenon DEF FinishBatches
<1>2. /\ read[r] \in Reads /\ OneBody(read[r], serve[r])
      /\ led => read[r].sent \subseteq read[r].promise
  BY ReadAt, Zenon DEF ReadFresh
<1> QED BY <1>1, <1>2, ReadEnds, ReadAborts, RowsSame, AsideSame, Zenon DEF Ends

LEMMA ReadFailsInv ==
    ASSUME Inv, NEW r \in Readers, ReadFails(r) PROVE Inv'
<1> DEFINE rd == read[r]
<1>0. /\ rd \in Reads /\ OneBody(rd, serve[r]) /\ (led => rd.sent \subseteq rd.promise)
  BY ReadAt, Zenon DEF ReadFresh
<1>1. Fault /\ UNCHANGED <<upstream, rows, serve, write, missed, recent, led>>
  BY DEF ReadFails
<1>2. RowsStep /\ faults' \in Nat /\ missed' \in [Peers -> [Peers -> Nat]]
  BY <1>1, RowsSame, Faulted, Zenon DEF Inv, TypeOK
<1>3. CASE Step(r, Ended(rd, "failed"))
  BY <1>0, <1>1, <1>2, <1>3, ReadEnds, Zenon DEF Ends
<1>4. CASE rd.pc \in {"generation", "upsert", "reread"} /\ Step(r, [rd EXCEPT !.pc = "forward"])
  <2> DEFINE new == [rd EXCEPT !.pc = "forward"]
  <2>1. /\ new \in Reads /\ new.pc = "forward" /\ new.sent = rd.sent
        /\ new.promise = rd.promise /\ new.header = rd.header
    BY <1>0 DEF Reads, ReadPCs
  <2>2. Step(r, new)
    BY <1>4
  <2> HIDE DEF new
  <2> QED BY <1>1, <1>2, <1>4, <2>1, <2>2, ReadForwards DEF Metadata
<1>5. CASE Step(r, Aborted(rd))
  BY <1>1, <1>2, <1>5, ReadAborts, Zenon
<1> QED BY <1>3, <1>4, <1>5 DEF ReadFails

-----------------------------------------------------------------------------
(* Steps of a page owner.                                                  *)

LEMMA ServeAt ==
    ASSUME Inv, NEW r \in Readers, NEW o \in Peers
    PROVE  /\ serve[r][o] \in Serves /\ ServeOK(serve[r][o], o, generation)
           /\ Paired(read[r], serve[r][o])
           /\ led => PairFresh(read[r], serve[r][o])
           /\ generation[o] \in Nat /\ object[o] \in Opt(Rows)
BY Zenon DEF Inv, RequestsInv, Request, ServeOK, FreshInv, RequestFresh, TypeOK

LEMMA ServeSteps ==
    ASSUME Inv, NEW r \in Readers, NEW o \in Peers, NEW sv, Handle(r, o, sv), UNCHANGED read,
           RowsStep, ServeOK(sv, o, generation'), Paired(read[r], sv),
           serve[r][o].swapped => sv.swapped, led => PairFresh(read[r], sv),
           ServeGoes(serve[r][o], sv), UNCHANGED <<upstream, write, recent, led>>,
           missed' \in [Peers -> [Peers -> Nat]], faults' \in Nat
    PROVE  Inv'
<1>1. Step(r, read[r])
  BY Zenon DEF Inv, TypeOK, Step
<1>2. ReadOK(read[r], generation')
  <2>1. ASSUME NEW p \in Peers PROVE generation'[p] >= generation[p]
    <3>1. generation[p] \in Nat /\ generation'[p] \in Nat
      BY Zenon DEF Inv, TypeOK, RowsStep
    <3>2. generation'[p] = generation[p] \/ generation'[p] > generation[p]
      BY DEF RowsStep
    <3> QED BY <3>1, <3>2
  <2>2. Request(read[r], serve[r], generation)
    BY DEF Inv, RequestsInv
  <2>3. generation \in [Peers -> Nat] /\ generation' \in [Peers -> Nat]
    BY Zenon DEF Inv, TypeOK, RowsStep
  <2>4. Request(read[r], serve[r], generation')
    BY <2>1, <2>2, <2>3, RequestLater, Zenon
  <2> QED BY <2>4, Zenon DEF Request
<1>3. led => ReadFresh(read[r])
  BY ReadAt, Zenon
<1>4. Goes(read[r], read[r]) /\ Onward(read[r], read[r])
  BY DEF Goes, Onward
<1> QED BY <1>1, <1>2, <1>3, <1>4, BothStep, Zenon

(* A step that sends no frame and fetches no page *)
LEMMA ServeMoves ==
    ASSUME Inv, NEW r \in Readers, NEW o \in Peers, NEW sv, Handle(r, o, sv), UNCHANGED read,
           RowsStep, ServeOK(sv, o, generation'), serve[r][o].pc # "idle",
           sv.pc \notin Filling, sv.frames = serve[r][o].frames,
           sv.swapped = serve[r][o].swapped,
           ~Over(sv) => ~Over(serve[r][o]) /\ sv.plan = serve[r][o].plan,
           UNCHANGED <<upstream, write, recent, led>>,
           missed' \in [Peers -> [Peers -> Nat]], faults' \in Nat
    PROVE  Inv'
<1>1. Paired(read[r], serve[r][o]) /\ (led => PairFresh(read[r], serve[r][o]))
  BY ServeAt, Zenon
<1>2. Paired(read[r], sv)
  BY <1>1, Zenon DEF Paired
<1>3. led => PairFresh(read[r], sv)
  BY <1>1, Zenon DEF PairFresh
<1>4. ServeGoes(serve[r][o], sv)
  BY Zenon DEF ServeGoes, HeldByServe
<1> QED BY <1>2, <1>3, <1>4, ServeSteps, Zenon

LEMMA RefusedFacts ==
    ASSUME NEW sv \in Serves
    PROVE  LET new == Refused(sv)
           IN  /\ new \in Serves /\ new.pc = "ended" /\ new.frames = sv.frames
               /\ new.swapped = sv.swapped
BY ZenonT(30) DEF Refused, Serves, ServePCs, Opt

LEMMA ServeRefuses ==
    ASSUME Inv, NEW r \in Readers, NEW o \in Peers, Handle(r, o, Refused(serve[r][o])),
           UNCHANGED read, RowsStep, serve[r][o].pc # "idle",
           UNCHANGED <<upstream, write, recent, led>>,
           missed' \in [Peers -> [Peers -> Nat]], faults' \in Nat
    PROVE  Inv'
<1> DEFINE new == Refused(serve[r][o])
<1>1. /\ new \in Serves /\ new.pc = "ended" /\ new.frames = serve[r][o].frames
      /\ new.swapped = serve[r][o].swapped
  BY ServeAt, RefusedFacts, Zenon
<1>2. Handle(r, o, new)
  OBVIOUS
<1> HIDE DEF new
<1>3. ServeOK(new, o, generation') /\ Over(new) /\ new.pc \notin Filling
  BY <1>1, Zenon DEF ServeOK, Over, Filling, Admitting
<1> QED BY <1>1, <1>2, <1>3, ServeMoves, Zenon

(* Only the place in the handler changes. *)
LEMMA ServeGoesTo ==
    ASSUME Inv, NEW r \in Readers, NEW o \in Peers, NEW pc \in ServePCs, NEW sv,
           sv = [serve[r][o] EXCEPT !.pc = pc], Handle(r, o, sv), UNCHANGED read, RowsStep,
           ~Over(serve[r][o]), pc \notin {"idle", "ended", "upsert"} \cup Filling,
           pc \in {"open", "fetch"} => serve[r][o].plan.epoch <= generation'[o],
           pc \in Admitting => serve[r][o].pc \in Admitting,
           UNCHANGED <<upstream, write, recent, led>>,
           missed' \in [Peers -> [Peers -> Nat]], faults' \in Nat
    PROVE  Inv'
<1>1. serve[r][o] \in Serves /\ ServeOK(serve[r][o], o, generation)
  BY ServeAt, Zenon
<1>2. /\ sv \in Serves /\ sv.pc = pc /\ sv.frames = serve[r][o].frames
      /\ sv.swapped = serve[r][o].swapped /\ sv.plan = serve[r][o].plan
      /\ sv.want = serve[r][o].want
  BY <1>1, Zenon DEF Serves
<1>3. ServeOK(sv, o, generation')
  BY <1>1, <1>2, Zenon DEF ServeOK, Over
<1>4. serve[r][o].pc # "idle"
  BY Zenon DEF Over
<1> QED BY <1>2, <1>3, <1>4, ServeMoves, Zenon

LEMMA ServeGetObjectInv ==
    ASSUME Inv, NEW r \in Readers, NEW o \in Peers, ServeGetObject(r, o) PROVE Inv'
<1> DEFINE sv == serve[r][o]  obj == object[o]
<1>0. /\ sv \in Serves /\ ServeOK(sv, o, generation) /\ obj \in Opt(Rows)
  BY ServeAt, Zenon
<1>1. /\ sv.pc = "get" /\ Handle(r, o, Admitted(sv, obj))
      /\ UNCHANGED <<upstream, rows, read, write, aside>>
  BY Zenon DEF ServeGetObject
<1>2. /\ RowsStep /\ UNCHANGED <<recent, led>> /\ generation' = generation
      /\ missed' \in [Peers -> [Peers -> Nat]] /\ faults' \in Nat
  BY <1>1, RowsSame, AsideSame, Zenon DEF rows
<1>3. ~Over(sv) /\ sv.pc \in Admitting /\ sv.pc # "idle"
  BY <1>1 DEF Over, Admitting
<1>4. CASE Handle(r, o, Refused(sv))
  BY <1>1, <1>2, <1>3, <1>4, ServeRefuses, Zenon
<1>5. CASE Handle(r, o, [sv EXCEPT !.pc = "open"]) /\ obj # None /\ IsPageOf(obj, sv.plan)
  <2>1. sv.plan.epoch <= generation'[o]
    BY <1>2, <1>5, Zenon DEF IsPageOf, Inv, RowsInv, RowsOK
  <2> QED BY <1>1, <1>2, <1>3, <1>5, <2>1, ServeGoesTo, Zenon DEF ServePCs, Filling, Admitting
<1>6. CASE Handle(r, o, [sv EXCEPT !.pc = "generation"])
  BY <1>1, <1>2, <1>3, <1>6, ServeGoesTo, Zenon DEF ServePCs, Filling, Admitting
<1>7. CASE Handle(r, o, [sv EXCEPT !.pc = "advance"])
  BY <1>1, <1>2, <1>3, <1>7, ServeGoesTo, Zenon DEF ServePCs, Filling, Admitting
<1> QED BY <1>1, <1>4, <1>5, <1>6, <1>7, Zenon DEF Admitted

LEMMA ServeAdvanceInv ==
    ASSUME Inv, NEW r \in Readers, NEW o \in Peers, ServeAdvance(r, o) PROVE Inv'
<1> DEFINE sv == serve[r][o]
<1>0. sv \in Serves /\ ServeOK(sv, o, generation)
  BY ServeAt, Zenon
<1>1. /\ sv.pc = "advance" /\ InvalidateObject(o, sv.plan.epoch)
      /\ Handle(r, o, IF generation'[o] # sv.plan.epoch THEN Refused(sv)
                      ELSE [sv EXCEPT !.pc = "generation"])
      /\ UNCHANGED <<upstream, read, write, aside>>
  BY Zenon DEF ServeAdvance
<1>2. ~Over(sv) /\ sv.pc \in Admitting /\ sv.pc # "idle"
  BY <1>1, Zenon DEF Over, Admitting
<1>3. sv.plan.epoch \in Nat
  BY <1>0, <1>2, Zenon DEF ServeOK, Plans
<1>4. /\ RowsStep /\ UNCHANGED <<recent, led>>
      /\ missed' \in [Peers -> [Peers -> Nat]] /\ faults' \in Nat
  BY <1>1, <1>3, RowsInvalidated, AsideSame, Zenon
<1>5. CASE generation'[o] # sv.plan.epoch
  BY <1>1, <1>2, <1>4, <1>5, ServeRefuses, Zenon
<1>6. CASE generation'[o] = sv.plan.epoch
  BY <1>1, <1>2, <1>4, <1>6, ServeGoesTo, Zenon DEF ServePCs, Filling, Admitting
<1> QED BY <1>5, <1>6, Zenon

LEMMA ServeReadGenerationInv ==
    ASSUME Inv, NEW r \in Readers, NEW o \in Peers, ServeReadGeneration(r, o) PROVE Inv'
<1> DEFINE sv == serve[r][o]  new == [sv EXCEPT !.pc = "upsert", !.epoch = generation[o]]
<1>0. sv \in Serves /\ ServeOK(sv, o, generation) /\ generation[o] \in Nat
  BY ServeAt, Zenon
<1>1. /\ sv.pc = "generation" /\ Handle(r, o, new)
      /\ UNCHANGED <<upstream, rows, read, write, aside>>
  BY DEF ServeReadGeneration
<1>2. /\ new \in Serves /\ new.pc = "upsert" /\ new.frames = sv.frames /\ new.want = sv.want
      /\ new.swapped = sv.swapped /\ new.plan = sv.plan /\ new.epoch = generation[o]
  BY <1>0, Zenon DEF Serves, ServePCs
<1> HIDE DEF new
<1>3. generation'[o] = generation[o] /\ new.epoch <= generation'[o]
  BY <1>0, <1>1, <1>2 DEF rows
<1>4. ServeOK(new, o, generation')
  BY <1>0, <1>1, <1>2, <1>3, Zenon DEF ServeOK, Over, Filling, Admitting
<1>5. new.pc \notin Filling /\ ~Over(sv) /\ sv.pc # "idle"
  BY <1>1, <1>2, Zenon DEF Filling, Over
<1> QED BY <1>1, <1>2, <1>4, <1>5, ServeMoves, RowsSame, AsideSame, Zenon

LEMMA ServeUpsertObjectInv ==
    ASSUME Inv, NEW r \in Readers, NEW o \in Peers, ServeUpsertObject(r, o) PROVE Inv'
<1> DEFINE sv == serve[r][o]  new == [sv EXCEPT !.pc = "reread", !.epoch = 0]
           row == [etag |-> sv.plan.etag, epoch |-> sv.epoch, identity |-> TRUE]
<1>0. sv \in Serves /\ ServeOK(sv, o, generation) /\ generation[o] \in Nat
  BY ServeAt
<1>1. /\ sv.pc = "upsert" /\ object' = [object EXCEPT ![o] = row] /\ Handle(r, o, new)
      /\ UNCHANGED <<upstream, generation, pages, read, write, aside>>
  BY Zenon DEF ServeUpsertObject
<1>2. /\ new \in Serves /\ new.pc = "reread" /\ new.frames = sv.frames /\ new.want = sv.want
      /\ new.swapped = sv.swapped /\ new.plan = sv.plan
  BY <1>0, Zenon DEF Serves, ServePCs
<1>3. row \in Rows /\ row.epoch <= generation[o]
  <2>1. sv.plan \in Plans /\ sv.epoch <= generation[o] /\ sv.epoch \in Nat
    BY <1>0, <1>1, Zenon DEF ServeOK, Over, Serves
  <2> QED BY <2>1, Zenon DEF Rows, Plans
<1> HIDE DEF new, row
<1>4. RowsStep
  BY <1>1, <1>3, RowsUpserted, Zenon
<1>5. ServeOK(new, o, generation')
  BY <1>0, <1>1, <1>2, Zenon DEF ServeOK, Over, Filling, Admitting
<1>6. new.pc \notin Filling /\ ~Over(sv) /\ sv.pc # "idle"
  BY <1>1, <1>2, Zenon DEF Filling, Over
<1> QED BY <1>1, <1>2, <1>4, <1>5, <1>6, ServeMoves, AsideSame, Zenon

LEMMA ServeRereadObjectInv ==
    ASSUME Inv, NEW r \in Readers, NEW o \in Peers, ServeRereadObject(r, o) PROVE Inv'
<1> DEFINE sv == serve[r][o]  obj == object[o]
           plan == [sv.plan EXCEPT !.etag = obj.etag]
           new == [sv EXCEPT !.pc = "open", !.plan = plan, !.swapped = obj.etag # sv.plan.etag]
<1>0. /\ sv \in Serves /\ ServeOK(sv, o, generation) /\ obj \in Opt(Rows)
      /\ Paired(read[r], sv) /\ (led => PairFresh(read[r], sv))
  BY ServeAt, Zenon
<1>1. sv.pc = "reread" /\ UNCHANGED <<upstream, rows, read, write, aside>>
  BY DEF ServeRereadObject
<1>2. /\ RowsStep /\ UNCHANGED <<recent, led>> /\ generation' = generation
      /\ missed' \in [Peers -> [Peers -> Nat]] /\ faults' \in Nat
  BY <1>1, RowsSame, AsideSame DEF rows
<1>3. CASE obj = None \/ obj.epoch # sv.plan.epoch
  <2>1. Handle(r, o, Refused(sv))
    BY <1>3, Zenon DEF ServeRereadObject
  <2> QED BY <1>1, <1>2, <2>1, ServeRefuses, Zenon
<1>4. CASE ~(obj = None \/ obj.epoch # sv.plan.epoch)
  <2>1. Handle(r, o, new)
    BY <1>4 DEF ServeRereadObject
  <2>2. obj \in Rows /\ obj.epoch = sv.plan.epoch /\ obj.epoch <= generation[o]
    BY <1>0, <1>4, Zenon DEF Opt, Inv, RowsInv, RowsOK
  <2>3. sv.plan \in Plans /\ sv.want # {} /\ ~sv.swapped /\ ~Over(sv)
    BY <1>0, <1>1, Zenon DEF ServeOK, Over, Admitting
  <2>4. plan \in Plans /\ plan.etag = obj.etag /\ plan.epoch = sv.plan.epoch
    BY <2>2, <2>3, Zenon DEF Plans, Rows
  <2> HIDE DEF plan
  <2>5. /\ new \in Serves /\ new.pc = "open" /\ new.plan = plan /\ new.frames = sv.frames
        /\ new.want = sv.want /\ new.swapped = (obj.etag # sv.plan.etag)
    BY <1>0, <2>4, Zenon DEF Serves, ServePCs, Opt
  <2> HIDE DEF new
  <2>6. ServeOK(new, o, generation')
    BY <1>0, <1>2, <2>2, <2>3, <2>4, <2>5, Zenon DEF ServeOK, Over, Filling, Admitting
  <2>7. Paired(read[r], new)
    BY <1>0, <1>1, <2>3, <2>4, <2>5, Zenon DEF Paired
  <2>8. led => PairFresh(read[r], new)
    BY <1>0, <2>5, Zenon DEF PairFresh, Filling
  <2>9. ServeGoes(sv, new)
    BY <2>5, Zenon DEF ServeGoes, HeldByServe, Filling
  <2> QED BY <1>1, <1>2, <2>1, <2>3, <2>6, <2>7, <2>8, <2>9, ServeSteps, ZenonT(30)
<1> QED BY <1>3, <1>4

LEMMA Smallest ==
    ASSUME NEW S, S \subseteq Nat, S # {} PROVE \E i \in S : \A j \in S : i <= j
<1> DEFINE R == {ss \in Nat \X Nat : ss[1] < ss[2]}
<1>1. IsWellFoundedOn(R, Nat)
  BY NatLessThanWellFounded DEF OpToRel
<1>2. ASSUME NEW i \in Nat, NEW j \in Nat, <<j, i>> \notin R PROVE i <= j
  <2>1. ~(j < i)
    BY <1>2
  <2> QED BY <2>1
<1> HIDE DEF R
<1>3. PICK i \in S : \A j \in S : <<j, i>> \notin R
  BY <1>1, WFMin, Zenon
<1>4. \A j \in S : i <= j
  BY <1>2, <1>3, Zenon
<1> QED BY <1>4

LEMMA NextPageIn ==
    ASSUME NEW sv \in Serves, sv.want # {} PROVE NextPage(sv) \in sv.want /\ NextPage(sv) \in Indexes
<1>1. sv.want \subseteq Indexes /\ sv.want \subseteq Nat
  BY DistributedAssumption, Zenon DEF Serves
<1>2. \E i \in sv.want : \A j \in sv.want : i <= j
  BY <1>1, Smallest
<1> QED BY <1>1, <1>2 DEF NextPage

LEMMA FramedFacts ==
    ASSUME NEW sv \in Serves, sv.want # {}, NEW bytes \in ETags
    PROVE  LET new == Framed(sv, bytes)
           IN  /\ new \in Serves /\ new.pc = sv.pc /\ new.plan = sv.plan /\ new.want = sv.want
               /\ new.body = sv.body /\ new.swapped = sv.swapped
               /\ \A i \in Indexes : new.frames[i] \in {sv.frames[i], bytes}
<1> DEFINE new == Framed(sv, bytes)
           n == NextPage(sv)
<1>1. n \in Indexes
  BY NextPageIn
<1>2. new = [sv EXCEPT !.frames[n] = bytes, !.status = "ok"]
  BY DEF Framed
<1> SUFFICES /\ new \in Serves /\ new.pc = sv.pc /\ new.plan = sv.plan /\ new.want = sv.want
             /\ new.body = sv.body /\ new.swapped = sv.swapped
             /\ \A i \in Indexes : new.frames[i] \in {sv.frames[i], bytes}
  BY Zenon
<1> HIDE DEF n, new
<1>3. sv.frames \in [Indexes -> Opt(ETags)]
  BY DEF Serves
<1> DEFINE f == [sv.frames EXCEPT ![n] = bytes]
<1>4. f \in [Indexes -> Opt(ETags)] /\ \A i \in Indexes : f[i] \in {sv.frames[i], bytes}
  BY <1>1, <1>3, Zenon DEF Opt
<1>5. new = [sv EXCEPT !.frames = f, !.status = "ok"]
  BY <1>2
<1> HIDE DEF f
<1> QED BY <1>4, <1>5, Zenon DEF Serves

LEMMA ServedFacts ==
    ASSUME NEW sv \in Serves
    PROVE  LET new == Served(sv)
           IN  /\ new \in Serves /\ new.pc \in {"open", "ended"} /\ new.frames = sv.frames
               /\ new.swapped = sv.swapped
               /\ new.pc = "open" => /\ new.plan = sv.plan /\ new.want \subseteq sv.want
                                     /\ new.want # {}
<1> DEFINE new == Served(sv)
           left == sv.want \ {NextPage(sv)}
<1>1. left \subseteq sv.want /\ left \in SUBSET Indexes
  BY Zenon DEF Serves
<1>2. new = IF left = {} THEN [Refused(sv) EXCEPT !.complete = TRUE]
            ELSE [sv EXCEPT !.pc = "open", !.want = left, !.body = None]
  BY DEF Served
<1> SUFFICES /\ new \in Serves /\ new.pc \in {"open", "ended"} /\ new.frames = sv.frames
             /\ new.swapped = sv.swapped
             /\ new.pc = "open" => /\ new.plan = sv.plan /\ new.want \subseteq sv.want
                                   /\ new.want # {}
  BY Zenon
<1> HIDE DEF left, new
<1>3. CASE left = {}
  <2> DEFINE over == Refused(sv)
  <2>1. over \in Serves /\ over.pc = "ended" /\ over.frames = sv.frames /\ over.swapped = sv.swapped
    BY RefusedFacts, Zenon
  <2>2. new = [over EXCEPT !.complete = TRUE]
    BY <1>2, <1>3
  <2> HIDE DEF over
  <2> QED BY <2>1, <2>2, Zenon DEF Serves
<1>4. CASE left # {}
  <2>1. new = [sv EXCEPT !.pc = "open", !.want = left, !.body = None]
    BY <1>2, <1>4
  <2>2. /\ new \in Serves /\ new.pc = "open" /\ new.frames = sv.frames /\ new.plan = sv.plan
        /\ new.swapped = sv.swapped /\ new.want = left
    BY <1>1, <2>1, Zenon DEF Serves, ServePCs, Opt
  <2> QED BY <1>1, <1>4, <2>2
<1> QED BY <1>3, <1>4, Zenon

(* A step that may send a frame of the version it serves *)
LEMMA ServeAnswers ==
    ASSUME Inv, NEW r \in Readers, NEW o \in Peers, NEW new, Handle(r, o, new), UNCHANGED read,
           RowsStep, ServeOK(new, o, generation'), ~Over(serve[r][o]), NEW bytes,
           bytes = serve[r][o].plan.etag,
           \A i \in Indexes : new.frames[i] \in {serve[r][o].frames[i], bytes},
           new.swapped = serve[r][o].swapped,
           ~Over(new) => new.plan = serve[r][o].plan,
           new.pc \in Filling => serve[r][o].pc \in Filling /\ new.body = serve[r][o].body,
           led /\ Attached(read[r]) => bytes \in read[r].promise,
           UNCHANGED <<upstream, write, recent, led>>,
           missed' \in [Peers -> [Peers -> Nat]], faults' \in Nat
    PROVE  Inv'
<1>1. Paired(read[r], serve[r][o]) /\ (led => PairFresh(read[r], serve[r][o]))
  BY ServeAt, Zenon
<1>2. Paired(read[r], new)
  BY <1>1, Zenon DEF Paired, Over
<1>3. led => PairFresh(read[r], new)
  BY <1>1, Zenon DEF PairFresh
<1>4. ServeGoes(serve[r][o], new)
  BY Zenon DEF ServeGoes, HeldByServe, Over, Filling
<1> QED BY <1>2, <1>3, <1>4, ServeSteps, Zenon

LEMMA ServeOpenPageInv ==
    ASSUME Inv, NEW r \in Readers, NEW o \in Peers, ServeOpenPage(r, o) PROVE Inv'
<1> DEFINE sv == serve[r][o]  i == NextPage(serve[r][o])
<1>0. sv \in Serves /\ ServeOK(sv, o, generation)
  BY ServeAt
<1>1. /\ sv.pc = "open" /\ PageLooked(o, i, sv.plan)
      /\ Handle(r, o, IF PageHit(o, i, sv.plan) THEN Served(Framed(sv, pages[o][i].bytes))
                      ELSE [sv EXCEPT !.pc = "fetch"])
      /\ UNCHANGED <<upstream, generation, object, read, write, aside>>
  BY Zenon DEF ServeOpenPage
<1>2. /\ ~Over(sv) /\ sv.plan \in Plans /\ sv.want # {} /\ sv.plan.epoch <= generation[o]
      /\ \A j \in sv.want : PageOwner[j] = o
  BY <1>0, <1>1, Zenon DEF ServeOK, Over
<1>3. i \in Indexes
  BY <1>0, <1>2, NextPageIn, Zenon
<1>4. /\ RowsStep /\ UNCHANGED <<recent, led>> /\ generation' = generation
      /\ missed' \in [Peers -> [Peers -> Nat]] /\ faults' \in Nat
  BY <1>1, <1>3, RowsLooked, AsideSame, Zenon
<1>5. CASE PageHit(o, i, sv.plan)
  <2> DEFINE bytes == pages[o][i].bytes  framed == Framed(sv, bytes)  new == Served(framed)
  <2>1. /\ pages[o][i] \in Cells /\ bytes \in Bytes(o) /\ bytes = pages[o][i].etag
    BY <1>3, <1>5, PageOf, Zenon DEF PageHit
  <2>2. bytes = sv.plan.etag /\ bytes \in ETags
    BY <1>5, <2>1, Zenon DEF PageHit, IsPageOf, Cells
  <2>3. Handle(r, o, new)
    BY <1>1, <1>5, Zenon
  <2> HIDE DEF bytes
  <2>4. /\ framed \in Serves /\ framed.plan = sv.plan /\ framed.want = sv.want
        /\ framed.swapped = sv.swapped
        /\ \A j \in Indexes : framed.frames[j] \in {sv.frames[j], bytes}
    BY <1>0, <1>2, <2>2, FramedFacts, Zenon
  <2> HIDE DEF framed
  <2>5. /\ new \in Serves /\ new.pc \in {"open", "ended"} /\ new.frames = framed.frames
        /\ new.swapped = framed.swapped
        /\ new.pc = "open" => /\ new.plan = framed.plan /\ new.want \subseteq framed.want
                              /\ new.want # {}
    BY <2>4, ServedFacts, Zenon
  <2> HIDE DEF new
  <2>6. ServeOK(new, o, generation')
    BY <1>2, <1>4, <2>4, <2>5, Zenon DEF ServeOK, Over, Filling, Admitting
  <2>7. led /\ Attached(read[r]) => bytes \in read[r].promise
    <3>1. Attached(read[r]) => Running(read[r])
      BY Zenon DEF Attached, Running, Ends
    <3> QED BY <2>1, <3>1, Zenon DEF Inv, FreshInv, Covers
  <2>8. ~Over(new) => new.plan = sv.plan
    BY <2>4, <2>5, Zenon DEF Over
  <2>9. /\ new.swapped = sv.swapped /\ new.pc \notin Filling
        /\ \A j \in Indexes : new.frames[j] \in {sv.frames[j], bytes}
    BY <2>4, <2>5, Zenon DEF Filling
  <2> QED BY <1>1, <1>2, <1>4, <2>2, <2>3, <2>6, <2>7, <2>8, <2>9, ServeAnswers, ZenonT(30)
<1>6. CASE ~PageHit(o, i, sv.plan)
  BY <1>1, <1>2, <1>4, <1>6, ServeGoesTo, Zenon DEF ServePCs, Filling, Admitting
<1> QED BY <1>5, <1>6

LEMMA ServeFetchPageInv ==
    ASSUME Inv, NEW r \in Readers, NEW o \in Peers, ServeFetchPage(r, o) PROVE Inv'
<1> DEFINE sv == serve[r][o]  new == [sv EXCEPT !.pc = "begin", !.body = upstream]
<1>0. /\ sv \in Serves /\ ServeOK(sv, o, generation)
      /\ Paired(read[r], sv) /\ (led => PairFresh(read[r], sv))
  BY ServeAt, Zenon
<1>1. /\ sv.pc = "fetch" /\ UNCHANGED <<upstream, rows, read, write, aside>>
      /\ Handle(r, o, IF upstream = sv.plan.etag THEN new ELSE [sv EXCEPT !.pc = "changed"])
  BY Zenon DEF ServeFetchPage
<1>2. ~Over(sv)
  BY <1>1, Zenon DEF Over
<1>3. /\ RowsStep /\ UNCHANGED <<recent, led>> /\ generation' = generation
      /\ missed' \in [Peers -> [Peers -> Nat]] /\ faults' \in Nat
  BY <1>1, RowsSame, AsideSame, Zenon DEF rows
<1>4. CASE upstream = sv.plan.etag
  <2>1. upstream \in ETags
    BY Zenon DEF Inv, TypeOK
  <2>2. /\ new \in Serves /\ new.pc = "begin" /\ new.body = upstream /\ new.plan = sv.plan
        /\ new.want = sv.want /\ new.frames = sv.frames /\ new.swapped = sv.swapped
    BY <1>0, <2>1, Zenon DEF Serves, ServePCs, Opt
  <2>3. Handle(r, o, new)
    BY <1>1, <1>4, Zenon
  <2> HIDE DEF new
  <2>4. ServeOK(new, o, generation')
    BY <1>0, <1>1, <1>3, <1>4, <2>2, Zenon DEF ServeOK, Over, Filling, Admitting
  <2>5. Paired(read[r], new)
    BY <1>0, <1>1, <1>2, <2>2, Zenon DEF Paired
  <2>6. led => PairFresh(read[r], new)
    <3>1. Attached(read[r]) => Running(read[r])
      BY DEF Attached, Running, Ends
    <3>2. led /\ Attached(read[r]) => upstream \in read[r].promise
      BY <3>1, Zenon DEF Inv, FreshInv, Covers
    <3> QED BY <1>0, <2>2, <3>2, Zenon DEF PairFresh
  <2>7. ServeGoes(sv, new)
    BY <2>2, Zenon DEF ServeGoes, HeldByServe
  <2> QED BY <1>1, <1>3, <2>2, <2>3, <2>4, <2>5, <2>6, <2>7, ServeSteps, Zenon
<1>5. CASE upstream # sv.plan.etag
  BY <1>1, <1>2, <1>3, <1>5, ServeGoesTo, Zenon DEF ServePCs, Filling, Admitting
<1> QED BY <1>4, <1>5, Zenon

LEMMA ServeBeginPageInv ==
    ASSUME Inv, NEW r \in Readers, NEW o \in Peers, ServeBeginPage(r, o) PROVE Inv'
<1> DEFINE sv == serve[r][o]  bytes == serve[r][o].body  framed == Framed(sv, bytes)
<1>0. /\ sv \in Serves /\ ServeOK(sv, o, generation) /\ (led => PairFresh(read[r], sv))
  BY ServeAt, Zenon
<1>1. /\ sv.pc = "begin" /\ UNCHANGED <<upstream, rows, read, write, aside>>
      /\ Handle(r, o, IF MayStore(o, framed.plan) THEN [framed EXCEPT !.pc = "commit"]
                      ELSE Served(framed))
  BY Zenon DEF ServeBeginPage
<1>2. /\ ~Over(sv) /\ sv.pc \in Filling /\ sv.plan \in Plans /\ sv.want # {}
      /\ sv.plan.epoch <= generation[o] /\ bytes = sv.plan.etag
      /\ \A j \in sv.want : PageOwner[j] = o
  BY <1>0, <1>1, Zenon DEF ServeOK, Over, Filling
<1>3. bytes \in ETags
  BY <1>2, Zenon DEF Plans
<1>4. led /\ Attached(read[r]) => bytes \in read[r].promise
  BY <1>0, <1>2, Zenon DEF PairFresh
<1>5. /\ RowsStep /\ UNCHANGED <<recent, led>> /\ generation' = generation
      /\ missed' \in [Peers -> [Peers -> Nat]] /\ faults' \in Nat
  BY <1>1, RowsSame, AsideSame, Zenon DEF rows
<1> HIDE DEF bytes
<1>6. /\ framed \in Serves /\ framed.plan = sv.plan /\ framed.want = sv.want
      /\ framed.swapped = sv.swapped /\ framed.body = sv.body
      /\ \A j \in Indexes : framed.frames[j] \in {sv.frames[j], bytes}
  BY <1>0, <1>2, <1>3, FramedFacts, Zenon
<1> HIDE DEF framed
<1>7. CASE MayStore(o, framed.plan)
  <2> DEFINE new == [framed EXCEPT !.pc = "commit"]
  <2>1. /\ new \in Serves /\ new.pc = "commit" /\ new.frames = framed.frames
        /\ new.swapped = framed.swapped /\ new.plan = framed.plan /\ new.want = framed.want
        /\ new.body = framed.body
    BY <1>6, Zenon DEF Serves, ServePCs
  <2>2. Handle(r, o, new)
    BY <1>1, <1>7
  <2> HIDE DEF new
  <2>3. ServeOK(new, o, generation')
    BY <1>2, <1>5, <1>6, <2>1, Zenon DEF ServeOK, Over, Filling, Admitting, bytes
  <2>4. /\ new.swapped = sv.swapped /\ new.body = sv.body /\ new.plan = sv.plan
        /\ \A j \in Indexes : new.frames[j] \in {sv.frames[j], bytes}
    BY <1>6, <2>1, Zenon
  <2> QED BY <1>1, <1>2, <1>4, <1>5, <2>2, <2>3, <2>4, ServeAnswers, ZenonT(30)
<1>8. CASE ~MayStore(o, framed.plan)
  <2> DEFINE new == Served(framed)
  <2>1. /\ new \in Serves /\ new.pc \in {"open", "ended"} /\ new.frames = framed.frames
        /\ new.swapped = framed.swapped
        /\ new.pc = "open" => /\ new.plan = framed.plan /\ new.want \subseteq framed.want
                              /\ new.want # {}
    BY <1>6, ServedFacts, Zenon
  <2>2. Handle(r, o, new)
    BY <1>1, <1>8
  <2> HIDE DEF new
  <2>3. ServeOK(new, o, generation')
    BY <1>2, <1>5, <1>6, <2>1, Zenon DEF ServeOK, Over, Filling, Admitting
  <2>4. /\ new.swapped = sv.swapped /\ new.pc \notin Filling
        /\ ~Over(new) => new.plan = sv.plan
        /\ \A j \in Indexes : new.frames[j] \in {sv.frames[j], bytes}
    BY <1>6, <2>1, Zenon DEF Filling, Over
  <2> QED BY <1>1, <1>2, <1>4, <1>5, <2>2, <2>3, <2>4, ServeAnswers, ZenonT(30)
<1> QED BY <1>7, <1>8, Zenon

LEMMA ServeCommitPageInv ==
    ASSUME Inv, NEW r \in Readers, NEW o \in Peers, ServeCommitPage(r, o) PROVE Inv'
<1> DEFINE sv == serve[r][o]  i == NextPage(serve[r][o])  new == Served(serve[r][o])
<1>0. sv \in Serves /\ ServeOK(sv, o, generation) /\ (led => PairFresh(read[r], sv))
  BY ServeAt, Zenon
<1>1. /\ sv.pc = "commit" /\ Handle(r, o, new)
      /\ IF MayStore(o, sv.plan) THEN Stored(o, i, sv.plan, sv.body) ELSE UNCHANGED pages
      /\ UNCHANGED <<upstream, generation, object, read, write, aside>>
  BY Zenon DEF ServeCommitPage
<1>2. /\ ~Over(sv) /\ sv.pc \in Filling /\ sv.plan \in Plans /\ sv.want # {}
      /\ sv.plan.epoch <= generation[o] /\ sv.body = sv.plan.etag
      /\ \A j \in sv.want : PageOwner[j] = o
  BY <1>0, <1>1, Zenon DEF ServeOK, Over, Filling
<1>3. sv.body \in ETags /\ i \in Indexes /\ i \in sv.want
  BY <1>0, <1>2, NextPageIn, Zenon DEF Plans
<1>4. RowsStep
  <2>1. CASE MayStore(o, sv.plan)
    <3>1. HeldByServe(sv, generation[o], sv.body)
      BY <1>2, <2>1, Zenon DEF HeldByServe, MayStore, IsCurrent
    <3>2. sv.body \in Bytes(o)
      BY <1>3, <3>1, Zenon DEF Bytes
    <3>3. Stored(o, i, sv.plan, sv.body) /\ PageOwner[i] = o
      BY <1>1, <1>2, <1>3, <2>1, Zenon
    <3> QED BY <1>1, <1>2, <1>3, <2>1, <3>2, <3>3, RowsStored, Zenon
  <2>2. CASE ~MayStore(o, sv.plan)
    BY <1>1, <2>2, RowsSame, Zenon DEF rows
  <2> QED BY <2>1, <2>2, Zenon
<1>5. /\ new \in Serves /\ new.pc \in {"open", "ended"} /\ new.frames = sv.frames
      /\ new.swapped = sv.swapped
      /\ new.pc = "open" => /\ new.plan = sv.plan /\ new.want \subseteq sv.want
                            /\ new.want # {}
  BY <1>0, ServedFacts, Zenon
<1> HIDE DEF new
<1>6. ServeOK(new, o, generation')
  BY <1>1, <1>2, <1>5, Zenon DEF ServeOK, Over, Filling, Admitting
<1>7. new.pc \notin Filling /\ sv.pc # "idle" /\ (~Over(new) => new.plan = sv.plan)
  BY <1>1, <1>5, Zenon DEF Filling, Over
<1> QED BY <1>1, <1>2, <1>4, <1>5, <1>6, <1>7, ServeMoves, AsideSame, Zenon

LEMMA ServeInvalidateInv ==
    ASSUME Inv, NEW r \in Readers, NEW o \in Peers, ServeInvalidate(r, o) PROVE Inv'
<1> DEFINE sv == serve[r][o]  e == generation'[o]
           new == [sv EXCEPT !.pc = "sending", !.epoch = e, !.todo = Peers \ {o}]
<1>0. sv \in Serves /\ ServeOK(sv, o, generation)
  BY ServeAt
<1>1. /\ sv.pc = "changed" /\ InvalidateObject(o, 0) /\ Handle(r, o, new)
      /\ UNCHANGED <<upstream, read, write, aside>>
  BY DEF ServeInvalidate
<1>2. RowsStep
  BY <1>1, RowsInvalidated
<1>3. e \in Nat
  BY <1>2, Zenon DEF RowsStep
<1> HIDE DEF e
<1>4. /\ new \in Serves /\ new.pc = "sending" /\ new.frames = sv.frames /\ new.want = sv.want
      /\ new.swapped = sv.swapped /\ new.plan = sv.plan
  BY <1>0, <1>3, Zenon DEF Serves, ServePCs
<1> HIDE DEF new
<1>5. ServeOK(new, o, generation')
  BY <1>0, <1>1, <1>4, Zenon DEF ServeOK, Over, Filling, Admitting
<1>6. new.pc \notin Filling /\ ~Over(sv) /\ sv.pc # "idle"
  BY <1>1, <1>4, Zenon DEF Filling, Over
<1> QED BY <1>1, <1>2, <1>4, <1>5, <1>6, ServeMoves, AsideSame, Zenon

(* The page owner went over a peer with its invalidation. *)
LEMMA ServeWentOver ==
    ASSUME Inv, NEW r \in Readers, NEW o \in Peers, NEW q \in Peers, serve[r][o].pc = "sending",
           Handle(r, o, IF serve[r][o].todo = {q} THEN Refused(serve[r][o])
                        ELSE [serve[r][o] EXCEPT !.todo = @ \ {q}]),
           UNCHANGED read, RowsStep, UNCHANGED <<upstream, write, recent, led>>,
           missed' \in [Peers -> [Peers -> Nat]], faults' \in Nat
    PROVE  Inv'
<1> DEFINE sv == serve[r][o]  new == [sv EXCEPT !.todo = @ \ {q}]
<1>0. sv \in Serves /\ ServeOK(sv, o, generation)
  BY ServeAt, Zenon
<1>1. CASE sv.todo = {q}
  BY <1>1, ServeRefuses, Zenon
<1>2. CASE sv.todo # {q}
  <2>1. /\ new \in Serves /\ new.pc = "sending" /\ new.frames = sv.frames /\ new.want = sv.want
        /\ new.swapped = sv.swapped /\ new.plan = sv.plan
    BY <1>0, Zenon DEF Serves
  <2>2. Handle(r, o, new)
    BY <1>2, Zenon
  <2> HIDE DEF new
  <2>3. ServeOK(new, o, generation')
    BY <1>0, <2>1, Zenon DEF ServeOK, Over, Filling, Admitting
  <2>4. new.pc \notin Filling /\ ~Over(sv) /\ sv.pc # "idle"
    BY <2>1, Zenon DEF Filling, Over
  <2> QED BY <2>1, <2>2, <2>3, <2>4, ServeMoves, Zenon
<1> QED BY <1>1, <1>2, Zenon

LEMMA ServeSendInv ==
    ASSUME Inv, NEW r \in Readers, NEW o \in Peers, NEW q \in Peers, ServeSend(r, o, q)
    PROVE  Inv'
<1>1. serve[r][o].epoch \in Nat
  BY ServeAt, Zenon DEF Serves
<1>2. RowsStep
  BY <1>1, RowsInvalidated, Zenon DEF ServeSend
<1> QED BY <1>2, ServeWentOver, AsideSame, Zenon DEF ServeSend

LEMMA QueuedTyped ==
    ASSUME Inv, NEW p \in Peers, NEW q \in Peers, NEW epoch \in Nat, Queued(p, q, epoch)
    PROVE  missed' \in [Peers -> [Peers -> Nat]]
BY Zenon DEF Inv, TypeOK, Queued

LEMMA RowsUnconfirmed ==
    ASSUME Inv, NEW q \in Peers, NEW epoch \in Nat, Unconfirmed(q, epoch)
    PROVE  RowsStep
BY RowsSame, RowsInvalidated, Zenon DEF Unconfirmed

LEMMA CutTyped ==
    ASSUME Inv, NEW r \in Readers, Cut(r) PROVE faults' \in Nat
BY Faulted, Zenon DEF Cut, Inv, TypeOK

LEMMA ServeSendFailsInv ==
    ASSUME Inv, NEW r \in Readers, NEW o \in Peers, NEW q \in Peers, ServeSendFails(r, o, q)
    PROVE  Inv'
<1>1. serve[r][o].epoch \in Nat
  BY ServeAt DEF Serves
<1>2. /\ RowsStep /\ faults' \in Nat /\ missed' \in [Peers -> [Peers -> Nat]]
  BY <1>1, RowsUnconfirmed, QueuedTyped, CutTyped, Zenon DEF ServeSendFails
<1> QED BY <1>2, ServeWentOver, Zenon DEF ServeSendFails

LEMMA ServeFailsInv ==
    ASSUME Inv, NEW r \in Readers, NEW o \in Peers, ServeFails(r, o) PROVE Inv'
<1>1. /\ Cut(r) /\ serve[r][o].pc # "idle" /\ Handle(r, o, Refused(serve[r][o]))
      /\ UNCHANGED <<upstream, rows, read, write, missed, recent, led>>
  BY Zenon DEF ServeFails
<1>2. RowsStep /\ faults' \in Nat /\ missed' \in [Peers -> [Peers -> Nat]]
  BY <1>1, RowsSame, CutTyped, Zenon DEF Inv, TypeOK
<1> QED BY <1>1, <1>2, ServeRefuses, Zenon

-----------------------------------------------------------------------------
(* New requests, writes, retries and restarts.                             *)

LEMMA StartInv ==
    ASSUME Inv, NEW r \in Readers, NEW req \in Requests, Start(r, req) PROVE Inv'
<1> DEFINE new == [ReadIdle EXCEPT !.pc = "get", !.peer = req.peer, !.first = req.first,
                                   !.last = req.last, !.promise = recent]
           news == [o \in Peers |-> ServeIdle]
<1>1. /\ Step(r, new) /\ serve' = [serve EXCEPT ![r] = news]
      /\ UNCHANGED <<upstream, rows, write, aside>>
  BY DEF Start
<1>2. req.peer \in Peers /\ req.first \in Indexes /\ req.last \in Indexes /\ recent \subseteq ETags
  BY DistributedAssumption DEF Inv, TypeOK
<1>3. ReadIdle \in Reads /\ ReadIdle.sent = {}
  BY DistributedAssumption DEF ReadIdle, Reads, ReadPCs, Opt
<1>4. /\ new \in Reads /\ new.pc = "get" /\ new.sent = {} /\ new.promise = recent
  BY <1>2, <1>3, Zenon DEF Reads, ReadPCs
<1>5. /\ news \in [Peers -> Serves] /\ \A o \in Peers : news[o] = ServeIdle
  BY ServeIdleOK
<1> HIDE DEF new, news
<1>6. ReadOK(new, generation') /\ OneBody(new, news) /\ ReadFresh(new)
  BY <1>4 DEF ReadOK, OneBody, ReadFresh, Planning, Sending, Filling
<1>7. ASSUME NEW o \in Peers
      PROVE  ServeOK(news[o], o, generation') /\ Paired(new, news[o]) /\ PairFresh(new, news[o])
  BY <1>4, <1>5, ServeIdleOK DEF Paired, PairFresh, Attached
<1>8. Request(new, news, generation') /\ RequestFresh(new, news)
  BY <1>6, <1>7 DEF Request, RequestFresh
<1>9. Follows(read[r], serve[r], new, news)
  <2>1. Goes(read[r], new)
    BY <1>4 DEF Goes, HeldByRead, Filling
  <2>2. ASSUME NEW o \in Peers PROVE ServeGoes(serve[r][o], news[o])
    BY <1>5, ServeIdleOK, Zenon DEF ServeGoes, HeldByServe, Filling
  <2> QED BY <2>1, <2>2 DEF Follows
<1>10. RowsStep
  BY <1>1, RowsSame
<1> QED BY <1>1, <1>5, <1>8, <1>9, <1>10, RequestSteps, AsideSame, Zenon DEF Step

(* A step that leaves every request where it is *)
LEMMA RequestsSame ==
    ASSUME Inv, RowsStep, UNCHANGED <<read, serve>>
    PROVE  /\ RequestsInv' /\ BytesKept
           /\ \A r \in Readers : Goes(read[r], read'[r])
           /\ led => \A r \in Readers : RequestFresh(read'[r], serve'[r])
<1>1. ASSUME NEW p \in Peers PROVE generation'[p] >= generation[p]
  <2>1. generation[p] \in Nat /\ generation'[p] \in Nat
    BY Zenon DEF Inv, TypeOK, RowsStep
  <2>2. generation'[p] = generation[p] \/ generation'[p] > generation[p]
    BY Zenon DEF RowsStep
  <2> QED BY <2>1, <2>2
<1>2. generation \in [Peers -> Nat] /\ generation' \in [Peers -> Nat]
  BY Zenon DEF Inv, TypeOK, RowsStep
<1>3. RequestsInv'
  BY <1>1, <1>2, RequestLater, Zenon DEF Inv, RequestsInv
<1>4. \A r \in Readers : Follows(read[r], serve[r], read'[r], serve'[r])
  BY GoesSame
<1>5. BytesKept
  BY <1>4, BytesStep
<1> QED BY <1>3, <1>4, <1>5, Zenon DEF Follows, Inv, FreshInv

LEMMA RetryInvalidationInv ==
    ASSUME Inv, NEW p \in Peers, NEW q \in Peers, RetryInvalidation(p, q) PROVE Inv'
<1>1. /\ InvalidateObject(q, missed[p][q]) /\ missed' = [missed EXCEPT ![p][q] = 0]
      /\ UNCHANGED <<upstream, read, serve, write, faults, recent, led>>
  BY DEF RetryInvalidation
<1>2. missed \in [Peers -> [Peers -> Nat]] /\ missed[p][q] \in Nat
  BY Zenon DEF Inv, TypeOK
<1>3. RowsStep
  BY <1>1, <1>2, RowsInvalidated
<1>4. /\ RequestsInv' /\ BytesKept
      /\ \A r \in Readers : Goes(read[r], read'[r])
      /\ led => \A r \in Readers : RequestFresh(read'[r], serve'[r])
  BY <1>1, <1>3, RequestsSame
<1>5. missed' \in [Peers -> [Peers -> Nat]]
  BY <1>1, <1>2, Zenon
<1>6. TypeOK'
  BY <1>1, <1>3, <1>5, Zenon DEF Inv, TypeOK, RowsStep
<1>7. \A w \in Writers : WriteGoes(write[w], write'[w])
  BY <1>1, Zenon DEF WriteGoes, Reached
<1>8. led => FreshInv'
  BY <1>1, <1>4, <1>7, FreshFollows, Zenon
<1> QED BY <1>1, <1>3, <1>4, <1>6, <1>8, Zenon DEF Inv, RowsStep

(* A write goes over peer q, which confirms its epoch or not. *)
LEMMA ToldInv ==
    ASSUME Inv, NEW w \in Writers, NEW q \in Peers, NEW failed \in BOOLEAN,
           write[w].pc = "sending", RowsStep, Told(w, q, failed),
           ~failed => generation'[q] >= write[w].epoch,
           UNCHANGED <<upstream, read, serve, led>>,
           missed' \in [Peers -> [Peers -> Nat]], faults' \in Nat
    PROVE  Inv'
<1> DEFINE wr == write[w]
           told == [wr EXCEPT !.todo = @ \ {q}, !.failed = @ \/ failed]
           over == [WriteIdle EXCEPT !.pc = "done"]
           new == IF told.todo = {} THEN over ELSE told
<1>1. write \in [Writers -> Writes] /\ wr \in Writes
  BY Zenon DEF Inv, TypeOK
<1>2. /\ told \in Writes /\ told.pc = "sending" /\ told.epoch = wr.epoch /\ told.since = wr.since
      /\ told.todo = wr.todo \ {q} /\ told.failed = (wr.failed \/ failed)
  BY <1>1, Zenon DEF Writes
<1>3. over \in Writes /\ over.pc = "done"
  BY Zenon DEF WriteIdle, Writes
<1>4. /\ write' = [write EXCEPT ![w] = new]
      /\ recent' = IF told.todo = {} /\ ~told.failed THEN told.since ELSE recent
  BY DEF Told
<1> HIDE DEF told, over
<1>5. new \in Writes /\ (new.pc = "sending" => new = told)
  BY <1>2, <1>3, Zenon
<1> HIDE DEF new
<1>6. /\ write' \in [Writers -> Writes] /\ write'[w] = new
      /\ \A x \in Writers : x # w => write'[x] = write[x]
  BY <1>1, <1>4, <1>5, Zenon
<1>7. recent' \subseteq ETags
  <2>1. wr.since \subseteq ETags
    BY <1>1, Zenon DEF Writes
  <2> QED BY <1>2, <1>4, <2>1, Zenon DEF Inv, TypeOK
<1>8. TypeOK'
  BY <1>6, <1>7, Zenon DEF Inv, TypeOK, RowsStep
<1>9. /\ RequestsInv' /\ BytesKept
      /\ \A r \in Readers : Goes(read[r], read'[r])
      /\ led => \A r \in Readers : RequestFresh(read'[r], serve'[r])
  BY RequestsSame, Zenon
<1>10. WriteGoes(wr, new)
  <2>1. ASSUME NEW p \in Peers, generation'[p] = generation[p], p \notin told.todo, ~told.failed
        PROVE  Reached(wr, p)
    BY <1>2, <2>1, Zenon DEF Reached
  <2> QED BY <1>2, <1>5, <2>1, Zenon DEF WriteGoes
<1>11. \A x \in Writers : WriteGoes(write[x], write'[x])
  <2>1. \A x \in Writers : WriteGoes(write[x], write[x])
    BY Zenon DEF WriteGoes, Reached
  <2> QED BY <1>6, <1>10, <2>1, Zenon
<1>12. ASSUME led PROVE UNCHANGED recent \/ Covers(recent)'
  <2>1. CASE told.todo = {} /\ ~told.failed
    <3>1. /\ upstream \in wr.since
          /\ \A p \in Peers : Reached(wr, p) => Bytes(p) \subseteq wr.since
      BY <1>12, Zenon DEF Inv, FreshInv, WriteFresh
    <3>2. ASSUME NEW p \in Peers PROVE Bytes(p)' \subseteq wr.since
      <4>1. CASE generation'[p] = generation[p] /\ Bytes(p)' \subseteq Bytes(p) \cup {upstream}
        <5>1. Reached(wr, p)
          BY <1>2, <2>1, <4>1, Zenon DEF Reached
        <5> QED BY <3>1, <4>1, <5>1
      <4>2. CASE Bytes(p)' \subseteq {upstream}
        BY <3>1, <4>2, Zenon
      <4> QED BY <1>9, <4>1, <4>2, Zenon DEF BytesKept
    <3>3. recent' = wr.since
      BY <1>2, <1>4, <2>1, Zenon
    <3> QED BY <3>1, <3>2, <3>3, Zenon DEF Covers
  <2>2. CASE ~(told.todo = {} /\ ~told.failed)
    BY <1>4, <2>2, Zenon
  <2> QED BY <2>1, <2>2, Zenon
<1>13. led => FreshInv'
  BY <1>9, <1>11, <1>12, FreshFollows, Zenon
<1> QED BY <1>8, <1>9, <1>13, Zenon DEF Inv, RowsStep

LEMMA WriteEpoch ==
    ASSUME Inv, NEW w \in Writers PROVE write[w].epoch \in Nat /\ write[w] \in Writes
BY Zenon DEF Inv, TypeOK, Writes

LEMMA SendInvalidationInv ==
    ASSUME Inv, NEW w \in Writers, NEW q \in Peers, SendInvalidation(w, q) PROVE Inv'
<1>1. /\ write[w].pc = "sending" /\ InvalidateObject(q, write[w].epoch) /\ Told(w, q, FALSE)
      /\ UNCHANGED <<upstream, read, serve, missed, faults, led>>
  BY Zenon DEF SendInvalidation
<1>2. RowsStep /\ generation'[q] >= write[w].epoch
  BY <1>1, WriteEpoch, RowsInvalidated, Zenon
<1>3. missed' \in [Peers -> [Peers -> Nat]] /\ faults' \in Nat
  BY <1>1, Zenon DEF Inv, TypeOK
<1> QED BY <1>1, <1>2, <1>3, ToldInv, Zenon

LEMMA SendFailsInv ==
    ASSUME Inv, NEW w \in Writers, NEW q \in Peers, SendFails(w, q) PROVE Inv'
<1>1. /\ Fault /\ write[w].pc = "sending" /\ Unconfirmed(q, write[w].epoch)
      /\ Queued(ObjectOwner, q, write[w].epoch) /\ Told(w, q, TRUE)
      /\ UNCHANGED <<upstream, read, serve, led>>
  BY Zenon DEF SendFails
<1>2. RowsStep
  BY <1>1, WriteEpoch, RowsUnconfirmed, Zenon
<1>3. missed' \in [Peers -> [Peers -> Nat]] /\ faults' \in Nat
  BY <1>1, WriteEpoch, QueuedTyped, Faulted, DistributedAssumption, Zenon
<1> QED BY <1>1, <1>2, <1>3, ToldInv, Zenon

LEMMA InvalidateLocallyInv ==
    ASSUME Inv, NEW w \in Writers, InvalidateLocally(w) PROVE Inv'
<1> DEFINE wr == write[w]  e == generation'[ObjectOwner]
           new == [wr EXCEPT !.pc = "sending", !.epoch = e, !.todo = Peers \ {ObjectOwner},
                             !.since = {upstream}]
<1>1. /\ InvalidateObject(ObjectOwner, 0) /\ write' = [write EXCEPT ![w] = new]
      /\ led' = (led /\ \A q \in Peers \ {ObjectOwner} : generation[q] < e)
      /\ UNCHANGED <<upstream, read, serve, missed, faults, recent>>
  BY DEF InvalidateLocally
<1>2. /\ RowsStep /\ e = generation[ObjectOwner] + 1
      /\ \A q \in Peers : q # ObjectOwner => generation'[q] = generation[q]
  BY <1>1, RowsInvalidated, DistributedAssumption
<1>3. e \in Nat \ {0} /\ e # generation[ObjectOwner]
  <2>1. generation[ObjectOwner] \in Nat
    BY DistributedAssumption, Zenon DEF Inv, TypeOK
  <2> QED BY <1>2, <2>1
<1>4. write \in [Writers -> Writes] /\ wr \in Writes /\ upstream \in ETags
  BY Zenon DEF Inv, TypeOK
<1>5. /\ \A q \in Peers : q # ObjectOwner => generation'[q] < e \/ ~led'
      /\ e = generation'[ObjectOwner]
      /\ led' \in BOOLEAN /\ (led' => led)
  BY <1>1, <1>2, Zenon
<1> HIDE DEF e
<1>6. /\ new \in Writes /\ new.pc = "sending" /\ new.epoch = e /\ new.since = {upstream}
      /\ new.todo = Peers \ {ObjectOwner}
  BY <1>3, <1>4, Zenon DEF Writes
<1> HIDE DEF new
<1>7. /\ write' \in [Writers -> Writes] /\ write'[w] = new
      /\ \A x \in Writers : x # w => write'[x] = write[x]
  BY <1>1, <1>4, <1>6, Zenon
<1>8. TypeOK'
  BY <1>1, <1>2, <1>5, <1>7, Zenon DEF Inv, TypeOK, RowsStep
<1>9. /\ RequestsInv' /\ BytesKept
      /\ \A r \in Readers : Goes(read[r], read'[r])
      /\ led => \A r \in Readers : RequestFresh(read'[r], serve'[r])
  BY <1>1, <1>2, RequestsSame, Zenon
<1>10. ASSUME led' PROVE FreshInv'
  <2>1. ASSUME NEW p \in Peers, (p \notin new.todo /\ ~new.failed) \/ generation'[p] >= new.epoch
        PROVE  Bytes(p)' \subseteq {upstream}
    <3>1. CASE p = ObjectOwner
      BY <1>3, <1>5, <1>9, <3>1, Zenon DEF BytesKept
    <3>2. CASE p # ObjectOwner
      <4>1. generation'[p] \in Nat /\ generation'[p] < e
        BY <1>2, <1>5, <1>10, <3>2, Zenon DEF RowsStep
      <4>2. ~(generation'[p] >= e)
        BY <1>3, <4>1
      <4> QED BY <1>6, <2>1, <3>2, <4>2, Zenon
    <3> QED BY <3>1, <3>2, Zenon
  <2>2. WriteFresh(write[w])'
    BY <1>1, <1>3, <1>6, <1>7, <2>1, Zenon DEF WriteFresh, Reached
  <2>3. \A x \in Writers : WriteGoes(write[x], write[x])
    BY Zenon DEF WriteGoes, Reached
  <2>4. \A x \in Writers : WriteGoes(write[x], write'[x]) \/ WriteFresh(write[x])'
    BY <1>7, <2>2, <2>3, Zenon
  <2> QED BY <1>1, <1>5, <1>9, <1>10, <2>4, FreshFollows, Zenon
<1> QED BY <1>2, <1>8, <1>9, <1>10, Zenon DEF Inv, RowsStep

LEMMA ForwardWriteInv ==
    ASSUME Inv, NEW w \in Writers, NEW v \in ETags, ForwardWrite(w, v) PROVE Inv'
<1> DEFINE grown(r) == [read[r] EXCEPT !.promise = @ \cup {v}]
           more(x) == [write[x] EXCEPT !.since = @ \cup {v}]
           answered == [WriteIdle EXCEPT !.pc = "answered"]
<1>1. /\ upstream' = v /\ recent' = recent \cup {v}
      /\ read' = [r \in Readers |-> IF Running(read[r]) THEN grown(r) ELSE read[r]]
      /\ write' = [x \in Writers |-> IF x = w THEN answered
                      ELSE IF write[x].pc = "sending" THEN more(x) ELSE write[x]]
      /\ UNCHANGED <<rows, serve, missed, faults, led>>
  BY DEF ForwardWrite, Replaced
<1>2. /\ read \in [Readers -> Reads] /\ write \in [Writers -> Writes]
  BY Zenon DEF Inv, TypeOK
<1>3. ASSUME NEW r \in Readers
      PROVE  /\ grown(r) \in Reads /\ grown(r).pc = read[r].pc /\ grown(r).peer = read[r].peer
             /\ grown(r).at = read[r].at /\ grown(r).plan = read[r].plan
             /\ grown(r).head = read[r].head /\ grown(r).body = read[r].body
             /\ grown(r).asked = read[r].asked
             /\ grown(r).header = read[r].header /\ grown(r).sent = read[r].sent
             /\ grown(r).promise = read[r].promise \cup {v}
  <2>1. read[r] \in Reads
    BY <1>2
  <2> QED BY <2>1, Zenon DEF Reads
<1>4. ASSUME NEW x \in Writers
      PROVE  /\ more(x) \in Writes /\ more(x).pc = write[x].pc /\ more(x).epoch = write[x].epoch
             /\ more(x).todo = write[x].todo /\ more(x).failed = write[x].failed
             /\ more(x).since = write[x].since \cup {v}
  <2>1. write[x] \in Writes
    BY <1>2, Zenon
  <2> QED BY <2>1 DEF Writes
<1>5. answered \in Writes /\ answered.pc = "answered"
  BY Zenon DEF WriteIdle, Writes
<1> HIDE DEF grown, more, answered
<1>6. ASSUME NEW r \in Readers
      PROVE  /\ read'[r] \in Reads /\ read'[r].pc = read[r].pc /\ read'[r].peer = read[r].peer
             /\ read'[r].at = read[r].at /\ read'[r].plan = read[r].plan
             /\ read'[r].head = read[r].head /\ read'[r].body = read[r].body
             /\ read'[r].asked = read[r].asked
             /\ read'[r].header = read[r].header /\ read'[r].sent = read[r].sent
             /\ read[r].promise \subseteq read'[r].promise
             /\ Running(read[r]) => read'[r].promise = read[r].promise \cup {v}
  <2>1. read'[r] = IF Running(read[r]) THEN grown(r) ELSE read[r]
    BY <1>1, Zenon
  <2>2. CASE Running(read[r])
    BY <1>3, <2>1, <2>2
  <2>3. CASE ~Running(read[r])
    BY <1>2, <2>1, <2>3, Zenon
  <2> QED BY <2>2, <2>3, Zenon
<1>7. write' \in [Writers -> Writes] /\ read' \in [Readers -> Reads]
  <2>1. \A x \in Writers : write'[x] \in Writes
    BY <1>1, <1>2, <1>4, <1>5, Zenon
  <2>2. read' \in [Readers -> Reads]
    BY <1>1, <1>2, <1>3, Zenon
  <2> QED BY <1>1, <1>2, <1>4, <1>5, <2>1, <2>2, Zenon
<1>8. TypeOK'
  BY <1>1, <1>7, Zenon DEF Inv, TypeOK, rows
<1>9. ASSUME NEW r \in Readers PROVE Request(read'[r], serve'[r], generation')
  <2>1. Request(read[r], serve[r], generation) /\ serve' = serve /\ generation' = generation
    BY <1>1, Zenon DEF Inv, RequestsInv, rows
  <2>2. ReadOK(read'[r], generation)
    BY <1>6, <2>1, Zenon DEF Request, ReadOK
  <2>3. OneBody(read'[r], serve[r])
    BY <1>6, <2>1, Zenon DEF Request, OneBody
  <2>4. ASSUME NEW o \in Peers PROVE Paired(read'[r], serve[r][o])
    BY <1>6, <2>1, Zenon DEF Request, Paired, Attached
  <2> QED BY <2>1, <2>2, <2>3, <2>4, Zenon DEF Request
<1>10. RowsInv'
  BY <1>1, Zenon DEF Inv, RowsInv, RowsOK, rows
<1>11. ASSUME NEW p \in Peers PROVE Bytes(p)' = Bytes(p)
  <2>1. pages' = pages /\ serve' = serve /\ generation' = generation
    BY <1>1, Zenon DEF rows
  <2>2. ASSUME NEW r \in Readers, NEW e, NEW b
        PROVE  HeldByRead(read'[r], p, e, b) <=> HeldByRead(read[r], p, e, b)
    BY <1>6, Zenon DEF HeldByRead
  <2> QED BY <2>1, <2>2, Zenon DEF Bytes
<1>12. ASSUME led PROVE FreshInv'
  <2>1. Covers(recent)'
    <3>1. Covers(recent)
      BY <1>12, Zenon DEF Inv, FreshInv
    <3> QED BY <1>1, <1>11, <3>1, Zenon DEF Covers
  <2>2. ASSUME NEW r \in Readers PROVE RequestFresh(read'[r], serve'[r])
    <3>1. RequestFresh(read[r], serve[r]) /\ serve' = serve
      BY <1>1, <1>12, Zenon DEF Inv, FreshInv
    <3>2. ReadFresh(read'[r])
      BY <1>6, <3>1, Zenon DEF RequestFresh, ReadFresh
    <3>3. ASSUME NEW o \in Peers PROVE PairFresh(read'[r], serve[r][o])
      BY <1>6, <3>1, Zenon DEF RequestFresh, PairFresh, Attached
    <3> QED BY <3>1, <3>2, <3>3, Zenon DEF RequestFresh
  <2>3. ASSUME NEW r \in Readers, Running(read'[r]) PROVE Covers(read[r].promise)'
    <3>1. Running(read[r]) /\ read'[r].promise = read[r].promise \cup {v}
      BY <1>6, <2>3, Zenon DEF Running
    <3>2. Covers(read[r].promise)
      BY <1>12, <3>1, Zenon DEF Inv, FreshInv
    <3> QED BY <1>1, <1>11, <3>1, <3>2, Zenon DEF Covers
  <2>4. ASSUME NEW x \in Writers PROVE WriteFresh(write[x])'
    <3>1. CASE x # w /\ write[x].pc = "sending"
      <4>1. write'[x] = more(x)
        BY <1>1, <3>1, Zenon
      <4>2. /\ write[x].epoch \in Nat \ {0}
            /\ \A p \in Peers : Reached(write[x], p) => Bytes(p) \subseteq write[x].since
        BY <1>12, <3>1, Zenon DEF Inv, FreshInv, WriteFresh
      <4>3. generation' = generation
        BY <1>1, Zenon DEF rows
      <4> QED BY <1>1, <1>4, <1>11, <4>1, <4>2, <4>3, SMTT(20) DEF WriteFresh, Reached
    <3>2. CASE x = w \/ write[x].pc # "sending"
      <4>1. write'[x].pc # "sending"
        BY <1>1, <1>5, <3>2, Zenon
      <4> QED BY <4>1, Zenon DEF WriteFresh
    <3> QED BY <3>1, <3>2, Zenon
  <2> QED BY <2>1, <2>2, <2>3, <2>4, Zenon DEF FreshInv
<1> QED BY <1>1, <1>8, <1>9, <1>10, <1>12, Zenon DEF Inv, RequestsInv

LEMMA RestartInv ==
    ASSUME Inv, NEW p \in Peers, NEW how, Restart(p, how) PROVE Inv'
<1> DEFINE cut(sv) == IF sv.pc \in {"idle", "ended"} THEN sv ELSE Refused(sv)
           over == [WriteIdle EXCEPT !.pc = "done"]
<1>1. /\ Fault /\ UNCHANGED <<upstream, recent, led>>
      /\ \/ UNCHANGED rows
         \/ /\ generation' = [generation EXCEPT ![p] = 0] /\ object' = [object EXCEPT ![p] = None]
            /\ pages' = [pages EXCEPT ![p] = NoPages]
      /\ read' = [r \in Readers |-> IF Running(read[r]) /\ read[r].peer = p
                    THEN Ended(read[r], "aborted") ELSE read[r]]
      /\ serve' = [r \in Readers |-> [serve[r] EXCEPT ![p] = cut(serve[r][p])]]
      /\ write' = [w \in Writers |-> IF p = ObjectOwner /\ write[w].pc # "idle"
                    THEN over ELSE write[w]]
      /\ missed' = [missed EXCEPT ![p] = [q \in Peers |-> 0]]
  BY Zenon DEF Restart, Aborted
<1>2. /\ generation \in [Peers -> Nat] /\ object \in [Peers -> Opt(Rows)]
      /\ pages \in [Peers -> [Indexes -> Opt(Cells)]]
      /\ read \in [Readers -> Reads] /\ serve \in [Readers -> [Peers -> Serves]]
      /\ write \in [Writers -> Writes] /\ missed \in [Peers -> [Peers -> Nat]]
  BY Zenon DEF Inv, TypeOK
<1>3. /\ generation' \in [Peers -> Nat] /\ object' \in [Peers -> Opt(Rows)]
      /\ pages' \in [Peers -> [Indexes -> Opt(Cells)]]
      /\ \A q \in Peers : q # p => /\ generation'[q] = generation[q] /\ object'[q] = object[q]
                                   /\ pages'[q] = pages[q]
      /\ \/ generation'[p] = generation[p] /\ object'[p] = object[p] /\ pages'[p] = pages[p]
         \/ generation'[p] = 0 /\ object'[p] = None /\ pages'[p] = NoPages
  <2>1. NoPages \in [Indexes -> Opt(Cells)]
    BY DEF NoPages, Opt
  <2>2. CASE UNCHANGED rows
    BY <1>2, <2>2, Zenon DEF rows
  <2>3. CASE /\ generation' = [generation EXCEPT ![p] = 0]
             /\ object' = [object EXCEPT ![p] = None] /\ pages' = [pages EXCEPT ![p] = NoPages]
    <3>1. generation' \in [Peers -> Nat] /\ object' \in [Peers -> Opt(Rows)]
      BY <1>2, <2>3, Zenon DEF Opt
    <3>2. pages' \in [Peers -> [Indexes -> Opt(Cells)]]
      BY <1>2, <2>1, <2>3, Zenon
    <3>3. /\ generation'[p] = 0 /\ object'[p] = None /\ pages'[p] = NoPages
          /\ \A q \in Peers : q # p => /\ generation'[q] = generation[q] /\ object'[q] = object[q]
                                       /\ pages'[q] = pages[q]
      BY <1>2, <2>3, Zenon
    <3> QED BY <3>1, <3>2, <3>3, Zenon
  <2> QED BY <1>1, <2>2, <2>3, Zenon
<1>4. RowsInv'
  <2>1. ASSUME NEW q \in Peers PROVE RowsOK(q)'
    <3>1. RowsOK(q)
      BY DEF Inv, RowsInv
    <3>2. CASE generation'[q] = generation[q] /\ object'[q] = object[q] /\ pages'[q] = pages[q]
      BY <3>1, <3>2, Zenon DEF RowsOK
    <3>3. CASE object'[q] = None /\ pages'[q] = NoPages
      BY <3>3, Zenon DEF RowsOK, NoPages
    <3> QED BY <1>3, <3>2, <3>3, Zenon
  <2> QED BY <2>1, Zenon DEF RowsInv
<1>5. ASSUME NEW r \in Readers
      PROVE  /\ read'[r] \in Reads /\ read'[r].sent = read[r].sent
             /\ read'[r].header = read[r].header /\ read'[r].promise = read[r].promise
             /\ \/ read'[r] = read[r] /\ (read[r].peer = p => ~Running(read[r]))
                \/ read'[r].pc = "aborted"
  <2>1. read[r] \in Reads /\ ReadIdle \in Reads
    BY <1>2, DistributedAssumption, Zenon DEF ReadIdle, Reads, ReadPCs, Opt
  <2> DEFINE e == Ended(read[r], "aborted")
  <2>2. /\ e \in Reads /\ e.pc = "aborted" /\ e.sent = read[r].sent
        /\ e.header = read[r].header /\ e.promise = read[r].promise
    BY <2>1, Zenon DEF Ended, Reads, ReadPCs, Ends
  <2>3. read'[r] = IF Running(read[r]) /\ read[r].peer = p THEN e ELSE read[r]
    BY <1>1, Zenon
  <2> HIDE DEF e
  <2> QED BY <2>1, <2>2, <2>3, Zenon
<1>6. ASSUME NEW r \in Readers
      PROVE  /\ serve'[r] \in [Peers -> Serves]
             /\ \A q \in Peers : q # p => serve'[r][q] = serve[r][q]
             /\ serve'[r][p].frames = serve[r][p].frames
             /\ serve'[r][p].swapped = serve[r][p].swapped
             /\ serve'[r][p].pc = "ended" \/ (serve'[r][p] = serve[r][p] /\ Over(serve[r][p]))
             /\ serve[r][p].pc = "idle" => serve'[r][p] = serve[r][p]
  <2> DEFINE sv == serve[r][p]  new == cut(serve[r][p])
  <2>1. serve[r] \in [Peers -> Serves] /\ sv \in Serves
    BY <1>2, Zenon
  <2>2. /\ new \in Serves /\ new.frames = sv.frames /\ new.swapped = sv.swapped
        /\ new.pc = "ended" \/ (new = sv /\ Over(sv))
        /\ sv.pc = "idle" => new = sv
    BY <2>1, RefusedFacts, Zenon DEF Over
  <2>3. serve'[r] = [serve[r] EXCEPT ![p] = new]
    BY <1>1, Zenon
  <2> HIDE DEF new
  <2>4. serve'[r] \in [Peers -> Serves] /\ serve'[r][p] = new
        /\ \A q \in Peers : q # p => serve'[r][q] = serve[r][q]
    BY <2>1, <2>2, <2>3, Zenon
  <2> QED BY <2>2, <2>4, Zenon
<1> HIDE DEF cut
<1>7. write' \in [Writers -> Writes] /\ \A w \in Writers : write'[w].pc = "sending" => write'[w] = write[w]
  <2>1. over \in Writes /\ over.pc = "done"
    BY Zenon DEF WriteIdle, Writes
  <2> HIDE DEF over
  <2> QED BY <1>1, <1>2, <2>1, Zenon
<1>8. TypeOK'
  <2>1. read' \in [Readers -> Reads] /\ serve' \in [Readers -> [Peers -> Serves]]
    <3>1. read' = [r \in Readers |-> read'[r]] /\ serve' = [r \in Readers |-> serve'[r]]
      BY <1>1, Zenon
    <3> QED BY <1>5, <1>6, <3>1, Zenon
  <2>2. missed' \in [Peers -> [Peers -> Nat]] /\ faults' \in Nat
    BY <1>1, <1>2, Faulted, Zenon
  <2> QED BY <1>1, <1>3, <1>7, <2>1, <2>2, Zenon DEF Inv, TypeOK
<1>9. ASSUME NEW r \in Readers PROVE Request(read'[r], serve'[r], generation')
  <2>1. Request(read[r], serve[r], generation)
    BY Zenon DEF Inv, RequestsInv
  <2>2. ReadOK(read'[r], generation')
    <3>1. CASE read'[r].pc = "aborted"
      BY <1>5, <3>1, Zenon DEF ReadOK, Ends, Planning, Sending, Filling
    <3>2. CASE read'[r] = read[r] /\ (read[r].peer = p => ~Running(read[r]))
      <4>1. read[r].pc \in Planning => generation'[read[r].peer] = generation[read[r].peer]
        <5>1. read[r].pc \in Planning => Running(read[r])
          BY Zenon DEF Planning, Sending, Running, Ends
        <5>2. read[r].peer \in Peers
          BY ReadAt, Zenon
        <5> QED BY <1>3, <3>2, <5>1, <5>2, Zenon
      <4> QED BY <2>1, <3>2, <4>1, Zenon DEF Request, ReadOK
    <3> QED BY <1>5, <3>1, <3>2, Zenon
  <2>3. OneBody(read'[r], serve'[r])
    <3>1. (\A o \in Peers : ~serve'[r][o].swapped) => (\A o \in Peers : ~serve[r][o].swapped)
      BY <1>6, Zenon
    <3> QED BY <1>5, <2>1, <3>1, Zenon DEF Request, OneBody
  <2>4. ASSUME NEW o \in Peers PROVE ServeOK(serve'[r][o], o, generation')
    <3>1. ServeOK(serve[r][o], o, generation)
      BY <2>1, Zenon DEF Request
    <3>2. CASE o # p
      BY <1>3, <1>6, <3>1, <3>2, Zenon DEF ServeOK
    <3>3. CASE o = p
      <4>1. Over(serve'[r][p]) /\ serve'[r][p] \in Serves
        BY <1>6, Zenon DEF Over
      <4> QED BY <3>3, <4>1, Zenon DEF ServeOK, Over, Filling, Admitting
    <3> QED BY <3>2, <3>3, Zenon
  <2>5. ASSUME NEW o \in Peers PROVE Paired(read'[r], serve'[r][o])
    <3>1. Paired(read[r], serve[r][o])
      BY <2>1, Zenon DEF Request
    <3>2. Paired(read[r], serve'[r][o])
      <4>1. CASE o # p
        BY <1>6, <3>1, <4>1, Zenon
      <4>2. CASE o = p
        BY <1>6, <3>1, <4>2, Zenon DEF Paired, Over
      <4> QED BY <4>1, <4>2, Zenon
    <3> QED BY <1>5, <3>2, Zenon DEF Paired, Attached, Metadata
  <2> QED BY <2>2, <2>3, <2>4, <2>5, Zenon DEF Request
<1>10. BytesKept
  <2>1. ASSUME NEW q \in Peers, NEW r \in Readers, NEW e, NEW b
        PROVE  /\ HeldByRead(read'[r], q, e, b) => q # p /\ HeldByRead(read[r], q, e, b)
               /\ HeldByServe(serve'[r][q], e, b) => q # p /\ HeldByServe(serve[r][q], e, b)
    <3>1. HeldByRead(read'[r], q, e, b) => q # p /\ HeldByRead(read[r], q, e, b)
      BY <1>5, Zenon DEF HeldByRead, Filling, Running, Ends
    <3>2. HeldByServe(serve'[r][q], e, b) => q # p /\ HeldByServe(serve[r][q], e, b)
      BY <1>6, Zenon DEF HeldByServe, Filling, Over
    <3> QED BY <3>1, <3>2, Zenon
  <2>2. ASSUME NEW q \in Peers, generation'[q] = generation[q], pages'[q] = pages[q]
        PROVE  Bytes(q)' \subseteq Bytes(q)
    BY <2>1, <2>2, Zenon DEF Bytes
  <2>3. ASSUME pages'[p] = NoPages PROVE Bytes(p)' = {}
    BY <2>1, <2>3, Zenon DEF Bytes, NoPages
  <2> QED BY <1>3, <2>2, <2>3, Zenon DEF BytesKept
<1>11. ASSUME led PROVE FreshInv'
  <2>1. ASSUME NEW r \in Readers
        PROVE  Goes(read[r], read'[r]) /\ RequestFresh(read'[r], serve'[r])
    <3>1. RequestFresh(read[r], serve[r])
      BY <1>11, Zenon DEF Inv, FreshInv
    <3>2. Goes(read[r], read'[r])
      BY <1>5, Zenon DEF Goes, Running, HeldByRead, Filling, Ends
    <3>3. ReadFresh(read'[r])
      BY <1>5, <3>1, Zenon DEF RequestFresh, ReadFresh, Filling
    <3>4. ASSUME NEW o \in Peers PROVE PairFresh(read'[r], serve'[r][o])
      <4>1. PairFresh(read[r], serve'[r][o])
        <5>1. CASE o # p
          BY <1>6, <3>1, <5>1, Zenon DEF RequestFresh
        <5>2. CASE o = p
          BY <1>6, <3>1, <5>2, Zenon DEF RequestFresh, PairFresh, Over, Filling
        <5> QED BY <5>1, <5>2
      <4> QED BY <1>5, <4>1, Zenon DEF PairFresh, Attached
    <3> QED BY <3>2, <3>3, <3>4, Zenon DEF RequestFresh
  <2>2. \A w \in Writers : WriteGoes(write[w], write'[w])
    BY <1>7, Zenon DEF WriteGoes, Reached
  <2> QED BY <1>1, <1>10, <1>11, <2>1, <2>2, FreshFollows, Zenon
<1> QED BY <1>1, <1>4, <1>8, <1>9, <1>11, Zenon DEF Inv, RequestsInv

-----------------------------------------------------------------------------
LEMMA InitInv == Init => Inv
<1> SUFFICES ASSUME Init PROVE Inv
  OBVIOUS
<1>1. ReadIdle \in Reads /\ ReadIdle.pc = "idle" /\ ReadIdle.sent = {}
  BY DistributedAssumption, Zenon DEF ReadIdle, Reads, ReadPCs, Opt
<1>2. WriteIdle \in Writes /\ WriteIdle.pc = "idle"
  BY Zenon DEF WriteIdle, Writes
<1>3. NoPages \in [Indexes -> Opt(Cells)] /\ \A i \in Indexes : NoPages[i] = None
  BY Zenon DEF NoPages, Opt
<1>4. /\ \A r \in Readers : read[r] = ReadIdle /\ \A p \in Peers : serve[r][p] = ServeIdle
      /\ \A w \in Writers : write[w] = WriteIdle
      /\ \A p \in Peers : generation[p] = 0 /\ object[p] = None /\ pages[p] = NoPages
  BY Zenon DEF Init
<1>5. \A p \in Peers : ServeIdle \in Serves
  BY ServeIdleOK, Zenon
<1>6. TypeOK
  <2>1. read \in [Readers -> Reads] /\ write \in [Writers -> Writes]
    BY <1>1, <1>2, Zenon DEF Init
  <2>2. serve \in [Readers -> [Peers -> Serves]]
    BY <1>5, Zenon DEF Init
  <2>3. /\ generation \in [Peers -> Nat] /\ object \in [Peers -> Opt(Rows)]
        /\ missed \in [Peers -> [Peers -> Nat]]
    BY Zenon DEF Init, Opt
  <2>4. pages \in [Peers -> [Indexes -> Opt(Cells)]]
    BY <1>3, Zenon DEF Init
  <2> QED BY <2>1, <2>2, <2>3, <2>4, Zenon DEF Init, TypeOK
<1>7. ASSUME NEW r \in Readers
      PROVE  Request(read[r], serve[r], generation) /\ RequestFresh(read[r], serve[r])
  <2>1. ReadOK(read[r], generation) /\ OneBody(read[r], serve[r]) /\ ReadFresh(read[r])
    BY <1>1, <1>4, Zenon DEF ReadOK, OneBody, ReadFresh, Planning, Sending, Filling, Ends
  <2>2. ASSUME NEW o \in Peers
        PROVE  /\ ServeOK(serve[r][o], o, generation) /\ Paired(read[r], serve[r][o])
               /\ PairFresh(read[r], serve[r][o])
    BY <1>1, <1>4, ServeIdleOK, Zenon DEF Paired, PairFresh, Attached, Metadata
  <2> QED BY <2>1, <2>2, Zenon DEF Request, RequestFresh
<1>8. RowsInv
  BY <1>3, <1>4, Zenon DEF RowsInv, RowsOK
<1>9. ASSUME NEW p \in Peers PROVE Bytes(p) = {}
  <2>1. \A r \in Readers : read[r].pc = "idle" /\ serve[r][p].pc = "idle"
    BY <1>1, <1>4, ServeIdleOK, Zenon
  <2> QED BY <1>3, <1>4, <2>1, Zenon DEF Bytes, HeldByRead, HeldByServe, Filling
<1>10. FreshInv
  <2>1. Covers(recent)
    BY <1>9, Zenon DEF Covers, Init
  <2>2. \A r \in Readers : ~Running(read[r])
    BY <1>1, <1>4, Zenon DEF Running
  <2>3. \A w \in Writers : WriteFresh(write[w])
    BY <1>2, <1>4, Zenon DEF WriteFresh
  <2> QED BY <1>7, <2>1, <2>2, <2>3, Zenon DEF FreshInv
<1> QED BY <1>6, <1>7, <1>8, <1>10, Zenon DEF Inv, RequestsInv

LEMMA StutterInv == Inv /\ UNCHANGED vars => Inv'
<1> SUFFICES ASSUME Inv, UNCHANGED vars PROVE Inv'
  OBVIOUS
<1>1. /\ UNCHANGED rows /\ UNCHANGED aside
      /\ UNCHANGED <<upstream, read, serve, write>>
  BY DEF vars
<1>2. RowsStep
  BY <1>1, RowsSame, Zenon
<1>3. /\ missed' \in [Peers -> [Peers -> Nat]] /\ faults' \in Nat /\ UNCHANGED <<recent, led>>
  BY <1>1, AsideSame, Zenon
<1>4. /\ RequestsInv' /\ BytesKept
      /\ \A r \in Readers : Goes(read[r], read'[r])
      /\ led => \A r \in Readers : RequestFresh(read'[r], serve'[r])
  BY <1>1, <1>2, RequestsSame, Zenon
<1>5. \A w \in Writers : WriteGoes(write[w], write'[w])
  BY <1>1, Zenon DEF WriteGoes, Reached
<1>6. led => FreshInv'
  BY <1>1, <1>3, <1>4, <1>5, FreshFollows, Zenon
<1>7. TypeOK'
  BY <1>1, <1>2, <1>3, Zenon DEF Inv, TypeOK, RowsStep
<1> QED BY <1>2, <1>3, <1>4, <1>6, <1>7, Zenon DEF Inv, RowsStep

LEMMA NextInv == Inv /\ [Next]_vars => Inv'
<1> SUFFICES ASSUME Inv, [Next]_vars PROVE Inv'
  BY Zenon
<1>1. ASSUME NEW r \in Readers, Coordinate(r) PROVE Inv'
  <2>1. CASE \/ GetObject(r) \/ HeadUpstream(r) \/ ReadGeneration(r) \/ UpsertObject(r)
             \/ RereadObject(r) \/ BatchAnswered(r) \/ BatchRefused(r) \/ Forward(r)
    BY <2>1, GetObjectInv, HeadUpstreamInv, ReadGenerationInv, UpsertObjectInv,
       RereadObjectInv, BatchAnsweredInv, BatchRefusedInv, ForwardInv, Zenon
  <2>2. CASE \/ StreamLocalPage(r) \/ StreamRemotePage(r) \/ FetchLocalPage(r)
             \/ BeginLocalPage(r) \/ CommitLocalPage(r) \/ FinishBatches(r)
             \/ \E o \in Peers : OpenBatch(r, o)
    BY <2>2, StreamLocalPageInv, StreamRemotePageInv, FetchLocalPageInv, BeginLocalPageInv,
       CommitLocalPageInv, FinishBatchesInv, OpenBatchInv, Zenon
  <2> QED BY <1>1, <2>1, <2>2, Zenon DEF Coordinate
<1>2. ASSUME NEW r \in Readers, NEW o \in Peers, ServePages(r, o) PROVE Inv'
  <2>1. CASE \/ ServeGetObject(r, o) \/ ServeAdvance(r, o) \/ ServeReadGeneration(r, o)
             \/ ServeUpsertObject(r, o) \/ ServeRereadObject(r, o) \/ ServeOpenPage(r, o)
    BY <2>1, ServeGetObjectInv, ServeAdvanceInv, ServeReadGenerationInv, ServeUpsertObjectInv,
       ServeRereadObjectInv, ServeOpenPageInv, Zenon
  <2>2. CASE \/ ServeFetchPage(r, o) \/ ServeBeginPage(r, o) \/ ServeCommitPage(r, o)
             \/ ServeInvalidate(r, o) \/ \E q \in Peers : ServeSend(r, o, q)
    BY <2>2, ServeFetchPageInv, ServeBeginPageInv, ServeCommitPageInv, ServeInvalidateInv,
       ServeSendInv, Zenon
  <2> QED BY <1>2, <2>1, <2>2, Zenon DEF ServePages
<1>3. ASSUME NEW w \in Writers, WriteStep(w) PROVE Inv'
  BY <1>3, ForwardWriteInv, InvalidateLocallyInv, SendInvalidationInv, SendFailsInv, Zenon
     DEF WriteStep
<1>4. ASSUME NEW p \in Peers, PeerStep(p) PROVE Inv'
  BY <1>4, RetryInvalidationInv, RestartInv, Zenon DEF PeerStep
<1>5. CASE \E r \in Readers : \/ \E req \in Requests : Start(r, req)
                              \/ BatchFails(r) \/ ReadFails(r)
  BY <1>5, StartInv, BatchFailsInv, ReadFailsInv, Zenon
<1>6. CASE \E r \in Readers, o \in Peers : \/ ServeFails(r, o)
                                           \/ \E q \in Peers : ServeSendFails(r, o, q)
  BY <1>6, ServeFailsInv, ServeSendFailsInv, Zenon
<1>7. CASE UNCHANGED vars
  BY <1>7, StutterInv, Zenon
<1> QED BY <1>1, <1>2, <1>3, <1>4, <1>5, <1>6, <1>7, Zenon DEF Next

LEMMA Invariant == Spec => []Inv
BY InitInv, NextInv, PTL DEF Spec

LEMMA InvProperties ==
    Inv => TypeOK /\ FreshWhileLed /\ OneVersionUnlessSwapped /\ PagesAtOwners
<1> SUFFICES ASSUME Inv PROVE TypeOK /\ FreshWhileLed /\ OneVersionUnlessSwapped /\ PagesAtOwners
  BY Zenon
<1>1. TypeOK
  BY Zenon DEF Inv
<1>2. FreshWhileLed
  BY Zenon DEF Inv, FreshInv, RequestFresh, ReadFresh, FreshWhileLed, BodyIsFresh
<1>3. OneVersionUnlessSwapped
  BY Zenon DEF Inv, RequestsInv, Request, OneBody, OneVersionUnlessSwapped
<1>4. PagesAtOwners
  BY Zenon DEF Inv, RowsInv, RowsOK, PagesAtOwners
<1> QED BY <1>1, <1>2, <1>3, <1>4

(* Rows, requests and messages of peer mode keep their shape (proxy.go).   *)
THEOREM Typing == Spec => []TypeOK
BY Invariant, InvProperties, PTL

(* serveDistributedPageRead, serveInternalPageRead and invalidateObject:   *)
(* as long as every write takes an epoch that no other peer had reached,   *)
(* no client gets bytes of a version replaced before its read by a write   *)
(* that every peer confirmed, whatever fails or restarts on the way.       *)
THEOREM FreshUnlessOvertaken == Spec => []FreshWhileLed
BY Invariant, InvProperties, PTL

(* streamCoordinatorPageSpans: every page of a body is of the version of   *)
(* the header, whoever fetched and stored it, unless internalPageReadObject*)
(* took over a row that another request had put in place of its own.       *)
THEOREM OneVersionPerBody == Spec => []OneVersionUnlessSwapped
BY Invariant, InvProperties, PTL

(* fetchAndStorePage and fetchAndWritePageFrameBestEffort: a peer stores   *)
(* only pages it owns, with the bytes of the version they are labelled by. *)
THEOREM PagesStayAtOwners == Spec => []PagesAtOwners
BY Invariant, InvProperties, PTL
=============================================================================
