------------------------- MODULE RequestPathProofs --------------------------
(* First the pure operators a request is planned with, for every ring and     *)
(* every score, every Range header, object size and page size: ownership      *)
(* (router.go), byte ranges and page spans (range.go), and the range of a     *)
(* read that is planned.  Then where a request is handled, whose pages it     *)
(* reads and what follows a write, for every set of peers, rings that differ, *)
(* and every request.  Then the batches the spans of a read are grouped into, *)
(* and the frames, which carry beginnings of pages.                           *)
EXTENDS RequestPath, WellFoundedInduction, TLAPS

-----------------------------------------------------------------------------
(* Ownership.                                                                 *)

(* A set of numbers that is not empty has a smallest member. *)
LEMMA Smallest ==
  ASSUME NEW S \in SUBSET Nat, S # {}
  PROVE  \E m \in S : \A n \in S : m <= n
<1>1. IsWellFoundedOn(OpToRel(<, Nat), Nat)
  BY NatLessThanWellFounded, Zenon
<1>2. PICK m \in S : \A n \in S : ~(<<n, m>> \in OpToRel(<, Nat))
  BY <1>1, WFMin, Zenon
<1>3. \A n \in S : ~(n < m)
  BY <1>2 DEF OpToRel
<1> QED BY <1>3

(* A ring that is not empty has one owner of each key, whatever the scores. *)
LEMMA OwnerExists ==
  ASSUME NEW R \in SUBSET Peers, R # {}, NEW key \in Keys
  PROVE  \E p \in R : \A q \in R : Beats(p, q, key)
<1>1. \A p \in R : p \in Nat /\ Score[p][key] \in 0 .. MaxScore /\ MaxScore \in Nat
  BY RoutingAssumption
<1> DEFINE Gap(p) == MaxScore - Score[p][key]
<1>2. {Gap(p) : p \in R} \in SUBSET Nat /\ {Gap(p) : p \in R} # {}
  BY <1>1
<1>3. PICK m \in {Gap(p) : p \in R} : \A n \in {Gap(p) : p \in R} : m <= n
  BY <1>2, Smallest
<1>4. {p \in R : Gap(p) = m} \in SUBSET Nat /\ {p \in R : Gap(p) = m} # {}
  BY <1>1, <1>3
<1>5. PICK p \in {x \in R : Gap(x) = m} : \A q \in {x \in R : Gap(x) = m} : p <= q
  BY <1>4, Smallest
<1>6. ASSUME NEW q \in R PROVE Beats(p, q, key)
  <2>1. Gap(p) <= Gap(q)
    BY <1>3, <1>5
  <2>2. Gap(p) = Gap(q) => p <= q
    BY <1>5
  <2> QED BY <1>1, <2>1, <2>2 DEF Beats
<1> QED BY <1>5, <1>6

(* Owner picks the peer that beats every other one. *)
LEMMA OwnerWins ==
  ASSUME NEW R \in SUBSET Peers, R # {}, NEW key \in Keys
  PROVE  Owner(R, key) \in R /\ \A q \in R : Beats(Owner(R, key), q, key)
BY OwnerExists DEF Owner

(* When peers join the ring, a key that is not won by one of them keeps its   *)
(* owner (ownerForRoutingKey): a change of the peer list moves no more pages  *)
(* than it has to.                                                            *)
THEOREM RendezvousTheorem ==
  ASSUME NEW S \in SUBSET Peers, NEW R \in SUBSET S, R # {}, NEW key \in Keys,
         Owner(S, key) \in R
  PROVE  Owner(R, key) = Owner(S, key)
<1> DEFINE p == Owner(S, key)
           q == Owner(R, key)
<1>1. Beats(p, q, key)
  BY OwnerWins
<1>2. q \in R /\ Beats(q, p, key)
  BY OwnerWins
<1>3. /\ p \in Nat /\ q \in Nat
      /\ Score[p][key] \in 0 .. MaxScore /\ Score[q][key] \in 0 .. MaxScore /\ MaxScore \in Nat
  BY <1>2, RoutingAssumption
<1> QED BY <1>1, <1>2, <1>3 DEF Beats

-----------------------------------------------------------------------------
(* Byte ranges.                                                               *)

RangeOK(r, size) == /\ r = [start |-> r.start, end |-> r.end]
                    /\ r.start \in Nat /\ r.end \in Nat
                    /\ r.start <= r.end /\ r.end < size

(* The range a header parses to has exactly the bytes that the header means,  *)
(* for every header and every object size (ParseRange, parseSuffixRange): a   *)
(* header that is refused means none of them, and the range never leaves the  *)
(* object.                                                                    *)
THEOREM ParseTheorem ==
  ASSUME NEW h \in HeaderType, NEW size \in Nat, h.kind \in {"span", "from", "suffix"}
  PROVE  /\ ParseRange(h, size).start .. ParseRange(h, size).end
              = {i \in 0 .. size - 1 : InRange(h, size, i)}
         /\ ParseRange(h, size) # Unsatisfied => RangeOK(ParseRange(h, size), size)
<1> DEFINE r == ParseRange(h, size)
<1>0. h.first \in Nat /\ h.last \in Nat
  BY DEF HeaderType
<1>1. CASE h.kind = "span"
  <2>1. \A i : InRange(h, size, i) <=> h.first <= i /\ i <= h.last
    BY <1>1 DEF InRange
  <2>2. CASE h.first < size /\ h.first <= h.last
    <3>1. r = [start |-> h.first, end |-> IF h.last >= size THEN size - 1 ELSE h.last]
      BY <1>1, <2>2 DEF ParseRange
    <3> QED BY <1>0, <2>1, <2>2, <3>1 DEF RangeOK
  <2>3. CASE ~(h.first < size /\ h.first <= h.last)
    <3>1. r = Unsatisfied
      BY <1>1, <2>3 DEF ParseRange
    <3> QED BY <1>0, <2>1, <2>3, <3>1 DEF Unsatisfied
  <2> QED BY <2>2, <2>3
<1>2. CASE h.kind = "from"
  <2>1. \A i : InRange(h, size, i) <=> h.first <= i
    BY <1>2 DEF InRange
  <2>2. CASE h.first < size
    <3>1. r = [start |-> h.first, end |-> size - 1]
      BY <1>2, <2>2 DEF ParseRange
    <3> QED BY <1>0, <2>1, <2>2, <3>1 DEF RangeOK
  <2>3. CASE ~(h.first < size)
    <3>1. r = Unsatisfied
      BY <1>2, <2>3 DEF ParseRange
    <3> QED BY <1>0, <2>1, <2>3, <3>1 DEF Unsatisfied
  <2> QED BY <2>2, <2>3
<1>3. CASE h.kind = "suffix"
  <2>1. \A i : InRange(h, size, i) <=> size - i <= h.last
    BY <1>3 DEF InRange
  <2>2. CASE 0 < size /\ 0 < h.last
    <3>1. r = [start |-> IF h.last >= size THEN 0 ELSE size - h.last, end |-> size - 1]
      BY <1>3, <2>2 DEF ParseRange
    <3> QED BY <1>0, <2>1, <2>2, <3>1 DEF RangeOK
  <2>3. CASE ~(0 < size /\ 0 < h.last)
    <3>1. r = Unsatisfied
      BY <1>3, <2>3 DEF ParseRange
    <3> QED BY <1>0, <2>1, <2>3, <3>1 DEF Unsatisfied
  <2> QED BY <2>2, <2>3
<1> QED BY <1>1, <1>2, <1>3

-----------------------------------------------------------------------------
(* Page spans.                                                                *)

(* Integer division by the page size. *)
LEMMA Division ==
  ASSUME NEW n \in Nat
  PROVE  /\ n \div PageSize \in Nat
         /\ (n \div PageSize) * PageSize <= n
         /\ n < (n \div PageSize) * PageSize + PageSize
BY PageSizeAssumption

(* Pages are ordered as their first bytes are. *)
LEMMA Multiples ==
  ASSUME NEW a \in Nat, NEW b \in Nat
  PROVE  /\ a * PageSize \in Nat
         /\ (a + 1) * PageSize = a * PageSize + PageSize
         /\ a < b => a * PageSize + PageSize <= b * PageSize
         /\ a <= b => a * PageSize <= b * PageSize
         /\ a * PageSize < b * PageSize + PageSize => a <= b
BY PageSizeAssumption

SpanType == [index : Nat, start : Nat, end : Nat]

(* One span: it lies in its page and in the range. *)
LEMMA SpanInPage ==
  ASSUME NEW size \in Nat, NEW r, RangeOK(r, size),
         NEW index \in r.start \div PageSize .. r.end \div PageSize
  PROVE  LET s == PageSpan(index, r.start, r.end)
         IN /\ s \in SpanType /\ s.index = index
            /\ index * PageSize <= s.start /\ s.start <= s.end
            /\ s.end < index * PageSize + PageSize
            /\ r.start <= s.start /\ s.end <= r.end
            /\ s.start = Larger(r.start, index * PageSize)
            /\ s.end = Smaller(r.end, index * PageSize + PageSize - 1)
<1> DEFINE first == r.start \div PageSize
           last == r.end \div PageSize
           at == index * PageSize
<1>1. /\ r.start \in Nat /\ r.end \in Nat /\ r.start <= r.end /\ r.end < size
      /\ first \in Nat /\ last \in Nat /\ index \in Nat /\ PageSize \in Nat /\ 0 < PageSize
  BY Division, PageSizeAssumption DEF RangeOK
<1>2. /\ at \in Nat /\ first <= index /\ index <= last
      /\ first * PageSize <= at /\ at <= last * PageSize
  BY <1>1, Multiples
<1>3. /\ first * PageSize \in Nat /\ last * PageSize \in Nat
      /\ last * PageSize <= r.end
      /\ r.start < first * PageSize + PageSize
  BY <1>1, Multiples, Division
<1>4. at <= r.end /\ r.start < at + PageSize
  <2> HIDE DEF first, last, at
  <2> QED BY <1>1, <1>2, <1>3
<1> HIDE DEF first, last, at
<1> QED BY <1>1, <1>2, <1>4 DEF PageSpan, SpanType, Larger, Smaller, at

(* The spans of a range tile it: the first begins where the range begins,     *)
(* each begins right after the one before it, the last ends with the range,   *)
(* and each lies inside one page, of consecutive pages (PagesForRange), for   *)
(* every range and page size.                                                 *)
THEOREM SpansTheorem ==
  ASSUME NEW size \in Nat, NEW r, RangeOK(r, size), NEW spans, spans = PagesForRange(r)
  PROVE  /\ spans \in Seq(SpanType) /\ Len(spans) \in Nat \ {0}
         /\ spans[1].start = r.start /\ spans[Len(spans)].end = r.end
         /\ \A i \in 1 .. Len(spans) - 1 : spans[i + 1].start = spans[i].end + 1
         /\ \A i \in 1 .. Len(spans) :
              /\ spans[i].index = r.start \div PageSize + i - 1
              /\ spans[i].index * PageSize <= spans[i].start
              /\ spans[i].start <= spans[i].end
              /\ spans[i].end < spans[i].index * PageSize + PageSize
              /\ r.start <= spans[i].start /\ spans[i].end <= r.end
<1> DEFINE first == r.start \div PageSize
           last == r.end \div PageSize
           n == last - first + 1
<1>1. /\ r.start \in Nat /\ r.end \in Nat /\ r.start <= r.end
      /\ first \in Nat /\ last \in Nat /\ PageSize \in Nat /\ 0 < PageSize
      /\ first * PageSize <= r.start /\ r.start < first * PageSize + PageSize
      /\ last * PageSize <= r.end /\ r.end < last * PageSize + PageSize
  BY Division, PageSizeAssumption DEF RangeOK
<1>2. first <= last
  <2>1. first * PageSize < last * PageSize + PageSize
    <3>1. first * PageSize \in Nat /\ last * PageSize \in Nat
      BY <1>1, Multiples
    <3> HIDE DEF first, last
    <3> QED BY <1>1, <3>1
  <2> QED BY <1>1, <2>1, Multiples
<1>3. spans = [i \in 1 .. n |-> PageSpan(first + i - 1, r.start, r.end)]
  BY DEF PagesForRange
<1>4. n \in Nat \ {0}
  BY <1>1, <1>2
<1>5. ASSUME NEW i \in 1 .. n
      PROVE  LET s == spans[i]
             IN /\ s \in SpanType /\ s.index = first + i - 1
                /\ s.index * PageSize <= s.start /\ s.start <= s.end
                /\ s.end < s.index * PageSize + PageSize
                /\ r.start <= s.start /\ s.end <= r.end
                /\ s.start = Larger(r.start, s.index * PageSize)
                /\ s.end = Smaller(r.end, s.index * PageSize + PageSize - 1)
  <2>1. first + i - 1 \in first .. last
    BY <1>1, <1>2, <1>4
  <2>2. spans[i] = PageSpan(first + i - 1, r.start, r.end)
    BY <1>3
  <2> HIDE DEF first, last
  <2> QED BY <2>1, <2>2, SpanInPage DEF first, last
<1>6. spans \in Seq(SpanType) /\ Len(spans) = n
  <2>1. \A i \in 1 .. n : spans[i] \in SpanType
    BY <1>5, Zenon
  <2>2. spans = [i \in 1 .. n |-> spans[i]]
    BY <1>3, Zenon
  <2> HIDE DEF n
  <2> QED BY <1>4, <2>1, <2>2
<1>7. spans[1].start = r.start
  <2>0. 1 \in 1 .. n /\ first + 1 - 1 = first
    BY <1>1, <1>4
  <2>1. spans[1].index = first /\ spans[1].start = Larger(r.start, first * PageSize)
    <3>1. /\ spans[1].index = first + 1 - 1
          /\ spans[1].start = Larger(r.start, spans[1].index * PageSize)
      BY <2>0, <1>5, Zenon
    <3> QED BY <2>0, <3>1, Zenon
  <2> HIDE DEF first, last
  <2> QED BY <1>1, <2>1, Multiples DEF Larger
<1>8. spans[n].end = r.end
  <2>0. n \in 1 .. n /\ first + n - 1 = last
    BY <1>1, <1>4
  <2>1. spans[n].index = last /\ spans[n].end = Smaller(r.end, last * PageSize + PageSize - 1)
    <3>1. /\ spans[n].index = first + n - 1
          /\ spans[n].end = Smaller(r.end, spans[n].index * PageSize + PageSize - 1)
      BY <2>0, <1>5, Zenon
    <3> QED BY <2>0, <3>1, Zenon
  <2> HIDE DEF first, last
  <2> QED BY <1>1, <2>1, Multiples DEF Smaller
<1>9. ASSUME NEW i \in 1 .. n - 1 PROVE spans[i + 1].start = spans[i].end + 1
  <2> DEFINE k == first + i - 1
  <2>1. /\ i \in 1 .. n /\ i + 1 \in 1 .. n /\ k \in Nat /\ k + 1 \in Nat /\ first < k + 1 /\ k < last
    <3> HIDE DEF first, last
    <3> QED BY <1>1, <1>4
  <2>2. /\ spans[i].end = Smaller(r.end, k * PageSize + PageSize - 1)
        /\ spans[i + 1].start = Larger(r.start, (k + 1) * PageSize)
    <3>1. /\ spans[i].index = k
          /\ spans[i].end = Smaller(r.end, spans[i].index * PageSize + PageSize - 1)
      BY <2>1, <1>5
    <3>2. /\ spans[i + 1].index = first + (i + 1) - 1
          /\ spans[i + 1].start = Larger(r.start, spans[i + 1].index * PageSize)
      BY <2>1, <1>5
    <3>3. first + (i + 1) - 1 = k + 1
      BY <1>1
    <3> QED BY <3>1, <3>2, <3>3, Zenon
  <2>3. /\ k * PageSize \in Nat /\ (k + 1) * PageSize = k * PageSize + PageSize
        /\ k * PageSize + PageSize <= last * PageSize
        /\ first * PageSize + PageSize <= (k + 1) * PageSize
        /\ first * PageSize \in Nat /\ last * PageSize \in Nat
    <3> HIDE DEF first, last, k
    <3> QED BY <1>1, <2>1, Multiples
  <2> HIDE DEF first, last, k
  <2> QED BY <1>1, <2>2, <2>3 DEF Smaller, Larger
<1> QED BY <1>4, <1>5, <1>6, <1>7, <1>8, <1>9, Zenon

-----------------------------------------------------------------------------
(* The plan of a read.                                                        *)

(* What the classification says of the Range header. *)
LEMMA ClassHeader ==
  ASSUME NEW q
  PROVE  /\ Classify(q) = "range" => q.range.kind \in {"span", "from", "suffix"}
         /\ Classify(q) = "full" => q.range.kind = "none"
BY DEF Classify, IsSingleRange

(* The range of a read that is planned lies in the object and has the bytes   *)
(* the client asked for.                                                      *)
LEMMA WantedRange ==
  ASSUME task.req \in Requests, Class \in {"full", "range"}, Wanted # Unsatisfied
  PROVE  /\ RangeOK(Wanted, task.req.size)
         /\ Wanted.start .. Wanted.end = Asked
<1>1. task.req.size \in Nat /\ task.req.range \in HeaderType
  BY RequestPathAssumption
<1>2. CASE Class = "range"
  <2>1. task.req.range.kind \in {"span", "from", "suffix"}
    BY <1>2, ClassHeader DEF Class
  <2> QED BY <1>1, <1>2, <2>1, ParseTheorem DEF Wanted, Asked
<1>3. CASE Class = "full"
  <2>1. task.req.range.kind = "none"
    BY <1>3, ClassHeader DEF Class
  <2>2. \A i : InRange(task.req.range, task.req.size, i)
    BY <2>1 DEF InRange
  <2>3. Wanted = [start |-> 0, end |-> task.req.size - 1]
    BY <1>3 DEF Wanted
  <2> QED BY <1>1, <2>2, <2>3 DEF Asked, RangeOK, Unsatisfied
<1> QED BY <1>2, <1>3

-----------------------------------------------------------------------------
(* The shape of the state, and the steps as far as routing goes.              *)

Reading == {"open", "stream", "finish"}
Handled == {"handle", "upstream", "invalidate"} \cup Reading
Steps == {"route", "send", "accept", "done"} \cup Handled

TaskType ==
  [pc : Steps, req : Requests, at : Peers, from : Peers \cup {NoPeer}, to : Peers \cup {NoPeer},
   range : [start : Int, end : Int], spans : Seq(SpanType), span : Nat,
   effect : {"none", "applied", "invalidated"}]

ClientShape(c) ==
  c = [status |-> c.status, length |-> c.length, out |-> c.out, over |-> c.over]
ConnShape(c) ==
  c = [state |-> c.state, asked |-> c.asked, frames |-> c.frames, read |-> c.read]

Shaped ==
  /\ ring \in [Peers -> Rings] /\ \A p \in Peers : p \in ring[p]
  /\ task \in TaskType
  /\ ClientShape(client)
  /\ conn = [o \in Peers |-> conn[o]] /\ \A o \in Peers : ConnShape(conn[o])

(* The owner of the object, by the ring of any peer, is a peer. *)
LEMMA ObjectOwnerHas ==
  ASSUME Shaped, NEW p \in Peers
  PROVE  Owner(ring[p], ObjectKey) \in Peers
<1>1. ring[p] \in SUBSET Peers /\ ring[p] # {} /\ ObjectKey \in Keys
  BY RequestPathAssumption DEF Shaped
<1> QED BY <1>1, OwnerWins

(* A step that keeps the request at its peer, and one that only carries it on *)
(* or ends it.                                                                *)
Kept ==
  /\ UNCHANGED ring /\ task' \in TaskType /\ ClientShape(client)'
  /\ task'.req = task.req /\ task'.at = task.at /\ task'.from = task.from
Moved ==
  /\ Kept /\ task'.effect = task.effect /\ task.pc \notin {"invalidate", "done"}
  /\ task'.pc = "done" \/ (task.pc \in Handled /\ task'.pc \in Handled \ {"invalidate"})
  /\ client'.over = "whole" => client.over = "whole" \/ task'.pc = "done"
Rested == UNCHANGED <<ring, degraded, task, client>>

(* Goto changes nothing but where the request stands. *)
LEMMA GotoKeeps ==
  ASSUME Shaped, NEW pc \in Steps, Goto(pc)
  PROVE  /\ task' \in TaskType /\ task'.pc = pc
         /\ task'.req = task.req /\ task'.at = task.at /\ task'.from = task.from
         /\ task'.effect = task.effect
         /\ task'.range = task.range /\ task'.spans = task.spans /\ task'.span = task.span
BY DEF Shaped, Goto, TaskType

(* An answer delivers no bytes, and nothing to a client that has gone. *)
LEMMA AnswerKeeps ==
  ASSUME ClientShape(client), NEW status, Answer(status)
  PROVE  /\ ClientShape(client)' /\ client'.length = client.length /\ client'.out = client.out
         /\ client'.over = IF client.over = "no" THEN "whole" ELSE client.over
         /\ client.over = "no" => client'.status = status
         /\ client.over # "no" => client' = client
BY DEF ClientShape, Answer

(* Ending a request moves it. *)
LEMMA MovedEnd ==
  ASSUME Shaped, UNCHANGED ring, Goto("done"), ClientShape(client)', task.pc \notin {"invalidate", "done"}
  PROVE  Moved
<1>1. "done" \in Steps
  BY DEF Steps
<1> QED BY <1>1, GotoKeeps DEF Moved, Kept

(* So does carrying it on without an answer. *)
LEMMA MovedOn ==
  ASSUME Shaped, UNCHANGED <<ring, client>>, NEW pc \in Handled \ {"invalidate"}, Goto(pc),
         task.pc \in Handled \ {"invalidate"}
  PROVE  Moved
<1>1. pc \in Steps /\ task.pc \notin {"invalidate", "done"} /\ ClientShape(client)'
  BY DEF Steps, Handled, Reading, Shaped, ClientShape
<1> QED BY <1>1, GotoKeeps DEF Moved, Kept

(* Planning a read moves it and notes a range of the object and its spans. *)
LEMMA PlanMoves ==
  ASSUME Shaped, PlanPages
  PROVE  /\ Moved /\ task'.pc = "open" /\ task'.range = Wanted /\ task'.spans = PagesForRange(Wanted)
         /\ task'.span = task.span /\ Class \in {"full", "range"}
         /\ RangeOK(Wanted, task.req.size)
<1>1. task.req \in Requests /\ task.req.size \in Nat
  BY RequestPathAssumption DEF Shaped, TaskType
<1>2. task.pc = "handle" /\ Class \in {"full", "range"} /\ Wanted # Unsatisfied
  BY DEF PlanPages, ReadHere, Unconditional
<1>3. RangeOK(Wanted, task.req.size)
  BY <1>1, <1>2, WantedRange
<1>4. Wanted \in [start : Int, end : Int]
  BY <1>3 DEF RangeOK
<1>5. PagesForRange(Wanted) \in Seq(SpanType)
  BY <1>1, <1>3, SpansTheorem
<1>6. /\ task' = [task EXCEPT !.pc = "open", !.range = Wanted, !.spans = PagesForRange(Wanted)]
      /\ UNCHANGED <<ring, client>> /\ task \in TaskType /\ ClientShape(client)'
  BY DEF PlanPages, Shaped, ClientShape
<1>7. /\ task' \in TaskType /\ task'.pc = "open" /\ task'.req = task.req /\ task'.at = task.at
      /\ task'.from = task.from /\ task'.effect = task.effect /\ task'.span = task.span
      /\ task'.range = Wanted /\ task'.spans = PagesForRange(Wanted)
  BY <1>4, <1>5, <1>6 DEF TaskType, Steps, Handled, Reading
<1> QED BY <1>2, <1>3, <1>6, <1>7 DEF Moved, Kept, Handled, Reading

(* Delivering a span moves the request to the next one, to its end, or cuts   *)
(* it off.                                                                    *)
LEMMA DeliverMoves ==
  ASSUME Shaped, NEW bytes, Deliver(bytes), task.pc = "stream", UNCHANGED ring
  PROVE  /\ Moved
         /\ task'.range = task.range /\ task'.spans = task.spans /\ task'.span = task.span + 1
         /\ client'.out = client.out \o bytes /\ client'.length = client.length
         /\ IF Len(bytes) = Current.end - Current.start + 1
              THEN /\ client'.over = client.over
                   /\ task'.pc = IF task.span = Len(task.spans) THEN "finish" ELSE "stream"
              ELSE client'.over = "cut" /\ task'.pc = "done"
<1> DEFINE whole == Len(bytes) = Current.end - Current.start + 1
           pc == IF ~whole THEN "done" ELSE IF task.span = Len(task.spans) THEN "finish" ELSE "stream"
<1>1. /\ client' = [client EXCEPT !.out = @ \o bytes, !.over = IF whole THEN @ ELSE "cut"]
      /\ task' = [task EXCEPT !.span = task.span + 1, !.pc = pc]
  BY DEF Deliver
<1>2. pc \in {"done", "finish", "stream"}
  OBVIOUS
<1>3. /\ task' \in TaskType /\ task'.pc = pc /\ task'.req = task.req /\ task'.at = task.at
      /\ task'.from = task.from /\ task'.effect = task.effect /\ task'.span = task.span + 1
      /\ task'.range = task.range /\ task'.spans = task.spans
  <2>1. task \in TaskType
    BY DEF Shaped
  <2>2. pc \in Steps /\ task.span + 1 \in Nat
    BY <1>2, <2>1 DEF TaskType, Steps, Handled, Reading
  <2> HIDE DEF pc
  <2> QED BY <1>1, <2>1, <2>2 DEF TaskType
<1>4. /\ ClientShape(client)' /\ client'.out = client.out \o bytes /\ client'.length = client.length
      /\ client'.over = IF whole THEN client.over ELSE "cut"
  <2> HIDE DEF whole
  <2> QED BY <1>1, Zenon DEF Shaped, ClientShape
<1>5. Moved
  <2>1. client'.over = "whole" => client.over = "whole"
    BY <1>4
  <2> HIDE DEF pc, whole
  <2> QED BY <1>2, <1>3, <1>4, <2>1 DEF Moved, Kept, Handled, Reading
<1> QED BY <1>3, <1>4, <1>5

(* Cutting a response off ends its request. *)
LEMMA CutMoves ==
  ASSUME Shaped, Cut, task.pc \notin {"invalidate", "done"}, UNCHANGED ring
  PROVE  /\ Moved /\ task'.pc = "done" /\ client'.over = "cut"
         /\ client'.out = client.out /\ client'.length = client.length
<1>1. ClientShape(client)' /\ client'.over = "cut" /\ client'.out = client.out /\ client'.length = client.length
  BY DEF Shaped, ClientShape, Cut
<1>2. Goto("done") /\ "done" \in Steps
  BY DEF Cut, Steps
<1> QED BY <1>1, <1>2, MovedEnd, GotoKeeps

(* The steps that matter to routing and to writes, by name; every other one   *)
(* moves the request on or only touches an answer.                            *)
LEMMA StepKinds ==
  ASSUME Shaped, Next
  PROVE  \/ Route \/ Arrive \/ ServeInternal \/ ReadAtOwner \/ ClientGone
         \/ ForwardAnswered \/ ForwardCopyFails \/ ForwardFails \/ Invalidate
         \/ Moved \/ Rested
<1>1. "done" \in Steps /\ \A pc \in Handled : pc \in Steps
  BY DEF Steps
<1>2. ASSUME Goto("upstream"), UNCHANGED <<ring, client>>, task.pc \in {"handle", "open"}
      PROVE  Moved
  BY <1>2, MovedOn DEF Handled, Reading
<1>3. ASSUME NEW status, Goto("done"), Answer(status), UNCHANGED ring,
             task.pc \notin {"invalidate", "done"}
      PROVE  Moved
  BY <1>3, MovedEnd, AnswerKeeps, Zenon DEF Shaped
<1>4. CASE PeerUnreachable
  BY <1>3, <1>4 DEF PeerUnreachable
<1>5. CASE RefuseSignature
  BY <1>3, <1>5 DEF RefuseSignature
<1>6. CASE HandlePass \/ MetadataMissing \/ PassUnsatisfied
  BY <1>2, <1>6 DEF HandlePass, MetadataMissing, PassUnsatisfied, ReadHere, Unconditional
<1>7. CASE MetadataFails \/ ServeHead \/ ServeEmpty \/ FirstPageFails
  BY <1>3, <1>7 DEF MetadataFails, ServeHead, ServeEmpty, FirstPageFails, ReadHere, Unconditional
<1>8. CASE AnswerConditional
  BY <1>2, <1>3, <1>8 DEF AnswerConditional
<1>9. CASE PlanPages
  BY <1>9, PlanMoves
<1>10. CASE BeginStream
  <2>1. /\ task.pc = "open" /\ Goto("stream") /\ UNCHANGED ring
        /\ client' = [client EXCEPT !.status = IF Class = "range" THEN 206 ELSE 200,
                                    !.length = task.range.end - task.range.start + 1]
    BY <1>10 DEF BeginStream, Commit
  <2>2. ClientShape(client)' /\ client'.over = client.over
    BY <2>1, Zenon DEF Shaped, ClientShape
  <2>3. "stream" \in Steps /\ "stream" \in Handled \ {"invalidate"} /\ "open" \in Handled
    BY DEF Steps, Handled, Reading
  <2> QED BY <2>1, <2>2, <2>3, GotoKeeps DEF Moved, Kept
<1>11. CASE StreamLocalSpan
  <2>1. task.pc = "stream" /\ UNCHANGED ring /\ \E bytes : Deliver(bytes)
    BY <1>11, Zenon DEF StreamLocalSpan
  <2> QED BY <2>1, DeliverMoves
<1>12. CASE FinishBatches
  <2>1. /\ task.pc = "finish" /\ Goto("done") /\ UNCHANGED ring
        /\ client' = [client EXCEPT !.over = "whole"]
    BY <1>12 DEF FinishBatches
  <2>2. ClientShape(client)'
    BY <2>1 DEF Shaped, ClientShape
  <2> QED BY <2>1, <2>2, MovedEnd
<1>13. CASE ServeCold
  <2>1. task.pc = "open" /\ Goto("done") /\ UNCHANGED ring
    BY <1>13 DEF ServeCold
  <2>2. PICK n \in 0 .. task.req.size :
          client' = [client EXCEPT !.status = 200, !.length = task.req.size,
                       !.out = Positions(0, n - 1), !.over = IF n = task.req.size THEN "whole" ELSE "cut"]
    BY <1>13 DEF ServeCold
  <2>3. ClientShape(client)'
    BY <2>2, Zenon DEF Shaped, ClientShape
  <2> QED BY <2>1, <2>3, MovedEnd
<1>14. ASSUME NEW o \in Peers, OpenBatch(o) PROVE Moved
  <2>1. task.pc = "open" /\ UNCHANGED <<ring, client>> /\ (UNCHANGED task \/ Goto("upstream"))
    BY <1>14 DEF OpenBatch, FallBack
  <2>2. CASE UNCHANGED task
    BY <2>1, <2>2 DEF Moved, Kept, Shaped, ClientShape, Handled, Reading
  <2> QED BY <2>1, <2>2, <1>2
<1>15. ASSUME NEW o \in Peers, BatchFails(o) PROVE Moved
  BY <1>2, <1>15 DEF BatchFails, FallBack
<1>16. ASSUME NEW o \in Peers, WriteFrame(o) \/ WriteEnd(o) \/ LoseAnswer(o) PROVE Rested
  BY <1>16 DEF WriteFrame, WriteEnd, LoseAnswer, Rested
<1>17. ASSUME NEW o \in Peers, StreamRemoteSpan(o) PROVE Moved
  <2>1. task.pc = "stream" /\ UNCHANGED ring /\ (Cut \/ \E bytes : Deliver(bytes))
    BY <1>17, Zenon DEF StreamRemoteSpan
  <2> QED BY <2>1, DeliverMoves, CutMoves
<1>18. ASSUME NEW o \in Peers, EndMissing(o) PROVE Moved
  BY <1>18, CutMoves DEF EndMissing
<1>19. CASE Finished
  BY <1>19 DEF Finished, Rested, vars
<1> QED
  BY <1>4, <1>5, <1>6, <1>7, <1>8, <1>9, <1>10, <1>11, <1>12, <1>13, <1>14, <1>15, <1>16, <1>17,
     <1>18, <1>19, Zenon DEF Next

-----------------------------------------------------------------------------
(* Who handles a request.                                                     *)

(* A forwarded request stands at the object's owner, by the sender's ring     *)
(* while it is being accepted and by the common ring afterwards.              *)
Routed ==
  /\ task.pc = "send" => ~Forwarded /\ task.to = ObjectOwner
  /\ task.pc = "accept" => Forwarded /\ Here = Owner(ring[task.from], ObjectKey)
  /\ task.pc \in {"route"} \cup Handled /\ Forwarded =>
       ring[task.from] = ring[Here] /\ Here = ObjectOwner
  /\ task.pc \in Handled => KeepsRequest

(* Where a request is handled does not change while it stays at its peer. *)
LEMMA RoutedKept ==
  ASSUME Routed, Kept,
         task'.pc = "done" \/ (task.pc \in Handled /\ task'.pc \in Handled) \/ task' = task
  PROVE  Routed'
<1>1. /\ Forwarded' <=> Forwarded
      /\ Here' = Here /\ ObjectOwner' = ObjectOwner /\ Class' = Class
      /\ ring' = ring /\ task'.from = task.from /\ task'.req = task.req
  BY DEF Kept, Forwarded, Here, ObjectOwner, Class
<1>2. KeepsRequest => KeepsRequest'
  BY <1>1, Zenon DEF KeepsRequest
<1>3. CASE task'.pc = "done"
  BY <1>3 DEF Routed, Handled, Reading
<1>4. CASE task.pc \in Handled /\ task'.pc \in Handled
  <2>1. task'.pc \notin {"send", "accept"}
    BY <1>4 DEF Handled, Reading
  <2> QED BY <1>1, <1>2, <1>4, <2>1, Zenon DEF Routed
<1>5. CASE task' = task
  BY <1>1, <1>2, <1>5, Zenon DEF Routed
<1> QED BY <1>3, <1>4, <1>5

(* The steps of a write at the upstream store and after it stay at their      *)
(* peer.                                                                      *)
LEMMA RoutedWrite ==
  ASSUME Shaped, Routed, task.pc \in {"upstream", "invalidate"}, UNCHANGED ring, ClientShape(client)',
         \E pc \in {"done", "invalidate"}, effect \in {"none", "applied", "invalidated"} :
           task' = [task EXCEPT !.pc = pc, !.effect = effect]
  PROVE  Kept /\ Routed'
<1>1. PICK pc \in {"done", "invalidate"}, effect \in {"none", "applied", "invalidated"} :
        task' = [task EXCEPT !.pc = pc, !.effect = effect]
  OBVIOUS
<1>2. task \in TaskType /\ pc \in Steps
  BY DEF Shaped, Steps, Handled
<1>3. /\ task' \in TaskType /\ task'.pc = pc /\ task'.req = task.req
      /\ task'.at = task.at /\ task'.from = task.from
  BY <1>1, <1>2 DEF TaskType
<1>4. Kept
  BY <1>3 DEF Kept
<1> QED BY <1>3, <1>4, RoutedKept DEF Handled

(* Every step keeps requests where they belong. *)
LEMMA RoutedStep ==
  ASSUME Shaped, Routed, [Next]_vars
  PROVE  /\ Routed'
         /\ task' \in TaskType /\ ring' = ring /\ ClientShape(client)'
<1> DEFINE Good == Routed' /\ task' \in TaskType /\ ring' = ring /\ ClientShape(client)'
<1>0. /\ task \in TaskType /\ task.at \in Peers /\ task.pc \in Steps /\ ClientShape(client)
      /\ task.from \in Peers \cup {NoPeer}
  BY DEF Shaped, TaskType
<1>1. CASE Moved \/ Rested \/ UNCHANGED vars
  <2>1. CASE Moved
    BY <2>1, RoutedKept DEF Moved, Kept
  <2>2. CASE Rested \/ UNCHANGED vars
    <3>1. Kept /\ task' = task
      BY <1>0, <2>2 DEF Kept, Rested, vars, ClientShape
    <3> QED BY <3>1, RoutedKept DEF Kept
  <2> QED BY <1>1, <2>1, <2>2
<1>2. CASE Route
  <2>1. CASE KeepsRequest
    <3>1. Goto("handle") /\ UNCHANGED <<ring, client>> /\ task.pc = "route"
      BY <1>2, <2>1 DEF Route
    <3>2. /\ task' \in TaskType /\ task'.pc = "handle" /\ task'.req = task.req /\ task'.at = task.at
          /\ task'.from = task.from
      BY <3>1, GotoKeeps DEF Steps, Handled
    <3>3. /\ Forwarded' <=> Forwarded
          /\ Here' = Here /\ ObjectOwner' = ObjectOwner /\ Class' = Class
      BY <3>1, <3>2 DEF Forwarded, Here, ObjectOwner, Class
    <3>4. KeepsRequest'
      BY <2>1, <3>2, <3>3, Zenon DEF KeepsRequest
    <3>5. Forwarded => ring[task.from] = ring[Here] /\ Here = ObjectOwner
      BY <3>1 DEF Routed
    <3> QED BY <1>0, <3>1, <3>2, <3>3, <3>4, <3>5 DEF Routed, ClientShape
  <2>2. CASE ~KeepsRequest /\ ~Forwarded
    <3>1. task' = [task EXCEPT !.pc = "send", !.to = ObjectOwner] /\ UNCHANGED <<ring, client>>
      BY <1>2, <2>2 DEF Route
    <3>2. ObjectOwner \in Peers
      BY <1>0, ObjectOwnerHas DEF ObjectOwner, Here
    <3>3. /\ task' \in TaskType /\ task'.pc = "send" /\ task'.at = task.at /\ task'.from = task.from
          /\ task'.to = ObjectOwner
      BY <1>0, <3>1, <3>2 DEF TaskType, Steps
    <3> QED BY <1>0, <2>2, <3>1, <3>3 DEF Routed, Forwarded, ObjectOwner, Here, Handled, Reading, ClientShape
  <2>3. CASE ~KeepsRequest /\ Forwarded
    <3>1. Goto("done") /\ Answer(502) /\ UNCHANGED ring
      BY <1>2, <2>3 DEF Route
    <3>2. task' \in TaskType /\ task'.pc = "done"
      BY <3>1, GotoKeeps DEF Steps
    <3> QED BY <1>0, <3>1, <3>2, AnswerKeeps DEF Routed, Handled, Reading
  <2> QED BY <2>1, <2>2, <2>3
<1>3. CASE Arrive
  <2>1. /\ task.pc = "send" /\ UNCHANGED <<ring, client>>
        /\ task' = [task EXCEPT !.pc = "accept", !.from = task.at, !.at = task.to, !.to = NoPeer]
    BY <1>3 DEF Arrive, Here
  <2>2. task.to = Owner(ring[task.at], ObjectKey) /\ task.to \in Peers
    BY <1>0, <2>1, ObjectOwnerHas DEF Routed, ObjectOwner, Here
  <2>3. /\ task' \in TaskType /\ task'.pc = "accept" /\ task'.at = task.to /\ task'.from = task.at
    BY <1>0, <2>1, <2>2 DEF TaskType, Steps
  <2>4. task.at # NoPeer
    BY <1>0, RoutingAssumption DEF NoPeer
  <2> QED BY <1>0, <2>1, <2>2, <2>3, <2>4 DEF Routed, Forwarded, Here, Handled, Reading, ClientShape
<1>4. CASE ServeInternal
  <2>1. CASE Accepts(Here, task.from)
    <3>1. Goto("route") /\ UNCHANGED <<ring, client>> /\ task.pc = "accept"
      BY <1>4, <2>1 DEF ServeInternal
    <3>2. /\ task' \in TaskType /\ task'.pc = "route" /\ task'.at = task.at /\ task'.from = task.from
      BY <3>1, GotoKeeps DEF Steps
    <3>3. ring[task.from] = ring[task.at] /\ task.at = Owner(ring[task.at], ObjectKey)
      BY <2>1, <3>1 DEF Accepts, Routed, Here
    <3> QED BY <1>0, <3>1, <3>2, <3>3 DEF Routed, Forwarded, Here, ObjectOwner, Handled, Reading, ClientShape
  <2>2. CASE ~Accepts(Here, task.from)
    <3>1. Goto("done") /\ UNCHANGED ring /\ Answer(IF task.from \in ring[Here] THEN 502 ELSE 403)
      BY <1>4, <2>2 DEF ServeInternal
    <3>2. task' \in TaskType /\ task'.pc = "done"
      BY <3>1, GotoKeeps DEF Steps
    <3> QED BY <1>0, <3>1, <3>2, AnswerKeeps DEF Routed, Handled, Reading
  <2> QED BY <2>1, <2>2
<1>5. CASE ReadAtOwner
  <2>1. /\ task' = [task EXCEPT !.pc = "send", !.to = ObjectOwner] /\ UNCHANGED <<ring, client>>
        /\ ~Forwarded
    BY <1>5 DEF ReadAtOwner
  <2>2. ObjectOwner \in Peers
    BY <1>0, ObjectOwnerHas DEF ObjectOwner, Here
  <2>3. /\ task' \in TaskType /\ task'.pc = "send" /\ task'.at = task.at /\ task'.from = task.from
        /\ task'.to = ObjectOwner
    BY <1>0, <2>1, <2>2 DEF TaskType, Steps
  <2> QED BY <1>0, <2>1, <2>3 DEF Routed, Forwarded, ObjectOwner, Here, Handled, Reading, ClientShape
<1>6. CASE ClientGone
  <2>1. /\ UNCHANGED ring /\ client' = [client EXCEPT !.over = "cut"]
        /\ Goto("done") \/ Goto(task.pc)
    BY <1>6 DEF ClientGone
  <2>2. ClientShape(client)'
    BY <1>0, <2>1 DEF ClientShape
  <2>3. CASE Goto("done")
    <3>1. Kept /\ task'.pc = "done"
      BY <2>1, <2>2, <2>3, GotoKeeps DEF Kept, Steps
    <3> QED BY <3>1, <2>2, RoutedKept DEF Kept
  <2>4. CASE Goto(task.pc)
    <3>1. Kept
      BY <1>0, <2>1, <2>2, <2>4, GotoKeeps DEF Kept
    <3>2. task' = task
      BY <1>0, <2>4 DEF Goto, TaskType
    <3> QED BY <3>1, <3>2, <2>2, RoutedKept DEF Kept
  <2> QED BY <2>1, <2>3, <2>4
<1>8. CASE ForwardAnswered
  <2>1. PICK status \in {200, 404} :
          /\ task' = [task EXCEPT !.pc = AfterForward(status), !.effect = Effect(status)]
          /\ Answer(status)
    BY <1>8 DEF ForwardAnswered
  <2>2. /\ AfterForward(status) \in {"done", "invalidate"}
        /\ Effect(status) \in {"none", "applied", "invalidated"}
    BY DEF AfterForward, Effect
  <2>3. task.pc \in {"upstream", "invalidate"} /\ UNCHANGED ring
    BY <1>8 DEF ForwardAnswered
  <2>4. ClientShape(client)'
    BY <1>0, <2>1, AnswerKeeps, Zenon
  <2> QED BY <2>1, <2>2, <2>3, <2>4, RoutedWrite, Zenon DEF Kept
<1>9. CASE ForwardCopyFails
  <2>1. ClientShape(client)'
    BY <1>0, <1>9 DEF ForwardCopyFails, ClientShape
  <2>2. Effect(200) \in {"none", "applied", "invalidated"}
    BY DEF Effect
  <2>3. /\ task.pc \in {"upstream", "invalidate"} /\ UNCHANGED ring
        /\ task' = [task EXCEPT !.pc = "done", !.effect = Effect(200)]
    BY <1>9 DEF ForwardCopyFails
  <2>4. \E pc \in {"done", "invalidate"}, effect \in {"none", "applied", "invalidated"} :
          task' = [task EXCEPT !.pc = pc, !.effect = effect]
    BY <2>2, <2>3
  <2> QED BY <2>1, <2>3, <2>4, RoutedWrite, Zenon DEF Kept
<1>10. CASE ForwardFails
  <2>1. PICK effect \in {"none", Effect(200)} : task' = [task EXCEPT !.pc = "done", !.effect = effect]
    BY <1>10 DEF ForwardFails
  <2>2. effect \in {"none", "applied", "invalidated"}
    BY DEF Effect
  <2>3. /\ task.pc \in {"upstream", "invalidate"} /\ UNCHANGED ring /\ Answer(502)
    BY <1>10 DEF ForwardFails
  <2>4. ClientShape(client)'
    BY <1>0, <2>3, AnswerKeeps
  <2>5. \E pc \in {"done", "invalidate"}, e \in {"none", "applied", "invalidated"} :
          task' = [task EXCEPT !.pc = pc, !.effect = e]
    BY <2>1, <2>2
  <2> QED BY <2>3, <2>4, <2>5, RoutedWrite, Zenon DEF Kept
<1>11. CASE Invalidate
  <2>1. /\ task.pc = "invalidate" /\ UNCHANGED <<ring, client>>
        /\ \/ task' = [task EXCEPT !.pc = "done", !.effect = "invalidated"]
           \/ Goto("done")
    BY <1>11 DEF Invalidate
  <2>2. ClientShape(client)'
    BY <1>0, <2>1 DEF ClientShape
  <2>3. CASE Goto("done")
    <3>1. Kept /\ task'.pc = "done"
      BY <2>1, <2>2, <2>3, GotoKeeps DEF Kept, Steps
    <3> QED BY <3>1, <2>2, RoutedKept DEF Kept
  <2>4. CASE task' = [task EXCEPT !.pc = "done", !.effect = "invalidated"]
    <3>1. \E pc \in {"done", "invalidate"}, effect \in {"none", "applied", "invalidated"} :
            task' = [task EXCEPT !.pc = pc, !.effect = effect]
      BY <2>4
    <3> QED BY <2>1, <2>2, <3>1, RoutedWrite DEF Kept
  <2> QED BY <2>1, <2>3, <2>4
<1> QED
  BY <1>1, <1>2, <1>3, <1>4, <1>5, <1>6, <1>8, <1>9, <1>10, <1>11, StepKinds

-----------------------------------------------------------------------------
(* Whose pages are read.                                                      *)

(* The answer of one owner goes on; what it was asked stays.                  *)
Continues(o) ==
  /\ conn[o] # NoConn /\ ConnShape(conn'[o]) /\ conn'[o].asked = conn[o].asked
  /\ conn' = [p \in Peers |-> conn'[p]] /\ \A p \in Peers : p # o => conn'[p] = conn[p]

Opens(o) ==
  /\ task.pc = "open" /\ UNCHANGED task /\ ServesPages(o, PagesOf(o)) /\ o \in Batched
  /\ conn' = [conn EXCEPT ![o] = [state |-> "open", asked |-> PagesOf(o), frames |-> <<>>, read |-> 0]]

(* Replacing one answer by one that was asked the same. *)
LEMMA ContinuesFrame ==
  ASSUME Shaped, NEW o \in Peers, conn[o] # NoConn, NEW c, ConnShape(c), c.asked = conn[o].asked,
         conn' = [conn EXCEPT ![o] = c]
  PROVE  Continues(o) /\ conn'[o] = c
<1>1. conn = [p \in Peers |-> conn[p]]
  BY DEF Shaped
<1>2. conn'[o] = c /\ \A p \in Peers : p # o => conn'[p] = conn[p]
  BY <1>1
<1>3. conn' = [p \in Peers |-> conn'[p]]
  BY <1>1, Zenon
<1> QED BY <1>2, <1>3 DEF Continues

(* What an owner writes, or what is lost of it, continues its answer. *)
LEMMA WritesContinues ==
  ASSUME Shaped, NEW o \in Peers, NEW frames, NEW state, Writes(o, frames, state),
         conn[o].state # "none"
  PROVE  /\ Continues(o)
         /\ conn'[o].frames = frames /\ conn'[o].state = state /\ conn'[o].read = conn[o].read
<1> DEFINE c == [state |-> state, asked |-> conn[o].asked, frames |-> frames, read |-> conn[o].read]
<1>1. ConnShape(conn[o]) /\ conn[o] # NoConn
  BY DEF Shaped, NoConn
<1>2. /\ ConnShape(c) /\ c.asked = conn[o].asked /\ c.frames = frames /\ c.state = state
      /\ c.read = conn[o].read
  BY Zenon DEF ConnShape
<1>3. conn' = [conn EXCEPT ![o] = c]
  BY DEF Writes
<1> HIDE DEF c
<1> QED BY <1>1, <1>2, <1>3, ContinuesFrame

(* Reading a frame continues the answer. *)
LEMMA ReadContinues ==
  ASSUME Shaped, NEW o \in Peers, conn' = [conn EXCEPT ![o] = [conn[o] EXCEPT !.read = conn[o].read + 1]],
         conn[o] # NoConn
  PROVE  /\ Continues(o) /\ conn'[o].frames = conn[o].frames
         /\ conn'[o].state = conn[o].state /\ conn'[o].read = conn[o].read + 1
<1> DEFINE c == [conn[o] EXCEPT !.read = conn[o].read + 1]
<1>1. ConnShape(conn[o])
  BY DEF Shaped
<1>2. /\ ConnShape(c) /\ c.asked = conn[o].asked /\ c.frames = conn[o].frames
      /\ c.state = conn[o].state /\ c.read = conn[o].read + 1
  BY <1>1 DEF ConnShape
<1> HIDE DEF c
<1> QED BY <1>2, ContinuesFrame DEF c

ConnShaped == conn = [o \in Peers |-> conn[o]] /\ \A o \in Peers : ConnShape(conn[o])

(* Answers are open only while a read is under way or over. *)
Quiet == task.pc \notin Reading \cup {"done"} => \A o \in Peers : conn[o] = NoConn

(* What a step does to the answers: nothing, closing all, opening one, going on *)
(* with one.                                                                  *)
ConnStays ==
  /\ UNCHANGED <<ring, conn>>
  /\ Arrive \/ task'.at = task.at
  /\ task.pc \in Reading \cup {"done"} => task'.pc \in Reading \cup {"done"}
ConnContinues(o) ==
  /\ Continues(o) /\ ring' = ring /\ task'.at = task.at
  /\ task.pc \in Reading \cup {"done"} => task'.pc \in Reading \cup {"done"}

(* Every step is one of these. *)
LEMMA ConnKinds ==
  ASSUME Shaped, Next
  PROVE  \/ ConnStays
         \/ conn' = [p \in Peers |-> NoConn]
         \/ \E o \in Peers : ConnContinues(o)
         \/ \E o \in Peers : Opens(o) /\ ring' = ring
<1> USE DEF Reading
<1>0. /\ \A pc \in Handled : pc \in Steps
      /\ "done" \in Steps /\ "send" \in Steps /\ "accept" \in Steps /\ "route" \in Steps
      /\ task \in TaskType /\ task.pc \in Steps
  BY DEF Steps, Shaped, TaskType
<1>1. ASSUME NEW pc \in Steps, Goto(pc), UNCHANGED <<ring, conn>>,
             task.pc \in Reading \cup {"done"} => pc \in Reading \cup {"done"}
      PROVE  ConnStays
  BY <1>1, GotoKeeps DEF ConnStays
<1>2. CASE \/ Route \/ PeerUnreachable \/ ServeInternal \/ RefuseSignature \/ HandlePass
           \/ MetadataMissing \/ MetadataFails \/ AnswerConditional \/ ServeHead \/ ServeEmpty
           \/ PassUnsatisfied \/ BeginStream \/ FirstPageFails \/ FinishBatches \/ ServeCold
  <2>1. UNCHANGED <<ring, conn>>
    <3>1. CASE Route \/ PeerUnreachable \/ ServeInternal \/ RefuseSignature \/ HandlePass
      BY <3>1 DEF Route, PeerUnreachable, ServeInternal, RefuseSignature, HandlePass
    <3>2. CASE MetadataMissing \/ MetadataFails \/ AnswerConditional \/ ServeHead \/ ServeEmpty
      BY <3>2 DEF MetadataMissing, MetadataFails, AnswerConditional, ServeHead, ServeEmpty
    <3>3. CASE PassUnsatisfied \/ BeginStream \/ FirstPageFails \/ FinishBatches \/ ServeCold
      BY <3>3 DEF PassUnsatisfied, BeginStream, FirstPageFails, FinishBatches, ServeCold
    <3> QED BY <1>2, <3>1, <3>2, <3>3, Zenon
  <2>2. CASE \E pc \in {"done", "stream"} : Goto(pc)
    BY <1>0, <1>1, <2>1, <2>2 DEF Handled
  <2>3. CASE /\ \E pc \in {"handle", "route", "upstream"} : Goto(pc)
             /\ task.pc \in {"route", "accept", "handle"}
    BY <1>0, <1>1, <2>1, <2>3 DEF Handled
  <2>4. CASE Route
    <3>1. CASE KeepsRequest
      BY <2>3, <2>4, <3>1 DEF Route
    <3>2. CASE ~KeepsRequest /\ Forwarded
      BY <2>2, <2>4, <3>2 DEF Route
    <3>3. CASE ~KeepsRequest /\ ~Forwarded
      <4>1. task.pc = "route" /\ task' = [task EXCEPT !.pc = "send", !.to = ObjectOwner]
        BY <2>4, <3>3 DEF Route
      <4>2. task'.at = task.at
        BY <1>0, <4>1 DEF TaskType
      <4> QED BY <2>1, <4>1, <4>2 DEF ConnStays
    <3> QED BY <3>1, <3>2, <3>3
  <2>5. CASE ServeInternal \/ HandlePass \/ MetadataMissing \/ AnswerConditional \/ PassUnsatisfied
    BY <2>2, <2>3, <2>5 DEF ServeInternal, HandlePass, MetadataMissing, AnswerConditional,
      PassUnsatisfied, ReadHere, Unconditional
  <2>6. CASE \/ PeerUnreachable \/ RefuseSignature \/ MetadataFails \/ ServeHead \/ ServeEmpty
             \/ BeginStream \/ FirstPageFails \/ FinishBatches \/ ServeCold
    <3>1. Goto("done") \/ Goto("stream")
      <4>1. CASE PeerUnreachable \/ RefuseSignature \/ MetadataFails \/ ServeHead
        BY <4>1 DEF PeerUnreachable, RefuseSignature, MetadataFails, ServeHead
      <4>2. CASE ServeEmpty \/ BeginStream \/ FirstPageFails
        BY <4>2 DEF ServeEmpty, BeginStream, FirstPageFails
      <4>3. CASE FinishBatches \/ ServeCold
        BY <4>3 DEF FinishBatches, ServeCold
      <4> QED BY <2>6, <4>1, <4>2, <4>3, Zenon
    <3> QED BY <2>2, <3>1
  <2> QED BY <1>2, <2>4, <2>5, <2>6
<1>3. CASE Arrive
  BY <1>3 DEF Arrive, ConnStays
<1>4. CASE ReadAtOwner \/ PlanPages
  <2>1. UNCHANGED <<ring, conn>> /\ task.pc = "handle"
    BY <1>4 DEF ReadAtOwner, PlanPages, ReadHere, Unconditional
  <2>2. task'.at = task.at
    BY <1>0, <1>4 DEF ReadAtOwner, PlanPages, TaskType
  <2> QED BY <2>1, <2>2 DEF ConnStays
<1>5. CASE ClientGone
  <2>1. UNCHANGED <<ring, conn>> /\ (Goto("done") \/ Goto(task.pc))
    BY <1>5 DEF ClientGone
  <2> QED BY <1>0, <1>1, <2>1
<1>6. CASE ForwardAnswered \/ ForwardCopyFails \/ ForwardFails \/ Invalidate
  <2>1. UNCHANGED <<ring, conn>> /\ task.pc \in {"upstream", "invalidate"}
    BY <1>6 DEF ForwardAnswered, ForwardCopyFails, ForwardFails, Invalidate
  <2>2. task'.at = task.at
    <3>1. Goto("done") \/ \E pc, effect : task' = [task EXCEPT !.pc = pc, !.effect = effect]
      <4>1. CASE ForwardAnswered
        BY <4>1, Zenon DEF ForwardAnswered
      <4>2. CASE ForwardCopyFails
        BY <4>2, Zenon DEF ForwardCopyFails
      <4>3. CASE ForwardFails
        BY <4>3, Zenon DEF ForwardFails
      <4>4. CASE Invalidate
        BY <4>4, Zenon DEF Invalidate
      <4> QED BY <1>6, <4>1, <4>2, <4>3, <4>4, Zenon
    <3>2. CASE Goto("done")
      BY <1>0, <3>2, GotoKeeps
    <3>3. ASSUME NEW pc, NEW effect, task' = [task EXCEPT !.pc = pc, !.effect = effect]
          PROVE  task'.at = task.at
      BY <1>0, <3>3 DEF TaskType
    <3> QED BY <3>1, <3>2, <3>3, Zenon
  <2> QED BY <2>1, <2>2 DEF ConnStays
<1>7. CASE StreamLocalSpan
  <2>1. task.pc = "stream" /\ UNCHANGED <<ring, conn>> /\ \E bytes : Deliver(bytes)
    BY <1>7, Zenon DEF StreamLocalSpan
  <2>2. task'.at = task.at /\ task'.pc \in {"finish", "stream", "done"}
    BY <2>1, DeliverMoves DEF Moved, Kept
  <2> QED BY <2>1, <2>2 DEF ConnStays
<1>8. ASSUME NEW o \in Peers, OpenBatch(o) PROVE (Opens(o) /\ ring' = ring) \/ conn' = [p \in Peers |-> NoConn]
  BY <1>8 DEF OpenBatch, Opens, FallBack
<1>9. ASSUME NEW o \in Peers, BatchFails(o) PROVE conn' = [p \in Peers |-> NoConn]
  BY <1>9 DEF BatchFails, FallBack
<1>10. ASSUME NEW o \in Peers, WriteFrame(o) \/ WriteEnd(o) \/ LoseAnswer(o) PROVE ConnContinues(o)
  <2>1. UNCHANGED <<ring, task>> /\ conn[o].state # "none" /\ \E frames, state : Writes(o, frames, state)
    BY <1>10, Zenon DEF WriteFrame, WriteEnd, LoseAnswer
  <2> QED BY <2>1, WritesContinues DEF ConnContinues
<1>11. ASSUME NEW o \in Peers, StreamRemoteSpan(o) PROVE ConnStays \/ ConnContinues(o)
  <2>1. task.pc = "stream" /\ UNCHANGED ring /\ (Cut \/ \E bytes : Deliver(bytes))
    BY <1>11, Zenon DEF StreamRemoteSpan
  <2>2. task'.at = task.at /\ task'.pc \in {"finish", "stream", "done"}
    BY <2>1, DeliverMoves, CutMoves DEF Moved, Kept
  <2>3. CASE UNCHANGED conn
    BY <2>1, <2>2, <2>3 DEF ConnStays
  <2>4. CASE /\ conn' = [conn EXCEPT ![o] = [conn[o] EXCEPT !.read = conn[o].read + 1]]
             /\ conn[o].read < Len(conn[o].frames)
    <3>1. conn[o] # NoConn
      BY <2>4 DEF NoConn
    <3> QED BY <2>1, <2>2, <2>4, <3>1, ReadContinues DEF ConnContinues
  <2> QED BY <1>11, <2>3, <2>4 DEF StreamRemoteSpan
<1>12. ASSUME NEW o \in Peers, EndMissing(o) PROVE ConnStays
  BY <1>0, <1>1, <1>12 DEF EndMissing, Cut
<1>13. CASE Finished
  BY <1>13 DEF Finished, vars, ConnStays
<1> QED
  BY <1>2, <1>3, <1>4, <1>5, <1>6, <1>7, <1>8, <1>9, <1>10, <1>11, <1>12, <1>13, Zenon DEF Next

(* No step leaves an answer to a request that is not being read. *)
LEMMA QuietStep ==
  ASSUME Shaped, Quiet, [Next]_vars
  PROVE  Quiet' /\ ConnShaped'
<1>0. ConnShaped
  BY DEF Shaped, ConnShaped
<1>1. CASE ConnStays \/ UNCHANGED vars
  <2>1. ring' = ring /\ conn' = conn
    BY <1>1 DEF ConnStays, vars
  <2>2. ConnShaped'
    BY <1>0, <2>1 DEF ConnShaped, ConnShape
  <2>3. Quiet'
    BY <1>1, <2>1 DEF Quiet, ConnStays, vars
  <2> QED BY <2>2, <2>3
<1>2. CASE conn' = [p \in Peers |-> NoConn]
  <2>1. \A o \in Peers : conn'[o] = NoConn
    BY <1>2
  <2>2. \A o \in Peers : ConnShape(conn'[o])
    BY <2>1 DEF ConnShape, NoConn
  <2>3. conn' = [o \in Peers |-> conn'[o]]
    BY <1>2, Zenon
  <2>4. ConnShaped'
    BY <2>2, <2>3 DEF ConnShaped
  <2> QED BY <2>1, <2>4, Zenon DEF Quiet
<1>3. ASSUME NEW o \in Peers, ConnContinues(o)
      PROVE  Quiet' /\ ConnShaped'
  <2>1. /\ conn[o] # NoConn /\ ConnShape(conn'[o]) /\ conn'[o].asked = conn[o].asked
        /\ conn' = [p \in Peers |-> conn'[p]] /\ \A p \in Peers : p # o => conn'[p] = conn[p]
        /\ ring' = ring /\ task'.at = task.at
        /\ task.pc \in Reading \cup {"done"} => task'.pc \in Reading \cup {"done"}
    BY <1>3, Zenon DEF ConnContinues, Continues
  <2>2. ConnShaped'
    <3>1. \A p \in Peers : ConnShape(conn'[p])
      BY <1>0, <2>1, Zenon DEF ConnShaped
    <3> QED BY <2>1, <3>1, Zenon DEF ConnShaped
  <2>3. Quiet'
    BY <2>1, Zenon DEF Quiet
  <2> QED BY <2>2, <2>3
<1>4. ASSUME NEW o \in Peers, Opens(o), ring' = ring
      PROVE  Quiet' /\ ConnShaped'
  <2> DEFINE c == [state |-> "open", asked |-> PagesOf(o), frames |-> <<>>, read |-> 0]
  <2>1. /\ task' = task /\ task.pc = "open" /\ conn' = [conn EXCEPT ![o] = c]
    BY <1>4, Zenon DEF Opens
  <2>2. ConnShape(c)
    BY Zenon DEF ConnShape
  <2> HIDE DEF c
  <2>3. /\ conn'[o] = c /\ \A p \in Peers : p # o => conn'[p] = conn[p]
        /\ conn' = [p \in Peers |-> conn'[p]]
    BY <1>0, <2>1, Zenon DEF ConnShaped
  <2>4. ConnShaped'
    <3>1. \A p \in Peers : ConnShape(conn'[p])
      BY <1>0, <2>2, <2>3, Zenon DEF ConnShaped
    <3> QED BY <2>3, <3>1, Zenon DEF ConnShaped
  <2>5. Quiet'
    BY <2>1 DEF Quiet, Reading
  <2> QED BY <2>4, <2>5
<1> QED BY <1>1, <1>2, <1>3, <1>4, ConnKinds, Zenon

-----------------------------------------------------------------------------
(* What follows a write.                                                      *)

(* A request that replaces an object is one that handle invalidates after.    *)
LEMMA ReplacesInvalidates ==
  ASSUME NEW q, Replaces(q)
  PROVE  ShouldInvalidate(q)
BY DEF Replaces, ShouldInvalidate

Effected ==
  /\ task.effect # "none" => task.pc \in {"invalidate", "done"}
  /\ client.over = "whole" => task.pc \in {"invalidate", "done"}
  /\ WritesInvalidate

(* No step forgets the invalidation after a write. *)
LEMMA EffectedStep ==
  ASSUME Shaped, Effected, [Next]_vars
  PROVE  Effected'
<1>0. task \in TaskType /\ task.pc \in Steps /\ ClientShape(client)
  BY DEF Shaped, TaskType
<1>1. CASE Moved
  <2>1. /\ task'.effect = task.effect /\ task.pc \notin {"invalidate", "done"}
        /\ client'.over = "whole" => client.over = "whole" \/ task'.pc = "done"
    BY <1>1 DEF Moved
  <2>2. task'.effect = "none" /\ (client'.over = "whole" => task'.pc = "done")
    BY <2>1 DEF Effected
  <2> QED BY <2>2 DEF Effected, WritesInvalidate
<1>2. CASE Rested \/ UNCHANGED vars
  BY <1>2, Zenon DEF Rested, vars, Effected, WritesInvalidate, Here
<1>3. ASSUME task.pc \in {"route", "send", "accept", "handle"}, task'.effect = task.effect,
             client' = client
      PROVE  Effected'
  <2>1. task'.effect = "none" /\ client'.over # "whole"
    BY <1>3 DEF Effected
  <2> QED BY <2>1 DEF Effected, WritesInvalidate
<1>4. ASSUME NEW status, task.pc \in {"route", "accept"}, Goto("done"), Answer(status)
      PROVE  Effected'
  <2>1. task'.effect = "none" /\ task'.pc = "done"
    BY <1>4, GotoKeeps DEF Effected, Steps
  <2> QED BY <2>1 DEF Effected, WritesInvalidate
<1>5. CASE Route
  <2>1. CASE ~KeepsRequest /\ Forwarded
    BY <1>4, <1>5, <2>1 DEF Route
  <2>2. CASE KeepsRequest \/ ~Forwarded
    <3>1. task.pc = "route" /\ client' = client
      BY <1>5, <2>2 DEF Route
    <3>2. Goto("handle") \/ task' = [task EXCEPT !.pc = "send", !.to = ObjectOwner]
      BY <1>5, <2>2 DEF Route
    <3>3. task'.effect = task.effect
      BY <1>0, <3>2 DEF Goto, TaskType
    <3> QED BY <1>3, <3>1, <3>3
  <2> QED BY <2>1, <2>2
<1>6. CASE Arrive \/ ReadAtOwner
  <2>1. task.pc \in {"send", "handle"} /\ client' = client
    BY <1>6 DEF Arrive, ReadAtOwner, Unconditional
  <2>2. task'.effect = task.effect
    BY <1>0, <1>6 DEF Arrive, ReadAtOwner, TaskType
  <2> QED BY <1>3, <2>1, <2>2
<1>7. CASE ServeInternal
  <2>1. CASE Accepts(Here, task.from)
    <3>1. task.pc = "accept" /\ client' = client /\ Goto("route")
      BY <1>7, <2>1 DEF ServeInternal
    <3>2. task'.effect = task.effect
      BY <1>0, <3>1 DEF Goto, TaskType
    <3> QED BY <1>3, <3>1, <3>2
  <2>2. CASE ~Accepts(Here, task.from)
    BY <1>4, <1>7, <2>2 DEF ServeInternal
  <2> QED BY <2>1, <2>2
<1>8. CASE ClientGone
  <2>1. client'.over = "cut"
    BY <1>0, <1>8 DEF ClientGone, ClientShape
  <2>2. (Goto("done") \/ Goto(task.pc)) /\ "done" \in Steps
    BY <1>8 DEF ClientGone, Steps
  <2>3. task'.effect = task.effect /\ task'.pc \in {"done", task.pc}
    BY <1>0, <2>2, GotoKeeps
  <2> QED BY <2>1, <2>3 DEF Effected, WritesInvalidate
<1>9. CASE ForwardAnswered
  <2>1. PICK status \in {200, 404} :
          /\ task' = [task EXCEPT !.pc = AfterForward(status), !.effect = Effect(status)]
          /\ Answer(status)
    BY <1>9 DEF ForwardAnswered
  <2>2. /\ task'.pc = AfterForward(status) /\ task'.effect = Effect(status) /\ task'.req = task.req
    BY <1>0, <2>1 DEF TaskType
  <2>3. task'.pc \in {"invalidate", "done"}
    BY <2>2 DEF AfterForward
  <2>4. CASE status = 200 /\ ShouldInvalidate(task.req)
    BY <2>2, <2>3, <2>4 DEF AfterForward, Effected, WritesInvalidate
  <2>5. CASE ~(status = 200 /\ ShouldInvalidate(task.req))
    <3>1. task'.effect = "none" \/ ~Replaces(task.req)
      BY <2>2, <2>5, ReplacesInvalidates DEF Effect
    <3> QED BY <2>2, <2>3, <3>1, Zenon DEF Effected, WritesInvalidate
  <2> QED BY <2>4, <2>5
<1>10. CASE ForwardCopyFails
  <2>1. task'.pc = "done" /\ client.over # "whole"
    BY <1>0, <1>10 DEF ForwardCopyFails, Effected, TaskType
  <2>2. client'.over # "whole"
    BY <1>0, <1>10, <2>1 DEF ForwardCopyFails, ClientShape
  <2> QED BY <2>1, <2>2 DEF Effected, WritesInvalidate
<1>11. CASE ForwardFails
  <2>1. task'.pc = "done" /\ Answer(502) /\ task.pc = "upstream"
    BY <1>0, <1>11 DEF ForwardFails, TaskType
  <2>2. client.over # "whole"
    BY <2>1 DEF Effected
  <2>3. client'.over # "whole" \/ client'.status = 502
    BY <1>0, <2>1, <2>2, AnswerKeeps
  <2> QED BY <2>1, <2>3 DEF Effected, WritesInvalidate
<1>12. CASE Invalidate
  <2>1. CASE task' = [task EXCEPT !.pc = "done", !.effect = "invalidated"]
    <3>1. task'.pc = "done" /\ task'.effect = "invalidated"
      BY <1>0, <2>1 DEF TaskType
    <3> QED BY <3>1 DEF Effected, WritesInvalidate
  <2>2. CASE Goto("done") /\ degraded' = degraded \cup {Here}
    <3>1. task'.pc = "done" /\ task'.at = task.at
      BY <2>2, GotoKeeps DEF Steps
    <3> QED BY <2>2, <3>1 DEF Effected, WritesInvalidate, Here
  <2> QED BY <1>12, <2>1, <2>2 DEF Invalidate
<1> QED
  BY <1>1, <1>2, <1>5, <1>6, <1>7, <1>8, <1>9, <1>10, <1>11, <1>12, StepKinds

-----------------------------------------------------------------------------
(* The batches of a read.                                                     *)

(* The loop over the spans, up to the m-th of them. *)
Loop(g, o, m) ==
  g = [n \in 0 .. m |-> IF n = 0 THEN <<>> ELSE Grouped(o, g[n - 1], task.spans[n])]

(* One more round of the loop. *)
LEMMA LoopOnce ==
  ASSUME NEW o, NEW m \in Nat, NEW g, Loop(g, o, m)
  PROVE  \E h : Loop(h, o, m + 1)
<1> DEFINE h == [n \in 0 .. m + 1 |-> IF n = m + 1 THEN Grouped(o, g[m], task.spans[m + 1]) ELSE g[n]]
<1>1. \A n \in 0 .. m : h[n] = g[n] /\ n \in 0 .. m + 1
  OBVIOUS
<1>2. h[m + 1] = Grouped(o, g[m], task.spans[m + 1])
  OBVIOUS
<1>3. \A n \in 0 .. m : g[n] = IF n = 0 THEN <<>> ELSE Grouped(o, g[n - 1], task.spans[n])
  BY Zenon DEF Loop
<1>4. ASSUME NEW n \in 0 .. m + 1
      PROVE  h[n] = IF n = 0 THEN <<>> ELSE Grouped(o, h[n - 1], task.spans[n])
  <2>1. CASE n = m + 1
    <3>1. n # 0 /\ n - 1 = m /\ m \in 0 .. m
      BY <2>1
    <3> HIDE DEF h
    <3> QED BY <1>1, <1>2, <2>1, <3>1, Zenon
  <2>2. CASE n = 0
    <3>1. 0 \in 0 .. m
      OBVIOUS
    <3> HIDE DEF h
    <3> QED BY <1>1, <1>3, <2>2, <3>1, Zenon
  <2>3. CASE n # 0 /\ n # m + 1
    <3>1. n \in 0 .. m /\ n - 1 \in 0 .. m
      BY <2>3
    <3> HIDE DEF h
    <3> QED BY <1>1, <1>3, <2>3, <3>1, Zenon
  <2> QED BY <2>1, <2>2, <2>3
<1>5. h = [n \in 0 .. m + 1 |-> h[n]]
  BY Zenon
<1> HIDE DEF h
<1>6. h = [n \in 0 .. m + 1 |-> IF n = 0 THEN <<>> ELSE Grouped(o, h[n - 1], task.spans[n])]
  BY <1>4, <1>5, Zenon
<1> QED BY <1>6, Zenon DEF Loop

(* The loop is over for any number of spans. *)
LEMMA LoopEnds ==
  ASSUME NEW o, NEW N \in Nat
  PROVE  \E g : Loop(g, o, N)
<1> DEFINE Bad == {m \in Nat : ~\E g : Loop(g, o, m)}
<1>1. SUFFICES ASSUME Bad # {} PROVE FALSE
  OBVIOUS
<1>2. PICK m \in Bad : \A n \in Bad : m <= n
  <2>1. Bad \in SUBSET Nat
    OBVIOUS
  <2> HIDE DEF Bad
  <2> QED BY <1>1, <2>1, Smallest
<1>3. CASE m = 0
  <2> DEFINE g == [n \in 0 .. 0 |-> <<>>]
  <2>1. g = [n \in 0 .. 0 |-> IF n = 0 THEN <<>> ELSE Grouped(o, g[n - 1], task.spans[n])]
    OBVIOUS
  <2> HIDE DEF g
  <2> QED BY <1>2, <1>3, <2>1, Zenon DEF Loop
<1>4. CASE m # 0
  <2>1. m - 1 \in Nat /\ m - 1 \notin Bad /\ (m - 1) + 1 = m
    <3> HIDE DEF Bad
    <3>1. m \in Nat
      BY DEF Bad
    <3> QED BY <1>2, <1>4, <3>1
  <2>2. PICK g : Loop(g, o, m - 1)
    BY <2>1
  <2>3. \E h : Loop(h, o, (m - 1) + 1)
    BY <2>1, <2>2, LoopOnce, Zenon
  <2> QED BY <1>2, <2>1, <2>3, Zenon
<1> QED BY <1>3, <1>4

(* What the batch of an owner is after each span. *)
LEMMA BatchDef ==
  ASSUME NEW o, Len(task.spans) \in Nat
  PROVE  /\ BatchUpTo(o)[0] = <<>>
         /\ \A n \in 1 .. Len(task.spans) :
              BatchUpTo(o)[n] = Grouped(o, BatchUpTo(o)[n - 1], task.spans[n])
<1> DEFINE B == BatchUpTo(o)
           N == Len(task.spans)
<1>1. B = CHOOSE g : Loop(g, o, N)
  BY DEF BatchUpTo, Loop
<1>2. \E g : Loop(g, o, N)
  BY LoopEnds
<1>3. Loop(B, o, N)
  BY <1>1, <1>2, Zenon
<1> HIDE DEF B, N
<1>4. \A n \in 0 .. N : B[n] = IF n = 0 THEN <<>> ELSE Grouped(o, B[n - 1], task.spans[n])
  BY <1>3, Zenon DEF Loop
<1>5. N \in Nat
  BY DEF N
<1>6. 0 \in 0 .. N /\ \A n \in 1 .. N : n \in 0 .. N /\ n # 0
  BY <1>5
<1> QED BY <1>4, <1>6, Zenon DEF B, N

(* What is known of the batch after n spans: its pages are those of the       *)
(* owner's spans, each in its place, and they ascend.                         *)
BatchIs(o, n) ==
  LET b == BatchUpTo(o)[n]
  IN /\ b \in Seq(Nat)
     /\ \A i \in 1 .. Len(b) : \E j \in 1 .. n : SpanOwner(task.spans[j]) = o /\ b[i] = task.spans[j].index
     /\ \A j \in 1 .. n : SpanOwner(task.spans[j]) = o =>
          LET k == Len(BatchUpTo(o)[j - 1]) + 1
          IN k \in 1 .. Len(b) /\ b[k] = task.spans[j].index
     /\ \A i, j \in 1 .. Len(b) : i < j => b[i] < b[j]

Ascending ==
  /\ Len(task.spans) \in Nat
  /\ \A i \in 1 .. Len(task.spans) : task.spans[i].index \in Nat
  /\ \A i, j \in 1 .. Len(task.spans) : i < j => task.spans[i].index < task.spans[j].index

(* A span of another owner leaves the batch as it is, *)
LEMMA BatchSkips ==
  ASSUME Len(task.spans) \in Nat, NEW o, NEW n \in 1 .. Len(task.spans), SpanOwner(task.spans[n]) # o
  PROVE  BatchUpTo(o)[n] = BatchUpTo(o)[n - 1]
BY BatchDef DEF Grouped

(* and a span of its owner adds its page. *)
LEMMA BatchAdds ==
  ASSUME Len(task.spans) \in Nat, NEW o, NEW n \in 1 .. Len(task.spans), SpanOwner(task.spans[n]) = o
  PROVE  BatchUpTo(o)[n] = Append(BatchUpTo(o)[n - 1], task.spans[n].index)
BY BatchDef DEF Grouped

(* One more span. *)
LEMMA BatchStep ==
  ASSUME Ascending, NEW o, NEW n \in 1 .. Len(task.spans), BatchIs(o, n - 1)
  PROVE  BatchIs(o, n)
<1> DEFINE a == BatchUpTo(o)[n - 1]
           b == BatchUpTo(o)[n]
           x == task.spans[n].index
<1>0. /\ a \in Seq(Nat)
      /\ \A i \in 1 .. Len(a) : \E j \in 1 .. n - 1 : SpanOwner(task.spans[j]) = o /\ a[i] = task.spans[j].index
      /\ \A j \in 1 .. n - 1 : SpanOwner(task.spans[j]) = o =>
           LET k == Len(BatchUpTo(o)[j - 1]) + 1
           IN k \in 1 .. Len(a) /\ a[k] = task.spans[j].index
      /\ \A i, j \in 1 .. Len(a) : i < j => a[i] < a[j]
  BY Zenon DEF BatchIs
<1>1. Len(task.spans) \in Nat /\ n \in Nat /\ \A j \in 1 .. n - 1 : j \in 1 .. n /\ j \in 1 .. Len(task.spans) /\ j < n
  BY DEF Ascending
<1>2. \A j \in 1 .. n : j \in 1 .. n - 1 \/ j = n
  BY <1>1
<1>3. CASE SpanOwner(task.spans[n]) # o
  <2>1. b = a
    BY <1>1, <1>3, BatchSkips, Zenon
  <2>2. \A i \in 1 .. Len(b) : \E j \in 1 .. n : SpanOwner(task.spans[j]) = o /\ b[i] = task.spans[j].index
    BY <1>0, <1>1, <2>1, Zenon
  <2>3. \A j \in 1 .. n : SpanOwner(task.spans[j]) = o =>
          LET k == Len(BatchUpTo(o)[j - 1]) + 1
          IN k \in 1 .. Len(b) /\ b[k] = task.spans[j].index
    BY <1>0, <1>2, <1>3, <2>1, Zenon
  <2>4. b \in Seq(Nat) /\ \A i, j \in 1 .. Len(b) : i < j => b[i] < b[j]
    BY <1>0, <2>1, Zenon
  <2> QED BY <2>2, <2>3, <2>4, Zenon DEF BatchIs
<1>4. CASE SpanOwner(task.spans[n]) = o
  <2>1. b = Append(a, x) /\ x \in Nat
    BY <1>1, <1>4, BatchAdds, Zenon DEF Ascending
  <2>2. /\ b \in Seq(Nat) /\ Len(b) = Len(a) + 1 /\ Len(a) \in Nat /\ b[Len(a) + 1] = x
        /\ \A i \in 1 .. Len(a) : b[i] = a[i] /\ i \in 1 .. Len(b)
        /\ \A i \in 1 .. Len(b) : i \in 1 .. Len(a) \/ i = Len(a) + 1
        /\ Len(a) + 1 \in 1 .. Len(b)
    <3> HIDE DEF a, b, x
    <3> QED BY <1>0, <2>1
  <2>3. \A i \in 1 .. Len(b) : \E j \in 1 .. n : SpanOwner(task.spans[j]) = o /\ b[i] = task.spans[j].index
    <3>1. n \in 1 .. n
      BY <1>1
    <3>2. ASSUME NEW i \in 1 .. Len(a)
          PROVE  \E j \in 1 .. n : SpanOwner(task.spans[j]) = o /\ b[i] = task.spans[j].index
      <4>1. PICK j \in 1 .. n - 1 : SpanOwner(task.spans[j]) = o /\ a[i] = task.spans[j].index
        BY <1>0, Zenon
      <4>2. b[i] = a[i] /\ j \in 1 .. n
        BY <1>1, <2>2, Zenon
      <4> QED BY <4>1, <4>2, Zenon
    <3>3. SpanOwner(task.spans[n]) = o /\ b[Len(a) + 1] = task.spans[n].index
      BY <1>4, <2>2, Zenon
    <3> HIDE DEF a, b
    <3> QED BY <2>2, <3>1, <3>2, <3>3, Zenon
  <2>4. ASSUME NEW j \in 1 .. n, SpanOwner(task.spans[j]) = o
        PROVE  LET k == Len(BatchUpTo(o)[j - 1]) + 1
               IN k \in 1 .. Len(b) /\ b[k] = task.spans[j].index
    <3>1. CASE j = n
      BY <2>2, <3>1, Zenon
    <3>2. CASE j \in 1 .. n - 1
      BY <1>0, <2>2, <2>4, <3>2, Zenon
    <3> QED BY <1>2, <3>1, <3>2
  <2>5. \A i \in 1 .. Len(a) : a[i] < x
    <3>1. \A j \in 1 .. n - 1 : task.spans[j].index < x
      BY <1>1, Zenon DEF Ascending
    <3> QED BY <1>0, <3>1, Zenon
  <2>6. ASSUME NEW i \in 1 .. Len(b), NEW j \in 1 .. Len(b), i < j PROVE b[i] < b[j]
    <3> HIDE DEF a, b, x
    <3>1. i \in 1 .. Len(a)
      BY <2>2, <2>6
    <3>2. CASE j = Len(a) + 1
      BY <2>2, <2>5, <3>1, <3>2, Zenon
    <3>3. CASE j \in 1 .. Len(a)
      BY <1>0, <2>2, <2>6, <3>1, <3>3, Zenon
    <3> QED BY <2>2, <3>2, <3>3
  <2> QED BY <2>2, <2>3, <2>4, <2>6, Zenon DEF BatchIs
<1> QED BY <1>3, <1>4

(* So it is known after every span. *)
LEMMA BatchKnown ==
  ASSUME Ascending, NEW o, NEW N \in 0 .. Len(task.spans)
  PROVE  BatchIs(o, N)
<1> DEFINE Bad == {n \in 0 .. Len(task.spans) : ~BatchIs(o, n)}
<1>0. Len(task.spans) \in Nat
  BY DEF Ascending
<1>1. SUFFICES ASSUME Bad # {} PROVE FALSE
  OBVIOUS
<1>2. PICK m \in Bad : \A n \in Bad : m <= n
  <2>1. Bad \in SUBSET Nat
    OBVIOUS
  <2> HIDE DEF Bad
  <2> QED BY <1>1, <2>1, Smallest
<1>3. CASE m = 0
  <2>1. BatchUpTo(o)[0] = <<>> /\ <<>> \in Seq(Nat) /\ Len(<<>>) = 0
    BY <1>0, BatchDef
  <2>2. \A i : i \notin 1 .. 0
    OBVIOUS
  <2>3. BatchIs(o, 0)
    BY <2>1, <2>2, Zenon DEF BatchIs
  <2> QED BY <1>2, <1>3, <2>3
<1>4. CASE m # 0
  <2>1. m \in 1 .. Len(task.spans) /\ m - 1 \in 0 .. Len(task.spans) /\ m - 1 < m
    BY <1>0, <1>2, <1>4
  <2>2. m - 1 \notin Bad
    <3> HIDE DEF Bad
    <3> QED BY <1>2, <2>1
  <2>3. BatchIs(o, m - 1)
    BY <2>1, <2>2
  <2>4. BatchIs(o, m)
    BY <2>1, <2>3, BatchStep, Zenon
  <2> QED BY <1>2, <2>4
<1> QED BY <1>3, <1>4

(* The page of an owner's span is the next one it was asked for. *)
LEMMA BatchNext ==
  ASSUME Ascending, NEW o, NEW n \in 1 .. Len(task.spans), SpanOwner(task.spans[n]) = o
  PROVE  /\ Len(BatchUpTo(o)[n - 1]) \in Nat
         /\ Len(BatchUpTo(o)[n]) = Len(BatchUpTo(o)[n - 1]) + 1
         /\ Len(BatchUpTo(o)[n - 1]) < Len(PagesOf(o))
         /\ PagesOf(o)[Len(BatchUpTo(o)[n - 1]) + 1] = task.spans[n].index
<1> DEFINE N == Len(task.spans)
           a == BatchUpTo(o)[n - 1]
           b == PagesOf(o)
<1>1. N \in Nat /\ n - 1 \in 0 .. N /\ N \in 0 .. N /\ task.spans[n].index \in Nat
  BY DEF Ascending
<1>2. BatchIs(o, n - 1) /\ BatchIs(o, N)
  BY <1>1, BatchKnown, Zenon
<1>3. a \in Seq(Nat) /\ b \in Seq(Nat)
  BY <1>2, Zenon DEF BatchIs, PagesOf
<1>4. Len(a) + 1 \in 1 .. Len(b) /\ b[Len(a) + 1] = task.spans[n].index
  <2>1. \A j \in 1 .. N : SpanOwner(task.spans[j]) = o =>
          LET k == Len(BatchUpTo(o)[j - 1]) + 1
          IN k \in 1 .. Len(b) /\ b[k] = task.spans[j].index
    BY <1>2, Zenon DEF BatchIs, PagesOf
  <2> HIDE DEF b, N
  <2>2. n \in 1 .. N
    BY DEF N
  <2> QED BY <2>1, <2>2, Zenon
<1>5. BatchUpTo(o)[n] = Append(a, task.spans[n].index)
  BY <1>1, BatchAdds, Zenon
<1> HIDE DEF a, b
<1>6. Len(a) \in Nat /\ Len(b) \in Nat /\ Len(Append(a, task.spans[n].index)) = Len(a) + 1
  BY <1>1, <1>3
<1>7. Len(a) < Len(b)
  BY <1>4, <1>6
<1> QED BY <1>4, <1>5, <1>6, <1>7, Zenon DEF a, b

(* The batches depend on the plan and on the coordinator's ring alone. *)
LEMMA SamePlan ==
  ASSUME UNCHANGED ring, task'.at = task.at, task'.req = task.req, task'.spans = task.spans
  PROVE  /\ \A s : SpanOwner(s)' = SpanOwner(s)
         /\ Here' = Here /\ Batched' = Batched
         /\ \A o : BatchUpTo(o)' = BatchUpTo(o) /\ PagesOf(o)' = PagesOf(o)
<1>1. ASSUME NEW s PROVE SpanOwner(s)' = SpanOwner(s)
  BY Zenon DEF SpanOwner, Strategy, Here
<1>2. Here' = Here
  BY DEF Here
<1>3. Batched' = Batched
  BY <1>1, <1>2, Zenon DEF Batched
<1>4. ASSUME NEW o PROVE BatchUpTo(o)' = BatchUpTo(o)
  <2>1. \A b, s : Grouped(o, b, s)' = Grouped(o, b, s)
    BY <1>1, Zenon DEF Grouped
  <2> QED BY <2>1, SMT DEF BatchUpTo
<1>5. ASSUME NEW o PROVE PagesOf(o)' = PagesOf(o)
  BY <1>4, Zenon DEF PagesOf
<1> QED BY <1>1, <1>2, <1>3, <1>4, <1>5, Zenon

-----------------------------------------------------------------------------
(* What a step may lose.                                                      *)

(* Faults only grow. *)
LEMMA FaultsGrow ==
  ASSUME faults \in Nat, [Next]_vars
  PROVE  faults' \in Nat /\ (UNCHANGED faults \/ faults' # 0)
<1>1. SUFFICES UNCHANGED faults \/ Fault
  BY DEF Fault
<1>2. CASE Route \/ Arrive \/ PeerUnreachable \/ ServeInternal \/ RefuseSignature \/ ClientGone
  BY <1>2 DEF Route, Arrive, PeerUnreachable, ServeInternal, RefuseSignature, ClientGone
<1>3. CASE HandlePass \/ ForwardAnswered \/ ForwardCopyFails \/ ForwardFails \/ Invalidate
  BY <1>3 DEF HandlePass, ForwardAnswered, ForwardCopyFails, ForwardFails, Invalidate
<1>4. CASE MetadataMissing \/ MetadataFails \/ AnswerConditional \/ ServeHead \/ ReadAtOwner
  BY <1>4 DEF MetadataMissing, MetadataFails, AnswerConditional, ServeHead, ReadAtOwner
<1>5. CASE ServeEmpty \/ PassUnsatisfied \/ PlanPages \/ BeginStream \/ FirstPageFails
  BY <1>5 DEF ServeEmpty, PassUnsatisfied, PlanPages, BeginStream, FirstPageFails
<1>6. CASE StreamLocalSpan \/ FinishBatches \/ Finished \/ UNCHANGED vars
  BY <1>6 DEF StreamLocalSpan, FinishBatches, Finished, vars
<1>7. CASE ServeCold
  BY <1>7 DEF ServeCold
<1>8. ASSUME NEW o \in Peers,
             \/ OpenBatch(o) \/ BatchFails(o) \/ WriteFrame(o) \/ WriteEnd(o) \/ LoseAnswer(o)
             \/ StreamRemoteSpan(o) \/ EndMissing(o)
      PROVE  UNCHANGED faults \/ Fault
  BY <1>8 DEF OpenBatch, BatchFails, WriteFrame, WriteEnd, LoseAnswer, StreamRemoteSpan, EndMissing
<1> QED BY <1>2, <1>3, <1>4, <1>5, <1>6, <1>7, <1>8, Zenon DEF Next

(* Only peers report not ready. *)
LEMMA DegradedStep ==
  ASSUME Shaped, degraded \subseteq Peers, [Next]_vars
  PROVE  degraded' \subseteq Peers
<1>0. Here \in Peers
  BY DEF Shaped, TaskType, Here
<1>1. SUFFICES \/ UNCHANGED degraded \/ degraded' = degraded \cup {Here}
               \/ \E p \in Peers : \E q : degraded' = Mismatched(p, q)
  BY <1>0, Zenon DEF Mismatched
<1>2. CASE Route \/ Arrive \/ PeerUnreachable \/ RefuseSignature \/ ClientGone
  BY <1>2 DEF Route, Arrive, PeerUnreachable, RefuseSignature, ClientGone
<1>3. CASE ServeInternal
  BY <1>0, <1>3, Zenon DEF ServeInternal
<1>4. CASE HandlePass \/ ForwardAnswered \/ ForwardCopyFails \/ ForwardFails \/ Invalidate
  BY <1>4 DEF HandlePass, ForwardAnswered, ForwardCopyFails, ForwardFails, Invalidate
<1>5. CASE MetadataMissing \/ MetadataFails \/ AnswerConditional \/ ServeHead \/ ReadAtOwner
  BY <1>5 DEF MetadataMissing, MetadataFails, AnswerConditional, ServeHead, ReadAtOwner
<1>6. CASE ServeEmpty \/ PassUnsatisfied \/ PlanPages \/ BeginStream \/ FirstPageFails
  BY <1>6 DEF ServeEmpty, PassUnsatisfied, PlanPages, BeginStream, FirstPageFails
<1>7. CASE StreamLocalSpan \/ FinishBatches \/ ServeCold \/ Finished \/ UNCHANGED vars
  BY <1>7 DEF StreamLocalSpan, FinishBatches, ServeCold, Finished, vars
<1>8. ASSUME NEW o \in Peers, OpenBatch(o) PROVE \E p \in Peers : \E q : degraded' = Mismatched(p, q)
  BY <1>8, Zenon DEF OpenBatch
<1>9. ASSUME NEW o \in Peers,
             \/ BatchFails(o) \/ WriteFrame(o) \/ WriteEnd(o) \/ LoseAnswer(o)
             \/ StreamRemoteSpan(o) \/ EndMissing(o)
      PROVE  UNCHANGED degraded
  BY <1>9 DEF BatchFails, WriteFrame, WriteEnd, LoseAnswer, StreamRemoteSpan, EndMissing
<1> QED BY <1>2, <1>3, <1>4, <1>5, <1>6, <1>7, <1>8, <1>9, Zenon DEF Next

(* A request that is over, but for the invalidation, stays over. *)
LEMMA OverStays ==
  ASSUME Shaped, [Next]_vars, task.pc \in {"invalidate", "done"}
  PROVE  task'.pc \in {"invalidate", "done"}
<1>0. task \in TaskType /\ task.pc \in Steps /\ "done" \in Steps
  BY DEF Shaped, TaskType, Steps
<1>1. CASE Moved \/ Rested \/ UNCHANGED vars
  BY <1>1 DEF Moved, Rested, vars
<1>2. CASE Route \/ Arrive \/ ServeInternal \/ ReadAtOwner
  BY <1>2 DEF Route, Arrive, ServeInternal, ReadAtOwner, Unconditional
<1>3. CASE ForwardAnswered \/ ForwardCopyFails \/ ForwardFails
  BY <1>3 DEF ForwardAnswered, ForwardCopyFails, ForwardFails
<1>4. CASE ClientGone
  <2>1. \E pc \in Steps : Goto(pc) /\ pc \in {"done", task.pc}
    BY <1>0, <1>4 DEF ClientGone
  <2> QED BY <2>1, GotoKeeps
<1>5. CASE Invalidate
  BY <1>0, <1>5 DEF Invalidate, Goto, TaskType
<1> QED BY <1>1, <1>2, <1>3, <1>4, <1>5, StepKinds

(* A step that no read goes on after, and that cuts nothing off. *)
Passing ==
  /\ task'.pc \notin Reading /\ client'.over \in {client.over, "whole"}

(* The steps that lose nothing. *)
LEMMA HealthyKinds ==
  ASSUME Shaped, Next, faults \in Nat, UNCHANGED faults
  PROVE  \/ Passing \/ PlanPages \/ BeginStream
         \/ StreamLocalSpan /\ Deliver(CopySpan(Page(Current.index), Current))
         \/ \E o \in Peers : OpenBatch(o) /\ Opens(o)
         \/ \E o \in Peers : WriteFrame(o) \/ WriteEnd(o) \/ StreamRemoteSpan(o) \/ EndMissing(o)
<1>0. /\ ~Fault /\ ClientShape(client) /\ task \in TaskType
      /\ {"route", "send", "accept", "handle", "upstream", "invalidate", "done"} \subseteq Steps
      /\ \A pc \in {"route", "send", "accept", "handle", "upstream", "invalidate", "done"} : pc \notin Reading
  BY DEF Shaped, Fault, Steps, Handled, Reading
<1>1. ASSUME NEW pc \in {"route", "send", "accept", "handle", "upstream", "invalidate", "done"}, Goto(pc),
             UNCHANGED client \/ \E status : Answer(status)
      PROVE  Passing
  <2>1. client'.over \in {client.over, "whole"}
    BY <1>0, <1>1, AnswerKeeps
  <2>2. task'.pc = pc
    BY <1>0, <1>1, GotoKeeps
  <2> QED BY <1>0, <2>1, <2>2 DEF Passing
<1>2. CASE Route
  <2>1. CASE ~KeepsRequest /\ ~Forwarded
    <3>1. task'.pc = "send" /\ client' = client
      BY <1>0, <1>2, <2>1 DEF Route, TaskType
    <3> QED BY <1>0, <3>1 DEF Passing
  <2>2. CASE KeepsRequest \/ Forwarded
    BY <1>1, <1>2, <2>2 DEF Route
  <2> QED BY <2>1, <2>2
<1>3. CASE Arrive \/ ReadAtOwner
  <2>1. task'.pc \in {"accept", "send"} /\ client' = client
    BY <1>0, <1>3 DEF Arrive, ReadAtOwner, TaskType
  <2> QED BY <1>0, <2>1 DEF Passing
<1>4. CASE PeerUnreachable \/ RefuseSignature \/ MetadataFails \/ FirstPageFails \/ ClientGone
  BY <1>0, <1>4 DEF PeerUnreachable, RefuseSignature, MetadataFails, FirstPageFails, ClientGone
<1>5. CASE ForwardCopyFails \/ ForwardFails
  BY <1>0, <1>5 DEF ForwardCopyFails, ForwardFails
<1>6. CASE ServeInternal \/ AnswerConditional
  BY <1>1, <1>6 DEF ServeInternal, AnswerConditional
<1>7. CASE HandlePass \/ MetadataMissing \/ PassUnsatisfied
  BY <1>1, <1>7 DEF HandlePass, MetadataMissing, PassUnsatisfied
<1>8. CASE ServeHead \/ ServeEmpty
  BY <1>1, <1>8 DEF ServeHead, ServeEmpty
<1>9. CASE ForwardAnswered
  <2>1. PICK status \in {200, 404} :
          /\ task' = [task EXCEPT !.pc = AfterForward(status), !.effect = Effect(status)]
          /\ Answer(status)
    BY <1>9 DEF ForwardAnswered
  <2>2. task'.pc = AfterForward(status)
    BY <1>0, <2>1 DEF TaskType
  <2>3. task'.pc \in {"done", "invalidate"}
    BY <2>2 DEF AfterForward
  <2>4. client'.over \in {client.over, "whole"}
    BY <1>0, <2>1, AnswerKeeps
  <2> QED BY <1>0, <2>3, <2>4 DEF Passing
<1>10. CASE Invalidate
  <2>1. task' = [task EXCEPT !.pc = "done", !.effect = "invalidated"] /\ client' = client
    BY <1>0, <1>10 DEF Invalidate
  <2>2. task'.pc = "done"
    BY <1>0, <2>1 DEF TaskType
  <2> QED BY <1>0, <2>1, <2>2 DEF Passing
<1>11. CASE FinishBatches
  <2>1. Goto("done") /\ client'.over = "whole"
    BY <1>0, <1>11 DEF FinishBatches, ClientShape
  <2>2. task'.pc = "done"
    BY <1>0, <2>1, GotoKeeps
  <2> QED BY <1>0, <2>1, <2>2 DEF Passing
<1>12. CASE ServeCold
  <2>1. PICK n \in 0 .. task.req.size :
          /\ client' = [client EXCEPT !.status = 200, !.length = task.req.size,
                          !.out = Positions(0, n - 1), !.over = IF n = task.req.size THEN "whole" ELSE "cut"]
          /\ IF n = task.req.size THEN UNCHANGED faults ELSE Fault
    BY <1>12 DEF ServeCold
  <2>2. client'.over = "whole"
    BY <1>0, <2>1 DEF ClientShape
  <2>3. task'.pc = "done"
    BY <1>0, <1>12, GotoKeeps DEF ServeCold
  <2> QED BY <1>0, <2>2, <2>3 DEF Passing
<1>13. CASE StreamLocalSpan
  BY <1>0, <1>13 DEF StreamLocalSpan
<1>14. ASSUME NEW o \in Peers, OpenBatch(o) PROVE Passing \/ Opens(o)
  <2>1. CASE ServesPages(o, PagesOf(o))
    BY <1>14, <2>1 DEF OpenBatch, Opens
  <2>2. CASE ~ServesPages(o, PagesOf(o))
    BY <1>1, <1>14, <2>2 DEF OpenBatch, FallBack
  <2> QED BY <2>1, <2>2
<1>15. ASSUME NEW o \in Peers, BatchFails(o) \/ LoseAnswer(o) PROVE FALSE
  BY <1>0, <1>15 DEF BatchFails, LoseAnswer
<1>16. CASE Finished
  <2>1. task' = task /\ client' = client /\ task.pc = "done"
    BY <1>16 DEF Finished, vars
  <2> QED BY <1>0, <2>1 DEF Passing
<1> QED
  BY <1>2, <1>3, <1>4, <1>5, <1>6, <1>7, <1>8, <1>9, <1>10, <1>11, <1>12, <1>13, <1>14, <1>15, <1>16,
     Zenon DEF Next

-----------------------------------------------------------------------------
(* The bytes, and the frames that carry them.                                 *)

(* Sequences joined, compared and cut. *)
LEMMA JoinedSeq ==
  ASSUME NEW s \in Seq(Nat), NEW t \in Seq(Nat)
  PROVE  /\ s \o t \in Seq(Nat) /\ Len(s \o t) = Len(s) + Len(t)
         /\ \A k \in 1 .. Len(s) + Len(t) : (s \o t)[k] = IF k <= Len(s) THEN s[k] ELSE t[k - Len(s)]
OBVIOUS

LEMMA EqualSeq ==
  ASSUME NEW s \in Seq(Nat), NEW t \in Seq(Nat), Len(s) = Len(t), \A k \in 1 .. Len(s) : s[k] = t[k]
  PROVE  s = t
OBVIOUS

LEMMA PartOfSeq ==
  ASSUME NEW S, NEW s, NEW m \in Int, NEW n \in Int, \A i \in m .. n : s[i] \in S
  PROVE  /\ SubSeq(s, m, n) \in Seq(S)
         /\ Len(SubSeq(s, m, n)) = IF m <= n THEN n - m + 1 ELSE 0
         /\ \A i \in 1 .. n - m + 1 : SubSeq(s, m, n)[i] = s[m + i - 1]
OBVIOUS

(* An interval of positions, as a sequence. *)
LEMMA PositionsSeq ==
  ASSUME NEW a \in Nat, NEW b \in Int, a <= b + 1
  PROVE  /\ Positions(a, b) \in Seq(Nat) /\ Len(Positions(a, b)) = b - a + 1
         /\ \A k \in 1 .. b - a + 1 : Positions(a, b)[k] = a + k - 1
         /\ DOMAIN Positions(a, b) = 1 .. b - a + 1
BY DEF Positions

(* Two intervals that meet join into one. *)
LEMMA PositionsJoin ==
  ASSUME NEW a \in Nat, NEW b \in Int, NEW c \in Int, a <= b + 1, b <= c
  PROVE  Positions(a, b) \o Positions(b + 1, c) = Positions(a, c)
<1> DEFINE s == Positions(a, b)
           t == Positions(b + 1, c)
           u == Positions(a, c)
<1>1. /\ s \in Seq(Nat) /\ Len(s) = b - a + 1
      /\ \A k \in 1 .. b - a + 1 : s[k] = a + k - 1
  BY PositionsSeq
<1>2. /\ t \in Seq(Nat) /\ Len(t) = c - b
      /\ \A k \in 1 .. c - b : t[k] = b + k
  <2>1. b + 1 \in Nat /\ b + 1 <= c + 1 /\ c - (b + 1) + 1 = c - b
    OBVIOUS
  <2>2. /\ t \in Seq(Nat) /\ Len(t) = c - (b + 1) + 1
        /\ \A k \in 1 .. c - (b + 1) + 1 : t[k] = b + 1 + k - 1
    BY <2>1, PositionsSeq
  <2> QED BY <2>1, <2>2
<1>3. /\ u \in Seq(Nat) /\ Len(u) = c - a + 1
      /\ \A k \in 1 .. c - a + 1 : u[k] = a + k - 1
  <2>1. a <= c + 1
    OBVIOUS
  <2> QED BY <2>1, PositionsSeq, Zenon
<1> HIDE DEF s, t, u
<1>4. /\ s \o t \in Seq(Nat) /\ Len(s \o t) = Len(s) + Len(t)
      /\ \A k \in 1 .. Len(s) + Len(t) : (s \o t)[k] = IF k <= Len(s) THEN s[k] ELSE t[k - Len(s)]
  BY <1>1, <1>2, JoinedSeq, Zenon
<1>5. Len(s) + Len(t) = c - a + 1 /\ Len(s \o t) = Len(u)
  BY <1>1, <1>2, <1>3, <1>4
<1>6. ASSUME NEW k \in 1 .. c - a + 1 PROVE (s \o t)[k] = u[k]
  <2>1. (s \o t)[k] = IF k <= Len(s) THEN s[k] ELSE t[k - Len(s)]
    BY <1>4, <1>5, Zenon
  <2>2. u[k] = a + k - 1
    BY <1>3, Zenon
  <2>3. CASE k <= Len(s)
    <3>1. k \in 1 .. b - a + 1
      BY <1>1, <2>3
    <3>2. s[k] = a + k - 1
      BY <1>1, <3>1, Zenon
    <3> QED BY <2>1, <2>2, <2>3, <3>2, Zenon
  <2>4. CASE ~(k <= Len(s))
    <3>1. k - Len(s) \in 1 .. c - b /\ b + (k - Len(s)) = a + k - 1
      BY <1>1, <2>4
    <3>2. t[k - Len(s)] = b + (k - Len(s))
      BY <1>2, <3>1, Zenon
    <3> QED BY <2>1, <2>2, <2>4, <3>1, <3>2, Zenon
  <2> QED BY <2>3, <2>4
<1>7. \A k \in 1 .. Len(s \o t) : (s \o t)[k] = u[k]
  BY <1>4, <1>5, <1>6, Zenon
<1> QED BY <1>3, <1>4, <1>5, <1>7, EqualSeq, Zenon DEF s, t, u

(* A part of an interval is an interval. *)
LEMMA PositionsPart ==
  ASSUME NEW a \in Nat, NEW b \in Int, a <= b + 1, NEW m \in Nat \ {0}, NEW n \in Int,
         m <= n + 1, n <= b - a + 1
  PROVE  SubSeq(Positions(a, b), m, n) = Positions(a + m - 1, a + n - 1)
<1> DEFINE s == Positions(a, b)
           t == Positions(a + m - 1, a + n - 1)
           u == SubSeq(s, m, n)
<1>1. /\ s \in Seq(Nat) /\ Len(s) = b - a + 1
      /\ \A k \in 1 .. b - a + 1 : s[k] = a + k - 1
  BY PositionsSeq
<1>2. /\ t \in Seq(Nat) /\ Len(t) = n - m + 1
      /\ \A k \in 1 .. n - m + 1 : t[k] = a + m + k - 2
  <2>1. a + m - 1 \in Nat /\ a + n - 1 \in Int /\ a + m - 1 <= a + n - 1 + 1
        /\ (a + n - 1) - (a + m - 1) + 1 = n - m + 1
    OBVIOUS
  <2>2. /\ t \in Seq(Nat) /\ Len(t) = (a + n - 1) - (a + m - 1) + 1
        /\ \A k \in 1 .. (a + n - 1) - (a + m - 1) + 1 : t[k] = a + m - 1 + k - 1
    BY <2>1, PositionsSeq
  <2> QED BY <2>1, <2>2
<1> HIDE DEF s, t
<1>3. \A i \in m .. n : s[i] \in Nat /\ s[i] = a + i - 1
  BY <1>1
<1>4. /\ u \in Seq(Nat) /\ Len(u) = IF m <= n THEN n - m + 1 ELSE 0
      /\ \A i \in 1 .. n - m + 1 : u[i] = s[m + i - 1]
  <2>1. \A i \in m .. n : s[i] \in Nat
    BY <1>3, Zenon
  <2> QED BY <2>1, PartOfSeq
<1> HIDE DEF u
<1>5. Len(u) = n - m + 1 /\ \A i \in 1 .. n - m + 1 : u[i] = t[i]
  BY <1>2, <1>3, <1>4
<1> QED BY <1>2, <1>4, <1>5, EqualSeq DEF s, t, u

(* A span of a page of the object that task.req names. *)
SpanFits(s) ==
  /\ s \in SpanType /\ s.index * PageSize <= s.start /\ s.start <= s.end
  /\ s.end < s.index * PageSize + PageSize /\ s.end < task.req.size

(* Some beginning of a page. *)
Partial(bytes, index) ==
  \/ bytes = Page(index)
  \/ \E m \in 0 .. FrameSize(index, task.req.size) - 1 : bytes = SubSeq(Page(index), 1, m)

(* A beginning of a page is an interval that starts with the page. *)
LEMMA PartialPositions ==
  ASSUME task.req.size \in Nat, NEW s, SpanFits(s), NEW bytes, Partial(bytes, s.index)
  PROVE  \E m \in Nat : bytes = Positions(s.index * PageSize, s.index * PageSize + m - 1)
<1> DEFINE a == s.index * PageSize
           b == Smaller(a + PageSize - 1, task.req.size - 1)
<1>1. s.index \in Nat /\ s.start \in Nat /\ s.end \in Nat
  BY DEF SpanFits, SpanType
<1>2. a \in Nat /\ PageSize \in Nat
  BY <1>1, Multiples, PageSizeAssumption
<1>3. b \in Nat /\ a <= b
  <2>1. a <= s.start /\ s.start <= s.end /\ s.end < task.req.size /\ 0 < PageSize
    BY PageSizeAssumption DEF SpanFits
  <2> HIDE DEF a
  <2> QED BY <1>1, <1>2, <2>1 DEF Smaller
<1>4. Page(s.index) = Positions(a, b) /\ FrameSize(s.index, task.req.size) = b - a + 1
  BY DEF Page, FrameSize, PageBounds
<1> HIDE DEF a, b
<1>5. CASE bytes = Page(s.index)
  <2>1. b - a + 1 \in Nat /\ a + (b - a + 1) - 1 = b
    BY <1>2, <1>3
  <2> QED BY <1>4, <1>5, <2>1 DEF a
<1>6. ASSUME NEW m \in 0 .. FrameSize(s.index, task.req.size) - 1, bytes = SubSeq(Page(s.index), 1, m)
      PROVE  m \in Nat /\ bytes = Positions(a, a + m - 1)
  <2>1. m \in Nat /\ m <= b - a + 1 /\ a <= b + 1 /\ 1 <= m + 1 /\ a + 1 - 1 = a /\ b \in Int
    BY <1>2, <1>3, <1>4, <1>6
  <2>2. 1 \in Nat \ {0} /\ m \in Int
    BY <2>1
  <2>3. SubSeq(Positions(a, b), 1, m) = Positions(a + 1 - 1, a + m - 1)
    BY <1>2, <2>1, <2>2, PositionsPart, Zenon
  <2> QED BY <1>4, <1>6, <2>1, <2>3, Zenon
<1> QED BY <1>5, <1>6 DEF Partial, a

(* What copyPageSpan copies begins with the span's first byte and does not    *)
(* pass its last one, however short the page fell.                            *)
LEMMA CopySpanBytes ==
  ASSUME task.req.size \in Nat, NEW s, SpanFits(s), NEW bytes, Partial(bytes, s.index)
  PROVE  \E e \in s.start - 1 .. s.end : CopySpan(bytes, s) = Positions(s.start, e)
<1> DEFINE a == s.index * PageSize
<1>1. s.index \in Nat /\ s.start \in Nat /\ s.end \in Nat
  BY DEF SpanFits, SpanType
<1>2. a \in Nat /\ PageSize \in Nat /\ a <= s.start /\ s.start <= s.end
  BY <1>1, Multiples, PageSizeAssumption DEF SpanFits
<1>3. PICK m \in Nat : bytes = Positions(a, a + m - 1)
  BY PartialPositions, Zenon
<1> HIDE DEF a
<1>4. a + m - 1 \in Int /\ a <= a + m - 1 + 1 /\ (a + m - 1) - a + 1 = m
  BY <1>2
<1>5. Len(bytes) = m
  <2>1. Len(bytes) = (a + m - 1) - a + 1
    BY <1>2, <1>3, <1>4, PositionsSeq
  <2> QED BY <1>4, <2>1
<1> DEFINE x == s.start - a + 1
           y == Smaller(s.end - a + 1, m)
<1>6. CopySpan(bytes, s) = SubSeq(bytes, x, y)
  BY <1>5 DEF CopySpan, a
<1>7. x \in Nat \ {0} /\ y \in Int /\ y <= m /\ a + x - 1 = s.start /\ a + y - 1 <= s.end
  BY <1>1, <1>2 DEF Smaller
<1> HIDE DEF x, y
<1>8. CASE x <= y + 1
  <2>1. SubSeq(Positions(a, a + m - 1), x, y) = Positions(a + x - 1, a + y - 1)
    <3>1. y <= (a + m - 1) - a + 1
      BY <1>4, <1>7
    <3> QED BY <1>2, <1>4, <1>7, <1>8, <3>1, PositionsPart, Zenon
  <2>2. a + y - 1 \in s.start - 1 .. s.end
    BY <1>1, <1>2, <1>7, <1>8
  <2> QED BY <1>3, <1>6, <1>7, <2>1, <2>2
<1>9. CASE ~(x <= y + 1)
  <2>1. y < x
    BY <1>7, <1>9
  <2>2. SubSeq(bytes, x, y) = << >>
    BY <1>7, <2>1
  <2>3. Positions(s.start, s.start - 1) = << >> /\ s.start - 1 \in s.start - 1 .. s.end
    <3>1. s.start - 1 \in Int /\ s.start <= s.start - 1 + 1 /\ (s.start - 1) - s.start + 1 = 0
          /\ s.start - 1 \in s.start - 1 .. s.end
      BY <1>1, <1>2
    <3>2. /\ Positions(s.start, s.start - 1) \in Seq(Nat)
          /\ Len(Positions(s.start, s.start - 1)) = (s.start - 1) - s.start + 1
      BY <1>1, <3>1, PositionsSeq
    <3> QED BY <3>1, <3>2
  <2> QED BY <1>6, <2>2, <2>3, Zenon
<1> QED BY <1>8, <1>9

IsSeq(s) == Len(s) \in Nat /\ s = [k \in 1 .. Len(s) |-> s[k]]

(* Append, for sequences whose elements have no type of their own. *)
LEMMA AppendIsSeq ==
  ASSUME NEW s, IsSeq(s), NEW e
  PROVE  /\ IsSeq(Append(s, e)) /\ Len(Append(s, e)) = Len(s) + 1
         /\ \A k \in 1 .. Len(s) + 1 : Append(s, e)[k] = IF k <= Len(s) THEN s[k] ELSE e
<1> DEFINE S == {s[k] : k \in 1 .. Len(s)} \cup {e}
<1>1. s \in Seq(S)
  BY DEF IsSeq
<1>2. e \in S
  OBVIOUS
<1> HIDE DEF S
<1>3. /\ Append(s, e) \in Seq(S) /\ Len(Append(s, e)) = Len(s) + 1
      /\ \A k \in 1 .. Len(s) + 1 : Append(s, e)[k] = IF k <= Len(s) THEN s[k] ELSE e
  BY <1>1, <1>2
<1> DEFINE t == Append(s, e)
<1> HIDE DEF t
<1>4. t \in Seq(S) => IsSeq(t)
  BY DEF IsSeq
<1> QED BY <1>3, <1>4 DEF t

(* The beginning of such a sequence. *)
LEMMA PartIsSeq ==
  ASSUME NEW s, IsSeq(s), NEW n \in 0 .. Len(s)
  PROVE  /\ IsSeq(SubSeq(s, 1, n)) /\ Len(SubSeq(s, 1, n)) = n
         /\ \A k \in 1 .. n : SubSeq(s, 1, n)[k] = s[k]
<1> DEFINE S == {s[k] : k \in 1 .. Len(s)}
           t == SubSeq(s, 1, n)
<1>1. n \in Int /\ 1 \in Int /\ \A i \in 1 .. n : s[i] \in S
  BY DEF IsSeq
<1> HIDE DEF S
<1>2. /\ t \in Seq(S) /\ Len(t) = (IF 1 <= n THEN n - 1 + 1 ELSE 0)
      /\ \A i \in 1 .. n - 1 + 1 : t[i] = s[1 + i - 1]
  BY <1>1, PartOfSeq
<1> HIDE DEF t
<1>3. Len(t) = n /\ \A k \in 1 .. n : t[k] = s[k]
  BY <1>2 DEF IsSeq
<1>4. IsSeq(t)
  BY <1>2 DEF IsSeq
<1> QED BY <1>3, <1>4 DEF t

(* The frames an owner has written, or what is left of them, carry beginnings *)
(* of the pages they name.                                                    *)
FrameOK(f) == f.type = "page" => Partial(f.payload, f.index)
FramesOK(c) ==
  /\ c.read \in Nat /\ IsSeq(c.frames)
  /\ \A k \in 1 .. Len(c.frames) : FrameOK(c.frames[k])
Framed == \A o \in Peers : FramesOK(conn[o])

(* One more frame, and fewer frames. *)
LEMMA FramesAppend ==
  ASSUME NEW s, IsSeq(s), \A k \in 1 .. Len(s) : FrameOK(s[k]), NEW f, FrameOK(f)
  PROVE  IsSeq(Append(s, f)) /\ \A k \in 1 .. Len(Append(s, f)) : FrameOK(Append(s, f)[k])
<1>1. /\ IsSeq(Append(s, f)) /\ Len(Append(s, f)) = Len(s) + 1
      /\ \A k \in 1 .. Len(s) + 1 : Append(s, f)[k] = IF k <= Len(s) THEN s[k] ELSE f
  BY AppendIsSeq, Zenon
<1>2. ASSUME NEW k \in 1 .. Len(s) + 1 PROVE FrameOK(Append(s, f)[k])
  <2>1. CASE k <= Len(s)
    <3>1. k \in 1 .. Len(s) /\ Append(s, f)[k] = s[k]
      BY <1>1, <2>1 DEF IsSeq
    <3> QED BY <3>1, Zenon
  <2>2. CASE ~(k <= Len(s))
    BY <1>1, <2>2, Zenon
  <2> QED BY <2>1, <2>2
<1> QED BY <1>1, <1>2, Zenon

(* A beginning of the frames has only frames that are in order. *)
LEMMA FramesPart ==
  ASSUME NEW s, IsSeq(s), \A k \in 1 .. Len(s) : FrameOK(s[k]), NEW n \in 0 .. Len(s)
  PROVE  IsSeq(SubSeq(s, 1, n)) /\ \A k \in 1 .. Len(SubSeq(s, 1, n)) : FrameOK(SubSeq(s, 1, n)[k])
<1>1. /\ IsSeq(SubSeq(s, 1, n)) /\ Len(SubSeq(s, 1, n)) = n
      /\ \A k \in 1 .. n : SubSeq(s, 1, n)[k] = s[k]
  BY PartIsSeq, Zenon
<1>2. \A k \in 1 .. n : k \in 1 .. Len(s)
  BY DEF IsSeq
<1> QED BY <1>1, <1>2, Zenon

(* What a step does to the frames. *)
LEMMA FrameKinds ==
  ASSUME Shaped, Next
  PROVE  \/ UNCHANGED conn
         \/ conn' = [p \in Peers |-> NoConn]
         \/ \E o \in Peers : Opens(o)
         \/ \E o \in Peers : WriteFrame(o) \/ WriteEnd(o) \/ LoseAnswer(o) \/ StreamRemoteSpan(o)
<1>1. CASE Route \/ Arrive \/ PeerUnreachable \/ ServeInternal \/ RefuseSignature \/ ClientGone
  BY <1>1 DEF Route, Arrive, PeerUnreachable, ServeInternal, RefuseSignature, ClientGone
<1>2. CASE HandlePass \/ ForwardAnswered \/ ForwardCopyFails \/ ForwardFails \/ Invalidate
  BY <1>2 DEF HandlePass, ForwardAnswered, ForwardCopyFails, ForwardFails, Invalidate
<1>3. CASE MetadataMissing \/ MetadataFails \/ AnswerConditional \/ ServeHead \/ ReadAtOwner
  BY <1>3 DEF MetadataMissing, MetadataFails, AnswerConditional, ServeHead, ReadAtOwner
<1>4. CASE ServeEmpty \/ PassUnsatisfied \/ PlanPages \/ BeginStream \/ FirstPageFails
  BY <1>4 DEF ServeEmpty, PassUnsatisfied, PlanPages, BeginStream, FirstPageFails
<1>5. CASE StreamLocalSpan \/ FinishBatches \/ ServeCold \/ Finished
  BY <1>5 DEF StreamLocalSpan, FinishBatches, ServeCold, Finished, vars
<1>6. ASSUME NEW o \in Peers, OpenBatch(o) PROVE Opens(o) \/ conn' = [p \in Peers |-> NoConn]
  BY <1>6 DEF OpenBatch, Opens, FallBack
<1>7. ASSUME NEW o \in Peers, BatchFails(o) \/ EndMissing(o)
      PROVE  conn' = [p \in Peers |-> NoConn] \/ UNCHANGED conn
  BY <1>7 DEF BatchFails, FallBack, EndMissing
<1> QED BY <1>1, <1>2, <1>3, <1>4, <1>5, <1>6, <1>7, Zenon DEF Next

(* Frames that are in order stay so while the request is the same. *)
LEMMA FramesSame ==
  ASSUME task'.req = task.req, NEW c, FramesOK(c)
  PROVE  FramesOK(c)'
<1>1. ASSUME NEW index PROVE Page(index)' = Page(index)
  BY Zenon DEF Page, PageBounds
<1>2. ASSUME NEW bytes, NEW index, Partial(bytes, index) PROVE Partial(bytes, index)'
  BY <1>1, <1>2, Zenon DEF Partial
<1>3. ASSUME NEW f, FrameOK(f) PROVE FrameOK(f)'
  BY <1>2, <1>3, Zenon DEF FrameOK
<1> QED BY <1>3, Zenon DEF FramesOK

(* Every step leaves frames that carry beginnings of their pages. *)
LEMMA FramedStep ==
  ASSUME Shaped, Framed, task'.req = task.req, [Next]_vars
  PROVE  Framed'
<1>1. ASSUME NEW o \in Peers, Continues(o), FramesOK(conn'[o]) PROVE Framed'
  <2>1. ASSUME NEW p \in Peers PROVE FramesOK(conn[p])'
    <3>1. CASE p = o
      BY <1>1, <3>1, FramesSame, Zenon
    <3>2. CASE p # o
      <4>1. conn'[p] = conn[p] /\ FramesOK(conn[p])
        BY <1>1, <3>2, Zenon DEF Continues, Framed
      <4> QED BY <4>1, FramesSame, Zenon
    <3> QED BY <3>1, <3>2
  <2> QED BY <2>1, Zenon DEF Framed
<1>2. CASE UNCHANGED conn \/ UNCHANGED vars
  <2>1. conn' = conn
    BY <1>2 DEF vars
  <2>2. ASSUME NEW p \in Peers PROVE FramesOK(conn[p])'
    BY <2>1, FramesSame, Zenon DEF Framed
  <2> QED BY <2>2, Zenon DEF Framed
<1>3. \A c : c.read = 0 /\ c.frames = <<>> => FramesOK(c)
  BY DEF FramesOK, IsSeq
<1>4. CASE conn' = [p \in Peers |-> NoConn]
  <2>1. FramesOK(NoConn)
    BY <1>3 DEF NoConn
  <2>2. ASSUME NEW p \in Peers PROVE FramesOK(conn[p])'
    <3>1. conn'[p] = NoConn
      BY <1>4
    <3> QED BY <2>1, <3>1, FramesSame, Zenon
  <2> QED BY <2>2, Zenon DEF Framed
<1>5. ASSUME NEW o \in Peers, Opens(o) PROVE Framed'
  <2> DEFINE c == [state |-> "open", asked |-> PagesOf(o), frames |-> <<>>, read |-> 0]
  <2>1. FramesOK(c)
    <3>1. c.read = 0 /\ c.frames = <<>>
      BY Zenon
    <3> HIDE DEF c
    <3> QED BY <3>1, <1>3, Zenon
  <2>2. conn' = [conn EXCEPT ![o] = c] /\ conn = [p \in Peers |-> conn[p]]
    BY <1>5, Zenon DEF Opens, Shaped
  <2> HIDE DEF c
  <2>3. ASSUME NEW p \in Peers PROVE FramesOK(conn[p])'
    <3>1. conn'[p] = c \/ conn'[p] = conn[p]
      BY <2>2, Zenon
    <3> QED BY <2>1, <3>1, FramesSame, Zenon DEF Framed
  <2> QED BY <2>3, Zenon DEF Framed
<1>6. ASSUME NEW o \in Peers, NEW frames, NEW state, Writes(o, frames, state), conn[o].state # "none",
             IsSeq(frames), \A k \in 1 .. Len(frames) : FrameOK(frames[k])
      PROVE  Framed'
  <2>1. Continues(o) /\ conn'[o].frames = frames /\ conn'[o].read = conn[o].read
    BY <1>6, WritesContinues, Zenon
  <2>2. conn[o].read \in Nat
    BY DEF Framed, FramesOK
  <2>3. FramesOK(conn'[o])
    BY <1>6, <2>1, <2>2, Zenon DEF FramesOK
  <2> QED BY <1>1, <2>1, <2>3, Zenon
<1>7. ASSUME NEW o \in Peers
      PROVE  IsSeq(conn[o].frames) /\ \A k \in 1 .. Len(conn[o].frames) : FrameOK(conn[o].frames[k])
  BY Zenon DEF Framed, FramesOK
<1>8. ASSUME NEW index PROVE FrameOK(WholeFrame(index))
  <2>1. WholeFrame(index).payload = Page(index) /\ WholeFrame(index).index = index
    BY Zenon DEF WholeFrame, PageFrame
  <2> QED BY <2>1, Zenon DEF FrameOK, Partial
<1>9. ASSUME NEW index, NEW m \in 0 .. FrameSize(index, task.req.size) - 1
      PROVE  FrameOK(BrokenFrame(index, m))
  <2>1. /\ BrokenFrame(index, m).payload = SubSeq(Page(index), 1, m)
        /\ BrokenFrame(index, m).index = index
    BY Zenon DEF BrokenFrame, PageFrame
  <2> QED BY <2>1, Zenon DEF FrameOK, Partial
<1>10. ASSUME NEW o \in Peers, WriteFrame(o) PROVE Framed'
  <2>1. conn[o].state # "none" /\ \E index : Writes(o, Append(conn[o].frames, WholeFrame(index)), "open")
    BY <1>10, Zenon DEF WriteFrame
  <2>2. PICK index : Writes(o, Append(conn[o].frames, WholeFrame(index)), "open")
    BY <2>1, Zenon
  <2> QED BY <1>6, <1>7, <1>8, <2>1, <2>2, FramesAppend, Zenon
<1>11. ASSUME NEW o \in Peers, WriteEnd(o) PROVE Framed'
  <2>1. conn[o].state # "none" /\ Writes(o, Append(conn[o].frames, EndFrame), "closed")
    BY <1>11 DEF WriteEnd
  <2>2. FrameOK(EndFrame)
    BY DEF FrameOK, EndFrame
  <2> QED BY <1>6, <1>7, <2>1, <2>2, FramesAppend, Zenon
<1>12. ASSUME NEW o \in Peers, LoseAnswer(o) PROVE Framed'
  <2> DEFINE c == conn[o]
  <2>1. PICK n \in c.read .. Len(c.frames) :
          \/ Writes(o, SubSeq(c.frames, 1, n), "closed")
          \/ \E index : \E m \in 0 .. FrameSize(index, task.req.size) - 1 :
               Writes(o, Append(SubSeq(c.frames, 1, n), BrokenFrame(index, m)), "closed")
    BY <1>12, Zenon DEF LoseAnswer
  <2>2. n \in 0 .. Len(c.frames) /\ c.state # "none"
    <3>1. c.read \in Nat
      BY DEF Framed, FramesOK
    <3> QED BY <1>12, <3>1 DEF LoseAnswer
  <2>3. /\ IsSeq(SubSeq(c.frames, 1, n))
        /\ \A k \in 1 .. Len(SubSeq(c.frames, 1, n)) : FrameOK(SubSeq(c.frames, 1, n)[k])
    BY <1>7, <2>2, FramesPart, Zenon
  <2>4. CASE Writes(o, SubSeq(c.frames, 1, n), "closed")
    BY <1>6, <2>2, <2>3, <2>4, Zenon
  <2>5. ASSUME NEW index, NEW m \in 0 .. FrameSize(index, task.req.size) - 1,
               Writes(o, Append(SubSeq(c.frames, 1, n), BrokenFrame(index, m)), "closed")
        PROVE  Framed'
    BY <1>6, <1>9, <2>2, <2>3, <2>5, FramesAppend, Zenon
  <2> QED BY <2>1, <2>4, <2>5, Zenon
<1>13. ASSUME NEW o \in Peers, StreamRemoteSpan(o) PROVE Framed'
  <2>1. CASE UNCHANGED conn
    BY <1>2, <2>1
  <2>2. CASE /\ conn' = [conn EXCEPT ![o] = [conn[o] EXCEPT !.read = conn[o].read + 1]]
             /\ conn[o].read < Len(conn[o].frames)
    <3>1. conn[o] # NoConn
      BY <2>2 DEF NoConn
    <3>2. Continues(o) /\ conn'[o].frames = conn[o].frames /\ conn'[o].read = conn[o].read + 1
      BY <2>2, <3>1, ReadContinues, Zenon
    <3>3. conn[o].read + 1 \in Nat
      BY DEF Framed, FramesOK
    <3>4. FramesOK(conn'[o])
      BY <1>7, <3>2, <3>3, Zenon DEF FramesOK
    <3> QED BY <1>1, <3>2, <3>4, Zenon
  <2> QED BY <1>13, <2>1, <2>2 DEF StreamRemoteSpan
<1> QED BY <1>2, <1>4, <1>5, <1>10, <1>11, <1>12, <1>13, FrameKinds, Zenon

-----------------------------------------------------------------------------
(* The theorems.                                                              *)

RoutingInv == Shaped /\ Routed /\ Quiet /\ Effected

(* The request has just arrived. *)
LEMMA InitRouting ==
  ASSUME Init
  PROVE  /\ RoutingInv
         /\ task.pc = "route" /\ task.span = 1 /\ client.length = 0 /\ client.out = <<>>
         /\ \A o \in Peers : conn[o] = NoConn
<1>1. PICK q \in Requests, p \in Peers :
        task = [pc |-> "route", req |-> q, at |-> p, from |-> NoPeer,
                to |-> NoPeer, range |-> Unsatisfied, spans |-> <<>>, span |-> 1,
                effect |-> "none"]
  BY DEF Init
<1>2. /\ conn = [o \in Peers |-> NoConn]
      /\ client = [status |-> 0, length |-> 0, out |-> <<>>, over |-> "no"]
  BY DEF Init
<1>3. /\ task.pc = "route" /\ task.from = NoPeer /\ task.span = 1 /\ task.effect = "none"
      /\ client.length = 0 /\ client.out = <<>> /\ client.over = "no"
  BY <1>1, <1>2
<1>4. \A o \in Peers : conn[o] = NoConn
  BY <1>2
<1>5. task \in TaskType
  BY <1>1 DEF TaskType, Steps, Unsatisfied
<1>6. Shaped
  <2>1. ring \in [Peers -> Rings] /\ \A o \in Peers : o \in ring[o]
    BY DEF Init
  <2>2. ClientShape(client)
    BY <1>2, Zenon DEF ClientShape
  <2>3. \A o \in Peers : ConnShape(conn[o])
    BY <1>4 DEF ConnShape, NoConn
  <2>4. conn = [o \in Peers |-> conn[o]]
    BY <1>2, Zenon
  <2> QED BY <1>5, <2>1, <2>2, <2>3, <2>4 DEF Shaped
<1>7. Routed
  BY <1>3 DEF Routed, Forwarded, Handled, Reading
<1>8. Quiet
  BY <1>4, Zenon DEF Quiet
<1>9. Effected
  BY <1>3 DEF Effected, WritesInvalidate
<1> QED BY <1>3, <1>4, <1>6, <1>7, <1>8, <1>9 DEF RoutingInv

(* The invariant is inductive. *)
LEMMA NextRouting ==
  ASSUME RoutingInv, [Next]_vars
  PROVE  RoutingInv'
<1>1. Routed' /\ task' \in TaskType /\ ring' = ring /\ ClientShape(client)'
  BY RoutedStep DEF RoutingInv
<1>2. Quiet' /\ ConnShaped'
  BY QuietStep DEF RoutingInv
<1>3. Shaped'
  BY <1>1, <1>2, Zenon DEF RoutingInv, Shaped, ConnShaped
<1>4. Effected'
  BY EffectedStep DEF RoutingInv
<1> QED BY <1>1, <1>2, <1>3, <1>4 DEF RoutingInv

(* It says who handles a request. *)
LEMMA HandledHolds ==
  ASSUME Routed
  PROVE  HandledByOwner
BY DEF Routed, HandledByOwner, KeepsRequest, Handled, Reading

(* And it holds in every state. *)
LEMMA RoutingInvariance == Spec => []RoutingInv
<1>1. Init => RoutingInv
  BY InitRouting
<1>2. RoutingInv /\ [Next]_vars => RoutingInv'
  BY NextRouting
<1> QED BY <1>1, <1>2, PTL DEF Spec

(* HandledByOwner for every set of peers and whatever lists they are          *)
(* configured with: writes and HEADs are handled at the object's owner, and   *)
(* by a forwarded hop only when both ends have the same ring                  *)
(* (shouldForwardToPeer, validateInternalPeerHeaders).                        *)
THEOREM HandledTheorem == Spec => []HandledByOwner
<1>1. RoutingInv => HandledByOwner
  BY HandledHolds DEF RoutingInv
<1> QED BY <1>1, RoutingInvariance, PTL

(* WritesInvalidate for every request: a write that replaced its object and   *)
(* was answered in full is followed by the invalidation or leaves its peer    *)
(* degraded (handle, shouldInvalidateAfterWrite).                             *)
THEOREM WritesTheorem == Spec => []WritesInvalidate
<1>1. RoutingInv => WritesInvalidate
  BY DEF RoutingInv, Effected
<1> QED BY <1>1, RoutingInvariance, PTL
=============================================================================
