------------------------ MODULE RequestAnswerProofs -------------------------
(* The answer to a client, for every object size, page size, Range header,    *)
(* ring and number of peers: it is cut off only when something was lost, and  *)
(* is, step by step, one that ServedAnswer allows.                            *)
EXTENDS RequestBodyProofs

-----------------------------------------------------------------------------
(* The answer to the client.                                                  *)

(* A client that has gone, or has its answer, is not read for any more. *)
Listening ==
  /\ client.over \in {"no", "whole", "cut"}
  /\ client.over # "no" /\ task.pc \notin {"invalidate", "done"} => task.req.method # "GET"

(* A response with a body keeps the status it was committed with. *)
BodyStatus == IF Class = "range" THEN 206 ELSE 200
Committed == client.length # 0 => client.status = BodyStatus

AnswerInv ==
  /\ faults \in Nat /\ degraded \subseteq Peers
  /\ Exchanges /\ (faults = 0 => Undisturbed) /\ Listening /\ Committed

(* Only a GET is read from pages. *)
LEMMA ClassGet ==
  ASSUME NEW q, Classify(q) \in {"full", "range"}
  PROVE  q.method = "GET"
BY DEF Classify

(* What is copied of a span is a sequence of bytes. *)
LEMMA StreamDelivers ==
  ASSUME Shaped, Framed, Body, StreamLocalSpan \/ \E o \in Peers : StreamRemoteSpan(o)
  PROVE  /\ task.pc = "stream" /\ UNCHANGED ring
         /\ Cut \/ \E bytes \in Seq(Nat) : Deliver(bytes)
<1>1. task.pc = "stream" /\ UNCHANGED ring
  BY Zenon DEF StreamLocalSpan, StreamRemoteSpan
<1>2. Planned /\ task.span \in 1 .. Len(task.spans)
  BY <1>1 DEF Body, Reading
<1>3. task.req.size \in Nat /\ SpanFits(Current)
  BY <1>2, PlanFacts DEF Current
<1>4. Current.start \in Nat /\ Current.end \in Nat
  BY <1>3 DEF SpanFits, SpanType
<1>5. ASSUME NEW page, Partial(page, Current.index) PROVE CopySpan(page, Current) \in Seq(Nat)
  <2>1. PICK e \in Current.start - 1 .. Current.end : CopySpan(page, Current) = Positions(Current.start, e)
    BY <1>3, <1>5, CopySpanBytes, Zenon
  <2>2. e \in Int /\ Current.start <= e + 1
    BY <1>4
  <2> QED BY <1>4, <2>1, <2>2, PositionsSeq
<1>6. CASE StreamLocalSpan
  <2>1. CASE Deliver(CopySpan(Page(Current.index), Current))
    BY <1>1, <1>5, <2>1, Zenon DEF Partial
  <2>2. ASSUME NEW m \in 0 .. Len(Page(Current.index)) - 1,
               Deliver(CopySpan(SubSeq(Page(Current.index), 1, m), Current))
        PROVE  \E bytes \in Seq(Nat) : Deliver(bytes)
    <3>1. Len(Page(Current.index)) = FrameSize(Current.index, task.req.size)
      BY <1>3, PageLength
    <3>2. Partial(SubSeq(Page(Current.index), 1, m), Current.index)
      BY <3>1, Zenon DEF Partial
    <3> QED BY <1>5, <2>2, <3>2, Zenon
  <2> QED BY <1>1, <1>6, <2>1, <2>2, Zenon DEF StreamLocalSpan
<1>7. ASSUME NEW o \in Peers, StreamRemoteSpan(o) PROVE Cut \/ \E bytes \in Seq(Nat) : Deliver(bytes)
  <2> DEFINE c == conn[o]
             f == c.frames[c.read + 1]
  <2>1. CASE /\ c.read < Len(c.frames) /\ f.type = "page" /\ f.index = Current.index
             /\ Deliver(CopySpan(f.payload, Current))
    <3>1. c.read + 1 \in 1 .. Len(c.frames)
      <4>1. c.read \in Nat /\ Len(c.frames) \in Nat
        BY Zenon DEF Framed, FramesOK, IsSeq
      <4>2. c.read < Len(c.frames)
        BY <2>1
      <4> HIDE DEF c, f
      <4> QED BY <4>1, <4>2
    <3>2. FrameOK(f)
      BY <3>1, Zenon DEF Framed, FramesOK
    <3>3. Partial(f.payload, Current.index)
      BY <2>1, <3>2, Zenon DEF FrameOK
    <3> QED BY <1>5, <2>1, <3>3, Zenon
  <2> QED BY <1>7, <2>1, Zenon DEF StreamRemoteSpan, Expected
<1> QED BY <1>1, <1>6, <1>7

(* An answer that is told in one piece, and one that is served from bytes. *)
Told ==
  /\ client.over = "no" /\ client.length = 0 /\ client'.over \in {"whole", "cut"}
  /\ client'.length = client.length /\ client'.out = client.out
  /\ task'.pc \in {"invalidate", "done"} \/ task.req.method # "GET"
Served ==
  /\ client.over = "no" /\ client'.over \in {"no", "whole", "cut"}
  /\ client'.status = BodyStatus /\ client'.length # 0
  /\ Len(client.out) <= Len(client'.out)
  /\ client'.over = "no" \/ task'.pc = "done"

(* Every step that the client sees is one of these. *)
LEMMA AnswerKinds ==
  ASSUME Shaped, Framed, Body, Body', Listening, Committed, Next
  PROVE  client' = client \/ Told \/ Served
<1>0. /\ task \in TaskType /\ ClientShape(client) /\ task.req.size \in Nat
      /\ {"route", "send", "accept", "handle", "upstream", "invalidate", "done"} \subseteq Steps
  BY RequestPathAssumption DEF Shaped, TaskType, Steps, Handled
<1>1. ASSUME NEW status, Answer(status), task.pc \notin Sending, task'.pc \in {"invalidate", "done"}
      PROVE  client' = client \/ Told
  <2>1. CASE client.over = "no"
    <3>1. client.length = 0
      BY <1>1 DEF Body
    <3>2. client'.over = "whole" /\ client'.length = client.length /\ client'.out = client.out
      BY <1>0, <1>1, <2>1, AnswerKeeps
    <3> QED BY <1>1, <2>1, <3>1, <3>2 DEF Told
  <2>2. CASE client.over # "no"
    BY <1>0, <1>1, <2>2, AnswerKeeps
  <2> QED BY <2>1, <2>2
<1>2. ASSUME NEW status, Answer(status), task.pc \notin Sending, Goto("done")
      PROVE  client' = client \/ Told
  <2>1. task'.pc = "done"
    BY <1>0, <1>2, GotoKeeps
  <2> QED BY <1>1, <1>2, <2>1
<1>3. ASSUME task.pc \in Reading PROVE client.over = "no" /\ (client.length # 0 => client.status = BodyStatus)
  <2>1. task.req.method = "GET"
    BY <1>3, ClassGet DEF Body, Planned, Class
  <2>2. task.pc \notin {"invalidate", "done"}
    BY <1>3 DEF Reading
  <2> QED BY <2>1, <2>2 DEF Listening, Committed
<1>4. ASSUME client.over = "no", client.length # 0, client'.over \in {"whole", "cut"}, client'.out = client.out,
             client'.length = client.length, client'.status = client.status, task'.pc = "done"
      PROVE  Served
  <2>1. Len(client.out) \in Int
    <3>1. Started /\ task.req \in Requests
      BY <1>0, <1>4 DEF Body, TaskType
    <3>2. Wanted.start \in Nat /\ Wanted.end \in Nat
      BY <3>1, WantedRange DEF Started, RangeOK
    <3>3. PICK e \in Wanted.start - 1 .. Wanted.end : client.out = Positions(Wanted.start, e)
      BY <3>1, Zenon DEF Started
    <3>4. e \in Int /\ Wanted.start <= e + 1
      BY <3>2
    <3>5. client.out \in Seq(Nat)
      BY <3>2, <3>3, <3>4, PositionsSeq
    <3> QED BY <3>5
  <2> QED BY <1>4, <2>1 DEF Served, Committed
<1>5. ASSUME Cut, task.pc \in {"stream", "finish"} PROVE Served
  <2>1. client.length # 0 /\ client.over = "no"
    <3>1. Planned /\ client.length = Wanted.end - Wanted.start + 1 /\ task.pc \in Reading
      BY <1>5 DEF Body, Reading
    <3> QED BY <1>3, <3>1, PlanFacts DEF RangeOK
  <2>2. /\ client'.over = "cut" /\ client'.out = client.out /\ client'.length = client.length
        /\ client'.status = client.status
    BY <1>0, <1>5 DEF Cut, ClientShape
  <2>3. task'.pc = "done"
    BY <1>0, <1>5, GotoKeeps DEF Cut
  <2> QED BY <1>4, <2>1, <2>2, <2>3
<1>6. CASE Route \/ ServeInternal \/ AnswerConditional
  <2>1. task.pc \notin Sending
    BY <1>6 DEF Route, ServeInternal, AnswerConditional, Sending
  <2>2. client' = client \/ (Goto("done") /\ \E status : Answer(status))
    BY <1>6, Zenon DEF Route, ServeInternal, AnswerConditional
  <2> QED BY <1>2, <2>1, <2>2
<1>7. CASE \/ PeerUnreachable \/ RefuseSignature \/ MetadataFails \/ FirstPageFails
           \/ ServeHead \/ ServeEmpty
  <2>1. task.pc \notin Sending
    BY <1>7 DEF PeerUnreachable, RefuseSignature, MetadataFails, FirstPageFails, ServeHead, ServeEmpty,
      ReadHere, Unconditional, Sending
  <2>2. Goto("done") /\ \E status : Answer(status)
    BY <1>7, Zenon DEF PeerUnreachable, RefuseSignature, MetadataFails, FirstPageFails, ServeHead, ServeEmpty
  <2> QED BY <1>2, <2>1, <2>2
<1>8. CASE Arrive \/ ReadAtOwner \/ HandlePass \/ MetadataMissing \/ PassUnsatisfied \/ PlanPages \/ Invalidate
  BY <1>8 DEF Arrive, ReadAtOwner, HandlePass, MetadataMissing, PassUnsatisfied, PlanPages, Invalidate
<1>9. CASE ClientGone
  <2>1. client' = [client EXCEPT !.over = "cut"] /\ client.over = "no"
    BY <1>9 DEF ClientGone
  <2>2. /\ client'.over = "cut" /\ client'.out = client.out /\ client'.length = client.length
        /\ client'.status = client.status
    BY <1>0, <2>1 DEF ClientShape
  <2>3. task'.pc = "done" \/ task.req.method # "GET"
    <3>1. CASE task.req.method = "GET"
      BY <1>0, <1>9, <3>1, GotoKeeps DEF ClientGone
    <3> QED BY <3>1
  <2>4. CASE client.length = 0
    BY <2>1, <2>2, <2>3, <2>4 DEF Told
  <2>5. CASE client.length # 0
    <3>1. task.req.method = "GET"
      BY <2>5, ClassGet DEF Body, Started, Class
    <3> QED BY <1>4, <2>1, <2>2, <2>3, <2>5, <3>1
  <2> QED BY <2>4, <2>5
<1>10. CASE ForwardAnswered
  <2>1. PICK status \in {200, 404} :
          /\ task' = [task EXCEPT !.pc = AfterForward(status), !.effect = Effect(status)]
          /\ Answer(status)
    BY <1>10 DEF ForwardAnswered
  <2>2. task'.pc = AfterForward(status)
    BY <1>0, <2>1 DEF TaskType
  <2>3. task'.pc \in {"invalidate", "done"} /\ task.pc \notin Sending
    BY <1>10, <2>2 DEF AfterForward, ForwardAnswered, Sending
  <2> QED BY <1>1, <2>1, <2>3
<1>11. CASE ForwardCopyFails
  <2>1. task.pc \notin Sending
    BY <1>11 DEF ForwardCopyFails, Sending
  <2>2. task'.pc = "done"
    BY <1>0, <1>11 DEF ForwardCopyFails, TaskType
  <2>3. CASE client.over = "no"
    <3>1. client'.over = "cut" /\ client'.length = client.length /\ client'.out = client.out
      BY <1>0, <1>11, <2>3 DEF ForwardCopyFails, ClientShape
    <3> QED BY <2>1, <2>2, <2>3, <3>1 DEF Told, Body
  <2>4. CASE client.over # "no"
    BY <1>11, <2>4 DEF ForwardCopyFails
  <2> QED BY <2>3, <2>4
<1>12. CASE ForwardFails
  <2>1. task.pc \notin Sending /\ Answer(502)
    BY <1>12 DEF ForwardFails, Sending
  <2>2. task'.pc = "done"
    BY <1>0, <1>12 DEF ForwardFails, TaskType
  <2> QED BY <1>1, <2>1, <2>2
<1>13. CASE BeginStream
  <2>1. /\ task.pc = "open" /\ Goto("stream") /\ "stream" \in Steps
        /\ client' = [client EXCEPT !.status = BodyStatus, !.length = task.range.end - task.range.start + 1]
    BY <1>13 DEF BeginStream, Commit, BodyStatus, Steps, Handled, Reading
  <2>2. client'.status = BodyStatus /\ client'.over = client.over /\ client'.out = client.out
    BY <1>0, <2>1, Zenon DEF ClientShape
  <2>3. client.over = "no" /\ client.out = <<>>
    BY <1>3, <2>1 DEF Reading, Body, Sending
  <2>4. task'.pc = "stream"
    BY <2>1, GotoKeeps
  <2>5. client'.length # 0
    <3>1. client'.length = task.range.end - task.range.start + 1 /\ Planned
      BY <1>0, <2>1, Zenon DEF ClientShape, Body, Reading
    <3> QED BY <3>1, PlanFacts DEF Planned, RangeOK
  <2> QED BY <2>2, <2>3, <2>4, <2>5 DEF Served
<1>14. CASE StreamLocalSpan \/ \E o \in Peers : StreamRemoteSpan(o)
  <2>1. task.pc = "stream" /\ UNCHANGED ring /\ (Cut \/ \E bytes \in Seq(Nat) : Deliver(bytes))
    BY <1>14, StreamDelivers
  <2>2. ASSUME NEW bytes \in Seq(Nat), Deliver(bytes) PROVE Served
    <3>1. /\ client'.out = client.out \o bytes /\ client'.length = client.length
          /\ client'.over = client.over \/ (client'.over = "cut" /\ task'.pc = "done")
      BY <2>1, <2>2, DeliverMoves
    <3>2. client'.status = client.status
      BY <1>0, <2>2, Zenon DEF Deliver, ClientShape
    <3>3. /\ Planned /\ task.span \in 1 .. Len(task.spans)
          /\ client.out = Positions(Wanted.start, Current.start - 1)
          /\ client.length = Wanted.end - Wanted.start + 1 /\ task.pc \in Reading
      BY <2>1 DEF Body, Reading
    <3>4. /\ RangeOK(Wanted, task.req.size) /\ SpanFits(Current) /\ Wanted.start <= Current.start
      BY <3>3, PlanFacts DEF Current
    <3>5. Wanted.start \in Nat /\ Current.start \in Nat /\ client.length # 0
      BY <3>3, <3>4 DEF RangeOK, SpanFits, SpanType
    <3>6. client.out \in Seq(Nat)
      <4>1. Current.start - 1 \in Int /\ Wanted.start <= Current.start - 1 + 1
        BY <3>4, <3>5
      <4> QED BY <3>3, <3>5, <4>1, PositionsSeq
    <3>7. Len(client.out) <= Len(client.out \o bytes)
      BY <3>6
    <3>8. client.over = "no" /\ client.status = BodyStatus
      BY <1>3, <3>3, <3>5
    <3> QED BY <3>1, <3>2, <3>5, <3>7, <3>8 DEF Served
  <2> QED BY <1>5, <2>1, <2>2
<1>15. CASE FinishBatches
  <2>1. /\ task.pc = "finish" /\ Goto("done") /\ client' = [client EXCEPT !.over = "whole"]
    BY <1>15 DEF FinishBatches
  <2>2. /\ client'.over = "whole" /\ client'.out = client.out /\ client'.length = client.length
        /\ client'.status = client.status
    BY <1>0, <2>1 DEF ClientShape
  <2>3. client.length # 0 /\ client.over = "no"
    <3>1. Planned /\ client.length = Wanted.end - Wanted.start + 1 /\ task.pc \in Reading
      BY <2>1 DEF Body, Reading
    <3> QED BY <1>3, <3>1, PlanFacts DEF RangeOK
  <2>4. task'.pc = "done"
    BY <1>0, <2>1, GotoKeeps
  <2> QED BY <1>4, <2>2, <2>3, <2>4
<1>16. CASE ServeCold
  <2>1. task.pc = "open" /\ Goto("done") /\ Class = "full"
    BY <1>16 DEF ServeCold
  <2>2. PICK n \in 0 .. task.req.size :
          client' = [client EXCEPT !.status = 200, !.length = task.req.size,
                       !.out = Positions(0, n - 1), !.over = IF n = task.req.size THEN "whole" ELSE "cut"]
    BY <1>16 DEF ServeCold
  <2>3. /\ client'.length = task.req.size /\ client'.out = Positions(0, n - 1) /\ client'.status = 200
        /\ client'.over \in {"whole", "cut"}
    BY <1>0, <2>2 DEF ClientShape
  <2>4. task'.pc = "done"
    BY <1>0, <2>1, GotoKeeps
  <2>5. client.over = "no" /\ client.out = <<>> /\ Planned
    BY <1>3, <2>1 DEF Body, Sending, Reading
  <2>6. task.req.size # 0
    BY <2>1, <2>5, PlanFacts DEF RangeOK, Wanted
  <2>7. Len(client.out) <= Len(client'.out)
    <3>1. n - 1 \in Int /\ 0 <= n - 1 + 1 /\ 0 \in Nat
      BY <1>0
    <3>2. client'.out \in Seq(Nat)
      BY <2>3, <3>1, PositionsSeq
    <3> QED BY <2>5, <3>2
  <2> QED BY <2>1, <2>3, <2>4, <2>5, <2>6, <2>7 DEF Served, BodyStatus
<1>17. ASSUME NEW o \in Peers, EndMissing(o) PROVE Served
  BY <1>5, <1>17 DEF EndMissing
<1>18. ASSUME NEW o \in Peers, OpenBatch(o) \/ BatchFails(o) \/ WriteFrame(o) \/ WriteEnd(o) \/ LoseAnswer(o)
       PROVE  client' = client
  BY <1>18 DEF OpenBatch, BatchFails, WriteFrame, WriteEnd, LoseAnswer
<1>19. CASE Finished
  BY <1>19 DEF Finished, vars
<1> QED
  BY <1>6, <1>7, <1>8, <1>9, <1>10, <1>11, <1>12, <1>13, <1>14, <1>15, <1>16, <1>17, <1>18, <1>19,
     Zenon DEF Next

-----------------------------------------------------------------------------
(* The theorems.                                                              *)

(* Nothing is asked and nothing is lost yet. *)
LEMMA InitAnswer ==
  ASSUME Init
  PROVE  AnswerInv
<1>1. /\ task.pc = "route" /\ \A o \in Peers : conn[o] = NoConn
  BY InitRouting
<1>2. /\ faults = 0 /\ degraded = {} /\ client.over = "no" /\ client.length = 0
  BY DEF Init
<1>3. Exchanges
  BY <1>1, ExchangeNone, Zenon DEF Exchanges
<1>4. InOrder(NoConn)
  BY DEF InOrder, NoConn
<1>5. Undisturbed
  BY <1>1, <1>2, <1>4 DEF Undisturbed, Reading
<1> QED BY <1>2, <1>3, <1>5 DEF AnswerInv, Listening, Committed

(* The invariant is inductive. *)
LEMMA NextAnswer ==
  ASSUME Inv, AnswerInv, [Next]_vars
  PROVE  AnswerInv'
<1>1. /\ Shaped /\ Framed /\ Body /\ Quiet /\ Body' /\ task'.req = task.req
      /\ Exchanges /\ faults \in Nat /\ Listening /\ Committed
  BY NextInv, RequestStays DEF Inv, RoutingInv, AnswerInv
<1>2. degraded' \subseteq Peers
  BY <1>1, DegradedStep DEF AnswerInv
<1>3. Exchanges'
  BY <1>1, ExchangesStep
<1>4. faults' \in Nat /\ (faults' = 0 => UNCHANGED faults)
  BY <1>1, FaultsGrow
<1>5. faults' = 0 => Undisturbed'
  <2>1. SUFFICES ASSUME faults' = 0 PROVE Undisturbed'
    OBVIOUS
  <2>2. UNCHANGED faults /\ Undisturbed
    BY <1>4, <2>1 DEF AnswerInv
  <2> QED BY <1>1, <2>2, UndisturbedStep
<1>6. client' = client \/ Told \/ Served
  BY <1>1, AnswerKinds, Zenon DEF vars
<1>7. BodyStatus' = BodyStatus
  BY <1>1, SameRequest DEF BodyStatus
<1>8. Committed'
  BY <1>1, <1>6, <1>7 DEF Committed, Told, Served
<1>9. Listening'
  <2>1. client'.over \in {"no", "whole", "cut"}
    BY <1>1, <1>6 DEF Listening, Told, Served
  <2>2. task.pc \in {"invalidate", "done"} => task'.pc \in {"invalidate", "done"}
    BY <1>1, OverStays
  <2> QED BY <1>1, <1>6, <2>1, <2>2 DEF Listening, Told, Served
<1> QED BY <1>2, <1>3, <1>4, <1>5, <1>8, <1>9 DEF AnswerInv

(* And it holds in every state. *)
LEMMA AnswerInvariance == Spec => [](Inv /\ AnswerInv)
<1>1. Init => AnswerInv
  BY InitAnswer
<1>2. Inv /\ AnswerInv /\ [Next]_vars => AnswerInv'
  BY NextAnswer
<1> QED BY <1>1, <1>2, Invariance, PTL DEF Spec

(* A response has no more bytes than it announced. *)
LEMMA BytesAnnounced ==
  ASSUME Shaped, Body
  PROVE  Len(client.out) <= client.length
<1>1. CASE client.length = 0
  <2>1. client.out = <<>>
    BY <1>1 DEF Body
  <2> QED BY <1>1, <2>1
<1>2. CASE client.length # 0
  <2>1. Started /\ task.req \in Requests
    BY <1>2 DEF Body, Shaped, TaskType
  <2>2. Wanted.start \in Nat /\ Wanted.end \in Nat /\ client.length = Wanted.end - Wanted.start + 1
    BY <2>1, WantedRange DEF Started, RangeOK
  <2>3. PICK e \in Wanted.start - 1 .. Wanted.end : client.out = Positions(Wanted.start, e)
    BY <2>1, Zenon DEF Started
  <2>4. e \in Int /\ Wanted.start <= e + 1 /\ e <= Wanted.end
    BY <2>2
  <2>5. Len(client.out) = e - Wanted.start + 1
    BY <2>2, <2>3, <2>4, PositionsSeq
  <2> QED BY <2>2, <2>4, <2>5
<1> QED BY <1>1, <1>2

(* TypeOK for every set of peers, object size and page size: a response never *)
(* holds more bytes than its Content-Length announced (Started), and a page   *)
(* owner's answer never more frames than it was asked for and one end         *)
(* (PageFrameWriter).                                                         *)
THEOREM TypeTheorem == Spec => []TypeOK
<1>1. Inv /\ AnswerInv => TypeOK
  <2>1. SUFFICES ASSUME Inv, AnswerInv PROVE TypeOK
    OBVIOUS
  <2>2. Shaped /\ Body /\ Exchanges /\ degraded \subseteq Peers
    BY <2>1 DEF Inv, RoutingInv, AnswerInv
  <2>3. \A o \in Peers : conn[o].read <= Len(conn[o].frames) /\ Len(conn[o].frames) <= Len(conn[o].asked) + 1
    BY <2>2 DEF Exchanges, Exchange
  <2>4. /\ task.at \in Peers /\ task.from \in Peers \cup {NoPeer} /\ task.to \in Peers \cup {NoPeer}
        /\ ring \in [Peers -> Rings]
    BY <2>2 DEF Shaped, TaskType
  <2> QED BY <2>2, <2>3, <2>4, BytesAnnounced DEF TypeOK
<1> QED BY <1>1, AnswerInvariance, PTL

(* OnlyLossCuts for every set of peers, object size, page size and Range      *)
(* header: while nothing is lost, each owner writes the frames of its batch   *)
(* in the order in which the coordinator reads them, the next frame is the    *)
(* one of the span that is due, and the end frame follows the last one, so    *)
(* that no response is cut off (PageFrameWriter, PageFrameReader,             *)
(* copyPageSpan, streamCoordinatorPageSpans).                                 *)
THEOREM LossTheorem == Spec => []OnlyLossCuts
<1>1. AnswerInv => OnlyLossCuts
  <2>1. SUFFICES ASSUME AnswerInv, client.over = "cut" PROVE faults > 0
    BY DEF OnlyLossCuts
  <2>2. faults \in Nat /\ faults # 0
    BY <2>1 DEF AnswerInv, Undisturbed
  <2> QED BY <2>2
<1> QED BY <1>1, AnswerInvariance, PTL

-----------------------------------------------------------------------------
(* The answer is one that ServedAnswer allows.                                *)

(* What the mapping takes for the bytes asked for. *)
AskedBytes == IF Class \in {"full", "range"} THEN Asked ELSE {}

(* ServedAnswer counts as this module does. *)
LEMMA SameCount ==
  \A S : Answers!Cardinality(S) = Cardinality(S) /\ (Answers!IsFiniteSet(S) <=> IsFiniteSet(S))
<1>1. \A S : Answers!Cardinality(S) = Cardinality(S)
  BY DEF Answers!Cardinality, Cardinality
<1>2. \A S : Answers!IsFiniteSet(S) <=> IsFiniteSet(S)
  BY DEF Answers!IsFiniteSet, IsFiniteSet
<1> QED BY <1>1, <1>2

(* The k-th of the bytes asked for, when they are an interval. *)
LEMMA ByteIs ==
  ASSUME NEW a \in Nat, NEW b \in Nat, a <= b, AskedBytes = a .. b, NEW k \in 1 .. b - a + 1
  PROVE  Answers!Byte(k) = a + k - 1
<1> DEFINE S == AskedBytes
           x == Answers!Byte(k)
<1>0. x = CHOOSE i \in S : Answers!Cardinality({j \in S : j < i}) = k - 1
  BY DEF Answers!Byte, AskedBytes
<1>1. S = a .. b
  OBVIOUS
<1> HIDE DEF S, x
<1>2. ASSUME NEW i \in S PROVE Answers!Cardinality({j \in S : j < i}) = i - a
  <2>1. i \in Int /\ a <= i /\ i <= b
    BY <1>1
  <2>2. {j \in S : j < i} = a .. i - 1
    BY <1>1, <2>1
  <2>3. Cardinality(a .. i - 1) = IF a > i - 1 THEN 0 ELSE (i - 1) - a + 1
    BY <2>1, FS_Interval
  <2>4. Cardinality(a .. i - 1) = i - a
    BY <2>1, <2>3
  <2> QED BY <2>2, <2>4, SameCount, Zenon
<1>3. a + k - 1 \in S /\ (a + k - 1) - a = k - 1
  BY <1>1
<1>4. x \in S /\ Answers!Cardinality({j \in S : j < x}) = k - 1
  <2>1. \E i \in S : Answers!Cardinality({j \in S : j < i}) = k - 1
    BY <1>2, <1>3, Zenon
  <2> QED BY <1>0, <2>1, Zenon
<1>5. x - a = k - 1 /\ x \in a .. b
  BY <1>1, <1>2, <1>4, Zenon
<1>6. x = a + k - 1
  BY <1>5
<1> QED BY <1>6 DEF x

(* A beginning of the wanted range is one of the bytes asked for. *)
LEMMA BeginningIs ==
  ASSUME Shaped, Class \in {"full", "range"}, Wanted # Unsatisfied,
         NEW e \in Wanted.start - 1 .. Wanted.end
  PROVE  LET out == Positions(Wanted.start, e)
             count == Answers!Cardinality(AskedBytes)
         IN /\ AskedBytes # {} /\ count = Wanted.end - Wanted.start + 1
            /\ Len(out) \in 0 .. count /\ out = Answers!Beginning(Len(out))
            /\ e = Wanted.end => Len(out) = count
<1> DEFINE a == Wanted.start
           b == Wanted.end
           S == AskedBytes
           out == Positions(a, e)
           n == Len(out)
<1>1. task.req \in Requests
  BY DEF Shaped, TaskType
<1>2. RangeOK(Wanted, task.req.size) /\ S = a .. b
  BY <1>1, WantedRange DEF AskedBytes
<1>3. a \in Nat /\ b \in Nat /\ a <= b
  BY <1>2 DEF RangeOK
<1>4. e \in Int /\ a <= e + 1 /\ e <= b
  BY <1>3
<1>5. \A k \in 1 .. b - a + 1 : Answers!Byte(k) = a + k - 1
  BY <1>2, <1>3, ByteIs
<1> HIDE DEF a, b, S
<1>6. /\ out \in Seq(Nat) /\ n = e - a + 1
      /\ \A k \in 1 .. e - a + 1 : out[k] = a + k - 1
  BY <1>3, <1>4, PositionsSeq
<1> HIDE DEF out, n
<1>7. Answers!Cardinality(S) = b - a + 1
  <2>1. Cardinality(a .. b) = IF a > b THEN 0 ELSE b - a + 1
    BY <1>3, FS_Interval
  <2>2. Cardinality(a .. b) = b - a + 1
    BY <1>3, <2>1
  <2> QED BY <1>2, <2>2, SameCount, Zenon
<1>8. S # {}
  <2>1. a \in a .. b
    BY <1>3
  <2> QED BY <1>2, <2>1, Zenon
<1>9. ASSUME NEW k \in 1 .. n PROVE out[k] = Answers!Byte(k)
  <2>1. k \in 1 .. b - a + 1 /\ k \in 1 .. e - a + 1
    BY <1>3, <1>4, <1>6
  <2> QED BY <1>5, <1>6, <2>1, Zenon
<1>10. out = Answers!Beginning(n)
  <2>1. out = [k \in 1 .. n |-> out[k]]
    BY <1>6 DEF n
  <2>2. Answers!Beginning(n) = [k \in 1 .. n |-> Answers!Byte(k)]
    BY Zenon DEF Answers!Beginning
  <2> QED BY <1>9, <2>1, <2>2, Zenon
<1>11. n \in 0 .. b - a + 1 /\ (e = b => n = b - a + 1)
  BY <1>3, <1>4, <1>6
<1> QED BY <1>7, <1>8, <1>10, <1>11, Zenon DEF S, a, b, out, n

(* The client has no answer yet. *)
LEMMA InitServed ==
  ASSUME Init
  PROVE  Answers!Init
<1>1. task.req \in Requests /\ client = [status |-> 0, length |-> 0, out |-> <<>>, over |-> "no"]
  BY DEF Init
<1>2. task.req.size \in Nat
  BY <1>1, RequestPathAssumption
<1>3. Asked \in SUBSET (0 .. task.req.size - 1)
  BY Zenon DEF Asked
<1>4. IsFiniteSet(0 .. task.req.size - 1)
  BY <1>2, FS_Interval
<1>5. IsFiniteSet(Asked) /\ Asked \subseteq Nat
  BY <1>2, <1>3, <1>4, FS_Subset
<1>6. Answers!IsFiniteSet(AskedBytes) /\ AskedBytes \subseteq Nat
  BY <1>5, FS_EmptySet, SameCount DEF AskedBytes
<1>7. (Class = "range") \in BOOLEAN
  OBVIOUS
<1> QED BY <1>1, <1>6, <1>7, Zenon DEF Answers!Init, AskedBytes

(* Every step of a request is a step of its answer, or the client does not    *)
(* see it.                                                                    *)
LEMMA NextServed ==
  ASSUME Inv, AnswerInv, [Next]_vars
  PROVE  [Answers!Next]_(Answers!vars)
<1>1. /\ Shaped /\ Framed /\ Body /\ Body' /\ task'.req = task.req /\ Listening /\ Committed /\ Shaped'
  BY NextInv, RequestStays DEF Inv, RoutingInv, AnswerInv
<1>2. Class' = Class /\ Wanted' = Wanted /\ Asked' = Asked
  BY <1>1, SameRequest
<1>3. client' = client \/ Told \/ Served
  BY <1>1, AnswerKinds, Zenon DEF vars
<1>4. AskedBytes' = AskedBytes /\ (Class = "range")' = (Class = "range")
  BY <1>2, Zenon DEF AskedBytes
<1>5. CASE client' = client
  BY <1>4, <1>5, Zenon DEF Answers!vars, AskedBytes
<1>6. CASE Told
  <2>1. client' = [client EXCEPT !.status = client'.status, !.over = client'.over]
    <3>1. ClientShape(client) /\ ClientShape(client')
      BY <1>1 DEF Shaped, ClientShape
    <3> QED BY <1>6, <3>1 DEF ClientShape, Told
  <2>2. client'.over \in {"whole", "cut"} /\ Answers!Relay(client'.over)
    BY <1>4, <1>6, <2>1, Zenon DEF Answers!Relay, Told, AskedBytes
  <2> QED BY <2>2, Zenon DEF Answers!Next
<1>7. CASE Served
  <2> DEFINE n == Len(client'.out)
             count == Answers!Cardinality(AskedBytes)
  <2>1. /\ Class \in {"full", "range"} /\ Wanted # Unsatisfied
        /\ client'.length = Wanted.end - Wanted.start + 1
        /\ \E e \in Wanted.start - 1 .. Wanted.end :
             /\ client'.out = Positions(Wanted.start, e)
             /\ client'.over = "whole" => e = Wanted.end
    BY <1>1, <1>2, <1>7, Zenon DEF Body, Served, Started
  <2>2. PICK e \in Wanted.start - 1 .. Wanted.end :
          /\ client'.out = Positions(Wanted.start, e)
          /\ client'.over = "whole" => e = Wanted.end
    BY <2>1, Zenon
  <2>3. /\ AskedBytes # {} /\ count = Wanted.end - Wanted.start + 1
        /\ n \in 0 .. count /\ client'.out = Answers!Beginning(n)
        /\ e = Wanted.end => n = count
    BY <1>1, <2>1, <2>2, BeginningIs, Zenon
  <2>4. client' = [status |-> IF Class = "range" THEN 206 ELSE 200, length |-> count,
                   out |-> Answers!Beginning(n), over |-> client'.over]
    <3>1. client' = [status |-> client'.status, length |-> client'.length, out |-> client'.out,
                     over |-> client'.over]
      BY <1>1, Zenon DEF Shaped, ClientShape
    <3>2. client'.status = (IF Class = "range" THEN 206 ELSE 200) /\ client'.length = count
      BY <1>7, <2>1, <2>3 DEF Served, BodyStatus
    <3> HIDE DEF n, count
    <3> QED BY <2>3, <3>1, <3>2, Zenon
  <2>5. Answers!Serve(n, client'.over)
    <3>1. client.over = "no" /\ Len(client.out) <= n
      BY <1>7 DEF Served
    <3>2. client'.over = "whole" => n = count
      BY <2>2, <2>3
    <3> HIDE DEF n
    <3> QED BY <1>4, <2>3, <2>4, <3>1, <3>2, Zenon DEF Answers!Serve, AskedBytes
  <2>6. n \in 0 .. count /\ client'.over \in {"no", "whole", "cut"}
    BY <1>7, <2>3 DEF Served
  <2> HIDE DEF n
  <2> QED BY <2>5, <2>6, Zenon DEF Answers!Next, AskedBytes
<1> QED BY <1>3, <1>5, <1>6, <1>7

(* AnswerIsServed for every set of peers, object size, page size, Range       *)
(* header and loss: the path of a request implements ServedAnswer, so that a  *)
(* committed response is never replaced, taken back or continued with other   *)
(* bytes than the next ones asked for (serveDistributedPageRead,              *)
(* serveColdFullObject, abortCommittedResponse).                              *)
THEOREM AnswerTheorem == Spec => AnswerIsServed
<1>1. Init => Answers!Init
  BY InitServed
<1>2. Inv /\ AnswerInv /\ [Next]_vars => [Answers!Next]_(Answers!vars)
  BY NextServed
<1> QED BY <1>1, <1>2, AnswerInvariance, PTL DEF Spec, AnswerIsServed, Answers!Spec
=============================================================================
