------------------------- MODULE RequestBodyProofs --------------------------
(* The bytes a client receives, for every object size, page size, Range       *)
(* header, set of peers and loss on the way: spans continue one another, and  *)
(* the body is the range.  Then what each page owner is asked, and that its   *)
(* frames arrive where the coordinator expects them unless one was lost.      *)
EXTENDS RequestPathProofs

-----------------------------------------------------------------------------
(* What the client has received.                                              *)

Sending == {"stream", "finish", "done"}

(* A step that delivers nothing and plans nothing. *)
Calm ==
  /\ task'.req = task.req /\ task'.range = task.range /\ task'.spans = task.spans
  /\ task'.span = task.span
  /\ client'.length = client.length /\ client'.out = client.out
  /\ client'.over = "whole" => client.over = "whole" \/ task.pc \notin Sending
  /\ \/ task'.pc \in {task.pc, "done"}
     \/ task.pc \notin Sending /\ task'.pc \notin Reading \cup {"done"}

(* The steps that deliver nothing: moving on, *)
LEMMA CalmGoto ==
  ASSUME Shaped, NEW pc \in Steps, Goto(pc), UNCHANGED client,
         \/ pc \in {task.pc, "done"}
         \/ task.pc \notin Sending /\ pc \notin Reading \cup {"done"}
  PROVE  Calm
BY GotoKeeps DEF Calm

(* answering, *)
LEMMA CalmAnswer ==
  ASSUME Shaped, Goto("done"), NEW status, Answer(status), task.pc \notin Sending
  PROVE  Calm
<1>1. "done" \in Steps /\ ClientShape(client)
  BY DEF Steps, Shaped
<1>2. client'.length = client.length /\ client'.out = client.out
  BY <1>1, AnswerKeeps
<1> QED BY <1>1, <1>2, GotoKeeps DEF Calm

(* cutting off, *)
LEMMA CalmCut ==
  ASSUME Shaped, Cut
  PROVE  Calm
<1>1. "done" \in Steps /\ Goto("done")
  BY DEF Steps, Cut
<1>2. client'.length = client.length /\ client'.out = client.out /\ client'.over = "cut"
  BY DEF Shaped, ClientShape, Cut
<1> QED BY <1>1, <1>2, GotoKeeps DEF Calm

(* leaving request and client alone, *)
LEMMA CalmTask ==
  ASSUME UNCHANGED <<task, client>>
  PROVE  Calm
BY DEF Calm

(* and the end of a write. *)
LEMMA CalmWrite ==
  ASSUME Shaped, task.pc \in {"upstream", "invalidate"},
         client'.length = client.length, client'.out = client.out,
         \E pc \in {"done", "invalidate"} : \E effect : task' = [task EXCEPT !.pc = pc, !.effect = effect]
  PROVE  Calm
<1>1. PICK pc \in {"done", "invalidate"} : \E effect : task' = [task EXCEPT !.pc = pc, !.effect = effect]
  OBVIOUS
<1>2. PICK effect : task' = [task EXCEPT !.pc = pc, !.effect = effect]
  BY <1>1
<1>3. /\ task'.pc = pc /\ task'.req = task.req /\ task'.range = task.range
      /\ task'.spans = task.spans /\ task'.span = task.span
  BY <1>2 DEF Shaped, TaskType
<1> QED BY <1>3 DEF Calm, Sending, Reading

(* Every other step is one of these. *)
LEMMA BodyKinds ==
  ASSUME Shaped, Next
  PROVE  \/ Calm \/ PlanPages \/ BeginStream \/ StreamLocalSpan \/ FinishBatches \/ ServeCold
         \/ \E o \in Peers : StreamRemoteSpan(o)
<1>0. /\ task \in TaskType /\ ClientShape(client) /\ task.pc \in Steps
      /\ {"route", "send", "accept", "handle", "upstream", "invalidate", "done"} \subseteq Steps
  BY DEF Shaped, TaskType, Steps, Handled
<1>1. ASSUME NEW pc \in {"route", "handle", "upstream"}, Goto(pc), UNCHANGED client,
             task.pc \in {"route", "accept", "handle", "open"}
      PROVE  Calm
  BY <1>0, <1>1, CalmGoto DEF Reading, Sending
<1>2. ASSUME NEW status, Goto("done"), Answer(status),
             task.pc \in {"route", "send", "accept", "handle", "open"}
      PROVE  Calm
  <2>1. task.pc \notin Sending
    BY <1>2 DEF Sending
  <2> QED BY <1>2, <2>1, CalmAnswer, Zenon
<1>3. CASE Route
  <2>1. CASE KeepsRequest
    BY <1>1, <1>3, <2>1 DEF Route
  <2>2. CASE ~KeepsRequest /\ Forwarded
    BY <1>2, <1>3, <2>2 DEF Route
  <2>3. CASE ~KeepsRequest /\ ~Forwarded
    <3>1. /\ task.pc = "route" /\ task' = [task EXCEPT !.pc = "send", !.to = ObjectOwner]
          /\ client' = client
      BY <1>3, <2>3 DEF Route
    <3>2. /\ task'.pc = "send" /\ task'.req = task.req /\ task'.range = task.range
          /\ task'.spans = task.spans /\ task'.span = task.span
      BY <1>0, <3>1 DEF TaskType
    <3> QED BY <3>1, <3>2 DEF Calm, Sending, Reading
  <2> QED BY <2>1, <2>2, <2>3
<1>4. CASE Arrive \/ ReadAtOwner
  <2>1. task.pc \in {"send", "handle"} /\ client' = client
    BY <1>4 DEF Arrive, ReadAtOwner, Unconditional
  <2>2. /\ task'.pc \in {"accept", "send"} /\ task'.req = task.req /\ task'.range = task.range
        /\ task'.spans = task.spans /\ task'.span = task.span
    BY <1>0, <1>4 DEF Arrive, ReadAtOwner, TaskType
  <2> QED BY <2>1, <2>2 DEF Calm, Sending, Reading
<1>5. CASE PeerUnreachable \/ RefuseSignature \/ MetadataFails
  BY <1>2, <1>5 DEF PeerUnreachable, RefuseSignature, MetadataFails
<1>6. CASE ServeHead \/ ServeEmpty \/ FirstPageFails
  BY <1>2, <1>6 DEF ServeHead, ServeEmpty, FirstPageFails, ReadHere, Unconditional
<1>7. CASE ServeInternal
  BY <1>1, <1>2, <1>7 DEF ServeInternal
<1>8. CASE AnswerConditional
  BY <1>1, <1>2, <1>8 DEF AnswerConditional
<1>9. CASE HandlePass \/ MetadataMissing \/ PassUnsatisfied
  BY <1>1, <1>9 DEF HandlePass, MetadataMissing, PassUnsatisfied, ReadHere, Unconditional
<1>10. CASE ClientGone
  <2>1. Goto("done") \/ Goto(task.pc)
    BY <1>10 DEF ClientGone
  <2>2. client'.length = client.length /\ client'.out = client.out /\ client'.over = "cut"
    BY <1>0, <1>10 DEF ClientGone, ClientShape
  <2>3. PICK pc \in Steps : Goto(pc) /\ pc \in {task.pc, "done"}
    BY <1>0, <2>1
  <2> QED BY <2>2, <2>3, GotoKeeps DEF Calm
<1>12. CASE ForwardAnswered
  <2>1. PICK status \in {200, 404} :
          /\ task' = [task EXCEPT !.pc = AfterForward(status), !.effect = Effect(status)]
          /\ Answer(status)
    BY <1>12 DEF ForwardAnswered
  <2>2. AfterForward(status) \in {"done", "invalidate"} /\ task.pc \in {"upstream", "invalidate"}
    BY <1>12 DEF AfterForward, ForwardAnswered
  <2>3. client'.length = client.length /\ client'.out = client.out
    BY <1>0, <2>1, AnswerKeeps, Zenon
  <2>4. \E pc \in {"done", "invalidate"} : \E effect : task' = [task EXCEPT !.pc = pc, !.effect = effect]
    BY <2>1, <2>2, Zenon
  <2> QED BY <2>2, <2>3, <2>4, CalmWrite, Zenon
<1>13. CASE ForwardCopyFails
  <2>1. \E effect : task' = [task EXCEPT !.pc = "done", !.effect = effect]
    BY <1>13, Zenon DEF ForwardCopyFails
  <2>2. task.pc \in {"upstream", "invalidate"}
    BY <1>13 DEF ForwardCopyFails
  <2>3. client'.length = client.length /\ client'.out = client.out
    BY <1>0, <1>13 DEF ForwardCopyFails, ClientShape
  <2>4. \E pc \in {"done", "invalidate"} : \E effect : task' = [task EXCEPT !.pc = pc, !.effect = effect]
    BY <2>1, Zenon
  <2> QED BY <2>2, <2>3, <2>4, CalmWrite, Zenon
<1>14. CASE ForwardFails
  <2>1. \E effect : task' = [task EXCEPT !.pc = "done", !.effect = effect]
    BY <1>14, Zenon DEF ForwardFails
  <2>2. task.pc \in {"upstream", "invalidate"} /\ Answer(502)
    BY <1>14 DEF ForwardFails
  <2>3. client'.length = client.length /\ client'.out = client.out
    BY <1>0, <2>2, AnswerKeeps
  <2>4. \E pc \in {"done", "invalidate"} : \E effect : task' = [task EXCEPT !.pc = pc, !.effect = effect]
    BY <2>1, Zenon
  <2> QED BY <2>2, <2>3, <2>4, CalmWrite, Zenon
<1>15. CASE Invalidate
  <2>1. client' = client /\ task.pc \in {"upstream", "invalidate"}
    BY <1>15 DEF Invalidate
  <2>2. CASE Goto("done")
    BY <1>0, <2>1, <2>2, CalmGoto
  <2>3. CASE task' = [task EXCEPT !.pc = "done", !.effect = "invalidated"]
    <3>1. \E pc \in {"done", "invalidate"} : \E effect : task' = [task EXCEPT !.pc = pc, !.effect = effect]
      BY <2>3, Zenon
    <3> QED BY <2>1, <3>1, CalmWrite, Zenon
  <2> QED BY <1>15, <2>2, <2>3 DEF Invalidate
<1>16. ASSUME NEW o \in Peers, OpenBatch(o) \/ BatchFails(o) PROVE Calm
  <2>1. task.pc = "open" /\ client' = client /\ (UNCHANGED task \/ Goto("upstream"))
    BY <1>16 DEF OpenBatch, BatchFails, FallBack
  <2> QED BY <1>1, <2>1, CalmTask
<1>17. ASSUME NEW o \in Peers, WriteFrame(o) \/ WriteEnd(o) \/ LoseAnswer(o) PROVE Calm
  BY <1>17, CalmTask DEF WriteFrame, WriteEnd, LoseAnswer
<1>18. ASSUME NEW o \in Peers, EndMissing(o) PROVE Calm
  BY <1>18, CalmCut DEF EndMissing
<1>19. CASE Finished
  BY <1>19, CalmTask DEF Finished, vars
<1> QED
  BY <1>3, <1>4, <1>5, <1>6, <1>7, <1>8, <1>9, <1>10, <1>12, <1>13, <1>14, <1>15, <1>16, <1>17,
     <1>18, <1>19, Zenon DEF Next

(* The client has a beginning of the range it asked for. *)
Started ==
  /\ Class \in {"full", "range"} /\ Wanted # Unsatisfied
  /\ client.length = Wanted.end - Wanted.start + 1
  /\ \E e \in Wanted.start - 1 .. Wanted.end :
       /\ client.out = Positions(Wanted.start, e)
       /\ client.over = "whole" => e = Wanted.end

Planned ==
  /\ Class \in {"full", "range"} /\ Wanted # Unsatisfied
  /\ task.range = Wanted /\ task.spans = PagesForRange(Wanted)

Body ==
  /\ task.pc \notin Sending => client.length = 0 /\ task.span = 1
  /\ client.length = 0 => client.out = <<>>
  /\ task.pc \in Reading => Planned
  /\ task.pc = "stream" =>
       task.span \in 1 .. Len(task.spans) /\ client.out = Positions(Wanted.start, Current.start - 1)
  /\ task.pc = "finish" => client.out = Positions(Wanted.start, Wanted.end)
  /\ task.pc \in {"stream", "finish"} => client.length = Wanted.end - Wanted.start + 1
  /\ client.length # 0 => Started

(* What a client wants depends on its request alone. *)
LEMMA SameRequest ==
  ASSUME task'.req = task.req
  PROVE  /\ Class' = Class /\ Wanted' = Wanted /\ Asked' = Asked
BY Zenon DEF Class, Wanted, Asked

(* A step that delivers nothing keeps the invariant of the body. *)
LEMMA CalmBody ==
  ASSUME Body, Calm
  PROVE  Body'
<1>1. Class' = Class /\ Wanted' = Wanted
  BY SameRequest DEF Calm
<1>2. /\ task'.range = task.range /\ task'.spans = task.spans /\ task'.span = task.span
      /\ client'.length = client.length /\ client'.out = client.out
      /\ Current' = Current /\ (Planned => Planned')
  BY <1>1, Zenon DEF Calm, Current, Planned
<1>3. client'.length # 0 => Started'
  <2>1. SUFFICES ASSUME client.length # 0 PROVE Started'
    BY <1>2
  <2>2. client'.over = "whole" => client.over = "whole"
    BY <2>1 DEF Calm, Body
  <2> QED BY <1>1, <1>2, <2>1, <2>2, Zenon DEF Body, Started
<1>4. task'.pc \notin Sending => client'.length = 0 /\ task'.span = 1
  <2>1. task'.pc \notin Sending => task.pc \notin Sending
    BY DEF Calm, Sending
  <2> QED BY <1>2, <2>1, Zenon DEF Body
<1>5. task'.pc \in Reading => task'.pc = task.pc
  BY DEF Calm, Reading
<1>6. /\ task'.pc \in Reading => Planned'
      /\ task'.pc = "stream" => /\ task'.span \in 1 .. Len(task'.spans)
                                /\ client'.out = Positions(Wanted.start, Current.start - 1)
      /\ task'.pc = "finish" => client'.out = Positions(Wanted.start, Wanted.end)
      /\ task'.pc \in {"stream", "finish"} => client'.length = Wanted.end - Wanted.start + 1
  BY <1>2, <1>5 DEF Body, Reading
<1> QED BY <1>1, <1>2, <1>3, <1>4, <1>6, Zenon DEF Body

(* What SpansTheorem says of the spans of a planned read. *)
LEMMA PlanFacts ==
  ASSUME Shaped, Planned
  PROVE  /\ task.req.size \in Nat /\ RangeOK(Wanted, task.req.size)
         /\ Len(task.spans) \in Nat \ {0}
         /\ task.spans[1].start = Wanted.start /\ task.spans[Len(task.spans)].end = Wanted.end
         /\ \A i \in 1 .. Len(task.spans) - 1 : task.spans[i + 1].start = task.spans[i].end + 1
         /\ \A i \in 1 .. Len(task.spans) :
              /\ SpanFits(task.spans[i])
              /\ task.spans[i].index = Wanted.start \div PageSize + i - 1
              /\ Wanted.start <= task.spans[i].start /\ task.spans[i].end <= Wanted.end
<1>1. task.req \in Requests /\ task.req.size \in Nat
  BY RequestPathAssumption DEF Shaped, TaskType
<1>2. RangeOK(Wanted, task.req.size)
  BY <1>1, WantedRange DEF Planned
<1> DEFINE spans == task.spans
<1>3. spans = PagesForRange(Wanted)
  BY DEF Planned
<1> HIDE DEF spans
<1>4. /\ spans \in Seq(SpanType) /\ Len(spans) \in Nat \ {0}
      /\ spans[1].start = Wanted.start /\ spans[Len(spans)].end = Wanted.end
      /\ \A i \in 1 .. Len(spans) - 1 : spans[i + 1].start = spans[i].end + 1
      /\ \A i \in 1 .. Len(spans) :
           /\ spans[i].index = Wanted.start \div PageSize + i - 1
           /\ spans[i].index * PageSize <= spans[i].start
           /\ spans[i].start <= spans[i].end
           /\ spans[i].end < spans[i].index * PageSize + PageSize
           /\ Wanted.start <= spans[i].start /\ spans[i].end <= Wanted.end
  BY <1>1, <1>2, <1>3, SpansTheorem
<1>5. ASSUME NEW i \in 1 .. Len(spans) PROVE SpanFits(spans[i])
  <2>1. spans[i] \in SpanType
    BY <1>4
  <2>2. spans[i].end \in Nat /\ Wanted.end \in Nat /\ Wanted.end < task.req.size
    BY <1>2, <2>1 DEF SpanType, RangeOK
  <2>3. spans[i].end <= Wanted.end
    BY <1>4
  <2>4. spans[i].end < task.req.size
    BY <1>1, <2>2, <2>3
  <2> QED BY <1>4, <2>1, <2>4, Zenon DEF SpanFits
<1> QED BY <1>1, <1>2, <1>4, <1>5, Zenon DEF spans

(* Delivering a beginning of the current span continues the body. *)
LEMMA DeliverBody ==
  ASSUME Shaped, Body, task.pc = "stream", client.over # "whole", UNCHANGED ring,
         NEW e \in Current.start - 1 .. Current.end, Deliver(Positions(Current.start, e))
  PROVE  Body'
<1> DEFINE bytes == Positions(Current.start, e)
           n == Len(task.spans)
<1>1. /\ Planned /\ task.span \in 1 .. n
      /\ client.out = Positions(Wanted.start, Current.start - 1)
      /\ client.length = Wanted.end - Wanted.start + 1
  BY DEF Body, Reading
<1>2. /\ task.req.size \in Nat /\ RangeOK(Wanted, task.req.size) /\ n \in Nat \ {0}
      /\ task.spans[n].end = Wanted.end
      /\ \A i \in 1 .. n - 1 : task.spans[i + 1].start = task.spans[i].end + 1
      /\ SpanFits(Current) /\ Wanted.start <= Current.start /\ Current.end <= Wanted.end
  BY <1>1, PlanFacts, Zenon DEF Current
<1>3. /\ Wanted.start \in Nat /\ Wanted.end \in Nat /\ Current.start \in Nat /\ Current.end \in Nat
      /\ e \in Int /\ Current.start - 1 <= e /\ e <= Current.end
  BY <1>2 DEF SpanFits, SpanType, RangeOK
<1>4. Len(bytes) = e - Current.start + 1
  <2>1. Current.start <= e + 1
    BY <1>3
  <2> QED BY <1>3, <2>1, PositionsSeq
<1>5. client.out \o bytes = Positions(Wanted.start, e)
  <2> DEFINE b == Current.start - 1
  <2>1. b \in Int /\ Wanted.start <= b + 1 /\ b <= e /\ b + 1 = Current.start
    BY <1>2, <1>3
  <2>2. Positions(Wanted.start, b) \o Positions(b + 1, e) = Positions(Wanted.start, e)
    <3> HIDE DEF b
    <3> QED BY <1>3, <2>1, PositionsJoin, Zenon
  <2> QED BY <1>1, <2>1, <2>2, Zenon
<1>6. /\ task'.req = task.req /\ task'.range = task.range /\ task'.spans = task.spans
      /\ task'.span = task.span + 1
      /\ client'.out = client.out \o bytes /\ client'.length = client.length
      /\ IF Len(bytes) = Current.end - Current.start + 1
           THEN /\ client'.over = client.over
                /\ task'.pc = IF task.span = n THEN "finish" ELSE "stream"
           ELSE client'.over = "cut" /\ task'.pc = "done"
  BY DeliverMoves DEF Moved, Kept
<1> HIDE DEF bytes
<1>7. Class' = Class /\ Wanted' = Wanted /\ Planned'
  BY <1>1, <1>6, SameRequest, Zenon DEF Planned
<1>8. client'.out = Positions(Wanted.start, e) /\ client'.length = Wanted.end - Wanted.start + 1
  BY <1>1, <1>5, <1>6, Zenon
<1>9. Started'
  <2>1. e \in Wanted.start - 1 .. Wanted.end
    BY <1>2, <1>3
  <2>2. client'.over \in {client.over, "cut"}
    BY <1>6
  <2>3. client'.over # "whole"
    BY <2>2
  <2> QED BY <1>1, <1>7, <1>8, <2>1, <2>3, Zenon DEF Started, Planned
<1>10. task'.pc \in Sending /\ client'.length # 0
  BY <1>2, <1>3, <1>6, <1>8 DEF Sending, RangeOK
<1>11. task'.pc = "finish" => e = Wanted.end
  <2>1. SUFFICES ASSUME task'.pc = "finish" PROVE e = Wanted.end
    OBVIOUS
  <2>2. Len(bytes) = Current.end - Current.start + 1 /\ task.span = n
    BY <1>6, <2>1
  <2>3. Current.end = Wanted.end
    BY <1>2, <2>2, Zenon DEF Current
  <2> QED BY <1>3, <1>4, <2>2, <2>3
<1>12. task'.pc = "stream" => task'.span \in 1 .. Len(task'.spans) /\ e = Current'.start - 1
  <2>1. SUFFICES ASSUME task'.pc = "stream"
                 PROVE  task'.span \in 1 .. Len(task'.spans) /\ e = Current'.start - 1
    OBVIOUS
  <2>2. Len(bytes) = Current.end - Current.start + 1 /\ task.span # n
    BY <1>6, <2>1
  <2>3. task.span \in 1 .. n - 1 /\ task.span + 1 \in 1 .. n
    BY <1>1, <1>2, <2>2
  <2>4. task.spans[task.span + 1].start = Current.end + 1
    BY <1>2, <2>3, Zenon DEF Current
  <2>5. Current' = task.spans[task.span + 1]
    BY <1>6, Zenon DEF Current
  <2>6. e = Current.end
    BY <1>3, <1>4, <2>2
  <2>7. Current'.start = e + 1
    BY <2>4, <2>5, <2>6, Zenon
  <2>8. e = Current'.start - 1
    BY <1>3, <2>7
  <2>9. task'.span \in 1 .. Len(task'.spans)
    BY <1>6, <2>3, Zenon
  <2> QED BY <2>8, <2>9
<1> QED BY <1>7, <1>8, <1>9, <1>10, <1>11, <1>12, Zenon DEF Body

(* A page has as many bytes as its frame announces. *)
LEMMA PageLength ==
  ASSUME task.req.size \in Nat, NEW s, SpanFits(s)
  PROVE  Len(Page(s.index)) = FrameSize(s.index, task.req.size)
<1> DEFINE a == s.index * PageSize
           b == Smaller(a + PageSize - 1, task.req.size - 1)
<1>1. s.index \in Nat /\ s.start \in Nat /\ s.end \in Nat
  BY DEF SpanFits, SpanType
<1>2. a \in Nat /\ PageSize \in Nat
  BY <1>1, Multiples, PageSizeAssumption
<1>3. b \in Int /\ a <= b + 1
  <2>1. a <= s.start /\ s.start <= s.end /\ s.end < task.req.size /\ 0 < PageSize
    BY PageSizeAssumption DEF SpanFits
  <2> HIDE DEF a
  <2> QED BY <1>1, <1>2, <2>1 DEF Smaller
<1>4. Page(s.index) = Positions(a, b) /\ FrameSize(s.index, task.req.size) = b - a + 1
  BY DEF Page, FrameSize, PageBounds
<1> HIDE DEF a, b
<1> QED BY <1>2, <1>3, <1>4, PositionsSeq

(* Every step keeps the invariant of the body. *)
LEMMA BodyStep ==
  ASSUME Shaped, Framed, Effected, Body, [Next]_vars
  PROVE  Body'
<1>0. task.req.size \in Nat /\ ClientShape(client) /\ task \in TaskType
  BY RequestPathAssumption DEF Shaped, TaskType
<1>1. CASE Calm \/ UNCHANGED vars
  BY <1>1, CalmBody, CalmTask DEF vars
<1>2. CASE PlanPages
  <2>1. /\ task'.req = task.req /\ task'.pc = "open" /\ task'.range = Wanted
        /\ task'.spans = PagesForRange(Wanted) /\ task'.span = task.span
        /\ Class \in {"full", "range"}
    BY <1>2, PlanMoves DEF Moved, Kept
  <2>2. client' = client /\ task.pc = "handle" /\ Wanted # Unsatisfied
    BY <1>2 DEF PlanPages, ReadHere, Unconditional
  <2>3. Class' = Class /\ Wanted' = Wanted
    BY <2>1, SameRequest
  <2>4. client.length = 0 /\ task.span = 1 /\ client.out = <<>>
    BY <2>2 DEF Body, Sending
  <2>5. Planned'
    BY <2>1, <2>2, <2>3, Zenon DEF Planned
  <2> QED BY <2>1, <2>2, <2>4, <2>5 DEF Body
<1>3. CASE BeginStream
  <2>1. /\ task.pc = "open" /\ Goto("stream") /\ "stream" \in Steps
        /\ client' = [client EXCEPT !.status = IF Class = "range" THEN 206 ELSE 200,
                                    !.length = task.range.end - task.range.start + 1]
    BY <1>3 DEF BeginStream, Commit, Steps, Handled, Reading
  <2>2. Planned /\ task.span = 1 /\ client.out = <<>>
    BY <2>1 DEF Body, Sending, Reading
  <2>3. /\ client'.out = client.out /\ client'.over = client.over
        /\ client'.length = Wanted.end - Wanted.start + 1
    BY <1>0, <2>1, <2>2, Zenon DEF ClientShape, Planned
  <2>4. /\ task'.req = task.req /\ task'.pc = "stream" /\ task'.range = task.range
        /\ task'.spans = task.spans /\ task'.span = task.span
    BY <2>1, GotoKeeps
  <2>5. Class' = Class /\ Wanted' = Wanted /\ Planned'
    BY <2>2, <2>4, SameRequest, Zenon DEF Planned
  <2>6. /\ Len(task.spans) \in Nat \ {0} /\ task.spans[1].start = Wanted.start
        /\ Wanted.start \in Nat /\ Wanted.end \in Nat /\ Wanted.start <= Wanted.end
    BY <2>2, PlanFacts DEF RangeOK
  <2>7. Current'.start = Wanted.start
    BY <2>2, <2>4, <2>6, Zenon DEF Current
  <2>8. Positions(Wanted.start, Wanted.start - 1) = <<>>
    <3>1. Wanted.start - 1 \in Int /\ Wanted.start <= Wanted.start - 1 + 1
          /\ (Wanted.start - 1) - Wanted.start + 1 = 0
      BY <2>6
    <3>2. /\ Positions(Wanted.start, Wanted.start - 1) \in Seq(Nat)
          /\ Len(Positions(Wanted.start, Wanted.start - 1)) = (Wanted.start - 1) - Wanted.start + 1
      BY <2>6, <3>1, PositionsSeq, Zenon
    <3> QED BY <3>1, <3>2
  <2>9. task'.span \in 1 .. Len(task'.spans) /\ client'.length # 0 /\ task'.pc \in Sending
        /\ Wanted.start - 1 \in Wanted.start - 1 .. Wanted.end
    BY <2>2, <2>3, <2>4, <2>6 DEF Sending
  <2>10. client'.over # "whole"
    BY <2>1, <2>3 DEF Effected
  <2>11. Started'
    BY <2>2, <2>3, <2>5, <2>8, <2>9, <2>10, Zenon DEF Started, Planned
  <2>12. client'.out = Positions(Wanted.start, Current'.start - 1)
    BY <2>2, <2>3, <2>7, <2>8, Zenon
  <2>13. task'.pc # "finish"
    BY <2>4
  <2> QED BY <2>3, <2>5, <2>9, <2>11, <2>12, <2>13, Zenon DEF Body
<1>4. ASSUME NEW bytes, Partial(bytes, Current.index), Deliver(CopySpan(bytes, Current)),
             task.pc = "stream", UNCHANGED ring
      PROVE  Body'
  <2>1. Planned /\ task.span \in 1 .. Len(task.spans) /\ client.over # "whole"
    BY <1>4 DEF Body, Reading, Effected
  <2>2. SpanFits(Current)
    BY <2>1, PlanFacts, Zenon DEF Current
  <2>3. PICK e \in Current.start - 1 .. Current.end :
          CopySpan(bytes, Current) = Positions(Current.start, e)
    BY <1>0, <1>4, <2>2, CopySpanBytes, Zenon
  <2>4. Deliver(Positions(Current.start, e))
    BY <1>4, <2>3, Zenon
  <2> QED BY <1>4, <2>1, <2>4, DeliverBody, Zenon
<1>5. CASE StreamLocalSpan
  <2>1. task.pc = "stream" /\ UNCHANGED ring
    BY <1>5 DEF StreamLocalSpan
  <2>2. CASE Deliver(CopySpan(Page(Current.index), Current))
    BY <1>4, <2>1, <2>2, Zenon DEF Partial
  <2>3. ASSUME NEW m \in 0 .. Len(Page(Current.index)) - 1,
               Deliver(CopySpan(SubSeq(Page(Current.index), 1, m), Current))
        PROVE  Body'
    <3>1. Planned /\ task.span \in 1 .. Len(task.spans)
      BY <2>1 DEF Body, Reading
    <3>2. SpanFits(Current)
      BY <3>1, PlanFacts, Zenon DEF Current
    <3>3. Len(Page(Current.index)) = FrameSize(Current.index, task.req.size)
      BY <1>0, <3>2, PageLength
    <3>4. Partial(SubSeq(Page(Current.index), 1, m), Current.index)
      BY <3>3, Zenon DEF Partial
    <3> QED BY <1>4, <2>1, <2>3, <3>4, Zenon
  <2> QED BY <1>5, <2>2, <2>3, Zenon DEF StreamLocalSpan
<1>6. ASSUME NEW o \in Peers, StreamRemoteSpan(o) PROVE Body'
  <2> DEFINE c == conn[o]
             f == c.frames[c.read + 1]
  <2>1. task.pc = "stream" /\ UNCHANGED ring
    BY <1>6 DEF StreamRemoteSpan
  <2>2. CASE Cut
    BY <2>2, CalmCut, CalmBody
  <2>3. CASE /\ c.read < Len(c.frames) /\ f.type = "page" /\ f.index = Current.index
             /\ Deliver(CopySpan(f.payload, Current))
    <3>1. c.read + 1 \in 1 .. Len(c.frames)
      <4>1. c.read \in Nat /\ Len(c.frames) \in Nat
        BY Zenon DEF Framed, FramesOK, IsSeq
      <4>2. c.read < Len(c.frames)
        BY <2>3
      <4> HIDE DEF c, f
      <4> QED BY <4>1, <4>2
    <3>2. FrameOK(f)
      BY <3>1, Zenon DEF Framed, FramesOK
    <3>3. Partial(f.payload, Current.index)
      BY <2>3, <3>2, Zenon DEF FrameOK
    <3> QED BY <1>4, <2>1, <2>3, <3>3, Zenon
  <2> QED BY <1>6, <2>2, <2>3, Zenon DEF StreamRemoteSpan, Expected
<1>7. CASE FinishBatches
  <2>1. /\ task.pc = "finish" /\ Goto("done") /\ "done" \in Steps
        /\ client' = [client EXCEPT !.over = "whole"]
    BY <1>7 DEF FinishBatches, Steps
  <2>2. client'.out = client.out /\ client'.length = client.length
    BY <1>0, <2>1 DEF ClientShape
  <2>3. task'.pc = "done" /\ task'.req = task.req
    BY <2>1, GotoKeeps
  <2>4. Class' = Class /\ Wanted' = Wanted
    BY <2>3, SameRequest
  <2>5. /\ Planned /\ client.out = Positions(Wanted.start, Wanted.end)
        /\ client.length = Wanted.end - Wanted.start + 1
    BY <2>1 DEF Body, Reading
  <2>6. Wanted.end \in Wanted.start - 1 .. Wanted.end /\ client.length # 0
    BY <2>5, PlanFacts DEF RangeOK
  <2>7. Started'
    BY <2>2, <2>4, <2>5, <2>6, Zenon DEF Started, Planned
  <2> QED BY <2>2, <2>3, <2>6, <2>7 DEF Body, Sending, Reading
<1>8. CASE ServeCold
  <2>1. task.pc = "open" /\ Goto("done") /\ "done" \in Steps /\ Class = "full"
    BY <1>8 DEF ServeCold, Steps
  <2>2. PICK n \in 0 .. task.req.size :
          client' = [client EXCEPT !.status = 200, !.length = task.req.size,
                       !.out = Positions(0, n - 1), !.over = IF n = task.req.size THEN "whole" ELSE "cut"]
    BY <1>8 DEF ServeCold
  <2>3. /\ client'.length = task.req.size /\ client'.out = Positions(0, n - 1)
        /\ client'.over = IF n = task.req.size THEN "whole" ELSE "cut"
    BY <1>0, <2>2, Zenon DEF ClientShape
  <2>4. task'.pc = "done" /\ task'.req = task.req
    BY <2>1, GotoKeeps
  <2>5. Class' = Class /\ Wanted' = Wanted
    BY <2>4, SameRequest
  <2>6. Planned
    BY <2>1 DEF Body, Reading
  <2>7. Wanted.start = 0 /\ Wanted.end = task.req.size - 1
    BY <2>1 DEF Wanted
  <2>8. task.req.size # 0
    BY <2>6, <2>7, PlanFacts DEF RangeOK
  <2>9. /\ n - 1 \in 0 - 1 .. task.req.size - 1
        /\ task.req.size = task.req.size - 1 - 0 + 1
        /\ client'.over = "whole" => n - 1 = task.req.size - 1
    BY <1>0, <2>3
  <2>10. Started'
    BY <2>3, <2>5, <2>6, <2>7, <2>9, Zenon DEF Started, Planned
  <2> QED BY <2>3, <2>4, <2>8, <2>10 DEF Body, Sending, Reading
<1> QED BY <1>1, <1>2, <1>3, <1>5, <1>6, <1>7, <1>8, BodyKinds, Zenon

-----------------------------------------------------------------------------
(* What the page owners are asked.                                            *)

(* The spans of a planned read are of ascending pages. *)
LEMMA PlannedAscends ==
  ASSUME Shaped, Planned
  PROVE  Ascending
<1> DEFINE first == Wanted.start \div PageSize
           N == Len(task.spans)
<1>1. N \in Nat /\ RangeOK(Wanted, task.req.size)
  BY PlanFacts
<1>2. first \in Nat
  BY <1>1, Division DEF RangeOK
<1>3. \A i \in 1 .. N : task.spans[i].index = first + i - 1
  BY PlanFacts, Zenon
<1> HIDE DEF first, N
<1>4. \A i \in 1 .. N : task.spans[i].index \in Nat
  BY <1>1, <1>2, <1>3
<1>5. \A i, j \in 1 .. N : i < j => task.spans[i].index < task.spans[j].index
  BY <1>1, <1>2, <1>3
<1> QED BY <1>1, <1>4, <1>5 DEF Ascending, N

(* What an owner is asked: exactly the pages of its spans, in ascending order *)
(* and each once (groupCoordinatorPageBatches), for every plan, so that every *)
(* page of the plan is in one batch.                                          *)
THEOREM BatchTheorem ==
  ASSUME Shaped, Planned, NEW o
  PROVE  /\ PagesOf(o) \in Seq(Nat)
         /\ {PagesOf(o)[i] : i \in 1 .. Len(PagesOf(o))}
              = {task.spans[j].index : j \in {n \in 1 .. Len(task.spans) : SpanOwner(task.spans[n]) = o}}
         /\ \A i, j \in 1 .. Len(PagesOf(o)) : i < j => PagesOf(o)[i] < PagesOf(o)[j]
<1> DEFINE N == Len(task.spans)
           b == PagesOf(o)
<1>1. N \in Nat /\ Ascending
  BY PlannedAscends DEF Ascending
<1>2. N \in 0 .. N /\ b = BatchUpTo(o)[N]
  BY <1>1 DEF PagesOf
<1>3. BatchIs(o, N)
  BY <1>1, <1>2, BatchKnown, Zenon
<1>4. /\ b \in Seq(Nat)
      /\ \A i \in 1 .. Len(b) : \E j \in 1 .. N : SpanOwner(task.spans[j]) = o /\ b[i] = task.spans[j].index
      /\ \A j \in 1 .. N : SpanOwner(task.spans[j]) = o =>
           LET k == Len(BatchUpTo(o)[j - 1]) + 1
           IN k \in 1 .. Len(b) /\ b[k] = task.spans[j].index
      /\ \A i, j \in 1 .. Len(b) : i < j => b[i] < b[j]
  BY <1>3, Zenon DEF BatchIs, PagesOf
<1> HIDE DEF N, b
<1> DEFINE Own == {n \in 1 .. N : SpanOwner(task.spans[n]) = o}
<1>5. ASSUME NEW i \in 1 .. Len(b) PROVE b[i] \in {task.spans[j].index : j \in Own}
  <2>1. PICK j \in 1 .. N : SpanOwner(task.spans[j]) = o /\ b[i] = task.spans[j].index
    BY <1>4, Zenon
  <2>2. j \in Own
    BY <2>1
  <2> QED BY <2>1, <2>2, Zenon
<1>6. ASSUME NEW j \in Own PROVE task.spans[j].index \in {b[i] : i \in 1 .. Len(b)}
  <2>1. PICK k \in 1 .. Len(b) : b[k] = task.spans[j].index
    BY <1>4, Zenon
  <2> QED BY <2>1, Zenon
<1> HIDE DEF Own
<1>7. {b[i] : i \in 1 .. Len(b)} = {task.spans[j].index : j \in Own}
  BY <1>5, <1>6, Zenon
<1> QED BY <1>4, <1>7, Zenon DEF N, b, Own

(* An owner that accepts the coordinator serves its batch. *)
LEMMA BatchesHold ==
  ASSUME Shaped, Body
  PROVE  BatchesAgreed
<1>1. SUFFICES ASSUME task.pc = "open", NEW o \in Batched, Accepts(o, Here)
               PROVE  ServesPages(o, PagesOf(o))
  BY Zenon DEF BatchesAgreed
<1> DEFINE N == Len(task.spans)
           b == PagesOf(o)
<1>2. Planned
  BY <1>1 DEF Body, Reading
<1>3. /\ b \in Seq(Nat)
      /\ \A i \in 1 .. Len(b) : \E j \in 1 .. N : SpanOwner(task.spans[j]) = o /\ b[i] = task.spans[j].index
      /\ \A i, j \in 1 .. Len(b) : i < j => b[i] < b[j]
  <2>1. /\ b \in Seq(Nat)
        /\ {b[i] : i \in 1 .. Len(b)} = {task.spans[j].index : j \in {n \in 1 .. N : SpanOwner(task.spans[n]) = o}}
        /\ \A i, j \in 1 .. Len(b) : i < j => b[i] < b[j]
    BY <1>2, BatchTheorem, Zenon
  <2> HIDE DEF b, N
  <2>2. ASSUME NEW i \in 1 .. Len(b)
        PROVE  \E j \in 1 .. N : SpanOwner(task.spans[j]) = o /\ b[i] = task.spans[j].index
    <3>1. b[i] \in {task.spans[j].index : j \in {n \in 1 .. N : SpanOwner(task.spans[n]) = o}}
      BY <2>1, Zenon
    <3> QED BY <3>1, Zenon
  <2> QED BY <2>1, <2>2, Zenon
<1>4. DOMAIN b = 1 .. Len(b)
  <2> HIDE DEF b
  <2> QED BY <1>3
<1>5. Strategy = "page"
  <2>1. o # Here /\ \E i : o = SpanOwner(task.spans[i])
    BY Zenon DEF Batched
  <2> QED BY <2>1, Zenon DEF SpanOwner
<1>6. ring[Here] = ring[o]
  BY <1>1 DEF Accepts
<1>7. ASSUME NEW j \in 1 .. N PROVE HasPage(task.spans[j].index, task.req.size)
  <2>1. SpanFits(task.spans[j]) /\ task.req.size \in Nat
    BY <1>2, PlanFacts, Zenon
  <2> DEFINE s == task.spans[j]
             at == s.index * PageSize
  <2>2. s.index \in Nat /\ s.start \in Nat /\ s.end \in Nat
    BY <2>1 DEF SpanFits, SpanType
  <2>3. at \in Nat /\ at <= s.start /\ s.start <= s.end /\ s.end < task.req.size
    BY <2>1, <2>2, Multiples DEF SpanFits
  <2> HIDE DEF at
  <2>4. 0 <= s.index /\ 0 < task.req.size /\ at < task.req.size
    BY <2>1, <2>2, <2>3
  <2> QED BY <2>4, Zenon DEF HasPage, at
<1>8. ASSUME NEW i \in DOMAIN b
      PROVE  PageOwner(ring[o], b[i]) = o /\ HasPage(b[i], task.req.size)
  <2>1. PICK j \in 1 .. N : SpanOwner(task.spans[j]) = o /\ b[i] = task.spans[j].index
    BY <1>3, <1>4, Zenon
  <2> QED BY <1>5, <1>6, <1>7, <2>1, Zenon DEF SpanOwner
<1> QED BY <1>1, <1>3, <1>4, <1>8, Zenon DEF ServesPages

-----------------------------------------------------------------------------
(* The frames of an answer.                                                   *)

(* An exchange never has more frames than were asked for and one end.         *)
Exchange(c) ==
  /\ c.state \in {"none", "open", "closed"} /\ (c.state = "none" => c = NoConn)
  /\ c.asked \in Seq(Nat)
  /\ c.read <= Len(c.frames) /\ Len(c.frames) <= Len(c.asked) + 1
  /\ c.state = "open" => Len(c.frames) <= Len(c.asked)
Exchanges == \A o \in Peers : Exchange(conn[o])

(* An answer that was not asked for has nothing. *)
LEMMA ExchangeNone == Exchange(NoConn) /\ NoConn.read = 0
BY DEF Exchange, NoConn

(* No step makes an answer longer than what was asked for. *)
LEMMA ExchangesStep ==
  ASSUME Shaped, Framed, Body, Exchanges, [Next]_vars
  PROVE  Exchanges'
<1>1. ASSUME NEW o \in Peers, Continues(o), Exchange(conn'[o]) PROVE Exchanges'
  BY <1>1, Zenon DEF Exchanges, Continues
<1>2. CASE UNCHANGED conn \/ UNCHANGED vars
  BY <1>2 DEF Exchanges, vars
<1>3. CASE conn' = [p \in Peers |-> NoConn]
  BY <1>3, ExchangeNone, Zenon DEF Exchanges
<1>4. ASSUME NEW o \in Peers, Opens(o) PROVE Exchanges'
  <2> DEFINE c == [state |-> "open", asked |-> PagesOf(o), frames |-> <<>>, read |-> 0]
  <2>1. PagesOf(o) \in Seq(Nat)
    BY <1>4, BatchTheorem DEF Opens, Body, Reading
  <2>2. Exchange(c)
    <3>1. Len(PagesOf(o)) \in Nat
      BY <2>1
    <3>2. /\ c.state = "open" /\ c.asked = PagesOf(o) /\ c.read = 0 /\ Len(c.frames) = 0
      OBVIOUS
    <3> HIDE DEF c
    <3> QED BY <2>1, <3>1, <3>2 DEF Exchange
  <2>3. conn' = [conn EXCEPT ![o] = c] /\ conn = [p \in Peers |-> conn[p]]
    BY <1>4, Zenon DEF Opens, Shaped
  <2> HIDE DEF c
  <2>4. ASSUME NEW p \in Peers PROVE Exchange(conn'[p])
    <3>1. conn'[p] = c \/ conn'[p] = conn[p]
      BY <2>3, Zenon
    <3> QED BY <2>2, <3>1, Zenon DEF Exchanges
  <2> QED BY <2>4, Zenon DEF Exchanges
<1>5. ASSUME NEW o \in Peers
      PROVE  /\ Exchange(conn[o]) /\ conn[o].read \in Nat /\ IsSeq(conn[o].frames)
             /\ Len(conn[o].frames) \in Nat /\ Len(conn[o].asked) \in Nat
  <2>1. Exchange(conn[o]) /\ conn[o].read \in Nat /\ IsSeq(conn[o].frames) /\ conn[o].asked \in Seq(Nat)
    BY Zenon DEF Exchanges, Exchange, Framed, FramesOK
  <2> QED BY <2>1 DEF IsSeq
<1>6. ASSUME NEW o \in Peers, NEW frames, NEW state \in {"open", "closed"}, Writes(o, frames, state),
             conn[o].state # "none", conn[o].read <= Len(frames), Len(frames) <= Len(conn[o].asked) + 1,
             state = "open" => Len(frames) <= Len(conn[o].asked)
      PROVE  Exchanges'
  <2>1. /\ Continues(o) /\ conn'[o].frames = frames /\ conn'[o].state = state
        /\ conn'[o].read = conn[o].read /\ conn'[o].asked = conn[o].asked
    <3>1. /\ Continues(o) /\ conn'[o].frames = frames /\ conn'[o].state = state
          /\ conn'[o].read = conn[o].read
      BY <1>6, WritesContinues, Zenon
    <3>2. conn'[o].asked = conn[o].asked
      BY <3>1 DEF Continues
    <3> QED BY <3>1, <3>2
  <2>2. Exchange(conn'[o])
    BY <1>5, <1>6, <2>1 DEF Exchange
  <2> QED BY <1>1, <2>1, <2>2
<1>7. ASSUME NEW o \in Peers, NEW f PROVE Len(Append(conn[o].frames, f)) = Len(conn[o].frames) + 1
  BY <1>5, AppendIsSeq, Zenon
<1>8. ASSUME NEW o \in Peers, WriteFrame(o) PROVE Exchanges'
  <2>1. /\ conn[o].state # "none" /\ Len(conn[o].frames) < Len(conn[o].asked)
        /\ \E f : Writes(o, Append(conn[o].frames, f), "open")
    BY <1>8, Zenon DEF WriteFrame
  <2>2. PICK f : Writes(o, Append(conn[o].frames, f), "open")
    BY <2>1, Zenon
  <2> DEFINE s == Append(conn[o].frames, f)
  <2>3. Len(s) = Len(conn[o].frames) + 1 /\ conn[o].read <= Len(conn[o].frames)
    BY <1>5, <1>7, Zenon DEF Exchange
  <2> HIDE DEF s
  <2>4. conn[o].read <= Len(s) /\ Len(s) <= Len(conn[o].asked) + 1 /\ Len(s) <= Len(conn[o].asked)
    BY <1>5, <2>1, <2>3
  <2> QED BY <1>6, <2>1, <2>2, <2>4, Zenon DEF s
<1>9. ASSUME NEW o \in Peers, WriteEnd(o) PROVE Exchanges'
  <2>1. /\ conn[o].state # "none" /\ Len(conn[o].frames) = Len(conn[o].asked)
        /\ Writes(o, Append(conn[o].frames, EndFrame), "closed")
    BY <1>9 DEF WriteEnd
  <2> DEFINE s == Append(conn[o].frames, EndFrame)
  <2>2. Len(s) = Len(conn[o].frames) + 1 /\ conn[o].read <= Len(conn[o].frames)
    BY <1>5, <1>7, Zenon DEF Exchange
  <2> HIDE DEF s
  <2>3. conn[o].read <= Len(s) /\ Len(s) <= Len(conn[o].asked) + 1
    BY <1>5, <2>1, <2>2
  <2> QED BY <1>6, <2>1, <2>3, Zenon DEF s
<1>10. ASSUME NEW o \in Peers, LoseAnswer(o) PROVE Exchanges'
  <2> DEFINE c == conn[o]
  <2>1. PICK n \in c.read .. Len(c.frames) :
          \/ Writes(o, SubSeq(c.frames, 1, n), "closed")
          \/ n < Len(c.asked) /\ \E f : Writes(o, Append(SubSeq(c.frames, 1, n), f), "closed")
    BY <1>10, Zenon DEF LoseAnswer
  <2> DEFINE t == SubSeq(c.frames, 1, n)
  <2>2. n \in 0 .. Len(c.frames) /\ c.read <= n /\ c.state # "none"
    BY <1>5, <1>10 DEF LoseAnswer
  <2>3. IsSeq(t) /\ Len(t) = n
    BY <1>5, <2>2, PartIsSeq, Zenon
  <2>4. CASE Writes(o, t, "closed")
    <3>1. c.read <= Len(t) /\ Len(t) <= Len(c.asked) + 1
      <4>1. Len(c.frames) <= Len(c.asked) + 1
        BY <1>5 DEF Exchange
      <4> HIDE DEF t
      <4> QED BY <1>5, <2>2, <2>3, <4>1
    <3> QED BY <1>6, <2>2, <2>4, <3>1, Zenon
  <2>5. ASSUME NEW f, n < Len(c.asked), Writes(o, Append(t, f), "closed") PROVE Exchanges'
    <3>1. Len(Append(t, f)) = n + 1
      BY <2>3, AppendIsSeq, Zenon
    <3>2. c.read <= Len(Append(t, f)) /\ Len(Append(t, f)) <= Len(c.asked) + 1
      <4> HIDE DEF t
      <4> QED BY <1>5, <2>2, <2>5, <3>1
    <3> QED BY <1>6, <2>2, <2>5, <3>2, Zenon
  <2> HIDE DEF t
  <2> QED BY <2>1, <2>4, <2>5, Zenon DEF t
<1>11. ASSUME NEW o \in Peers, StreamRemoteSpan(o) PROVE Exchanges'
  <2>1. CASE UNCHANGED conn
    BY <1>2, <2>1
  <2>2. CASE /\ conn' = [conn EXCEPT ![o] = [conn[o] EXCEPT !.read = conn[o].read + 1]]
             /\ conn[o].read < Len(conn[o].frames)
    <3>1. conn[o] # NoConn
      BY <2>2 DEF NoConn
    <3>2. /\ Continues(o) /\ conn'[o].frames = conn[o].frames /\ conn'[o].asked = conn[o].asked
          /\ conn'[o].state = conn[o].state /\ conn'[o].read = conn[o].read + 1
      BY <2>2, <3>1, ReadContinues, Zenon DEF Continues
    <3>3. conn[o].read + 1 <= Len(conn[o].frames) /\ conn[o].state # "none"
      BY <1>5, <2>2, <3>1 DEF Exchange
    <3>4. Exchange(conn'[o])
      BY <1>5, <3>2, <3>3 DEF Exchange
    <3> QED BY <1>1, <3>2, <3>4
  <2> QED BY <1>11, <2>1, <2>2 DEF StreamRemoteSpan
<1> QED BY <1>2, <1>3, <1>4, <1>8, <1>9, <1>10, <1>11, FrameKinds, Zenon

(* A whole page, and what is copied of it: the whole span. *)
LEMMA CopyWhole ==
  ASSUME task.req.size \in Nat, NEW s, SpanFits(s)
  PROVE  /\ CopySpan(Page(s.index), s) = Positions(s.start, s.end)
         /\ Len(CopySpan(Page(s.index), s)) = s.end - s.start + 1
         /\ FrameSize(s.index, task.req.size) <= PageSize
<1> DEFINE a == s.index * PageSize
           b == Smaller(a + PageSize - 1, task.req.size - 1)
<1>1. s.index \in Nat /\ s.start \in Nat /\ s.end \in Nat
  BY DEF SpanFits, SpanType
<1>2. a \in Nat /\ PageSize \in Nat
  BY <1>1, Multiples, PageSizeAssumption
<1>3. a <= s.start /\ s.start <= s.end /\ s.end < a + PageSize /\ s.end < task.req.size
  BY DEF SpanFits
<1>4. Page(s.index) = Positions(a, b) /\ FrameSize(s.index, task.req.size) = b - a + 1
  BY DEF Page, FrameSize, PageBounds
<1>5. CopySpan(Page(s.index), s) = SubSeq(Page(s.index), s.start - a + 1, Smaller(s.end - a + 1, Len(Page(s.index))))
  BY DEF CopySpan
<1> HIDE DEF a
<1>6. b \in Int /\ a <= b + 1 /\ s.end <= b /\ b - a + 1 <= PageSize
  BY <1>1, <1>2, <1>3 DEF Smaller
<1> HIDE DEF b
<1>7. Len(Page(s.index)) = b - a + 1
  BY <1>2, <1>4, <1>6, PositionsSeq, Zenon
<1> DEFINE x == s.start - a + 1
           y == s.end - a + 1
<1>8. Smaller(y, b - a + 1) = y
  BY <1>1, <1>2, <1>6 DEF Smaller
<1>9. /\ x \in Nat \ {0} /\ y \in Int /\ x <= y + 1 /\ y <= b - a + 1
      /\ a + x - 1 = s.start /\ a + y - 1 = s.end
  BY <1>1, <1>2, <1>3, <1>6
<1> HIDE DEF x, y
<1>10. SubSeq(Positions(a, b), x, y) = Positions(a + x - 1, a + y - 1)
  BY <1>2, <1>6, <1>9, PositionsPart, Zenon
<1>11. CopySpan(Page(s.index), s) = Positions(s.start, s.end)
  BY <1>4, <1>5, <1>7, <1>8, <1>9, <1>10, Zenon DEF x, y
<1>12. Len(Positions(s.start, s.end)) = s.end - s.start + 1
  <2>1. s.end \in Int /\ s.start <= s.end + 1
    BY <1>1, <1>3
  <2> QED BY <1>1, <2>1, PositionsSeq, Zenon
<1>13. FrameSize(s.index, task.req.size) <= PageSize
  BY <1>4, <1>6
<1> QED BY <1>11, <1>12, <1>13, Zenon

-----------------------------------------------------------------------------
(* Frames and their readers.                                                  *)

(* Nothing of an answer was lost: its frames are those that were asked for,   *)
(* whole, and it is closed by its end.                                        *)
InOrder(c) ==
  /\ \A k \in 1 .. Len(c.frames) :
       c.frames[k] = IF k <= Len(c.asked) THEN WholeFrame(c.asked[k]) ELSE EndFrame
  /\ c.state = "closed" => Len(c.frames) = Len(c.asked) + 1

(* While nothing was lost, each owner was asked for its batch, and the        *)
(* coordinator has read the frames of the spans it has copied.                *)
Undisturbed ==
  /\ client.over # "cut"
  /\ \A o \in Peers : InOrder(conn[o])
  /\ task.pc \in Reading => \A o \in Peers : conn[o] # NoConn => conn[o].asked = PagesOf(o)
  /\ task.pc = "open" => \A o \in Peers : conn[o].read = 0
  /\ task.pc \in {"stream", "finish"} =>
       \A o \in Peers : o \in Batched =>
         conn[o] # NoConn /\ conn[o].read = Len(BatchUpTo(o)[task.span - 1])
  /\ task.pc = "finish" => task.span = Len(task.spans) + 1

(* Frames in order stay so while the request is the same. *)
LEMMA InOrderSame ==
  ASSUME task'.req = task.req, NEW c, InOrder(c)
  PROVE  InOrder(c)'
<1>1. ASSUME NEW index PROVE WholeFrame(index)' = WholeFrame(index)
  BY Zenon DEF WholeFrame, Page, PageBounds, FrameSize
<1> QED BY <1>1, Zenon DEF InOrder

(* Without a loss, no step disturbs the order of the frames. *)
LEMMA OrderStep ==
  ASSUME Shaped, Framed, Exchanges, \A o \in Peers : InOrder(conn[o]),
         faults \in Nat, UNCHANGED faults, task'.req = task.req, [Next]_vars
  PROVE  \A o \in Peers : InOrder(conn[o])'
<1> DEFINE Good == \A p \in Peers : InOrder(conn[p])'
<1>1. ASSUME NEW o \in Peers, Continues(o), InOrder(conn'[o]) PROVE Good
  <2>1. ASSUME NEW p \in Peers PROVE InOrder(conn[p])'
    <3>1. CASE p = o
      BY <1>1, <3>1, InOrderSame, Zenon
    <3>2. CASE p # o
      <4>1. conn'[p] = conn[p] /\ InOrder(conn[p])
        BY <1>1, <3>2, Zenon DEF Continues
      <4> QED BY <4>1, InOrderSame, Zenon
    <3> QED BY <3>1, <3>2
  <2> QED BY <2>1, Zenon
<1>2. CASE UNCHANGED conn \/ UNCHANGED vars
  <2>1. conn' = conn
    BY <1>2 DEF vars
  <2>2. ASSUME NEW p \in Peers PROVE InOrder(conn[p])'
    BY <2>1, InOrderSame, Zenon
  <2> QED BY <2>2, Zenon
<1>3. \A c : c.state # "closed" /\ c.frames = <<>> => InOrder(c)
  BY DEF InOrder
<1>4. CASE conn' = [p \in Peers |-> NoConn]
  <2>1. InOrder(NoConn)
    BY <1>3 DEF NoConn
  <2>2. ASSUME NEW p \in Peers PROVE InOrder(conn[p])'
    <3>1. conn'[p] = NoConn
      BY <1>4
    <3> QED BY <2>1, <3>1, InOrderSame, Zenon
  <2> QED BY <2>2, Zenon
<1>5. ASSUME NEW o \in Peers, Opens(o) PROVE Good
  <2> DEFINE c == [state |-> "open", asked |-> PagesOf(o), frames |-> <<>>, read |-> 0]
  <2>1. InOrder(c)
    <3>1. c.state # "closed" /\ c.frames = <<>>
      BY Zenon
    <3> HIDE DEF c
    <3> QED BY <3>1, <1>3, Zenon
  <2>2. conn' = [conn EXCEPT ![o] = c] /\ conn = [p \in Peers |-> conn[p]]
    BY <1>5, Zenon DEF Opens, Shaped
  <2> HIDE DEF c
  <2>3. ASSUME NEW p \in Peers PROVE InOrder(conn[p])'
    <3>1. conn'[p] = c \/ conn'[p] = conn[p]
      BY <2>2, Zenon
    <3> QED BY <2>1, <3>1, InOrderSame, Zenon
  <2> QED BY <2>3, Zenon
<1>6. ASSUME NEW o \in Peers
      PROVE  /\ IsSeq(conn[o].frames) /\ Len(conn[o].frames) \in Nat /\ Len(conn[o].asked) \in Nat
             /\ \A k \in 1 .. Len(conn[o].frames) : conn[o].frames[k] =
                  IF k <= Len(conn[o].asked) THEN WholeFrame(conn[o].asked[k]) ELSE EndFrame
  <2>1. IsSeq(conn[o].frames) /\ conn[o].asked \in Seq(Nat)
    BY Zenon DEF Exchanges, Exchange, Framed, FramesOK
  <2>2. Len(conn[o].frames) \in Nat /\ Len(conn[o].asked) \in Nat
    BY <2>1 DEF IsSeq
  <2> QED BY <2>1, <2>2, Zenon DEF InOrder
(* One more frame, if it is the one that is due. *)
<1>7. ASSUME NEW o \in Peers, NEW f, NEW state, Writes(o, Append(conn[o].frames, f), state),
             conn[o].state # "none",
             LET k == Len(conn[o].frames) + 1
             IN /\ f = IF k <= Len(conn[o].asked) THEN WholeFrame(conn[o].asked[k]) ELSE EndFrame
                /\ state = "closed" => k = Len(conn[o].asked) + 1
      PROVE  Good
  <2> DEFINE n == Len(conn[o].frames)
             s == Append(conn[o].frames, f)
  <2>1. /\ Continues(o) /\ conn'[o].frames = s /\ conn'[o].state = state
    BY <1>7, WritesContinues, Zenon
  <2>2. conn'[o].asked = conn[o].asked
    BY <2>1 DEF Continues
  <2>3. /\ Len(s) = n + 1
        /\ \A k \in 1 .. n + 1 : s[k] = IF k <= n THEN conn[o].frames[k] ELSE f
    BY <1>6, AppendIsSeq, Zenon
  <2>4. n \in Nat /\ \A k \in 1 .. n + 1 : (k <= n /\ k \in 1 .. n) \/ (~(k <= n) /\ k = n + 1)
    BY <1>6
  <2> HIDE DEF s
  <2>5. ASSUME NEW k \in 1 .. n + 1
        PROVE  s[k] = IF k <= Len(conn[o].asked) THEN WholeFrame(conn[o].asked[k]) ELSE EndFrame
    BY <1>6, <1>7, <2>3, <2>4, Zenon
  <2>6. InOrder(conn'[o])
    <3>1. \A k \in 1 .. Len(s) :
            s[k] = IF k <= Len(conn[o].asked) THEN WholeFrame(conn[o].asked[k]) ELSE EndFrame
      BY <2>3, <2>5, Zenon
    <3>2. state = "closed" => Len(s) = Len(conn[o].asked) + 1
      BY <1>7, <2>3, Zenon
    <3> QED BY <2>1, <2>2, <3>1, <3>2, Zenon DEF InOrder
  <2> QED BY <1>1, <2>1, <2>6
<1>8. ASSUME NEW o \in Peers, WriteFrame(o) PROVE Good
  <2> DEFINE k == Len(conn[o].frames) + 1
             f == WholeFrame(conn[o].asked[k])
  <2>1. /\ conn[o].state # "none" /\ Len(conn[o].frames) < Len(conn[o].asked)
        /\ Writes(o, Append(conn[o].frames, f), "open")
    BY <1>8, Zenon DEF WriteFrame
  <2>2. k <= Len(conn[o].asked)
    BY <1>6, <2>1
  <2> HIDE DEF k
  <2>3. f = IF k <= Len(conn[o].asked) THEN WholeFrame(conn[o].asked[k]) ELSE EndFrame
    BY <2>2
  <2> HIDE DEF f
  <2> QED BY <1>7, <2>1, <2>3, Zenon DEF k
<1>9. ASSUME NEW o \in Peers, WriteEnd(o) PROVE Good
  <2> DEFINE k == Len(conn[o].frames) + 1
  <2>1. /\ conn[o].state # "none" /\ Len(conn[o].frames) = Len(conn[o].asked)
        /\ Writes(o, Append(conn[o].frames, EndFrame), "closed")
    BY <1>9 DEF WriteEnd
  <2>2. ~(k <= Len(conn[o].asked)) /\ k = Len(conn[o].asked) + 1
    BY <1>6, <2>1
  <2> HIDE DEF k
  <2> QED BY <1>7, <2>1, <2>2, Zenon DEF k
<1>10. ASSUME NEW o \in Peers, LoseAnswer(o) PROVE FALSE
  BY <1>10 DEF LoseAnswer, Fault
<1>11. ASSUME NEW o \in Peers, StreamRemoteSpan(o) PROVE Good
  <2>1. CASE UNCHANGED conn
    BY <1>2, <2>1
  <2>2. CASE /\ conn' = [conn EXCEPT ![o] = [conn[o] EXCEPT !.read = conn[o].read + 1]]
             /\ conn[o].read < Len(conn[o].frames)
    <3>0. FramesOK(conn[o])
      BY DEF Framed
    <3>1. conn[o] # NoConn
      BY <2>2 DEF NoConn
    <3>2. /\ Continues(o) /\ conn'[o].frames = conn[o].frames /\ conn'[o].state = conn[o].state
      BY <2>2, <3>1, ReadContinues, Zenon
    <3>3. conn'[o].asked = conn[o].asked
      BY <3>2 DEF Continues
    <3>4. InOrder(conn'[o])
      BY <3>2, <3>3, Zenon DEF InOrder
    <3> QED BY <1>1, <3>2, <3>4
  <2> QED BY <1>11, <2>1, <2>2 DEF StreamRemoteSpan
<1> QED BY <1>2, <1>4, <1>5, <1>8, <1>9, <1>10, <1>11, FrameKinds, Zenon

(* Delivering the whole of a span, with the frame that brought it read, *)
LEMMA DeliverUndisturbed ==
  ASSUME Shaped, Body, Undisturbed, task.pc = "stream", UNCHANGED ring,
         NEW bytes, Deliver(bytes), Len(bytes) = Current.end - Current.start + 1,
         \A o \in Peers : InOrder(conn[o])',
         \A o \in Peers : conn'[o] # NoConn => conn[o] # NoConn /\ conn'[o].asked = conn[o].asked,
         \A o \in Peers : o \in Batched =>
           conn'[o] # NoConn /\ conn'[o].read = Len(BatchUpTo(o)[task.span])
  PROVE  Undisturbed'
<1>1. /\ task'.req = task.req /\ task'.at = task.at /\ task'.spans = task.spans
      /\ task'.span = task.span + 1 /\ client'.over = client.over
      /\ task'.pc = IF task.span = Len(task.spans) THEN "finish" ELSE "stream"
  BY DeliverMoves DEF Moved, Kept
<1>2. /\ Batched' = Batched /\ \A o : BatchUpTo(o)' = BatchUpTo(o) /\ PagesOf(o)' = PagesOf(o)
  BY <1>1, SamePlan
<1>3. task.span \in Nat /\ task'.span - 1 = task.span
  BY <1>1 DEF Shaped, TaskType
<1>4. task'.pc \in {"stream", "finish"} /\ task'.pc # "open"
  BY <1>1
<1>5. ASSUME NEW o \in Peers, conn'[o] # NoConn PROVE conn'[o].asked = PagesOf(o)'
  <2>1. conn[o].asked = PagesOf(o)
    BY <1>5, Zenon DEF Undisturbed, Reading
  <2> QED BY <1>2, <1>5, <2>1, Zenon
<1>6. ASSUME NEW o \in Peers, o \in Batched'
      PROVE  conn'[o] # NoConn /\ conn'[o].read = Len(BatchUpTo(o)'[task'.span - 1])
  BY <1>2, <1>3, <1>6, Zenon
<1>7. task'.pc = "finish" => task'.span = Len(task'.spans) + 1
  BY <1>1
<1>8. client'.over # "cut"
  BY <1>1 DEF Undisturbed
<1> QED BY <1>4, <1>5, <1>6, <1>7, <1>8, Zenon DEF Undisturbed

(* a local span, *)
LEMMA LocalUndisturbed ==
  ASSUME Shaped, Body, Undisturbed, StreamLocalSpan, Deliver(CopySpan(Page(Current.index), Current)),
         \A o \in Peers : InOrder(conn[o])'
  PROVE  Undisturbed'
<1>1. task.pc = "stream" /\ SpanOwner(Current) = Here /\ UNCHANGED <<ring, conn>>
  BY DEF StreamLocalSpan
<1>2. Planned /\ task.span \in 1 .. Len(task.spans)
  BY <1>1 DEF Body, Reading
<1>3. task.req.size \in Nat /\ Len(task.spans) \in Nat /\ SpanFits(Current)
  BY <1>2, PlanFacts DEF Current
<1>4. Len(CopySpan(Page(Current.index), Current)) = Current.end - Current.start + 1
  BY <1>3, CopyWhole
<1>5. ASSUME NEW o \in Peers, o \in Batched
      PROVE  conn'[o] # NoConn /\ conn'[o].read = Len(BatchUpTo(o)[task.span])
  <2>1. SpanOwner(task.spans[task.span]) # o
    BY <1>1, <1>5, Zenon DEF Batched, Current
  <2>2. BatchUpTo(o)[task.span] = BatchUpTo(o)[task.span - 1]
    BY <1>2, <1>3, <2>1, BatchSkips
  <2>3. conn[o] # NoConn /\ conn[o].read = Len(BatchUpTo(o)[task.span - 1])
    BY <1>1, <1>5, Zenon DEF Undisturbed
  <2> QED BY <1>1, <2>2, <2>3, Zenon
<1> HIDE DEF StreamLocalSpan
<1> QED BY <1>1, <1>4, <1>5, DeliverUndisturbed, Zenon

(* and a span of a page owner: its frame is the one that is expected. *)
LEMMA RemoteUndisturbed ==
  ASSUME Shaped, Framed, Body, Exchanges, Undisturbed, NEW o \in Peers, StreamRemoteSpan(o),
         \A p \in Peers : InOrder(conn[p])'
  PROVE  Undisturbed'
<1> DEFINE c == conn[o]
           f == c.frames[c.read + 1]
           n == task.span
<1>1. task.pc = "stream" /\ SpanOwner(Current) = o /\ o # Here /\ UNCHANGED ring
  BY DEF StreamRemoteSpan
<1>2. Planned /\ n \in 1 .. Len(task.spans)
  BY <1>1 DEF Body, Reading
<1>3. task.req.size \in Nat /\ Len(task.spans) \in Nat /\ SpanFits(Current) /\ Ascending
  BY <1>2, PlanFacts, PlannedAscends DEF Current
<1>4. o \in Batched /\ SpanOwner(task.spans[n]) = o
  <2>1. task.spans = [i \in 1 .. Len(task.spans) |-> task.spans[i]]
    BY DEF Shaped, TaskType
  <2>2. DOMAIN task.spans = 1 .. Len(task.spans)
    BY <2>1, Zenon
  <2> QED BY <1>1, <1>2, <2>2, Zenon DEF Batched, Current
<1>5. /\ c # NoConn /\ c.asked = PagesOf(o) /\ c.read = Len(BatchUpTo(o)[n - 1]) /\ InOrder(c)
  BY <1>1, <1>4, Zenon DEF Undisturbed, Reading
<1>6. /\ c.read \in Nat /\ Len(BatchUpTo(o)[n]) = c.read + 1
      /\ c.read < Len(c.asked) /\ c.asked[c.read + 1] = Current.index
  <2>1. /\ Len(BatchUpTo(o)[n - 1]) \in Nat /\ Len(BatchUpTo(o)[n]) = Len(BatchUpTo(o)[n - 1]) + 1
        /\ Len(BatchUpTo(o)[n - 1]) < Len(PagesOf(o))
        /\ PagesOf(o)[Len(BatchUpTo(o)[n - 1]) + 1] = task.spans[n].index
    BY <1>2, <1>3, <1>4, BatchNext
  <2> HIDE DEF c
  <2> QED BY <1>5, <2>1, Zenon DEF Current
<1>7. Len(c.asked) \in Nat /\ Len(c.frames) \in Nat
  <2>1. c.asked \in Seq(Nat) /\ IsSeq(c.frames)
    BY Zenon DEF Exchanges, Exchange, Framed, FramesOK
  <2> QED BY <2>1 DEF IsSeq
<1> HIDE DEF c
<1>8. CASE c.read < Len(c.frames)
  <2>1. c.read + 1 \in 1 .. Len(c.frames) /\ c.read + 1 <= Len(c.asked)
    BY <1>6, <1>7, <1>8
  <2>2. f = WholeFrame(Current.index)
    BY <1>5, <1>6, <2>1, Zenon DEF InOrder
  <2>3. /\ f.type = "page" /\ f.index = Current.index /\ f.payload = Page(Current.index)
        /\ f.size = FrameSize(Current.index, task.req.size)
    <3>1. \A index : LET w == WholeFrame(index)
                     IN /\ w.type = "page" /\ w.index = index /\ w.payload = Page(index)
                        /\ w.size = FrameSize(index, task.req.size)
      BY Zenon DEF WholeFrame, PageFrame
    <3> HIDE DEF f
    <3> QED BY <2>2, <3>1, Zenon
  <2>4. FrameSize(Current.index, task.req.size) <= PageSize
        /\ Len(CopySpan(Page(Current.index), Current)) = Current.end - Current.start + 1
    BY <1>3, CopyWhole
  <2> HIDE DEF f
  <2>5. Expected(c, f)
    BY <1>6, <2>3, <2>4, Zenon DEF Expected
  <2>6. /\ conn' = [conn EXCEPT ![o] = [conn[o] EXCEPT !.read = conn[o].read + 1]]
        /\ Deliver(CopySpan(Page(Current.index), Current))
    BY <1>8, <2>3, <2>5, Zenon DEF StreamRemoteSpan, c, f
  <2>7. Continues(o) /\ conn'[o].read = c.read + 1
    BY <1>5, <2>6, ReadContinues, Zenon DEF c
  <2>8. /\ conn'[o].asked = c.asked /\ \A p \in Peers : p # o => conn'[p] = conn[p]
    BY <2>7, Zenon DEF Continues, c
  <2>9. ASSUME NEW p \in Peers, conn'[p] # NoConn
        PROVE  conn[p] # NoConn /\ conn'[p].asked = conn[p].asked
    BY <1>5, <2>8, <2>9, Zenon DEF c
  <2>10. ASSUME NEW p \in Peers, p \in Batched
         PROVE  conn'[p] # NoConn /\ conn'[p].read = Len(BatchUpTo(p)[n])
    <3>1. CASE p = o
      <4>1. NoConn.read = 0 /\ c.read + 1 # 0
        BY <1>6, ExchangeNone
      <4> QED BY <1>6, <2>7, <3>1, <4>1, Zenon
    <3>2. CASE p # o
      <4>1. BatchUpTo(p)[n] = BatchUpTo(p)[n - 1]
        BY <1>2, <1>3, <1>4, <3>2, BatchSkips
      <4>2. conn[p] # NoConn /\ conn[p].read = Len(BatchUpTo(p)[n - 1])
        BY <1>1, <2>10, Zenon DEF Undisturbed
      <4> QED BY <2>8, <3>2, <4>1, <4>2, Zenon
    <3> QED BY <3>1, <3>2
  <2> QED BY <1>1, <2>4, <2>6, <2>9, <2>10, DeliverUndisturbed, Zenon
<1>9. CASE ~(c.read < Len(c.frames))
  <2>1. c.state = "closed"
    BY <1>9 DEF StreamRemoteSpan, c
  <2>2. Len(c.frames) = Len(c.asked) + 1
    BY <1>5, <2>1, Zenon DEF InOrder
  <2> QED BY <1>6, <1>7, <1>9, <2>2
<1> QED BY <1>8, <1>9

(* Every answer that is waited for at the end has its end frame. *)
LEMMA NoEndMissing ==
  ASSUME Shaped, Framed, Body, Exchanges, Undisturbed, NEW o \in Peers, EndMissing(o)
  PROVE  FALSE
<1> DEFINE c == conn[o]
<1>1. task.pc = "finish" /\ o \in Batched /\ c.state = "closed" /\ ~Ended(c)
  BY DEF EndMissing
<1>2. Len(task.spans) \in Nat
  BY <1>1, PlanFacts DEF Body, Reading
<1>3. /\ c # NoConn /\ c.asked = PagesOf(o) /\ InOrder(c)
      /\ c.read = Len(BatchUpTo(o)[task.span - 1]) /\ task.span = Len(task.spans) + 1
  BY <1>1, Zenon DEF Undisturbed, Reading
<1>4. task.span - 1 = Len(task.spans)
  BY <1>2, <1>3
<1>5. c.read = Len(c.asked)
  BY <1>3, <1>4, Zenon DEF PagesOf
<1>6. Len(c.asked) \in Nat
  <2>1. c.asked \in Seq(Nat)
    BY Zenon DEF Exchanges, Exchange
  <2> QED BY <2>1
<1>7. Len(c.frames) = Len(c.asked) + 1
  BY <1>1, <1>3, Zenon DEF InOrder
<1> HIDE DEF c
<1>8. /\ c.read < Len(c.frames) /\ c.read + 1 \in 1 .. Len(c.frames) /\ ~(c.read + 1 <= Len(c.asked))
  BY <1>5, <1>6, <1>7
<1>9. c.frames[c.read + 1] = EndFrame
  BY <1>3, <1>8, Zenon DEF InOrder
<1> QED BY <1>1, <1>8, <1>9 DEF Ended

(* Every step that loses nothing leaves the read undisturbed. *)
LEMMA UndisturbedStep ==
  ASSUME Shaped, Framed, Body, Quiet, Exchanges, Undisturbed,
         faults \in Nat, UNCHANGED faults, task'.req = task.req, [Next]_vars
  PROVE  Undisturbed'
<1>1. \A o \in Peers : InOrder(conn[o])'
  BY OrderStep, Zenon DEF Undisturbed
<1>2. client.over # "cut"
  BY DEF Undisturbed
<1>3. CASE Passing
  <2>1. client'.over # "cut" /\ task'.pc \notin {"open", "stream", "finish"}
    BY <1>2, <1>3 DEF Passing, Reading
  <2>2. task'.pc \notin {"stream", "finish"} /\ task'.pc # "open" /\ task'.pc # "finish"
    BY <2>1
  <2> QED BY <1>1, <1>3, <2>1, <2>2, Zenon DEF Undisturbed, Passing
<1>4. CASE PlanPages
  <2>1. task.pc = "handle" /\ UNCHANGED <<conn, client>> /\ task'.pc = "open"
    BY <1>4, PlanMoves DEF PlanPages, ReadHere, Unconditional
  <2>2. \A o \in Peers : conn'[o] = NoConn /\ conn'[o].read = 0
    BY <2>1, ExchangeNone DEF Quiet, Reading
  <2>3. task'.pc \notin {"stream", "finish"} /\ task'.pc # "finish"
    BY <2>1
  <2> QED BY <1>1, <1>2, <2>1, <2>2, <2>3, Zenon DEF Undisturbed
<1>5. CASE BeginStream
  <2>1. /\ task.pc = "open" /\ Goto("stream") /\ UNCHANGED <<ring, conn>> /\ Commit
        /\ \A o \in Batched : conn[o] # NoConn
    BY <1>5 DEF BeginStream
  <2>2. client'.over = client.over
    BY <2>1, Zenon DEF Shaped, ClientShape, Commit
  <2>3. /\ task'.pc = "stream" /\ task'.at = task.at /\ task'.spans = task.spans
        /\ task'.span = task.span
    BY <2>1, GotoKeeps DEF Steps, Handled, Reading
  <2>4. /\ Batched' = Batched /\ \A o : BatchUpTo(o)' = BatchUpTo(o) /\ PagesOf(o)' = PagesOf(o)
    BY <2>1, <2>3, SamePlan
  <2>5. task.span = 1 /\ Len(task.spans) \in Nat /\ task'.span - 1 = 0
    BY <2>1, <2>3, PlanFacts DEF Body, Sending, Reading
  <2>6. ASSUME NEW o \in Peers, o \in Batched'
        PROVE  conn'[o] # NoConn /\ conn'[o].read = Len(BatchUpTo(o)'[task'.span - 1])
    <3>1. BatchUpTo(o)[0] = <<>> /\ Len(<<>>) = 0
      BY <2>5, BatchDef
    <3>2. conn[o].read = 0
      BY <2>1, Zenon DEF Undisturbed
    <3> QED BY <2>1, <2>4, <2>5, <2>6, <3>1, <3>2, Zenon
  <2>7. ASSUME NEW o \in Peers, conn'[o] # NoConn PROVE conn'[o].asked = PagesOf(o)'
    BY <2>1, <2>4, <2>7, Zenon DEF Undisturbed, Reading
  <2>8. task'.pc # "open" /\ task'.pc # "finish"
    BY <2>3
  <2> QED BY <1>1, <1>2, <2>2, <2>6, <2>7, <2>8, Zenon DEF Undisturbed
<1>6. ASSUME NEW o \in Peers, OpenBatch(o), Opens(o) PROVE Undisturbed'
  <2> DEFINE new == [state |-> "open", asked |-> PagesOf(o), frames |-> <<>>, read |-> 0]
  <2>1. /\ task.pc = "open" /\ UNCHANGED <<ring, task, client>> /\ conn' = [conn EXCEPT ![o] = new]
        /\ conn = [p \in Peers |-> conn[p]]
    BY <1>6, Zenon DEF OpenBatch, Opens, Shaped
  <2>2. new.asked = PagesOf(o) /\ new.read = 0
    BY Zenon
  <2> HIDE DEF new
  <2>3. \A p : PagesOf(p)' = PagesOf(p)
    BY <2>1, SamePlan
  <2>4. ASSUME NEW p \in Peers
        PROVE  /\ conn'[p] # NoConn => conn'[p].asked = PagesOf(p)'
               /\ conn'[p].read = 0
    <3>1. (p = o /\ conn'[p] = new) \/ conn'[p] = conn[p]
      BY <2>1, Zenon
    <3>2. (conn[p] # NoConn => conn[p].asked = PagesOf(p)) /\ conn[p].read = 0
      BY <2>1, Zenon DEF Undisturbed, Reading
    <3> QED BY <2>2, <2>3, <3>1, <3>2, Zenon
  <2>5. task'.pc = "open" /\ task'.pc \notin {"stream", "finish"} /\ task'.pc # "finish"
    BY <2>1
  <2> QED BY <1>1, <1>2, <2>1, <2>4, <2>5, Zenon DEF Undisturbed
<1>7. ASSUME NEW o \in Peers, WriteFrame(o) \/ WriteEnd(o) PROVE Undisturbed'
  <2>1. /\ UNCHANGED <<ring, task, client>> /\ conn[o].state # "none"
        /\ \E frames : \E state \in {"open", "closed"} : Writes(o, frames, state)
    BY <1>7, Zenon DEF WriteFrame, WriteEnd
  <2>2. PICK frames : \E state \in {"open", "closed"} : Writes(o, frames, state)
    BY <2>1, Zenon
  <2>3. PICK state \in {"open", "closed"} : Writes(o, frames, state)
    BY <2>2, Zenon
  <2>4. Continues(o) /\ conn'[o].read = conn[o].read /\ conn'[o].state = state
    BY <2>1, <2>3, WritesContinues, Zenon
  <2>5. conn[o] # NoConn /\ conn'[o].asked = conn[o].asked /\ \A p \in Peers : p # o => conn'[p] = conn[p]
    BY <2>4, Zenon DEF Continues
  <2>6. conn'[o] # NoConn
    BY <2>4 DEF NoConn
  <2>7. ASSUME NEW p \in Peers
        PROVE  /\ conn'[p] # NoConn <=> conn[p] # NoConn
               /\ conn'[p].asked = conn[p].asked /\ conn'[p].read = conn[p].read
    BY <2>4, <2>5, <2>6, Zenon
  <2>8. /\ Batched' = Batched /\ \A p : BatchUpTo(p)' = BatchUpTo(p) /\ PagesOf(p)' = PagesOf(p)
    BY <2>1, SamePlan
  <2>9. /\ client.over # "cut"
        /\ task.pc \in Reading => \A p \in Peers : conn[p] # NoConn => conn[p].asked = PagesOf(p)
        /\ task.pc = "open" => \A p \in Peers : conn[p].read = 0
        /\ task.pc \in {"stream", "finish"} =>
             \A p \in Peers : p \in Batched =>
               conn[p] # NoConn /\ conn[p].read = Len(BatchUpTo(p)[task.span - 1])
        /\ task.pc = "finish" => task.span = Len(task.spans) + 1
    BY Zenon DEF Undisturbed
  <2>10. task' = task /\ client' = client
    BY <2>1
  <2> QED BY <1>1, <2>7, <2>8, <2>9, <2>10, Zenon DEF Undisturbed
<1>8. CASE UNCHANGED vars
  <2>1. /\ UNCHANGED <<ring, task, conn, client>>
    BY <1>8 DEF vars
  <2>2. /\ Batched' = Batched /\ \A p : BatchUpTo(p)' = BatchUpTo(p) /\ PagesOf(p)' = PagesOf(p)
    BY <2>1, SamePlan
  <2> QED BY <1>1, <2>1, <2>2, Zenon DEF Undisturbed
<1>9. CASE StreamLocalSpan /\ Deliver(CopySpan(Page(Current.index), Current))
  BY <1>1, <1>9, LocalUndisturbed, Zenon
<1>10. ASSUME NEW o \in Peers, StreamRemoteSpan(o) PROVE Undisturbed'
  BY <1>1, <1>10, RemoteUndisturbed, Zenon
<1>11. ASSUME NEW o \in Peers, EndMissing(o) PROVE Undisturbed'
  BY <1>11, NoEndMissing
<1> QED BY <1>3, <1>4, <1>5, <1>6, <1>7, <1>8, <1>9, <1>10, <1>11, HealthyKinds, Zenon

-----------------------------------------------------------------------------
(* The theorems.                                                              *)

Inv == RoutingInv /\ Framed /\ Body

(* Nothing is sent yet. *)
LEMMA InitInv ==
  ASSUME Init
  PROVE  Inv
<1>1. /\ RoutingInv
      /\ task.pc = "route" /\ task.span = 1 /\ client.length = 0 /\ client.out = <<>>
      /\ \A o \in Peers : conn[o] = NoConn
  BY InitRouting
<1>2. Framed
  BY <1>1 DEF Framed, FramesOK, NoConn, IsSeq
<1>3. Body
  BY <1>1 DEF Body, Sending, Reading
<1> QED BY <1>1, <1>2, <1>3 DEF Inv

(* A request is the same from its arrival to its end. *)
LEMMA RequestStays ==
  ASSUME Shaped, [Next]_vars
  PROVE  task'.req = task.req
<1>1. CASE Calm \/ UNCHANGED vars
  BY <1>1 DEF Calm, vars
<1>2. CASE PlanPages
  BY <1>2, PlanMoves DEF Moved, Kept
<1>3. CASE BeginStream \/ FinishBatches \/ ServeCold
  <2>1. \E pc \in Steps : Goto(pc)
    BY <1>3 DEF BeginStream, FinishBatches, ServeCold, Steps, Handled, Reading
  <2> QED BY <2>1, GotoKeeps
<1>4. CASE StreamLocalSpan
  <2>1. task.pc = "stream" /\ UNCHANGED ring /\ \E bytes : Deliver(bytes)
    BY <1>4, Zenon DEF StreamLocalSpan
  <2> QED BY <2>1, DeliverMoves DEF Moved, Kept
<1>5. ASSUME NEW o \in Peers, StreamRemoteSpan(o) PROVE task'.req = task.req
  <2>1. task.pc = "stream" /\ UNCHANGED ring /\ (Cut \/ \E bytes : Deliver(bytes))
    BY <1>5, Zenon DEF StreamRemoteSpan
  <2> QED BY <2>1, DeliverMoves, CutMoves DEF Moved, Kept
<1> QED BY <1>1, <1>2, <1>3, <1>4, <1>5, BodyKinds, Zenon

(* The invariant is inductive. *)
LEMMA NextInv ==
  ASSUME Inv, [Next]_vars
  PROVE  Inv'
<1>1. RoutingInv'
  BY NextRouting DEF Inv
<1>2. Shaped /\ Effected
  BY DEF Inv, RoutingInv
<1>3. task'.req = task.req
  BY <1>2, RequestStays
<1>4. Framed'
  BY <1>2, <1>3, FramedStep DEF Inv
<1>5. Body'
  BY <1>2, BodyStep DEF Inv
<1> QED BY <1>1, <1>4, <1>5 DEF Inv

(* And it holds in every state. *)
LEMMA Invariance == Spec => []Inv
<1>1. Init => Inv
  BY InitInv
<1>2. Inv /\ [Next]_vars => Inv'
  BY NextInv
<1> QED BY <1>1, <1>2, PTL DEF Spec

(* The bytes asked for are counted. *)
INSTANCE FiniteSetTheorems

(* From a beginning of the wanted range to the property. *)
LEMMA BodyHolds ==
  ASSUME Shaped, Body
  PROVE  BodyIsTheRange
<1>1. SUFFICES ASSUME client.length > 0 PROVE BodyIsTheRange
  BY Zenon DEF BodyIsTheRange
<1> DEFINE a == Wanted.start
           b == Wanted.end
<1>2. Started
  BY <1>1 DEF Body
<1>3. task.req \in Requests
  BY DEF Shaped, TaskType
<1>4. RangeOK(Wanted, task.req.size) /\ a .. b = Asked
  BY <1>2, <1>3, WantedRange DEF Started
<1>5. a \in Nat /\ b \in Nat /\ a <= b
  BY <1>4 DEF RangeOK
<1>6. client.length = b - a + 1
  BY <1>2 DEF Started
<1>7. PICK e \in a - 1 .. b : client.out = Positions(a, e) /\ (client.over = "whole" => e = b)
  BY <1>2, Zenon DEF Started
<1> HIDE DEF a, b
<1>8. /\ Len(client.out) = e - a + 1 /\ DOMAIN client.out = 1 .. e - a + 1
      /\ \A k \in 1 .. e - a + 1 : client.out[k] = a + k - 1
  <2>1. a <= e + 1 /\ e \in Int
    BY <1>5
  <2> QED BY <1>5, <1>7, <2>1, PositionsSeq, Zenon
<1>9. client.length = Cardinality(Asked)
  <2>1. Cardinality(a .. b) = IF a > b THEN 0 ELSE b - a + 1
    BY <1>5, FS_Interval
  <2>2. Cardinality(a .. b) = b - a + 1
    BY <1>5, <2>1
  <2> QED BY <1>4, <1>6, <2>2, Zenon
<1>10. ASSUME NEW k \in DOMAIN client.out
       PROVE  client.out[k] \in Asked /\ Cardinality({i \in Asked : i < client.out[k]}) = k - 1
  <2>1. k \in 1 .. e - a + 1 /\ client.out[k] = a + k - 1
    BY <1>8, Zenon
  <2>2. a + k - 1 \in a .. b
    BY <1>5, <2>1
  <2>3. {i \in a .. b : i < a + k - 1} = a .. a + k - 2
    BY <1>5, <2>1
  <2>4. Cardinality(a .. a + k - 2) = k - 1
    <3>1. a + k - 2 \in Int /\ a \in Int
      BY <1>5, <2>1
    <3>2. Cardinality(a .. a + k - 2) = IF a > a + k - 2 THEN 0 ELSE (a + k - 2) - a + 1
      BY <3>1, FS_Interval
    <3> QED BY <1>5, <2>1, <3>2
  <2> QED BY <1>4, <2>1, <2>2, <2>3, <2>4, Zenon
<1>11. client.over = "whole" => Len(client.out) = client.length
  BY <1>5, <1>6, <1>7, <1>8
<1> QED BY <1>9, <1>10, <1>11, Zenon DEF BodyIsTheRange

(* BodyIsTheRange for every object size, page size, Range header, peer list   *)
(* and loss of frames: the bytes a client gets are the beginning of the range *)
(* it asked for, and all of it when the response is whole (ParseRange,        *)
(* PagesForRange, the page frames, copyPageSpan).                             *)
THEOREM BodyTheorem == Spec => []BodyIsTheRange
<1>1. Inv => BodyIsTheRange
  BY BodyHolds DEF Inv, RoutingInv
<1> QED BY <1>1, Invariance, PTL

(* BatchesAgreed for every set of peers, object size and page size: a page    *)
(* owner with the coordinator's ring never refuses its batch                  *)
(* (groupCoordinatorPageBatches, validateInternalPageReadRequest).            *)
THEOREM BatchesTheorem == Spec => []BatchesAgreed
<1>1. Inv => BatchesAgreed
  BY BatchesHold DEF Inv, RoutingInv
<1> QED BY <1>1, Invariance, PTL
=============================================================================
