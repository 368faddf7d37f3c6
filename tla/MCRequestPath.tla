---------------------------- MODULE MCRequestPath ----------------------------
EXTENDS RequestPath

MCRings == {{1, 2, 3}, {1, 2}}

\* Two peers are equally good owners of the first page.
MCScore == [p \in {1, 2, 3} |-> [key \in 0 .. 3 |->
              CASE key = 0 -> IF p = 2 THEN 9 ELSE p
                [] key = 1 -> IF p = 3 THEN 1 ELSE 5
                [] key = 2 -> p
                [] key = 3 -> 9 - p]]

Free == [ifMatch |-> "absent", ifUnmodifiedSince |-> "absent",
         ifNoneMatch |-> "absent", ifModifiedSince |-> "absent"]

Request(method, query, h) ==
  [method |-> method, object |-> TRUE, query |-> query, ssec |-> FALSE, copy |-> FALSE,
   range |-> h, cond |-> Free, size |-> 3]

Headers ==
  {Span(m, n) : m \in 0 .. 5, n \in 0 .. 6} \cup {From(m) : m \in 0 .. 5}
    \cup {Suffix(n) : n \in 0 .. 6} \cup {Malformed}

Reads == {[Request("GET", {}, h) EXCEPT !.size = size] :
            h \in Headers \cup {NoHeader}, size \in {0, 1, 3, 4, 5}}

Queries == SUBSET {"uploadId", "partNumber", "other"} \cup {Marker}

Others ==
  {[Request(method, query, h) EXCEPT !.copy = copy, !.ssec = ssec, !.object = object] :
     method \in {"GET", "HEAD", "PUT", "POST", "DELETE"}, query \in Queries,
     h \in {NoHeader, Span(0, 0)}, copy \in BOOLEAN, ssec \in BOOLEAN, object \in BOOLEAN}

Tags == {"absent", "holds", "fails"}
Dates == Tags \cup {"unreadable"}

Conditionals ==
  {[Request(method, {}, NoHeader) EXCEPT !.cond = c] :
     method \in {"GET", "HEAD"},
     c \in [ifMatch : Tags, ifUnmodifiedSince : Dates, ifNoneMatch : Tags, ifModifiedSince : Dates]}

MCRequests == Reads \cup Others \cup Conditionals
==============================================================================
