----------------------------- MODULE RangePlan -----------------------------
(* The arithmetic of a range read, internal/cacheplan/range.go: which bytes a *)
(* Range header asks for, and which span of which page each of them comes     *)
(* from.  A header is a record: its kind is the form the text has, its        *)
(* numbers are the ones it names.  Sizes are integers without a width: a page *)
(* that starts inside the object ends below its size plus one page, far from  *)
(* the 2^63 of the code.                                                      *)
EXTENDS Integers, Sequences

CONSTANT PageSize

\* A page size that is not positive is refused when the configuration is read.
ASSUME PageSizeAssumption == PageSize \in Nat \ {0}

NoHeader == [kind |-> "none", first |-> 0, last |-> 0]
Span(m, n) == [kind |-> "span", first |-> m, last |-> n]
From(m) == [kind |-> "from", first |-> m, last |-> 0]
Suffix(n) == [kind |-> "suffix", first |-> 0, last |-> n]

\* Another unit, several ranges, or text that is no number.
Malformed == [kind |-> "malformed", first |-> 0, last |-> 0]

HeaderType ==
  [kind : {"none", "span", "from", "suffix", "malformed"}, first : Nat, last : Nat]

\* What a header that cannot be satisfied parses to: the error of ParseRange.
Unsatisfied == [start |-> 0, end |-> -1]

\* ParseRange and parseSuffixRange: the first and last byte of an object of
\* the given size, or Unsatisfied.
ParseRange(h, size) ==
  CASE h.kind = "suffix" /\ 0 < size /\ 0 < h.last ->
         [start |-> IF h.last >= size THEN 0 ELSE size - h.last, end |-> size - 1]
    [] h.kind = "from" /\ h.first < size -> [start |-> h.first, end |-> size - 1]
    [] h.kind = "span" /\ h.first < size /\ h.first <= h.last ->
         [start |-> h.first, end |-> IF h.last >= size THEN size - 1 ELSE h.last]
    [] OTHER -> Unsatisfied

Smaller(m, n) == IF m < n THEN m ELSE n
Larger(m, n) == IF m > n THEN m ELSE n

\* Mutant of PageSpan: the first span begins with its page.
PageSpanFromStart(index, start, end) ==
  [index |-> index,
   start |-> index * PageSize,
   end |-> Smaller(end, index * PageSize + PageSize - 1)]

\* One page of PagesForRange: the part of page index that lies in [start, end].
PageSpan(index, start, end) ==
  [index |-> index,
   start |-> Larger(start, index * PageSize),
   end |-> Smaller(end, index * PageSize + PageSize - 1)]

\* The spans of a range, in the order of their pages.
PagesForRange(r) ==
  LET first == r.start \div PageSize
      last == r.end \div PageSize
  IN [i \in 1 .. last - first + 1 |-> PageSpan(first + i - 1, r.start, r.end)]

\* Mutant of HasPage: the last page has to be a whole one.
HasWholePage(index, size) == 0 <= index /\ 0 < size /\ index * PageSize + PageSize <= size

\* PageBounds accepts an index when its page starts inside the object.
HasPage(index, size) == 0 <= index /\ 0 < size /\ index * PageSize < size

\* The bytes of a page of an object of the given size; the last one is short.
PageBounds(index, size) ==
  [index |-> index, start |-> index * PageSize,
   end |-> Smaller(index * PageSize + PageSize - 1, size - 1)]

\* internalPageFrameSize: how many bytes the frame of a page carries.
FrameSize(index, size) ==
  PageBounds(index, size).end - PageBounds(index, size).start + 1

\* pageCountForObject.
PageCount(size) == IF size <= 0 THEN 0 ELSE (size + PageSize - 1) \div PageSize
=============================================================================
