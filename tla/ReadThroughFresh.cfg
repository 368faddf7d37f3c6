SPECIFICATION Spec
CONSTANTS
    None = None
    v1 = v1  v2 = v2  r1 = r1  r2 = r2  w1 = w1  w2 = w2
    ETags <- MCETags
    PageCount <- MCPageCount
    Requests <- MCRequests
    Indexes = {0, 1}
    Readers = {r1, r2}
    Writers = {w1}
    LostAnswers = TRUE
    Faults = TRUE
INVARIANTS TypeOK BodyIsFresh ResponseIsOneVersion CachedPagesCurrent
PROPERTY ReadsAreFresh
SYMMETRY MCSymmetry
CHECK_DEADLOCK FALSE
