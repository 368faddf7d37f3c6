SPECIFICATION Spec
CONSTANTS
    None = None
    v1 = v1  v2 = v2  p1 = p1  p2 = p2  r1 = r1  r2 = r2  w1 = w1  w2 = w2  w3 = w3
    ETags = {v1, v2}
    Peers = {p1, p2}
    Indexes = {0, 1}
    PageOwner <- MCTwoOwners
    ObjectOwner = p1
    Readers = {r1, r2}
    Requests <- MCRequests
    Writers = {w1}
    Restarts = {"kept", "empty"}
    Again = FALSE
    MaxFaults = 1
INVARIANTS TypeOK FreshWhileLed OneVersionUnlessSwapped PagesAtOwners
SYMMETRY MCSymmetry
CHECK_DEADLOCK FALSE
