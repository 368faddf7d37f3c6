SPECIFICATION FairSpec
CONSTANTS
    None = None
    a = a  b = b  c = c  r1 = r1  r2 = r2
    Peers = {a, b, c}
    Indexes = {0, 1, 2}
    Owner <- MCOwner
    Small = {2}
    Readers = {r1, r2}
    Requests <- MCRequests
    PeerLimit = 2
    ObjectLimit = 1
    MaxFaults = 1
INVARIANTS TypeOK PermitsAccounted WaitersHaveLeader OneFillPerPage
PROPERTY ReadsFinish
CHECK_DEADLOCK FALSE
