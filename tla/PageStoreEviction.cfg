SPECIFICATION FairSpec
CONSTANTS
    None = None
    v1 = v1  v2 = v2
    p1 = p1  p2 = p2  f1 = f1  f2 = f2  f3 = f3  f4 = f4
    r1 = r1  i1 = i1  i2 = i2
    ETags <- MCETags
    PageLen <- MCSameLen
    Indexes = {0, 1}
    MaxSize = 1
    BatchSize = 2
    Putters = {p1}
    Fillers = {f1, f2}
    Readers = {r1}
    Invalidators = {}
    MinEpochs = {0}
    GenerationGC = TRUE
    Restarts = TRUE
    FileFaults = TRUE
PROPERTY OverLimitIsEvicted
CHECK_DEADLOCK FALSE
