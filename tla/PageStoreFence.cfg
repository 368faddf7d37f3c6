SPECIFICATION Spec
CONSTANTS
    None = None
    v1 = v1  v2 = v2
    p1 = p1  p2 = p2  f1 = f1  f2 = f2  f3 = f3  f4 = f4
    r1 = r1  i1 = i1  i2 = i2
    ETags <- MCETags
    PageLen <- MCPageLen
    Indexes = {0}
    MaxSize = 2
    BatchSize = 2
    Putters = {p1, p2}
    Fillers = {f1, f2}
    Readers = {}
    Invalidators = {i1, i2}
    MinEpochs = {0, 1, 2}
    GenerationGC = TRUE
    Restarts = TRUE
    FileFaults = FALSE
SYMMETRY MCSymmetry
INVARIANTS PagesFenced NoResurrection EpochsReached
CHECK_DEADLOCK FALSE
