SPECIFICATION FairSpec
CONSTANTS
    None = None
    Peers = {p1, p2}
    Targets = {t1}
    Handlers = {h1, h2}
    RetryLimit = 1
INVARIANTS TypeOK MissesAreQueued EntriesHaveWorker ReadyIsConfirmed
PROPERTIES MissesAreRetried ReadinessRecovers
CHECK_DEADLOCK FALSE
