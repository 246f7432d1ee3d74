SPECIFICATION FairSpec
CONSTANTS
    Task = {t1, t2}
    Fut = {f1, f2, f3}
    None = None
    Size = 2
    Buffer = 1
    Retries = 2
INVARIANTS PendingWatched WatchEnds SendsAll
PROPERTIES EveryOpEnds
