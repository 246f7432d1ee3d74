SPECIFICATION FairAwait
CONSTANTS
    Handle = {h1, h2, f1}
    Fut = {f1}
    Exits = FALSE
    Thread = {t1}
    Watcher = {w1}
    Delays = {1}
    Instants = {}
    MaxTime = 1
    MaxDuration = 50
    Nobody = Nobody
    Never = Never
INVARIANTS StopsNobodyElse
PROPERTIES WorkServed StopStops
CHECK_DEADLOCK FALSE
