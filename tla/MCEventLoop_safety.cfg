SPECIFICATION Spec
CONSTANTS
    h1 = h1
    h2 = h2
    h3 = h3
    t1 = t1
    t2 = t2
    w1 = w1
    Handle = {h1, h2, h3}
    Thread = {t1, t2}
    Watcher = {w1}
    Delays = {1, 100}
    Instants = {0}
    MaxTime = 1
    MaxDuration = 50
    Nobody = Nobody
    Never = Never
SYMMETRY Interchangeable
INVARIANTS TypeOK SleepsOnlyWhenIdle SnapshotOnly ClosedIsDrained
CHECK_DEADLOCK FALSE
