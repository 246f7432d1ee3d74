SPECIFICATION FairSpec
CONSTANTS
    f1 = f1
    r1 = r1
    r2 = r2
    Fd = {f1}
    Reg = {r1, r2}
    None = None
INVARIANTS RegistryAgrees OneOutstanding SpuriousBounded
PROPERTIES RunsRegistered LevelTriggered AbortedReleased
CHECK_DEADLOCK FALSE
