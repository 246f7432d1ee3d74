SPECIFICATION FairSpec
CONSTANTS
    Job = {read, other}
    Read = read
    Shut = shut
    FileSize = 4
    Block = 2
    Offsets = {1}
    Counts = {0, 2}
    High = 1
    Low = 0
    Callees = {"sock", "transport"}
INVARIANTS
    JoinedIsQuiet ThreadNeverSpurious
    SockSentInOrder LeftInOrder
PROPERTIES
    ShutdownEnds SendfileEnds
CHECK_DEADLOCK FALSE
