SPECIFICATION Spec
CONSTANTS
    Job = {read, other}
    Read = read
    Shut = shut
    FileSize = 4
    Block = 2
    Offsets = {1}
    Counts = {0, 2}
    High = 1
    Low = 0
    Callees = {"transport"}
INVARIANTS SentInOrder
CHECK_DEADLOCK FALSE
