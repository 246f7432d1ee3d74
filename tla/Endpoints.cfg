SPECIFICATION Spec
CONSTANTS
    N = 3
    Peers = 2
    MaxErrors = 1
    Backlog = 1
    FreeFds = {2, 3}
    MaxTimers = 2
INVARIANTS
    MadeThenLost ReaderIsOpen FailedIsClosed
    SocketsAccounted ClosedStaysClosed WaitedOut
PROPERTIES
    CallEnds Accepted WaitReturns
CHECK_DEADLOCK FALSE
