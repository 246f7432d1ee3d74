SPECIFICATION Spec
CONSTANTS
    Initial = {"stream", "buffered", "datagram"}
    Switches = {"stream", "buffered"}
    Failing = TRUE
    Escaping = FALSE
    Quantum = 2
    MaxSent = 3
    MaxQueued = 6
    MaxDepth = 3
    Eof = Eof
    Err = Err
    Ready = Ready
INVARIANTS NothingLost
PROPERTIES ImplementsStream
CHECK_DEADLOCK FALSE
