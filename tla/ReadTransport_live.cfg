SPECIFICATION FairSpec
CONSTANTS
    Initial = {"stream", "buffered", "datagram"}
    Switches = {"stream"}
    Failing = TRUE
    Escaping = TRUE
    Quantum = 2
    MaxSent = 3
    MaxQueued = 4
    MaxDepth = 2
    Eof = Eof
    Err = Err
    Ready = Ready
PROPERTIES StreamFlows
CHECK_DEADLOCK FALSE
