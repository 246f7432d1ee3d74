SPECIFICATION FairSpec
CONSTANTS
    Initial = {"datagram"}
    Switches = {}
    Failing = TRUE
    Escaping = FALSE
    Quantum = 2
    MaxSent = 2
    MaxQueued = 6
    MaxDepth = 3
    Eof = Eof
    Err = Err
    Ready = Ready
PROPERTIES DatagramFlows
CHECK_DEADLOCK FALSE
