SPECIFICATION FairSpec
CONSTANTS
    Sockets = {"stream", "datagram"}
    Sizes = {1, 3}
    Lines <- TwoPieces
    Reentrant = {"write", "writelines", "write_eof", "cancel", "close", "abort"}
    Parting = {"write_eof", "cancel", "close", "abort"}
    Connected = FALSE
    Failing = TRUE
    Low = 1
    High = 2
    MaxWritten = 9
    MaxDepth = 4
INVARIANTS InOrder WriterIffUnsent LostOnce
PROPERTIES CloseCompletes ResumeComes
CHECK_DEADLOCK FALSE
