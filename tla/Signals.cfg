SPECIFICATION Spec
CONSTANTS
    Sig = {s1}
PROPERTIES SignalServed
CHECK_DEADLOCK FALSE
