\* Two processes bind sessions to one peer; nothing fails.
SPECIFICATION SessionSpec
CONSTANTS
    p1 = p1  b1 = b1  b2 = b2  s1 = s1  s2 = s2
    Peer <- OnePeer
    Binder <- TwoBinders
    Session <- TwoSessions
    Time <- Times
    Faults <- NoFaults
    NoPeer = NoPeer
    NoSession = NoSession
PROPERTIES BindingNeverAges
