\* One listener, every fault and OpenClaw's consumer, which resumes from its cursor;
\* the messages of the peer may arrive in the wrong order.
SPECIFICATION FairSpec
CONSTANTS
    m1 = m1  m2 = m2  p1 = p1  c1 = c1  l1 = l1  s1 = s1
    Message <- TwoMessages
    Peer <- OnePeer
    Sender <- SentBy
    MsgTs <- Timestamps
    Malformed <- NoMessages
    Listener <- OneListener
    Consumer <- OneConsumer
    Binder <- OneConsumer
    OpenClaw <- OneConsumer
    Resumes <- OneConsumer
    Wants <- AllPeers
    Session <- OneSession
    Time <- Times
    Limit = 1
    Faults <- AllFaults
    NoMessage = NoMessage
    NoPeer = NoPeer
    NoSession = NoSession
INVARIANTS TypeOK AnsweredIsStored CursorSkipsNothing HandedOnce HandedHasRoute
PROPERTIES BindingNeverAges EverySeen
