\* One listener, failures that pass: every message gets through.
SPECIFICATION FairSpec
CONSTANTS
    m1 = m1  m2 = m2
    c1 = c1  l1 = l1
    Message <- TwoMessages
    Consumer <- OneConsumer
    Listener <- OneListener
    BatchSize = 1
    Faults <- Transient
    NoMessage = NoMessage
INVARIANTS AckedWasPushed
PROPERTIES EveryRowSettles EventuallyPushed AckedEndsConsumed
