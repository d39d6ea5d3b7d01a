\* One listener, every fault but a send of unknown outcome.
SPECIFICATION Spec
CONSTANTS
    m1 = m1  m2 = m2
    c1 = c1  l1 = l1
    Message <- TwoMessages
    Consumer <- OneConsumer
    Listener <- OneListener
    BatchSize = 2
    Faults <- KnownOutcomes
    NoMessage = NoMessage
INVARIANTS AtMostOncePush
PROPERTIES ImplementsPushOnce
