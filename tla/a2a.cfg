\* One listener that dies and is started again, every fault; a batch has room for
\* every row.
SPECIFICATION FairSpec
CONSTANTS
    m1 = m1  m2 = m2  l1 = l1
    Message <- TwoMessages
    Malformed <- FirstMalformed
    Listener <- OneListener
    BatchSize = 2
    MaxRetries = 2
    Faults <- AllFaults
    NoMessage = NoMessage
INVARIANTS TypeOK SentWasPublished
PROPERTIES EveryRowGetsItsRetries ImplementsAtLeastOnce
