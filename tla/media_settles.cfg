\* One listener, every fault; two consumers may ask for one event.
SPECIFICATION FairSpec
CONSTANTS
    e1 = e1  e2 = e2  c1 = c1  c2 = c2  l1 = l1
    Event <- TwoEvents
    Consumer <- TwoConsumers
    Listener <- OneListener
    BatchSize = 1
    MaxRetries = 2
    MaxDelivered = 1
    Faults <- AllFaults
    NoEvent = NoEvent
INVARIANTS TypeOK FailedUsedItsRetries
PROPERTIES ImplementsAtLeastOnce EveryRowSettles
