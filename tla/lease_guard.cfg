\* Everything but a heartbeat may fail.
SPECIFICATION Spec
CONSTANTS
    a = a  b = b
    Instance <- TwoInstances
    Nobody = Nobody
    Base = Base
    MaxEpoch = 3
    HonourForce = FALSE
    Manager = "always"
    Faults <- Answered
INVARIANTS StealsAtMostOnce
 
\* The system stops when the epochs up to MaxEpoch are used up.
CHECK_DEADLOCK FALSE
