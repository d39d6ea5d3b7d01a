\* Connections come and go, and the lease is taken over.
SPECIFICATION FairSpec
CONSTANTS
    a = a  b = b
    Instance <- TwoInstances
    Nobody = Nobody
    Base = Base
    MaxEpoch = 2
    HonourForce = FALSE
    Manager = "always"
    Faults <- NetworkOnly
PROPERTIES LeaderServes DisplacedLeaves ContentionEnds
\* The system stops when the epochs up to MaxEpoch are used up.
CHECK_DEADLOCK FALSE
