-------------------------- MODULE MCListenerLease --------------------------
(* Instances of ListenerLease for TLC.                                     *)
EXTENDS ListenerLeaseProps

CONSTANTS a, b

TwoInstances == {a, b}

\* A heartbeat is always answered.
Answered == FaultKinds \ {"heartbeat"}
NetworkOnly == {"connection"}
=============================================================================
