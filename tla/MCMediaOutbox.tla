--------------------------- MODULE MCMediaOutbox ---------------------------
(* Instances of MediaOutbox for TLC.                                       *)
EXTENDS MediaOutboxProps

CONSTANTS e1, e2, c1, c2, l1

TwoEvents == {e1, e2}
TwoConsumers == {c1, c2}
OneListener == {l1}

AllFaults == FaultKinds
=============================================================================
