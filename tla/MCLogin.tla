------------------------------ MODULE MCLogin ------------------------------
(* Instances of Login for TLC.                                             *)
EXTENDS LoginProps

CONSTANTS c1, l1, p1, p2, a1

PullAndLogin == {c1, l1}
OneLogin == {l1}
OnePull == {c1}
NoLogin == {}
TwoProcs == {p1, p2}
OneAgent == {a1}

AllFaults == FaultKinds
NoFault == {}
=============================================================================
