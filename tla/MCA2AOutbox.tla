---------------------------- MODULE MCA2AOutbox ----------------------------
(* Instances of A2AOutbox for TLC.                                         *)
EXTENDS A2AOutboxProps

CONSTANTS m1, m2, l1

TwoMessages == {m1, m2}
FirstMalformed == {m1}
OneListener == {l1}

AllFaults == FaultKinds
=============================================================================
