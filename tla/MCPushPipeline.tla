--------------------------- MODULE MCPushPipeline ---------------------------
(* Instances of PushPipeline for TLC.                                      *)
EXTENDS PushPipelineProps

CONSTANTS m1, m2, c1, l1

TwoMessages == {m1, m2}
OneConsumer == {c1}
OneListener == {l1}

\* Everything that may go wrong short of a send whose outcome is unknown.
KnownOutcomes == FaultKinds \ {"unsure"}

\* The failures that pass: no process dies and no statement fails.
Transient == {"session", "deadline", "refused", "unsure"}
=============================================================================
