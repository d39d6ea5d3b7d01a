------------------------------ MODULE MCInbox ------------------------------
(* Instances of Inbox for TLC.                                             *)
EXTENDS InboxProps

CONSTANTS m1, m2, p1, c1, l1, s1

TwoMessages == {m1, m2}
OnePeer == {p1}
OneConsumer == {c1}
OneListener == {l1}
OneSession == {s1}
Times == 1..2

\* m2 carries the older timestamp, and may be stored after m1.
SentBy == [m \in TwoMessages |-> p1]
Timestamps == [m \in TwoMessages |-> IF m = m1 THEN 2 ELSE 1]
AllPeers == [c \in OneConsumer |-> OnePeer]

AllFaults == InboxFaults
NoMessages == {}
=============================================================================
