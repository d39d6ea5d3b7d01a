--------------------------- MODULE MCPeerSession ---------------------------
(* Instances of PeerSession for TLC.                                       *)
EXTENDS PeerSession

CONSTANTS p1, b1, b2, s1, s2

OnePeer == {p1}
TwoBinders == {b1, b2}
TwoSessions == {s1, s2}
Times == 1..2
NoFaults == {}
=============================================================================
