------------------------------ MODULE PushOnce ------------------------------
(***************************************************************************)
(* What the push path promises, without tables, flushes or processes: a    *)
(* message accepted for push is shown to the OpenClaw session at most      *)
(* once, and once it is settled it is never shown again.                   *)
(*                                                                         *)
(* The promise is at-most-once.  A message may be settled without having   *)
(* been shown: that is what a crash between the in-flight mark and the     *)
(* send leads to (see PushPipeline).                                       *)
(***************************************************************************)
EXTENDS Naturals

CONSTANT Message

VARIABLES
    waiting,  \* messages accepted for push and not settled
    shown,    \* how often the session has been given each message
    settled   \* messages the push path is done with

pvars == <<waiting, shown, settled>>

PInit ==
    /\ waiting = {}
    /\ shown = [m \in Message |-> 0]
    /\ settled = {}

Accept(m) ==
    /\ m \notin waiting \cup settled
    /\ waiting' = waiting \cup {m}
    /\ UNCHANGED <<shown, settled>>

Show(m) ==
    /\ m \in waiting
    /\ shown[m] = 0
    /\ shown' = [shown EXCEPT ![m] = 1]
    /\ UNCHANGED <<waiting, settled>>

Settle(m) ==
    /\ m \in waiting
    /\ waiting' = waiting \ {m}
    /\ settled' = settled \cup {m}
    /\ UNCHANGED shown

PNext == \E m \in Message : Accept(m) \/ Show(m) \/ Settle(m)

PSpec == PInit /\ [][PNext]_pvars

=============================================================================
