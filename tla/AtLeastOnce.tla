---------------------------- MODULE AtLeastOnce ----------------------------
(***************************************************************************)
(* What an outbox with retries promises: a message may be given to its     *)
(* receiver again and again while it waits, it is settled only after it    *)
(* has been given at least once, and then it is never given again.  A      *)
(* message may also be dropped, after which nothing happens to it either.  *)
(***************************************************************************)
EXTENDS Naturals

CONSTANTS
    Message,
    MaxGiven  \* the counters of given saturate here

VARIABLES
    waiting,  \* messages in the outbox
    given,    \* how often each message has been given to its receiver
    settled,  \* messages the outbox has delivered
    dropped   \* messages the outbox has given up

ovars == <<waiting, given, settled, dropped>>

OInit ==
    /\ waiting = {}
    /\ given = [m \in Message |-> 0]
    /\ settled = {}
    /\ dropped = {}

Accept(m) ==
    /\ m \notin waiting \cup settled \cup dropped
    /\ waiting' = waiting \cup {m}
    /\ UNCHANGED <<given, settled, dropped>>

Give(m) ==
    /\ m \in waiting
    /\ given[m] < MaxGiven
    /\ given' = [given EXCEPT ![m] = @ + 1]
    /\ UNCHANGED <<waiting, settled, dropped>>

Settle(m) ==
    /\ m \in waiting
    /\ given[m] > 0
    /\ waiting' = waiting \ {m}
    /\ settled' = settled \cup {m}
    /\ UNCHANGED <<given, dropped>>

Drop(m) ==
    /\ m \in waiting
    /\ waiting' = waiting \ {m}
    /\ dropped' = dropped \cup {m}
    /\ UNCHANGED <<given, settled>>

ONext == \E m \in Message : Accept(m) \/ Give(m) \/ Settle(m) \/ Drop(m)

OSpec == OInit /\ [][ONext]_ovars

=============================================================================
