------------------------------ MODULE Handover ------------------------------
(***************************************************************************)
(* What a caller of the OpenClaw client may rely on, attempt by attempt:   *)
(* "ok" means that the message was taken; "error" means that it was not;   *)
(* and nothing is taken twice, or after the report.  All of this but the   *)
(* first is off for an attempt in doubt, one that was given up without     *)
(* knowing what became of the message.  The outboxes call a send in this   *)
(* sense when they mark a row SENT or retry it.                            *)
(***************************************************************************)
EXTENDS Naturals

CONSTANT MaxAttempts

VARIABLES
    begun,    \* attempts begun, one after the other
    once,     \* attempts whose message was taken
    twice,    \* attempts whose message was taken more than once
    doubt,    \* attempts that were given up without knowing
    report    \* what each attempt has reported

hvars == <<begun, once, twice, doubt, report>>

Attempts == 1..MaxAttempts

HInit ==
    /\ begun = 0
    /\ once = {} /\ twice = {} /\ doubt = {}
    /\ report = [n \in Attempts |-> "none"]

\* An attempt begins when the one before it has reported.
HBegin ==
    /\ begun < MaxAttempts
    /\ begun > 0 => report[begun] # "none"
    /\ begun' = begun + 1
    /\ UNCHANGED <<once, twice, doubt, report>>

\* n is in doubt from now on.
Doubts(n) ==
    \/ UNCHANGED doubt
    \/ report[n] = "none" /\ doubt' = doubt \union {n}

\* A copy of n is taken: the first, before the report, or any copy in doubt.
Takes(n) ==
    \/ UNCHANGED <<once, twice>>
    \/ /\ n \notin once /\ (report[n] = "none" \/ n \in doubt)
       /\ once' = once \union {n} /\ UNCHANGED twice
    \/ /\ n \in once /\ n \in doubt'
       /\ twice' = twice \union {n} /\ UNCHANGED once

\* The last attempt reports what is known of it.
Reports(n) ==
    \/ UNCHANGED report
    \/ /\ n = begun /\ report[n] = "none"
       /\ \/ n \in once' /\ report' = [report EXCEPT ![n] = "ok"]
          \/ (n \in once' => n \in doubt') /\ report' = [report EXCEPT ![n] = "error"]

HNext ==
    \/ HBegin
    \/ \E n \in 1..begun : Doubts(n) /\ Takes(n) /\ Reports(n) /\ UNCHANGED begun

HSpec == HInit /\ [][HNext]_hvars

=============================================================================
