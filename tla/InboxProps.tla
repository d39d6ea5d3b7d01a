----------------------------- MODULE InboxProps -----------------------------
(***************************************************************************)
(* What is claimed of the inbox.                                           *)
(***************************************************************************)
EXTENDS Inbox

\* A message is acknowledged to the broker only when it is in message_event, or
\* was refused, or its insert failed: no crash between the two loses one.
AnsweredIsStored == \A m \in Message : broker[m] = "answered" => Stored(m) \/ m \in dropped

\* A cursor passes over nothing: what lies at or below the cursor of a consumer
\* was printed to it or acked by it, though messages arrive while it pulls, and
\* pulls die and are repeated.
CursorSkipsNothing ==
    \A c \in Consumer, m \in Message :
        seq[m] \in 1..cursor[c] /\ Sender[m] \in Wants[c] =>
            <<c, m>> \in handed \/ <<c, m>> \in acked

\* A consumer that passes its cursor on is never handed a message twice, however
\* often the broker or the peer repeats it.
HandedOnce ==
    \A c \in Resumes, m \in Message :
        doing[c] = "pull" /\ m \in got[c] => <<c, m>> \notin handed

\* What a pull for OpenClaw has printed has a route for its answer, at least as
\* new as the message, unless a binding of it failed.
HandedHasRoute ==
    \A c \in OpenClaw, m \in Message :
        <<c, m>> \in handed => m \in unbound \/ route[Sender[m]].at >= MsgTs[m]

\* Every message the broker holds is dropped, or every consumer that wants it and
\* passes its cursor on is handed it or has acked it: repeated deliveries, crashes,
\* dying pulls and small limits starve none.
EverySeen ==
    \A m \in Message, c \in Resumes :
        broker[m] = "owed" /\ Sender[m] \in Wants[c]
            ~> m \in dropped \/ <<c, m>> \in handed \/ <<c, m>> \in acked

(***************************************************************************)
(* Fairness.  Agents pull (weak fairness).  The broker gets to every       *)
(* message, and once in a while a listener lives long enough to answer for *)
(* it and a command long enough to bind and to print (strong fairness).    *)
(***************************************************************************)
Fairness ==
    /\ \A l \in Listener, m \in Message :
        SF_vars(Deliver(l, m)) /\ SF_vars(Handle(l, m))
    /\ \A c \in Consumer :
        WF_vars(Pull(c)) /\ SF_vars(CommandStep(c)) /\ SF_vars(PrintEvents(c))

FairSpec == Spec /\ Fairness

=============================================================================
