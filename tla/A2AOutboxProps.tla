--------------------------- MODULE A2AOutboxProps ---------------------------
(***************************************************************************)
(* What is claimed of the outbound queue.                                  *)
(***************************************************************************)
EXTENDS A2AOutbox

\* A row is SENT only if the broker got its message: no crash, failing mark or
\* second flush of the same rows settles a message that never went out.
SentWasPublished == \A m \in Message : status[m] = "SENT" => published[m] > 0

\* The abstract contract: what is PENDING or RETRY waits, what is SENT is
\* settled, and nothing is ever dropped.
Contract == INSTANCE AtLeastOnce WITH
    MaxGiven <- MaxPublished,
    waiting <- {m \in Message : status[m] \in {"PENDING", "RETRY"}},
    given <- published,
    settled <- {m \in Message : status[m] = "SENT"},
    dropped <- {}

\* Every step of the queue is a step of AtLeastOnce or leaves its view alone: a
\* message is published only while its row waits, never once it is SENT.
ImplementsAtLeastOnce == Contract!OSpec

\* Every row is published or uses up its retries: no row is left behind while
\* rows before it fail, are malformed or run out of retries, as long as the
\* rows out of retries do not fill a whole batch.
EveryRowGetsItsRetries ==
    \A m \in Message :
        status[m] # "none" ~> published[m] > 0 \/ attempt[m] = MaxRetries

(***************************************************************************)
(* Fairness.  A live listener keeps flushing, a stopped one is started     *)
(* again and backoffs pass (weak fairness).  The failures are transient: a *)
(* listener that is started for ever lives to read the queue, a row whose  *)
(* turn comes for ever is handled before the deadline, and a publish or a  *)
(* mark that is tried for ever succeeds, once in a while (strong fairness).*)
(***************************************************************************)
Fairness ==
    /\ \A l \in Listener : WF_vars(Start(l)) /\ WF_vars(FlushStep(l))
    /\ \A m \in Message : WF_vars(BackoffElapses(m))
    /\ \A l \in Listener : SF_vars(BeginFlush(l))
    /\ \A l \in Listener, m \in Message :
        /\ SF_vars(SkipExhausted(l, m))
        /\ SF_vars(RejectEnvelope(l, m))
        /\ SF_vars(PublishOk(l, m))
        /\ SF_vars(MarkSent(l, m))
        /\ SF_vars(MarkRetry(l, m))

FairSpec == Spec /\ Fairness

=============================================================================
