-------------------------- MODULE MediaOutboxProps --------------------------
(***************************************************************************)
(* What is claimed of notifications.                                       *)
(***************************************************************************)
EXTENDS MediaOutbox

\* A row is SENT only if the channel got its notification: no failing mark,
\* crash or second flush of the same rows settles one that never went out.  With one
\* listener ImplementsAtLeastOnce says as much; this holds for any number.
SentWasDelivered == \A e \in Event : status[e] = "SENT" => delivered[e] > 0

\* A row is given up ("permanently failed after N attempts", media_outbox.go:74)
\* only after MaxRetries attempts have failed, though two flushes may write the
\* attempt counter over each other.
FailedUsedItsRetries ==
    \A e \in Event : status[e] = "FAILED" => refusals[e] = MaxRetries

\* The abstract contract: PENDING and RETRY wait, SENT is settled, FAILED is
\* given up.
Contract == INSTANCE AtLeastOnce WITH
    Message <- Event,
    MaxGiven <- MaxDelivered,
    waiting <- {e \in Event : status[e] \in {"PENDING", "RETRY"}},
    given <- delivered,
    settled <- {e \in Event : status[e] = "SENT"},
    dropped <- {e \in Event : status[e] = "FAILED"}

\* Every step of the queue is a step of AtLeastOnce or leaves its view alone: a
\* notification goes out only while its row waits, and SENT and FAILED are final,
\* although several consumers ask for the same event.
ImplementsAtLeastOnce == Contract!OSpec

\* Every row is delivered or uses up its retries: FAILED rows make room, so no
\* row is left behind rows that fail, whatever crashes and contexts cut short.
EveryRowSettles ==
    \A e \in Event : status[e] = "PENDING" ~> status[e] \in {"SENT", "FAILED"}

(***************************************************************************)
(* Fairness.  A live listener goes on, a stopped one is started again and  *)
(* backoffs pass (weak fairness).  Crashes, failing marks and contexts     *)
(* that run out are transient (strong fairness): once in a while a         *)
(* listener lives to its next tick, a row whose turn comes is delivered or *)
(* refused, and a mark is written.                                         *)
(***************************************************************************)
Fairness ==
    /\ \A l \in Listener :
        /\ WF_vars(Start(l)) /\ WF_vars(FlushStep(l))
        /\ SF_vars(BeginFlush(l))
    /\ \A e \in Event : WF_vars(BackoffElapses(e))
    /\ \A l \in Listener, e \in Event :
        /\ SF_vars(DeliverOk(l, e) \/ DeliverFails(l, e))
        /\ SF_vars(MarkSent(l, e) \/ MarkRetry(l, e) \/ MarkFailed(l, e))

FairSpec == Spec /\ Fairness

=============================================================================
