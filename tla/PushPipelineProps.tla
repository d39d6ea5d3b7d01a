------------------------- MODULE PushPipelineProps -------------------------
(***************************************************************************)
(* What is claimed of the push path.                                       *)
(***************************************************************************)
EXTENDS PushPipeline

\* The session is given a message at most once ("Messages are pushed once to
\* the AI session", push_outbox.go:48), whatever crashes and failing statements
\* do between the in-flight mark, the send and the marks that follow it.
AtMostOncePush == \A m \in Message : delivered[m] <= 1

\* A row that is ACKED stays ACKED: no flush step that read the row earlier
\* brings it back to SENT or RETRY.  (A part of ImplementsPushOnce.)
AckedIsFinal ==
    [][\A m \in Message : row[m] = "ACKED" => row'[m] = "ACKED"]_vars

\* A row is ACKED ("push confirmed consumed", store/push_outbox.go:143) only if
\* the session was given its message.
AckedWasPushed == \A m \in Message : row[m] = "ACKED" => delivered[m] > 0

\* No row stays in the outbox for ever: phase 1 turns each SENT row into ACKED
\* and each failed row is retried (the backlog of pitfalls.md, section 5).
EveryRowSettles ==
    \A m \in Message : row[m] # "none" ~> row[m] = "ACKED"

\* Every message accepted for push is eventually given to the session, even
\* when sends fail, no session is found or ticks run out of time.
EventuallyPushed ==
    \A m \in Message : row[m] # "none" ~> delivered[m] > 0

\* An event a consumer acked ends up CONSUMED for good, although a flush that
\* had read its row before may set it back to PUSHED meanwhile.
AckedEndsConsumed ==
    \A m \in Message : acks[m] # {} ~> [](state[m] = "CONSUMED")

\* The abstract contract this path implements: what is neither ACKED nor absent
\* waits, and the session has been shown what it was given.
Contract == INSTANCE PushOnce WITH
    waiting <- {m \in Message : row[m] \in {"PENDING", "RETRY", "SENT"}},
    shown <- delivered,
    settled <- {m \in Message : row[m] = "ACKED"}

\* Every step of the push path is a step of PushOnce or leaves its view alone.
ImplementsPushOnce == Contract!PSpec

(***************************************************************************)
(* Fairness.  The loop of a live process keeps going, a stopped one is     *)
(* started again, a clock passes every backoff (weak fairness); a flush    *)
(* that is tried for ever finds a session, reaches its first row before    *)
(* its deadline, and the session takes a message, once in a while (strong  *)
(* fairness: these are transient failures).                                *)
(***************************************************************************)
FindsSession(l) == ResolveSession(l) /\ pc'[l] = "inflightRow"

Fairness ==
    /\ \A l \in Listener :
        /\ WF_vars(Start(l))
        /\ WF_vars(FlushStep(l))
        /\ SF_vars(FindsSession(l))
        /\ SF_vars(MarkInflightRow(l))
        /\ SF_vars(SendOk(l))
    /\ \A m \in Message : WF_vars(BackoffElapses(m))

FairSpec == Spec /\ Fairness

=============================================================================
