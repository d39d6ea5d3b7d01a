----------------------------- MODULE A2AOutbox -----------------------------
(***************************************************************************)
(* The outbound queue for A2A messages: a2a_outbox and its flush           *)
(* (FlushA2AOutbox), which publishes each due row over MQTT and marks it   *)
(* SENT, or RETRY with one more attempt.                                   *)
(*                                                                         *)
(* The listener gives a flush a context of 4 s, and the marks use the same *)
(* context; a publish waits up to 15 s for the broker's acknowledgement    *)
(* (connectTimeout).  Hence `expired`: the loop stops and marks fail.      *)
(*                                                                         *)
(* Abstractions.  A message is its row; next_retry_at is "due" or "not yet *)
(* due"; the peer binding that follows the SENT mark is left out.          *)
(* Only tests call EnqueueA2aOutbox at this commit (`send` publishes       *)
(* directly), so Enqueue stands for any caller of the store.               *)
(***************************************************************************)
EXTENDS Naturals, FiniteSets

CONSTANTS
    Message,     \* message ids
    Malformed,   \* those whose stored JSON does not decode to an envelope
    Listener,    \* the listener processes that flush this database
    BatchSize,   \* rows per flush, 50 in the listener
    MaxRetries,  \* A2ADispatchConfig.MaxRetries, 10 in the listener
    Faults,      \* what may go wrong
    NoMessage    \* the flush holds no row

FaultKinds ==
    { "crash",    \* the process dies between two steps
      "store",    \* a statement fails
      "slow",     \* the steps of a flush take longer than its context lives
      "refused",  \* the publish returns an error at once
      "unsure",   \* it returns an error although the broker got the message
      "timeout" } \* no acknowledgement in 15 s, with or without the message

ASSUME MalformedAssumption == Malformed \subseteq Message
ASSUME BatchSizeAssumption == BatchSize \in Nat \ {0}
ASSUME MaxRetriesAssumption == MaxRetries \in Nat \ {0}
ASSUME FaultsAssumption == Faults \subseteq FaultKinds
ASSUME NoMessageAssumption == NoMessage \notin Message

VARIABLES
    lastId,     \* the AUTOINCREMENT counter of a2a_outbox
    id,         \* a2a_outbox.id of a message, 0 when it has no row
    status,     \* a2a_outbox.status
    attempt,    \* a2a_outbox.attempt
    due,        \* a2a_outbox.next_retry_at has passed
    pc,         \* where each listener stands
    batch,      \* the rows the running flush has read and not yet handled
    took,       \* the attempt counters as the flush has read them
    cur,        \* the row the flush is working on
    expired,    \* the context of the flush is done
    published   \* history: how often the broker got the message

table == <<lastId, id, status, attempt, due>>
flush == <<pc, batch, took, cur, expired>>
vars == <<lastId, id, status, attempt, due, pc, batch, took, cur, expired,
          published>>

\* The history counter saturates here: "more than once" is all it has to tell.
MaxPublished == 2

Statuses == {"none", "PENDING", "RETRY", "SENT"}
Phases == {"down", "idle", "next", "mark", "retry"}

TypeOK ==
    /\ lastId \in Nat
    /\ id \in [Message -> Nat]
    /\ status \in [Message -> Statuses]
    /\ attempt \in [Message -> 0..MaxRetries]
    /\ due \in [Message -> BOOLEAN]
    /\ pc \in [Listener -> Phases]
    /\ batch \in [Listener -> SUBSET Message]
    /\ took \in [Listener -> [Message -> 0..MaxRetries]]
    /\ cur \in [Listener -> Message \cup {NoMessage}]
    /\ expired \in [Listener -> BOOLEAN]
    /\ published \in [Message -> 0..MaxPublished]

Init ==
    /\ lastId = 0
    /\ id = [m \in Message |-> 0]
    /\ status = [m \in Message |-> "none"]
    /\ attempt = [m \in Message |-> 0]
    /\ due = [m \in Message |-> FALSE]
    /\ pc = [l \in Listener |-> "down"]
    /\ batch = [l \in Listener |-> {}]
    /\ took = [l \in Listener |-> [m \in Message |-> 0]]
    /\ cur = [l \in Listener |-> NoMessage]
    /\ expired = [l \in Listener |-> FALSE]
    /\ published = [m \in Message |-> 0]

-----------------------------------------------------------------------------

\* EnqueueA2aOutbox; a message id that has a row already changes nothing.
Enqueue(m) ==
    /\ status[m] = "none"
    /\ lastId' = lastId + 1
    /\ id' = [id EXCEPT ![m] = lastId + 1]
    /\ status' = [status EXCEPT ![m] = "PENDING"]
    /\ due' = [due EXCEPT ![m] = TRUE]
    /\ UNCHANGED <<attempt, flush, published>>

\* next_retry_at of a row put back for retry passes.
BackoffElapses(m) ==
    /\ status[m] = "RETRY"
    /\ ~due[m]
    /\ due' = [due EXCEPT ![m] = TRUE]
    /\ UNCHANGED <<lastId, id, status, attempt, flush, published>>

Start(l) ==
    /\ pc[l] = "down"
    /\ pc' = [pc EXCEPT ![l] = "idle"]
    /\ UNCHANGED <<table, batch, took, cur, expired, published>>

\* The flush ends, by returning or with its process; it forgets what it read.
Leave(l, p) ==
    /\ pc' = [pc EXCEPT ![l] = p]
    /\ batch' = [batch EXCEPT ![l] = {}]
    /\ took' = [took EXCEPT ![l] = [m \in Message |-> 0]]
    /\ cur' = [cur EXCEPT ![l] = NoMessage]
    /\ expired' = [expired EXCEPT ![l] = FALSE]
    /\ UNCHANGED <<table, published>>

Crash(l) ==
    /\ "crash" \in Faults
    /\ pc[l] # "down"
    /\ Leave(l, "down")

\* The 4 s of the flush's context are over.
Expire(l) ==
    /\ "slow" \in Faults
    /\ pc[l] \in {"next", "mark", "retry"}
    /\ ~expired[l]
    /\ expired' = [expired EXCEPT ![l] = TRUE]
    /\ UNCHANGED <<table, pc, batch, took, cur, published>>

-----------------------------------------------------------------------------
(***************************************************************************)
(* FlushA2AOutbox.                                                         *)
(***************************************************************************)

\* Mutant: the status is not looked at.
PendingRowsAny == {m \in Message : status[m] # "none" /\ due[m]}

\* sqlListPendingA2a, before ORDER BY id LIMIT.
PendingRows == {m \in Message : status[m] \in {"PENDING", "RETRY"} /\ due[m]}

\* "ORDER BY id ASC LIMIT ?"
ListPending ==
    {m \in PendingRows :
        Cardinality({k \in PendingRows : id[k] < id[m]}) < BatchSize}

\* ListPendingA2aOutbox; an empty result ends the flush at once.
BeginFlush(l) ==
    /\ pc[l] = "idle"
    /\ pc' = [pc EXCEPT ![l] = "next"]
    /\ batch' = [batch EXCEPT ![l] = ListPending]
    /\ took' = [took EXCEPT ![l] = attempt]
    /\ UNCHANGED <<table, cur, expired, published>>

\* The batch is done, or its context.
EndFlush(l) ==
    /\ pc[l] = "next"
    /\ batch[l] = {} \/ expired[l]
    /\ Leave(l, "idle")

\* m is the row the loop comes to next.
Reaches(l, m) ==
    /\ pc[l] = "next"
    /\ ~expired[l]
    /\ m \in batch[l]
    /\ \A k \in batch[l] : id[m] <= id[k]

Exhausted(l, m) == took[l][m] >= MaxRetries

\* The loop works on m.
Goto(l, m, p) ==
    /\ pc' = [pc EXCEPT ![l] = p]
    /\ cur' = [cur EXCEPT ![l] = m]
    /\ UNCHANGED <<table, batch, took>>

\* The loop is done with m.
Done(l, m) ==
    /\ pc' = [pc EXCEPT ![l] = "next"]
    /\ batch' = [batch EXCEPT ![l] = @ \ {m}]
    /\ cur' = [cur EXCEPT ![l] = NoMessage]
    /\ UNCHANGED <<took, expired, published>>

\* A row out of retries is passed over; it keeps its status and stays due.
SkipExhausted(l, m) ==
    /\ Reaches(l, m)
    /\ Exhausted(l, m)
    /\ Done(l, m)
    /\ UNCHANGED table

\* Mutant: exhausted rows are still tried.
TakesAny(l, m) == Reaches(l, m)

\* The loop takes m on.
Takes(l, m) == Reaches(l, m) /\ ~Exhausted(l, m)

\* envelopeFromRow fails: nothing is published.
RejectEnvelope(l, m) ==
    /\ Takes(l, m)
    /\ m \in Malformed
    /\ Goto(l, m, "retry")
    /\ UNCHANGED <<expired, published>>

Count(m) ==
    published' = [published EXCEPT ![m] = IF @ < MaxPublished THEN @ + 1 ELSE @]

PublishOk(l, m) ==
    /\ Takes(l, m)
    /\ m \notin Malformed
    /\ Count(m)
    /\ Goto(l, m, "mark")
    /\ UNCHANGED expired

\* Mutant: an error of the publish is dropped.
PublishErrorDropped(l, m) ==
    /\ Takes(l, m)
    /\ m \notin Malformed
    /\ "refused" \in Faults
    /\ Goto(l, m, "mark")
    /\ UNCHANGED <<expired, published>>

\* The publish returns an error at once: not connected, or connection lost.
PublishFails(l, m) ==
    /\ Takes(l, m)
    /\ m \notin Malformed
    /\ \/ "refused" \in Faults /\ UNCHANGED published
       \/ "unsure" \in Faults /\ Count(m)
    /\ Goto(l, m, "retry")
    /\ UNCHANGED expired

\* The publish gives up after 15 s, when the context of the flush is long done.
PublishTimesOut(l, m) ==
    /\ "timeout" \in Faults
    /\ Takes(l, m)
    /\ m \notin Malformed
    /\ UNCHANGED published \/ Count(m)
    /\ Goto(l, m, "retry")
    /\ expired' = [expired EXCEPT ![l] = TRUE]

Holds(l, p, m) == pc[l] = p /\ cur[l] = m

\* MarkA2aOutboxSent
MarkSent(l, m) ==
    /\ Holds(l, "mark", m)
    /\ ~expired[l]
    /\ status' = [status EXCEPT ![m] = "SENT"]
    /\ Done(l, m)
    /\ UNCHANGED <<lastId, id, attempt, due>>

\* Mutant: the attempt counter is not written.
MarkRetryUncounted(l, m) ==
    /\ Holds(l, "retry", m)
    /\ ~expired[l]
    /\ status' = [status EXCEPT ![m] = "RETRY"]
    /\ due' = [due EXCEPT ![m] = FALSE]
    /\ Done(l, m)
    /\ UNCHANGED <<lastId, id, attempt>>

\* MarkA2aOutboxRetry, which counts from the counter the flush has read.
MarkRetry(l, m) ==
    /\ Holds(l, "retry", m)
    /\ ~expired[l]
    /\ status' = [status EXCEPT ![m] = "RETRY"]
    /\ attempt' = [attempt EXCEPT ![m] = took[l][m] + 1]
    /\ due' = [due EXCEPT ![m] = FALSE]
    /\ Done(l, m)
    /\ UNCHANGED <<lastId, id>>

\* The mark fails; the error is logged or dropped and the row stays as it was.
MarkFails(l, m) ==
    /\ Holds(l, "mark", m) \/ Holds(l, "retry", m)
    /\ expired[l] \/ "store" \in Faults
    /\ Done(l, m)
    /\ UNCHANGED table

HandleRow(l, m) ==
    \/ SkipExhausted(l, m)
    \/ RejectEnvelope(l, m)
    \/ PublishOk(l, m)
    \/ PublishFails(l, m)
    \/ PublishTimesOut(l, m)
    \/ MarkSent(l, m)
    \/ MarkRetry(l, m)
    \/ MarkFails(l, m)

FlushStep(l) ==
    \/ BeginFlush(l)
    \/ \E m \in Message : HandleRow(l, m)
    \/ EndFlush(l)

Next ==
    \/ \E m \in Message : Enqueue(m) \/ BackoffElapses(m)
    \/ \E l \in Listener : Start(l) \/ Crash(l) \/ Expire(l) \/ FlushStep(l)

Spec == Init /\ [][Next]_vars

=============================================================================
