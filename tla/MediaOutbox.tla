---------------------------- MODULE MediaOutbox ----------------------------
(***************************************************************************)
(* Notifications to an external channel.  `inbox ack --notify-external`    *)
(* records the ack of an event in one transaction and, on the first ack of *)
(* its consumer, puts one row per event into media_outbox in another; the  *)
(* listener's flush (FlushMediaOutbox) delivers due rows and marks them    *)
(* SENT, RETRY or, when the retries are used up, FAILED.                   *)
(*                                                                         *)
(* Abstractions.  A row is known by its event; next_retry_at is "due" or   *)
(* "not yet due"; what is in the notification, and by which of the three   *)
(* ways of deliverMedia it goes, is left out: an attempt delivers it, not  *)
(* at all or more than once, and answers yes or no.                        *)
(***************************************************************************)
EXTENDS Naturals, FiniteSets

CONSTANTS
    Event,
    Consumer,    \* consumer ids, each with one ack command at a time
    Listener,    \* the listener processes that flush this database
    BatchSize,   \* rows per flush, 20 in the listener
    MaxRetries,  \* MediaDispatchConfig.MaxRetries, 10 in the listener
    MaxDelivered, \* the history of deliveries saturates here
    Faults,      \* what may go wrong
    NoEvent      \* nothing in hand

FaultKinds ==
    { "crash",    \* a listener dies between two steps
      "kill",     \* an ack command dies after its ack
      "target",   \* no delivery target is found, or the enqueue fails
      "store",    \* a mark fails
      "slow",     \* the 10 s context of the flush runs out
      "refused",  \* an attempt fails
      "unsure" }  \* a way of delivery reports an error and has delivered

ASSUME BatchSizeAssumption == BatchSize \in Nat \ {0}
ASSUME MaxRetriesAssumption == MaxRetries \in Nat \ {0}
ASSUME MaxDeliveredAssumption == MaxDelivered \in Nat \ {0}
ASSUME FaultsAssumption == Faults \subseteq FaultKinds
ASSUME NoEventAssumption == NoEvent \notin Event

VARIABLES
    acked,      \* consumer_ack: pairs <<consumer, event>>
    asked,      \* the event whose notification a command is about to enqueue
    lastId,     \* the AUTOINCREMENT counter of media_outbox
    id,         \* media_outbox.id of an event, 0 when it has no row
    status,     \* media_outbox.status
    attempt,    \* media_outbox.attempt
    due,        \* media_outbox.next_retry_at has passed
    pc,         \* where each listener stands
    batch,      \* the rows the running flush has read and not yet handled
    took,       \* the attempt counters as the flush has read them
    cur,        \* the row the flush is working on
    delivered,  \* history: how often the channel got the notification
    refusals    \* history: how many attempts at it failed

inbox == <<acked, asked>>
table == <<lastId, id, status, attempt, due>>
flush == <<pc, batch, took, cur>>
history == <<delivered, refusals>>
vars == <<acked, asked, lastId, id, status, attempt, due, pc, batch, took, cur,
          delivered, refusals>>

Statuses == {"none", "PENDING", "RETRY", "SENT", "FAILED"}
Phases == {"down", "idle", "next", "again", "mark", "retry"}

TypeOK ==
    /\ acked \subseteq Consumer \X Event
    /\ asked \in [Consumer -> Event \cup {NoEvent}]
    /\ lastId \in Nat
    /\ id \in [Event -> Nat]
    /\ status \in [Event -> Statuses]
    /\ attempt \in [Event -> 0..MaxRetries - 1]
    /\ due \in [Event -> BOOLEAN]
    /\ pc \in [Listener -> Phases]
    /\ batch \in [Listener -> SUBSET Event]
    /\ took \in [Listener -> [Event -> 0..MaxRetries - 1]]
    /\ cur \in [Listener -> Event \cup {NoEvent}]
    /\ delivered \in [Event -> 0..MaxDelivered]
    /\ refusals \in [Event -> 0..MaxRetries]

Init ==
    /\ acked = {}
    /\ asked = [c \in Consumer |-> NoEvent]
    /\ lastId = 0
    /\ id = [e \in Event |-> 0]
    /\ status = [e \in Event |-> "none"]
    /\ attempt = [e \in Event |-> 0]
    /\ due = [e \in Event |-> FALSE]
    /\ pc = [l \in Listener |-> "down"]
    /\ batch = [l \in Listener |-> {}]
    /\ took = [l \in Listener |-> [e \in Event |-> 0]]
    /\ cur = [l \in Listener |-> NoEvent]
    /\ delivered = [e \in Event |-> 0]
    /\ refusals = [e \in Event |-> 0]

-----------------------------------------------------------------------------
(***************************************************************************)
(* inbox ack.                                                              *)
(***************************************************************************)

\* AckEvent.  On the first ack of this consumer, and if asked to, the command
\* goes on to enqueue a notification; an ack repeated changes nothing here.
Ack(c, e) ==
    /\ asked[c] = NoEvent
    /\ <<c, e>> \notin acked
    /\ acked' = acked \cup {<<c, e>>}
    /\ \/ asked' = [asked EXCEPT ![c] = e]
       \/ UNCHANGED asked
    /\ UNCHANGED <<table, flush, history>>

\* Mutant: a second row of an event replaces the first.
EnqueueReplaces(c, e) ==
    /\ asked[c] = e
    /\ asked' = [asked EXCEPT ![c] = NoEvent]
    /\ lastId' = lastId + 1
    /\ id' = [id EXCEPT ![e] = lastId + 1]
    /\ status' = [status EXCEPT ![e] = "PENDING"]
    /\ due' = [due EXCEPT ![e] = TRUE]
    /\ UNCHANGED <<acked, attempt, flush, history>>

\* EnqueueMediaOutbox: event_id is UNIQUE, a second row is refused.
Enqueue(c, e) ==
    /\ asked[c] = e
    /\ asked' = [asked EXCEPT ![c] = NoEvent]
    /\ \/ /\ status[e] = "none"
          /\ lastId' = lastId + 1
          /\ id' = [id EXCEPT ![e] = lastId + 1]
          /\ status' = [status EXCEPT ![e] = "PENDING"]
          /\ due' = [due EXCEPT ![e] = TRUE]
          /\ UNCHANGED attempt
       \/ status[e] # "none" /\ UNCHANGED table
    /\ UNCHANGED <<acked, flush, history>>

\* No target, an enqueue error, or the command dies: the ack stays.
Unnotified(c, e) ==
    /\ "kill" \in Faults \/ "target" \in Faults
    /\ asked[c] = e
    /\ asked' = [asked EXCEPT ![c] = NoEvent]
    /\ UNCHANGED <<acked, table, flush, history>>

-----------------------------------------------------------------------------
(***************************************************************************)
(* FlushMediaOutbox.                                                       *)
(***************************************************************************)

Start(l) ==
    /\ pc[l] = "down"
    /\ pc' = [pc EXCEPT ![l] = "idle"]
    /\ UNCHANGED <<inbox, table, batch, took, cur, history>>

\* The flush ends, by returning or with its process; it forgets what it read.
Leave(l, p) ==
    /\ pc' = [pc EXCEPT ![l] = p]
    /\ batch' = [batch EXCEPT ![l] = {}]
    /\ took' = [took EXCEPT ![l] = [e \in Event |-> 0]]
    /\ cur' = [cur EXCEPT ![l] = NoEvent]
    /\ UNCHANGED <<inbox, table, history>>

Crash(l) ==
    /\ "crash" \in Faults
    /\ pc[l] # "down"
    /\ Leave(l, "down")

\* next_retry_at of a row put back for retry passes.
BackoffElapses(e) ==
    /\ status[e] = "RETRY"
    /\ ~due[e]
    /\ due' = [due EXCEPT ![e] = TRUE]
    /\ UNCHANGED <<inbox, lastId, id, status, attempt, flush, history>>

\* Mutant: rows put back for retry are not read.
PendingRowsNew == {e \in Event : status[e] = "PENDING" /\ due[e]}

PendingRows == {e \in Event : status[e] \in {"PENDING", "RETRY"} /\ due[e]}

\* "ORDER BY id ASC LIMIT ?"
ListPending ==
    {e \in PendingRows :
        Cardinality({k \in PendingRows : id[k] < id[e]}) < BatchSize}

BeginFlush(l) ==
    /\ pc[l] = "idle"
    /\ pc' = [pc EXCEPT ![l] = "next"]
    /\ batch' = [batch EXCEPT ![l] = ListPending]
    /\ took' = [took EXCEPT ![l] =
                    [e \in Event |-> IF e \in ListPending THEN attempt[e] ELSE 0]]
    /\ UNCHANGED <<inbox, table, cur, history>>

\* The batch is done, or its context.
EndFlush(l) ==
    /\ pc[l] = "next"
    /\ batch[l] = {} \/ "slow" \in Faults
    /\ Leave(l, "idle")

\* e is the row the loop comes to next.
Reaches(l, e) ==
    /\ pc[l] = "next"
    /\ e \in batch[l]
    /\ \A k \in batch[l] : id[e] <= id[k]

\* The loop works on e.
Goto(l, e, p) ==
    /\ pc' = [pc EXCEPT ![l] = p]
    /\ cur' = [cur EXCEPT ![l] = e]
    /\ UNCHANGED <<inbox, table, batch, took>>

Holds(l, p, e) == pc[l] = p /\ cur[l] = e

\* One of the ways of deliverMedia is about to be tried.
Tries(l, e) == Reaches(l, e) \/ Holds(l, "again", e)

\* The channel gets the notification.
Arrives(e) ==
    delivered' = [delivered EXCEPT ![e] = IF @ < MaxDelivered THEN @ + 1 ELSE @]

DeliverOk(l, e) ==
    /\ Tries(l, e)
    /\ Arrives(e)
    /\ Goto(l, e, "mark")
    /\ UNCHANGED refusals

\* A way delivers and reports an error: the next way is tried.
DeliverUnsure(l, e) ==
    /\ "unsure" \in Faults
    /\ Tries(l, e)
    /\ Arrives(e)
    /\ Goto(l, e, "again")
    /\ UNCHANGED refusals

\* The last way reports an error.
DeliverFails(l, e) ==
    /\ "refused" \in Faults
    /\ Tries(l, e)
    /\ Goto(l, e, "retry")
    /\ UNCHANGED delivered
    /\ refusals' = [refusals EXCEPT ![e] = IF @ < MaxRetries THEN @ + 1 ELSE @]

\* The loop is done with e.
Done(l, e) ==
    /\ pc' = [pc EXCEPT ![l] = "next"]
    /\ batch' = [batch EXCEPT ![l] = @ \ {e}]
    /\ cur' = [cur EXCEPT ![l] = NoEvent]
    /\ UNCHANGED <<inbox, lastId, id, took, history>>

\* MarkMediaSent
MarkSent(l, e) ==
    /\ Holds(l, "mark", e)
    /\ status' = [status EXCEPT ![e] = "SENT"]
    /\ Done(l, e)
    /\ UNCHANGED <<attempt, due>>

\* Mutant: the last attempt is put back as well.
RetriesLeftAlways(l, e) == TRUE

\* nextAttempt < MaxRetries
RetriesLeft(l, e) == took[l][e] + 1 < MaxRetries

\* MarkMediaRetry
MarkRetry(l, e) ==
    /\ Holds(l, "retry", e)
    /\ RetriesLeft(l, e)
    /\ status' = [status EXCEPT ![e] = "RETRY"]
    /\ attempt' = [attempt EXCEPT ![e] = took[l][e] + 1]
    /\ due' = [due EXCEPT ![e] = FALSE]
    /\ Done(l, e)

\* Mutant: one attempt too few.
MarkFailedEarly(l, e) ==
    /\ Holds(l, "retry", e)
    /\ took[l][e] + 2 >= MaxRetries
    /\ status' = [status EXCEPT ![e] = "FAILED"]
    /\ Done(l, e)
    /\ UNCHANGED <<attempt, due>>

\* MarkMediaFailed leaves the attempt counter as it is.
MarkFailed(l, e) ==
    /\ Holds(l, "retry", e)
    /\ ~RetriesLeft(l, e)
    /\ status' = [status EXCEPT ![e] = "FAILED"]
    /\ Done(l, e)
    /\ UNCHANGED <<attempt, due>>

\* The mark fails, within the 5 s of its own: the row stays as it was.
MarkFails(l, e) ==
    /\ "store" \in Faults
    /\ Holds(l, "mark", e) \/ Holds(l, "retry", e)
    /\ Done(l, e)
    /\ UNCHANGED <<status, attempt, due>>

HandleRow(l, e) ==
    \/ DeliverOk(l, e)
    \/ DeliverUnsure(l, e)
    \/ DeliverFails(l, e)
    \/ MarkSent(l, e)
    \/ MarkRetry(l, e)
    \/ MarkFailed(l, e)
    \/ MarkFails(l, e)

FlushStep(l) ==
    \/ BeginFlush(l)
    \/ \E e \in Event : HandleRow(l, e)
    \/ EndFlush(l)

Command(c) ==
    \E e \in Event : Ack(c, e) \/ Enqueue(c, e) \/ Unnotified(c, e)

Next ==
    \/ \E c \in Consumer : Command(c)
    \/ \E e \in Event : BackoffElapses(e)
    \/ \E l \in Listener : Start(l) \/ Crash(l) \/ FlushStep(l)

Spec == Init /\ [][Next]_vars

=============================================================================
