---------------------------- MODULE PushPipeline ----------------------------
(***************************************************************************)
(* The inbound push path of the listener daemon.  An A2A message becomes a *)
(* row of message_event and, when push is enabled, a row of push_outbox;   *)
(* the flush tick of the listener (FlushPushOutbox) pushes the row to an   *)
(* OpenClaw session, while `inbox ack` commands of other processes work on *)
(* the same SQLite file.                                                   *)
(*                                                                         *)
(* A statement that the code executes outside a transaction is an action   *)
(* of its own, so MarkPushSent and MarkPushAcked, two statements each, can *)
(* be cut by a crash, by a failing statement, or by another process.       *)
(*                                                                         *)
(* Abstractions.  An event is identified with its message: deduplication   *)
(* happens before and is left out.  next_retry_at is reduced to "due" or   *)
(* "not yet due"; the attempt counter, which only sets the backoff, and    *)
(* the texts and session columns are left out.                             *)
(***************************************************************************)
EXTENDS Naturals, FiniteSets

CONSTANTS
    Message,    \* the messages peers may send
    Consumer,   \* the --consumer-id values of `inbox ack`
    Listener,   \* the listener processes that share the database and may flush
    BatchSize,  \* rows per flush, push_outbox.go:38-40
    Faults,     \* what may go wrong; every fault is an enabling condition below
    NoMessage   \* the flush holds no row

FaultKinds ==
    { "crash",     \* the process dies between two steps
      "stop",      \* the process leaves its loop cleanly (signal, lease revoked)
      "store",     \* a statement fails: SQLITE_BUSY after busy_timeout, disk full
      "session",   \* no OpenClaw session can be resolved
      "deadline",  \* the flush context expires before the batch is done
      "refused",   \* the session refuses the message
      "unsure",    \* the session takes a message and the send returns an error
      "config",    \* the user edits push_enabled in credentials.json
      "flag" }     \* a start is given --push-enabled

ASSUME BatchSizeAssumption == BatchSize \in Nat \ {0}
ASSUME FaultsAssumption == Faults \subseteq FaultKinds
ASSUME NoMessageAssumption == NoMessage \notin Message

VARIABLES
    lastSeq,    \* the AUTOINCREMENT counter of message_event
    seq,        \* message_event.seq of a message, 0 when it has no row
    state,      \* message_event.state
    row,        \* push_outbox.status
    due,        \* push_outbox.next_retry_at has passed
    acks,       \* consumer_ack: who acked the event
    credPush,   \* push_enabled in credentials.json
    routeOn,    \* RouterConfig.PushEnabled of each listener
    flushOn,    \* the pushEnabled local variable of each listener's loop
    pc,         \* where each listener stands
    batch,      \* the rows the running flush has read and not yet handled
    cur,        \* the row the running flush is working on
    delivered   \* history: how often the session has been given the message

store == <<lastSeq, seq, state, row, due, acks>>
flags == <<credPush, routeOn, flushOn>>
flush == <<pc, batch, cur>>
vars == <<lastSeq, seq, state, row, due, acks, credPush, routeOn, flushOn, pc,
          batch, cur, delivered>>

\* The history counter saturates here: "more than once" is all it has to tell.
MaxDelivered == 2

EventStates == {"absent", "NEW", "PUSHED", "CONSUMED"}
RowStates == {"none", "PENDING", "RETRY", "SENT", "ACKED"}
Phases == {"down", "idle", "ackRow", "ackEvent", "resolve", "inflightRow",
           "inflightEvent", "send", "sentRow", "sentEvent", "retry"}

TypeOK ==
    /\ lastSeq \in Nat
    /\ seq \in [Message -> Nat]
    /\ state \in [Message -> EventStates]
    /\ row \in [Message -> RowStates]
    /\ due \in [Message -> BOOLEAN]
    /\ acks \in [Message -> SUBSET Consumer]
    /\ credPush \in BOOLEAN
    /\ routeOn \in [Listener -> BOOLEAN]
    /\ flushOn \in [Listener -> BOOLEAN]
    /\ pc \in [Listener -> Phases]
    /\ batch \in [Listener -> SUBSET Message]
    /\ cur \in [Listener -> Message \cup {NoMessage}]
    /\ delivered \in [Message -> 0..MaxDelivered]

Init ==
    /\ lastSeq = 0
    /\ seq = [m \in Message |-> 0]
    /\ state = [m \in Message |-> "absent"]
    /\ row = [m \in Message |-> "none"]
    /\ due = [m \in Message |-> FALSE]
    /\ acks = [m \in Message |-> {}]
    /\ credPush \in BOOLEAN
    /\ routeOn = [l \in Listener |-> FALSE]
    /\ flushOn = [l \in Listener |-> FALSE]
    /\ pc = [l \in Listener |-> "down"]
    /\ batch = [l \in Listener |-> {}]
    /\ cur = [l \in Listener |-> NoMessage]
    /\ delivered = [m \in Message |-> 0]

-----------------------------------------------------------------------------
(***************************************************************************)
(* Reads of the store.                                                     *)
(***************************************************************************)

\* "ORDER BY o.id ASC LIMIT ?": the rows of S that at most BatchSize - 1 precede.
Oldest(S) ==
    {m \in S : Cardinality({k \in S : seq[k] < seq[m]}) < BatchSize}

\* Mutant: a flush without phase 1.
ListSentNever == {}

\* sqlListSentPush
ListSent == Oldest({m \in Message : row[m] = "SENT"})

\* Mutant: rows put back for retry are not listed.
ListPendingSkipsRetry == Oldest({m \in Message : row[m] = "PENDING" /\ due[m]})

\* sqlListPendingPush
ListPending == Oldest({m \in Message : row[m] \in {"PENDING", "RETRY"} /\ due[m]})

\* m is the next row of the batch: the loops handle rows in the order read.
IsNext(m, S) == m \in S /\ \A k \in S : seq[m] <= seq[k]

-----------------------------------------------------------------------------
(***************************************************************************)
(* Intake and the other processes.                                         *)
(***************************************************************************)

\* HandleA2AMessage: one transaction inserts the event and, when the router's
\* copy of push_enabled is set, its push row.
Route(l, m) ==
    /\ pc[l] # "down"
    /\ seq[m] = 0
    /\ lastSeq' = lastSeq + 1
    /\ seq' = [seq EXCEPT ![m] = lastSeq + 1]
    /\ state' = [state EXCEPT ![m] = "NEW"]
    /\ row' = [row EXCEPT ![m] = IF routeOn[l] THEN "PENDING" ELSE "none"]
    /\ due' = [due EXCEPT ![m] = routeOn[l]]
    /\ UNCHANGED <<acks, flags, flush, delivered>>

\* AckEvent: the transaction writes the ack, if new, and in any case CONSUMED.
Ack(c, m) ==
    /\ seq[m] > 0
    /\ acks' = [acks EXCEPT ![m] = @ \cup {c}]
    /\ state' = [state EXCEPT ![m] = "CONSUMED"]
    /\ UNCHANGED <<lastSeq, seq, row, due, flags, flush, delivered>>

\* next_retry_at of a row put back for retry passes.
BackoffElapses(m) ==
    /\ row[m] = "RETRY"
    /\ ~due[m]
    /\ due' = [due EXCEPT ![m] = TRUE]
    /\ UNCHANGED <<lastSeq, seq, state, row, acks, flags, flush, delivered>>

\* The user edits credentials.json.
EditCredentials ==
    /\ "config" \in Faults
    /\ credPush' = ~credPush
    /\ UNCHANGED <<store, routeOn, flushOn, flush, delivered>>

-----------------------------------------------------------------------------
(***************************************************************************)
(* The life of a listener process.                                         *)
(***************************************************************************)

\* push_enabled of a start: the flag goes before credentials.json, and both the
\* router and the loop get a copy.
TakesSetting(l) ==
    \E on \in BOOLEAN :
        /\ on = credPush \/ "flag" \in Faults
        /\ routeOn' = [routeOn EXCEPT ![l] = on]
        /\ flushOn' = [flushOn EXCEPT ![l] = on]

\* Mutant: a starting listener requeues the rows it finds in flight.
StartRequeues(l) ==
    /\ pc[l] = "down"
    /\ pc' = [pc EXCEPT ![l] = "idle"]
    /\ TakesSetting(l)
    /\ row' = [m \in Message |-> IF row[m] = "SENT" THEN "PENDING" ELSE row[m]]
    /\ UNCHANGED <<lastSeq, seq, state, due, acks, credPush, batch, cur,
                   delivered>>

\* listenerRunCmd, up to its loop.
Start(l) ==
    /\ pc[l] = "down"
    /\ pc' = [pc EXCEPT ![l] = "idle"]
    /\ TakesSetting(l)
    /\ UNCHANGED <<store, credPush, batch, cur, delivered>>

\* SIGUSR1 (`listener reload`), taken by the select loop between two flushes:
\* credentials.json alone counts, and the router keeps its copy.
Reload(l) ==
    /\ pc[l] = "idle"
    /\ flushOn' = [flushOn EXCEPT ![l] = credPush]
    /\ UNCHANGED <<store, credPush, routeOn, flush, delivered>>

Leave(l) ==
    /\ pc' = [pc EXCEPT ![l] = "down"]
    /\ batch' = [batch EXCEPT ![l] = {}]
    /\ cur' = [cur EXCEPT ![l] = NoMessage]
    /\ UNCHANGED <<store, flags, delivered>>

\* The process returns from its loop, which it does between two flushes only.
Stop(l) ==
    /\ "stop" \in Faults
    /\ pc[l] = "idle"
    /\ Leave(l)

\* The process dies anywhere; what it had read or was about to write is lost.
Crash(l) ==
    /\ "crash" \in Faults
    /\ pc[l] # "down"
    /\ Leave(l)

-----------------------------------------------------------------------------
(***************************************************************************)
(* FlushPushOutbox, phase 1: rows found SENT become ACKED.                 *)
(***************************************************************************)

Goto(l, p) == pc' = [pc EXCEPT ![l] = p]
Hold(l, m) == cur' = [cur EXCEPT ![l] = m]

\* The loop is done with row m and goes on at p with the rest of the batch.
Done(l, m, p) ==
    /\ Goto(l, p)
    /\ Hold(l, NoMessage)
    /\ batch' = [batch EXCEPT ![l] = @ \ {m}]

\* The flush returns.
Return(l) ==
    /\ Goto(l, "idle")
    /\ Hold(l, NoMessage)
    /\ batch' = [batch EXCEPT ![l] = {}]

BeginFlush(l) ==
    /\ pc[l] = "idle"
    /\ flushOn[l]
    /\ \/ batch' = [batch EXCEPT ![l] = ListSent]
       \/ "store" \in Faults /\ batch' = [batch EXCEPT ![l] = {}]
    /\ Goto(l, "ackRow")
    /\ UNCHANGED <<store, flags, cur, delivered>>

\* MarkPushAcked, first statement.
MarkAckedRow(l) ==
    /\ pc[l] = "ackRow"
    /\ \E m \in batch[l] :
        /\ IsNext(m, batch[l])
        /\ row' = [row EXCEPT ![m] = "ACKED"]
        /\ Hold(l, m)
    /\ Goto(l, "ackEvent")
    /\ UNCHANGED <<lastSeq, seq, state, due, acks, flags, batch, delivered>>

\* Mutant: the second statement of MarkPushAcked is forgotten.
MarkAckedEventForgotten(l) ==
    /\ pc[l] = "ackEvent"
    /\ Done(l, cur[l], "ackRow")
    /\ UNCHANGED <<store, flags, delivered>>

\* MarkPushAcked, second statement.
MarkAckedEvent(l) ==
    /\ pc[l] = "ackEvent"
    /\ state' = [state EXCEPT ![cur[l]] = "CONSUMED"]
    /\ Done(l, cur[l], "ackRow")
    /\ UNCHANGED <<lastSeq, seq, row, due, acks, flags, delivered>>

\* One of the two statements fails; the error is only logged.
MarkAckedFails(l) ==
    /\ "store" \in Faults
    /\ \/ /\ pc[l] = "ackRow"
          /\ \E m \in batch[l] : IsNext(m, batch[l]) /\ Done(l, m, "ackRow")
       \/ pc[l] = "ackEvent" /\ Done(l, cur[l], "ackRow")
    /\ UNCHANGED <<store, flags, delivered>>

-----------------------------------------------------------------------------
(***************************************************************************)
(* FlushPushOutbox, phase 2: due rows are pushed.                          *)
(***************************************************************************)

ListDueRows(l) ==
    /\ pc[l] = "ackRow"
    /\ batch[l] = {}
    /\ \/ /\ ListPending # {}
          /\ batch' = [batch EXCEPT ![l] = ListPending]
          /\ Goto(l, "resolve")
          /\ UNCHANGED cur
       \/ (ListPending = {} \/ "store" \in Faults) /\ Return(l)
    /\ UNCHANGED <<store, flags, delivered>>

\* ListSessions and ResolvePushSession; without a session the flush gives up.
ResolveSession(l) ==
    /\ pc[l] = "resolve"
    /\ \/ Goto(l, "inflightRow") /\ UNCHANGED <<batch, cur>>
       \/ "session" \in Faults /\ Return(l)
    /\ UNCHANGED <<store, flags, delivered>>

\* Mutant: the row is not marked before the send.
MarkInflightRowForgotten(l) ==
    /\ pc[l] = "inflightRow"
    /\ \E m \in batch[l] : IsNext(m, batch[l]) /\ Hold(l, m)
    /\ Goto(l, "inflightEvent")
    /\ UNCHANGED <<store, flags, batch, delivered>>

\* MarkPushSent before the send, first statement.
MarkInflightRow(l) ==
    /\ pc[l] = "inflightRow"
    /\ \E m \in batch[l] :
        /\ IsNext(m, batch[l])
        /\ row' = [row EXCEPT ![m] = "SENT"]
        /\ Hold(l, m)
    /\ Goto(l, "inflightEvent")
    /\ UNCHANGED <<lastSeq, seq, state, due, acks, flags, batch, delivered>>

\* MarkPushSent before the send, second statement.
MarkInflightEvent(l) ==
    /\ pc[l] = "inflightEvent"
    /\ state' = [state EXCEPT ![cur[l]] = "PUSHED"]
    /\ Goto(l, "send")
    /\ UNCHANGED <<lastSeq, seq, row, due, acks, flags, batch, cur,
                   delivered>>

\* One of the two statements fails: the row is passed over.
MarkInflightFails(l) ==
    /\ "store" \in Faults
    /\ \/ /\ pc[l] = "inflightRow"
          /\ \E m \in batch[l] : IsNext(m, batch[l]) /\ Done(l, m, "inflightRow")
       \/ pc[l] = "inflightEvent" /\ Done(l, cur[l], "inflightRow")
    /\ UNCHANGED <<store, flags, delivered>>

\* The session is given m once more, or twice.
Deliver(m, times) ==
    delivered' = [delivered EXCEPT ![m] =
        IF @ + times <= MaxDelivered THEN @ + times ELSE MaxDelivered]

\* SendToSession returns nil: the gateway took the message, or the CLI did when
\* the gateway returned an error, which may have taken it as well.
SendOk(l) ==
    /\ pc[l] = "send"
    /\ \/ Deliver(cur[l], 1)
       \/ "unsure" \in Faults /\ Deliver(cur[l], 2)
    /\ Goto(l, "sentRow")
    /\ UNCHANGED <<store, flags, batch, cur>>

\* SendToSession returns an error, whether or not the session took the message.
SendFails(l) ==
    /\ pc[l] = "send"
    /\ \/ "refused" \in Faults /\ UNCHANGED delivered
       \/ "unsure" \in Faults /\ Deliver(cur[l], 1)
    /\ Goto(l, "retry")
    /\ UNCHANGED <<store, flags, batch, cur>>

\* MarkPushSent after the send: both statements run again.
MarkSentRow(l) ==
    /\ pc[l] = "sentRow"
    /\ row' = [row EXCEPT ![cur[l]] = "SENT"]
    /\ Goto(l, "sentEvent")
    /\ UNCHANGED <<lastSeq, seq, state, due, acks, flags, batch, cur,
                   delivered>>

MarkSentEvent(l) ==
    /\ pc[l] = "sentEvent"
    /\ state' = [state EXCEPT ![cur[l]] = "PUSHED"]
    /\ Done(l, cur[l], "inflightRow")
    /\ UNCHANGED <<lastSeq, seq, row, due, acks, flags, delivered>>

\* Mutant: the failure is not written back.
MarkRetryForgotten(l) ==
    /\ pc[l] = "retry"
    /\ Done(l, cur[l], "inflightRow")
    /\ UNCHANGED <<store, flags, delivered>>

\* MarkPushRetry: the row waits for its backoff; the event stays PUSHED.
MarkRetry(l) ==
    /\ pc[l] = "retry"
    /\ row' = [row EXCEPT ![cur[l]] = "RETRY"]
    /\ due' = [due EXCEPT ![cur[l]] = FALSE]
    /\ Done(l, cur[l], "inflightRow")
    /\ UNCHANGED <<lastSeq, seq, state, acks, flags, delivered>>

\* A statement after the send fails; the error is only logged.
MarkOutcomeFails(l) ==
    /\ "store" \in Faults
    /\ pc[l] \in {"sentRow", "sentEvent", "retry"}
    /\ Done(l, cur[l], "inflightRow")
    /\ UNCHANGED <<store, flags, delivered>>

\* The batch is done, or the context of the tick has expired.
EndFlush(l) ==
    /\ pc[l] = "inflightRow"
    /\ batch[l] = {} \/ "deadline" \in Faults
    /\ Return(l)
    /\ UNCHANGED <<store, flags, delivered>>

-----------------------------------------------------------------------------

FlushStep(l) ==
    \/ BeginFlush(l)
    \/ MarkAckedRow(l)
    \/ MarkAckedEvent(l)
    \/ MarkAckedFails(l)
    \/ ListDueRows(l)
    \/ ResolveSession(l)
    \/ MarkInflightRow(l)
    \/ MarkInflightEvent(l)
    \/ MarkInflightFails(l)
    \/ SendOk(l)
    \/ SendFails(l)
    \/ MarkSentRow(l)
    \/ MarkSentEvent(l)
    \/ MarkRetry(l)
    \/ MarkOutcomeFails(l)
    \/ EndFlush(l)

Next ==
    \/ \E l \in Listener, m \in Message : Route(l, m)
    \/ \E c \in Consumer, m \in Message : Ack(c, m)
    \/ \E m \in Message : BackoffElapses(m)
    \/ EditCredentials
    \/ \E l \in Listener : Start(l) \/ Reload(l) \/ Stop(l) \/ Crash(l)
    \/ \E l \in Listener : FlushStep(l)

Spec == Init /\ [][Next]_vars

=============================================================================
