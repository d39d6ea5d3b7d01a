------------------------------- MODULE Inbox -------------------------------
(***************************************************************************)
(* The way of a message from the broker to the agents that pull it.  The   *)
(* broker hands a message of the persistent session to a listener and      *)
(* keeps it until the handler has returned; the router stores it, unless   *)
(* it is refused or a duplicate.  `inbox pull` reads the events behind a   *)
(* cursor that its consumer has not acked, binds their peers to a session  *)
(* when the consumer is OpenClaw's, and prints events and a new cursor.    *)
(* `inbox ack` records an ack and binds on the first one, for any consumer *)
(* that names a session.                                                   *)
(*                                                                         *)
(* Abstractions.  A message is known by its message_id, from which its     *)
(* hash and a2a_message_id follow, so the three UNIQUE indexes are one.    *)
(* What happens to an event in the push and the notification path is in    *)
(* PushPipeline and MediaOutbox.                                           *)
(***************************************************************************)
EXTENDS PeerSession, FiniteSets

CONSTANTS
    Message,
    Sender,      \* the peer that sends a message
    MsgTs,       \* the timestamp in its envelope, by the clock of its peer
    Malformed,   \* messages whose envelope verifyEnvelopeCore refuses
    Listener,
    Consumer,    \* consumer ids, each with one command at a time
    OpenClaw,    \* those that are "openclaw" and pass --source-session-key
    Wants,       \* the peers a consumer pulls from: --peer-id, or all of them
    Resumes,     \* the consumers that pass the cursor on to their next pull
    Limit,       \* --limit
    NoMessage

InboxFaults ==
    { "crash",   \* a listener dies between two steps
      "kill",    \* a pull dies before it has printed
      "late",    \* a signature is required and the message waited over 5 minutes
      "insert",  \* InsertIncomingEvent fails
      "bind" }   \* a statement of BindPeerSession fails

ASSUME MessageAssumption == IsFiniteSet(Message)
ASSUME SenderAssumption == Sender \in [Message -> Peer]
ASSUME MsgTsAssumption == MsgTs \in [Message -> Time]
ASSUME MalformedAssumption == Malformed \subseteq Message
\* Binder: the consumers whose commands name a session.
ASSUME BinderAssumption == Binder \subseteq Consumer
ASSUME OpenClawAssumption == OpenClaw \subseteq Binder
ASSUME ResumesAssumption == Resumes \subseteq Consumer
ASSUME WantsAssumption == Wants \in [Consumer -> SUBSET Peer]
ASSUME LimitAssumption == Limit \in Nat \ {0}
ASSUME FaultsAssumption == Faults \subseteq InboxFaults
ASSUME NoMessageAssumption == NoMessage \notin Message

VARIABLES
    broker,     \* of each message: nothing yet, the broker owes it, or it is answered for
    pc,         \* where each listener stands
    hand,       \* the message it is handling
    lastSeq,    \* the AUTOINCREMENT counter of message_event
    seq,        \* message_event.seq of a message, 0 when it is not stored
    acked,      \* consumer_ack: pairs <<consumer, message>>
    doing,      \* the command each consumer runs
    got,        \* the events that command is about
    toBind,     \* those among them whose peer it has still to bind
    cursor,     \* the cursor each consumer passes to its next pull
    dropped,    \* history: messages the router did not want or could not store
    unbound,    \* history: messages of which a binding failed
    handed      \* history: pairs <<consumer, message>> printed by a pull

router == <<pc, hand>>
events == <<lastSeq, seq>>
commands == <<doing, got, toBind>>
history == <<dropped, unbound, handed>>
vars == <<broker, pc, hand, lastSeq, seq, acked, doing, got, toBind, cursor,
          dropped, unbound, handed, route, target, next>>

Stored(m) == seq[m] > 0

TypeOK ==
    /\ SessionTypeOK
    /\ broker \in [Message -> {"nothing", "owed", "answered"}]
    /\ pc \in [Listener -> {"idle", "route", "answer"}]
    /\ hand \in [Listener -> Message \cup {NoMessage}]
    /\ lastSeq \in Nat
    /\ seq \in [Message -> 0..lastSeq]
    /\ acked \subseteq Consumer \X Message
    /\ doing \in [Consumer -> {"nothing", "pull", "ack"}]
    /\ got \in [Consumer -> SUBSET Message]
    /\ toBind \in [Consumer -> SUBSET Message]
    /\ cursor \in [Consumer -> 0..lastSeq]
    /\ dropped \subseteq Message
    /\ unbound \subseteq Message
    /\ handed \subseteq Consumer \X Message

Init ==
    /\ SessionInit
    /\ broker = [m \in Message |-> "nothing"]
    /\ pc = [l \in Listener |-> "idle"]
    /\ hand = [l \in Listener |-> NoMessage]
    /\ lastSeq = 0
    /\ seq = [m \in Message |-> 0]
    /\ acked = {}
    /\ doing = [c \in Consumer |-> "nothing"]
    /\ got = [c \in Consumer |-> {}]
    /\ toBind = [c \in Consumer |-> {}]
    /\ cursor = [c \in Consumer |-> 0]
    /\ dropped = {} /\ unbound = {} /\ handed = {}

-----------------------------------------------------------------------------
(***************************************************************************)
(* The broker and the router.                                              *)
(***************************************************************************)

\* A peer publishes m, for the first time or again.
Publish(m) ==
    /\ broker[m] # "owed"
    /\ broker' = [broker EXCEPT ![m] = "owed"]
    /\ UNCHANGED <<router, events, acked, commands, cursor, history, sessionVars>>

\* Mutant: the session is not persistent (SetCleanSession(false) forgotten).
CrashClean(l) ==
    /\ "crash" \in Faults
    /\ pc[l] # "idle"
    /\ pc' = [pc EXCEPT ![l] = "idle"]
    /\ hand' = [hand EXCEPT ![l] = NoMessage]
    /\ broker' = [m \in Message |-> "nothing"]
    /\ UNCHANGED <<events, acked, commands, cursor, history, sessionVars>>

\* What was not answered stays with the broker.
Crash(l) ==
    /\ "crash" \in Faults
    /\ pc[l] # "idle"
    /\ pc' = [pc EXCEPT ![l] = "idle"]
    /\ hand' = [hand EXCEPT ![l] = NoMessage]
    /\ UNCHANGED <<broker, events, acked, commands, cursor, history, sessionVars>>

\* The broker hands m out, again if nobody has answered for it.
Deliver(l, m) ==
    /\ pc[l] = "idle"
    /\ broker[m] = "owed"
    /\ pc' = [pc EXCEPT ![l] = "route"]
    /\ hand' = [hand EXCEPT ![l] = m]
    /\ UNCHANGED <<broker, events, acked, commands, cursor, history, sessionVars>>

\* HandleA2AMessage of the message in hand is at its end.
Routed(l, m) ==
    /\ pc[l] = "route" /\ hand[l] = m
    /\ pc' = [pc EXCEPT ![l] = "answer"]
    /\ UNCHANGED <<broker, hand, acked, commands, cursor, unbound, handed,
                   sessionVars>>

\* Rejected for its envelope, its topic or its signature, or the insert fails.
Refuse(l, m) ==
    /\ m \in Malformed \/ "late" \in Faults \/ "insert" \in Faults
    /\ Routed(l, m)
    /\ dropped' = dropped \cup {m}
    /\ UNCHANGED events

\* Mutant: no UNIQUE index.
StoreAgain(l, m) ==
    /\ m \notin Malformed
    /\ Routed(l, m)
    /\ lastSeq < Cardinality(Message) + 1
    /\ lastSeq' = lastSeq + 1
    /\ seq' = [seq EXCEPT ![m] = lastSeq + 1]
    /\ UNCHANGED dropped

\* InsertIncomingEvent.
Store(l, m) ==
    /\ m \notin Malformed
    /\ ~Stored(m)
    /\ Routed(l, m)
    /\ lastSeq' = lastSeq + 1
    /\ seq' = [seq EXCEPT ![m] = lastSeq + 1]
    /\ UNCHANGED dropped

\* A UNIQUE index refuses the row: "duplicate_message_id".
Duplicate(l, m) ==
    /\ m \notin Malformed
    /\ Stored(m)
    /\ Routed(l, m)
    /\ UNCHANGED <<events, dropped>>

\* Mutant: the answer does not wait for the handler.
AnswerEarly(l, m) ==
    /\ pc[l] \in {"route", "answer"} /\ hand[l] = m
    /\ pc' = [pc EXCEPT ![l] = IF pc[l] = "answer" THEN "idle" ELSE @]
    /\ broker' = [broker EXCEPT ![m] = "answered"]
    /\ UNCHANGED <<hand, events, acked, commands, cursor, dropped, unbound, handed,
                   sessionVars>>

\* The handler has returned, whatever became of the message: the MQTT client
\* acknowledges it and the broker forgets it.
Answer(l, m) ==
    /\ pc[l] = "answer" /\ hand[l] = m
    /\ pc' = [pc EXCEPT ![l] = "idle"]
    /\ hand' = [hand EXCEPT ![l] = NoMessage]
    /\ broker' = [broker EXCEPT ![m] = "answered"]
    /\ UNCHANGED <<events, acked, commands, cursor, dropped, unbound, handed,
                   sessionVars>>

-----------------------------------------------------------------------------
(***************************************************************************)
(* inbox pull and inbox ack.                                               *)
(***************************************************************************)

\* "e.seq > ? AND a.event_id IS NULL", of the wanted peers.
Unread(c) ==
    {m \in Message : seq[m] > cursor[c] /\ <<c, m>> \notin acked /\ Sender[m] \in Wants[c]}

\* Mutant: the newest events first.
FirstNewest(S) == {m \in S : Cardinality({k \in S : seq[k] > seq[m]}) < Limit}

\* "ORDER BY e.seq ASC LIMIT ?"
First(S) == {m \in S : Cardinality({k \in S : seq[k] < seq[m]}) < Limit}

\* Consumer c runs a command about the events S, and is to bind those in B.
Runs(c, command, S, B) ==
    /\ doing' = [doing EXCEPT ![c] = command]
    /\ got' = [got EXCEPT ![c] = S]
    /\ toBind' = [toBind EXCEPT ![c] = B]

\* PullEvents finds something.  While it finds nothing the command waits or
\* prints the cursor it was given.
Pull(c) ==
    /\ doing[c] = "nothing"
    /\ Unread(c) # {}
    /\ Runs(c, "pull", First(Unread(c)), IF c \in OpenClaw THEN First(Unread(c)) ELSE {})
    /\ UNCHANGED <<broker, router, events, acked, cursor, history, sessionVars>>

\* AckEvent, the first of this consumer: a later one changes nothing here.  It
\* binds if its options name a session that Given accepts.
Ack(c, m) ==
    /\ doing[c] = "nothing"
    /\ Stored(m)
    /\ <<c, m>> \notin acked
    /\ acked' = acked \cup {<<c, m>>}
    /\ \/ c \in Binder /\ Runs(c, "ack", {m}, {m})
       \/ UNCHANGED commands
    /\ UNCHANGED <<broker, router, events, cursor, history, sessionVars>>

\* The event whose peer the command binds next: in the order of the batch.
Binds(c, m) ==
    /\ m \in toBind[c]
    /\ \A k \in toBind[c] : seq[m] <= seq[k]

Rest(c, m) == [toBind EXCEPT ![c] = @ \ {m}]

\* The session id and key a command binds: OpenClaw's pull a key, its ack a key or
\* else an id, other acks an id and with it a key or none.
Given(c) ==
    IF c \notin OpenClaw THEN Session \X Ref
    ELSE IF doing[c] = "ack" THEN {NoSession} \X Session \cup Session \X {NoSession}
    ELSE {NoSession} \X Session

\* BindPeerSessionForEvent finds the row, and it is not newer than the event.
BindEvent(c, m) ==
    /\ Binds(c, m)
    /\ \E ref \in Given(c) : BindRead(c, Sender[m], ref[1], ref[2], MsgTs[m])
    /\ UNCHANGED <<broker, router, events, acked, commands, cursor, history>>

\* "stale_binding"
SkipStale(c, m) ==
    /\ Binds(c, m)
    /\ target[c] = NoPeer
    /\ Stale(Sender[m], MsgTs[m])
    /\ toBind' = Rest(c, m)
    /\ UNCHANGED <<broker, router, events, acked, doing, got, cursor, history,
                   sessionVars>>

\* The row is written.
BoundEvent(c, m) ==
    /\ Binds(c, m)
    /\ BindUpsert(c)
    /\ toBind' = Rest(c, m)
    /\ UNCHANGED <<broker, router, events, acked, doing, got, cursor, history>>

\* A failing statement: the error is ignored, and the command goes on.
BindError(c, m) ==
    /\ Binds(c, m)
    /\ BindFails(c)
    /\ toBind' = Rest(c, m)
    /\ unbound' = unbound \cup {m}
    /\ UNCHANGED <<broker, router, events, acked, doing, got, cursor,
                   dropped, handed>>

\* Mutant: the events are printed before their peers are bound.
PrintEarly(c) ==
    /\ doing[c] = "pull"
    /\ c \in Binder => target[c] = NoPeer
    /\ handed' = handed \cup ({c} \X got[c])
    /\ \E last \in got[c] :
        /\ \A m \in got[c] : seq[m] <= seq[last]
        /\ cursor' = [cursor EXCEPT ![c] = IF c \in Resumes THEN seq[last] ELSE @]
    /\ Runs(c, "nothing", {}, {})
    /\ UNCHANGED <<broker, router, events, acked, dropped, unbound, sessionVars>>

\* Mutant: the cursor is the next seq to read.
PrintPast(c) ==
    /\ doing[c] = "pull"
    /\ toBind[c] = {}
    /\ handed' = handed \cup ({c} \X got[c])
    /\ \E last \in got[c] :
        /\ \A m \in got[c] : seq[m] <= seq[last]
        /\ cursor' = [cursor EXCEPT ![c] = seq[last] + 1]
    /\ Runs(c, "nothing", {}, {})
    /\ UNCHANGED <<broker, router, events, acked, dropped, unbound, sessionVars>>

\* The pull prints its events, and as cursor the seq of the last one.
PrintEvents(c) ==
    /\ doing[c] = "pull"
    /\ toBind[c] = {}
    /\ handed' = handed \cup ({c} \X got[c])
    /\ \E last \in got[c] :
        /\ \A m \in got[c] : seq[m] <= seq[last]
        /\ cursor' = [cursor EXCEPT ![c] = IF c \in Resumes THEN seq[last] ELSE @]
    /\ Runs(c, "nothing", {}, {})
    /\ UNCHANGED <<broker, router, events, acked, dropped, unbound, sessionVars>>

\* The ack is done with its binding.
PrintAck(c) ==
    /\ doing[c] = "ack"
    /\ toBind[c] = {}
    /\ Runs(c, "nothing", {}, {})
    /\ UNCHANGED <<broker, router, events, acked, cursor, history, sessionVars>>

\* The command dies: its events were not printed, the cursor is the old one.
Kill(c) ==
    /\ "kill" \in Faults
    /\ doing[c] # "nothing"
    /\ c \in Binder => target[c] = NoPeer
    /\ Runs(c, "nothing", {}, {})
    /\ UNCHANGED <<broker, router, events, acked, cursor, history, sessionVars>>

-----------------------------------------------------------------------------
Handle(l, m) == Refuse(l, m) \/ Store(l, m) \/ Duplicate(l, m) \/ Answer(l, m)

BindStep(c, m) ==
    BindEvent(c, m) \/ SkipStale(c, m) \/ BoundEvent(c, m) \/ BindError(c, m)

CommandStep(c) ==
    (\E m \in Message : BindStep(c, m)) \/ PrintEvents(c) \/ PrintAck(c)

Next ==
    \/ \E m \in Message : Publish(m)
    \/ \E l \in Listener :
        \/ Crash(l)
        \/ \E m \in Message : Deliver(l, m) \/ Handle(l, m)
    \/ \E c \in Consumer :
        \/ Pull(c) \/ CommandStep(c) \/ Kill(c)
        \/ \E m \in Message : Ack(c, m)

Spec == Init /\ [][Next]_vars

=============================================================================
