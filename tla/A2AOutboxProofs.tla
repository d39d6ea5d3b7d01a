-------------------------- MODULE A2AOutboxProofs --------------------------
(***************************************************************************)
(* Proofs about the outbound queue for any messages, batch size, retries   *)
(* and faults: with any number of listeners its types and that a SENT row  *)
(* was published; with one listener that it implements AtLeastOnce.        *)
(***************************************************************************)
EXTENDS A2AOutboxProps, TLAPS

(***************************************************************************)
(* Any number of listeners.                                                *)
(***************************************************************************)

\* The row in hand, and that the flush took it on with retries left.
InHand ==
    \A l \in Listener : pc[l] \in {"mark", "retry"} =>
        cur[l] \in Message /\ took[l][cur[l]] < MaxRetries

TInv == TypeOK /\ InHand

\* A flush about to mark a row SENT has published it.
MarkedWasPublished ==
    \A l \in Listener : pc[l] = "mark" => published[cur[l]] > 0

SInv == TInv /\ SentWasPublished /\ MarkedWasPublished

LEMMA ListIsPending == ListPending \subseteq PendingRows
BY DEF ListPending

LEMMA PendingIsMessage == PendingRows \subseteq Message
BY DEF PendingRows

LEMMA InitSInv == Init => SInv
BY MaxRetriesAssumption
DEF Init, SInv, TInv, TypeOK, InHand, SentWasPublished, MarkedWasPublished,
    Statuses, Phases, MaxPublished

\* What the loop may do with a row it takes on.
LEMMA TakingKeepsSInv ==
    ASSUME SInv, NEW l \in Listener, NEW m \in Message, NEW p \in {"mark", "retry"},
           Takes(l, m), Goto(l, m, p),
           expired' \in [Listener -> BOOLEAN],
           \/ UNCHANGED published /\ p = "retry"
           \/ Count(m)
    PROVE  SInv'
<1> USE DEF SInv, TInv, table, Goto
<1>1. /\ published' \in [Message -> 0..MaxPublished]
      /\ \A k \in Message : published[k] > 0 => published'[k] > 0
      /\ p = "mark" => published'[m] > 0
  <2>1. CASE UNCHANGED published /\ p = "retry"
    BY <2>1 DEF TypeOK
  <2>2. CASE Count(m)
    <3>1. published \in [Message -> 0..2]
      BY DEF TypeOK, MaxPublished
    <3>2. published'[m] = IF published[m] < 2 THEN published[m] + 1 ELSE published[m]
      BY <2>2, <3>1 DEF Count, MaxPublished
    <3>3. \A k \in Message : k # m => published'[k] = published[k]
      BY <2>2, <3>1 DEF Count
    <3>4. published'[m] \in 0..2 /\ published'[m] > 0
      BY <3>1, <3>2
    <3>5. published' \in [Message -> 0..2]
      BY <2>2, <3>1, <3>4 DEF Count, MaxPublished
    <3> QED
      BY <3>1, <3>3, <3>4, <3>5 DEF MaxPublished
  <2> QED
    BY <2>1, <2>2
<1>2. TypeOK'
  BY <1>1 DEF TypeOK, Phases
<1>3. took[l][m] < MaxRetries
  BY MaxRetriesAssumption DEF TypeOK, Takes, Exhausted
<1>4. InHand'
  <2> SUFFICES ASSUME NEW k \in Listener, pc'[k] \in {"mark", "retry"}
               PROVE  cur'[k] \in Message /\ took'[k][cur'[k]] < MaxRetries
    BY DEF InHand
  <2>1. CASE k = l
    BY <1>3, <2>1 DEF TypeOK
  <2>2. CASE k # l
    BY <2>2 DEF TypeOK, InHand
  <2> QED
    BY <2>1, <2>2
<1>5. SentWasPublished' /\ MarkedWasPublished'
  BY <1>1 DEF TypeOK, SentWasPublished, MarkedWasPublished, InHand
<1> QED
  BY <1>2, <1>4, <1>5

\* One row of the batch, up to the end of its publish or of its mark.
LEMMA RowKeepsSInv ==
    ASSUME SInv, NEW l \in Listener, NEW m \in Message, HandleRow(l, m)
    PROVE  SInv'
<1> USE MaxRetriesAssumption
    DEF SInv, TInv, TypeOK, InHand, SentWasPublished, MarkedWasPublished,
        table, Done, Holds, Reaches, Exhausted, Phases
<1>1. CASE SkipExhausted(l, m)
  BY <1>1 DEF SkipExhausted
<1>2. CASE RejectEnvelope(l, m)
  BY <1>2, TakingKeepsSInv DEF RejectEnvelope
<1>3. CASE PublishOk(l, m)
  BY <1>3, TakingKeepsSInv DEF PublishOk
<1>4. CASE PublishFails(l, m)
  BY <1>4, TakingKeepsSInv DEF PublishFails
<1>5. CASE PublishTimesOut(l, m)
  BY <1>5, TakingKeepsSInv DEF PublishTimesOut
<1>6. CASE MarkSent(l, m)
  BY <1>6 DEF MarkSent, Statuses
<1>7. CASE MarkRetry(l, m)
  BY <1>7 DEF MarkRetry, Statuses
<1>8. CASE MarkFails(l, m)
  BY <1>8 DEF MarkFails
<1> QED
  BY <1>1, <1>2, <1>3, <1>4, <1>5, <1>6, <1>7, <1>8 DEF HandleRow

LEMMA StepSInv == SInv /\ [Next]_vars => SInv'
<1> SUFFICES ASSUME SInv, [Next]_vars PROVE SInv'
  OBVIOUS
<1> USE DEF SInv, TInv, TypeOK, InHand, SentWasPublished, MarkedWasPublished,
            table, flush
<1>1. ASSUME NEW m \in Message, Enqueue(m) PROVE SInv'
  BY <1>1 DEF Enqueue, Statuses
<1>2. ASSUME NEW m \in Message, BackoffElapses(m) PROVE SInv'
  BY <1>2 DEF BackoffElapses
<1>3. ASSUME NEW l \in Listener, Start(l) PROVE SInv'
  BY <1>3 DEF Start, Phases
<1>4. ASSUME NEW l \in Listener, Crash(l) \/ EndFlush(l) PROVE SInv'
  <2>1. Leave(l, "down") \/ Leave(l, "idle")
    BY <1>4 DEF Crash, EndFlush
  <2>2. took' \in [Listener -> [Message -> 0..MaxRetries]]
    <3>1. [m \in Message |-> 0] \in [Message -> 0..MaxRetries]
      BY MaxRetriesAssumption
    <3> QED
      BY <2>1, <3>1 DEF Leave
  <2> QED
    BY <2>1, <2>2 DEF Leave, Phases
<1>5. ASSUME NEW l \in Listener, Expire(l) PROVE SInv'
  BY <1>5 DEF Expire
<1>6. ASSUME NEW l \in Listener, BeginFlush(l) PROVE SInv'
  BY <1>6, ListIsPending, PendingIsMessage DEF BeginFlush, Phases
<1>7. ASSUME NEW l \in Listener, NEW m \in Message, HandleRow(l, m) PROVE SInv'
  BY <1>7, RowKeepsSInv
<1>8. CASE UNCHANGED vars
  BY <1>8 DEF vars
<1> QED
  BY <1>1, <1>2, <1>3, <1>4, <1>5, <1>6, <1>7, <1>8 DEF Next, FlushStep

LEMMA AlwaysSInv == Spec => []SInv
BY InitSInv, StepSInv, PTL DEF Spec

\* The variables keep their types; no attempt counter passes MaxRetries.
THEOREM TypeCorrect == Spec => []TypeOK
<1>1. SInv => TypeOK
  BY DEF SInv, TInv
<1> QED
  BY <1>1, AlwaysSInv, PTL

\* A SENT row was published, whatever fails and however many listeners flush.
THEOREM SentOnlyIfPublished == Spec => []SentWasPublished
<1>1. SInv => SentWasPublished
  BY DEF SInv
<1> QED
  BY <1>1, AlwaysSInv, PTL

-----------------------------------------------------------------------------
(***************************************************************************)
(* One listener: the rows it holds still wait, since nobody else marks     *)
(* them; hence it never publishes a row that is SENT.                      *)
(***************************************************************************)

OneListenerOnly == \A l, k \in Listener : l = k

BatchWaits ==
    \A l \in Listener :
        /\ \A m \in batch[l] : status[m] \in {"PENDING", "RETRY"}
        /\ pc[l] \in {"mark", "retry"} => cur[l] \in batch[l]
        /\ pc[l] \in {"down", "idle"} => batch[l] = {}

IInv == SInv /\ BatchWaits

LEMMA StepIInv == OneListenerOnly => (IInv /\ [Next]_vars => IInv')
<1> SUFFICES ASSUME OneListenerOnly, IInv, [Next]_vars PROVE BatchWaits'
  BY StepSInv DEF IInv
<1> USE DEF OneListenerOnly, IInv, SInv, TInv, TypeOK, BatchWaits, table, flush
<1>1. ASSUME NEW m \in Message, Enqueue(m) \/ BackoffElapses(m)
      PROVE  BatchWaits'
  BY <1>1 DEF Enqueue, BackoffElapses
<1>2. ASSUME NEW l \in Listener, Start(l) \/ Expire(l) PROVE BatchWaits'
  BY <1>2 DEF Start, Expire
<1>3. ASSUME NEW l \in Listener, Crash(l) \/ EndFlush(l) PROVE BatchWaits'
  BY <1>3 DEF Crash, EndFlush, Leave
<1>4. ASSUME NEW l \in Listener, BeginFlush(l) PROVE BatchWaits'
  BY <1>4, ListIsPending DEF BeginFlush, PendingRows
<1>5. ASSUME NEW l \in Listener, NEW m \in Message, HandleRow(l, m)
      PROVE  BatchWaits'
  <2> USE DEF Goto, Done, Holds, Takes, Reaches
  <2>1. CASE SkipExhausted(l, m) \/ MarkFails(l, m)
    BY <1>5, <2>1 DEF SkipExhausted, MarkFails
  <2>2. CASE RejectEnvelope(l, m) \/ PublishOk(l, m)
    BY <1>5, <2>2 DEF RejectEnvelope, PublishOk
  <2>3. CASE PublishFails(l, m) \/ PublishTimesOut(l, m)
    BY <1>5, <2>3 DEF PublishFails, PublishTimesOut
  <2>4. CASE MarkSent(l, m) \/ MarkRetry(l, m)
    BY <1>5, <2>4 DEF MarkSent, MarkRetry
  <2> QED
    BY <1>5, <2>1, <2>2, <2>3, <2>4 DEF HandleRow
<1>6. CASE UNCHANGED vars
  BY <1>6 DEF vars
<1> QED
  BY <1>1, <1>2, <1>3, <1>4, <1>5, <1>6 DEF Next, FlushStep

LEMMA RowImplements ==
    ASSUME OneListenerOnly, IInv, NEW l \in Listener, NEW m \in Message,
           HandleRow(l, m)
    PROVE  [Contract!ONext]_(Contract!ovars)
<1> USE DEF IInv, SInv, TInv, TypeOK, BatchWaits, table, Goto, Done, Holds,
            Takes, Reaches, Contract!ONext, Contract!ovars
<1>1. CASE SkipExhausted(l, m) \/ MarkFails(l, m) \/ RejectEnvelope(l, m)
  BY <1>1 DEF SkipExhausted, MarkFails, RejectEnvelope
<1>2. CASE m \in batch[l] /\ Count(m) /\ UNCHANGED table
  <2>1. CASE published[m] < MaxPublished
    <3>1. Contract!Give(m)
      BY <1>2, <2>1 DEF Count, Contract!Give
    <3> QED
      BY <3>1
  <2>2. CASE ~(published[m] < MaxPublished)
    BY <1>2, <2>2 DEF Count
  <2> QED
    BY <2>1, <2>2
<1>3. CASE m \in batch[l] /\ UNCHANGED <<table, published>>
  BY <1>3
<1>4. CASE MarkSent(l, m)
  <2>1. published[m] > 0 /\ status[m] \in {"PENDING", "RETRY"}
    BY <1>4 DEF MarkSent, MarkedWasPublished
  <2>2. Contract!Settle(m)
    BY <1>4, <2>1 DEF MarkSent, Contract!Settle
  <2> QED
    BY <2>2
<1>5. CASE MarkRetry(l, m)
  BY <1>5 DEF MarkRetry
<1>6. CASE PublishOk(l, m) \/ PublishFails(l, m) \/ PublishTimesOut(l, m)
  BY <1>2, <1>3, <1>6 DEF PublishOk, PublishFails, PublishTimesOut
<1> QED
  BY <1>1, <1>4, <1>5, <1>6 DEF HandleRow

LEMMA StepImplements ==
    ASSUME OneListenerOnly, IInv, [Next]_vars
    PROVE  [Contract!ONext]_(Contract!ovars)
<1> USE DEF IInv, SInv, TInv, TypeOK, table, flush, Contract!ONext, Contract!ovars
<1>1. ASSUME NEW m \in Message, Enqueue(m)
      PROVE  [Contract!ONext]_(Contract!ovars)
  <2>1. Contract!Accept(m)
    BY <1>1 DEF Enqueue, Contract!Accept
  <2> QED
    BY <2>1
<1>2. ASSUME NEW m \in Message, BackoffElapses(m)
      PROVE  [Contract!ONext]_(Contract!ovars)
  BY <1>2 DEF BackoffElapses
<1>3. ASSUME NEW l \in Listener,
             Start(l) \/ Crash(l) \/ Expire(l) \/ EndFlush(l) \/ BeginFlush(l)
      PROVE  [Contract!ONext]_(Contract!ovars)
  BY <1>3 DEF Start, Crash, Expire, EndFlush, BeginFlush, Leave
<1>4. ASSUME NEW l \in Listener, NEW m \in Message, HandleRow(l, m)
      PROVE  [Contract!ONext]_(Contract!ovars)
  BY <1>4, RowImplements
<1>5. CASE UNCHANGED vars
  BY <1>5 DEF vars
<1> QED
  BY <1>1, <1>2, <1>3, <1>4, <1>5 DEF Next, FlushStep

\* One listener publishes a message at least once before its row is SENT, and
\* never after: the queue implements AtLeastOnce through every fault.
THEOREM Implementation == ASSUME OneListenerOnly PROVE Spec => ImplementsAtLeastOnce
<1>1. Init => IInv
  BY InitSInv DEF Init, IInv, BatchWaits
<1>2. Init => Contract!OInit
  BY DEF Init, Contract!OInit
<1>3. IInv /\ [Next]_vars => IInv'
  BY StepIInv
<1>4. IInv /\ [Next]_vars => [Contract!ONext]_(Contract!ovars)
  BY StepImplements
<1> QED
  BY <1>1, <1>2, <1>3, <1>4, PTL
     DEF Spec, ImplementsAtLeastOnce, Contract!OSpec

=============================================================================
