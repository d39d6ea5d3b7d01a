------------------------- MODULE MediaOutboxProofs -------------------------
(***************************************************************************)
(* Proofs about notifications for any events, consumers, batch size,       *)
(* retries and faults: with any number of listeners the types, that a SENT *)
(* row was delivered and that a FAILED row used its retries; with one      *)
(* listener that the queue implements AtLeastOnce.                         *)
(***************************************************************************)
EXTENDS MediaOutboxProps, TLAPS

(***************************************************************************)
(* Any number of listeners.                                                *)
(***************************************************************************)

InHand == \A l \in Listener : pc[l] \in {"again", "mark", "retry"} => cur[l] \in Event

TInv == TypeOK /\ InHand

\* A flush about to mark a row SENT has delivered it.
MarkedWasDelivered ==
    \A l \in Listener : pc[l] = "mark" => delivered[cur[l]] > 0

\* No attempt is counted that was not made: neither in the table, nor by what a
\* flush has read, nor by the count it is about to write.
CountsWereMade ==
    /\ \A e \in Event : attempt[e] <= refusals[e]
    /\ \A l \in Listener, e \in Event : took[l][e] <= refusals[e]
    /\ \A l \in Listener :
        pc[l] = "retry" => took[l][cur[l]] + 1 <= refusals[cur[l]]

SInv ==
    /\ TInv
    /\ SentWasDelivered /\ MarkedWasDelivered
    /\ FailedUsedItsRetries /\ CountsWereMade

LEMMA ListIsPending == ListPending \subseteq PendingRows
BY DEF ListPending

LEMMA PendingIsEvent == PendingRows \subseteq Event
BY DEF PendingRows

LEMMA InitSInv == Init => SInv
BY MaxRetriesAssumption, MaxDeliveredAssumption
DEF Init, SInv, TInv, TypeOK, InHand, SentWasDelivered, MarkedWasDelivered,
    FailedUsedItsRetries, CountsWereMade, Statuses, Phases

\* An arrival counts, and nothing that was delivered is forgotten.
LEMMA ArrivalCounts ==
    ASSUME TypeOK, NEW e \in Event, Arrives(e)
    PROVE  /\ delivered' \in [Event -> 0..MaxDelivered]
           /\ \A k \in Event : delivered[k] > 0 => delivered'[k] > 0
           /\ delivered'[e] > 0
<1>1. delivered \in [Event -> 0..MaxDelivered]
  BY DEF TypeOK
<1>2. delivered'[e] =
        IF delivered[e] < MaxDelivered THEN delivered[e] + 1 ELSE delivered[e]
  BY <1>1 DEF Arrives
<1>3. \A k \in Event : k # e => delivered'[k] = delivered[k]
  BY <1>1 DEF Arrives
<1>4. delivered'[e] \in 0..MaxDelivered /\ delivered'[e] > 0
  BY <1>1, <1>2, MaxDeliveredAssumption
<1>5. delivered' \in [Event -> 0..MaxDelivered]
  BY <1>1, <1>4 DEF Arrives
<1> QED
  BY <1>3, <1>4, <1>5

LEMMA DeliveryKeepsSInv ==
    ASSUME SInv, NEW l \in Listener, NEW e \in Event, NEW p \in {"again", "mark"},
           Arrives(e), Goto(l, e, p), UNCHANGED refusals
    PROVE  SInv'
<1> USE DEF SInv, TInv, Goto, inbox, table
<1>1. /\ delivered' \in [Event -> 0..MaxDelivered]
      /\ \A k \in Event : delivered[k] > 0 => delivered'[k] > 0
      /\ delivered'[e] > 0
  BY ArrivalCounts
<1>2. TypeOK' /\ InHand'
  BY <1>1 DEF TypeOK, Phases, InHand
<1>3. SentWasDelivered' /\ MarkedWasDelivered'
  BY <1>1 DEF TypeOK, SentWasDelivered, MarkedWasDelivered, InHand
<1>4. FailedUsedItsRetries' /\ CountsWereMade'
  BY DEF TypeOK, FailedUsedItsRetries, CountsWereMade
<1> QED
  BY <1>2, <1>3, <1>4

LEMMA RefusalKeepsSInv ==
    ASSUME SInv, NEW l \in Listener, NEW e \in Event, DeliverFails(l, e)
    PROVE  SInv'
<1> USE DEF SInv, TInv, Goto, DeliverFails, inbox, table
<1>1. refusals \in [Event -> 0..MaxRetries]
  BY DEF TypeOK
<1>2. refusals'[e] = IF refusals[e] < MaxRetries THEN refusals[e] + 1 ELSE refusals[e]
  BY <1>1
<1>3. \A k \in Event : k # e => refusals'[k] = refusals[k]
  BY <1>1
<1>4. refusals'[e] \in 0..MaxRetries /\ refusals[e] <= refusals'[e]
  BY <1>1, <1>2, MaxRetriesAssumption
<1>5. refusals' \in [Event -> 0..MaxRetries]
  BY <1>1, <1>4
<1>6. TypeOK' /\ InHand'
  BY <1>5 DEF TypeOK, Phases, InHand
<1>7. SentWasDelivered' /\ MarkedWasDelivered'
  BY DEF TypeOK, SentWasDelivered, MarkedWasDelivered, InHand
<1>8. FailedUsedItsRetries'
  BY <1>1, <1>2, <1>3 DEF TypeOK, FailedUsedItsRetries
<1>9. CountsWereMade'
  <2>1. \A k \in Event : refusals[k] <= refusals'[k]
    BY <1>1, <1>3, <1>4
  <2>2. \A k \in Event : attempt'[k] <= refusals'[k]
    BY <1>1, <1>5, <2>1, MaxRetriesAssumption DEF TypeOK, CountsWereMade
  <2>3. \A j \in Listener, k \in Event : took'[j][k] <= refusals'[k]
    BY <1>1, <1>5, <2>1, MaxRetriesAssumption DEF TypeOK, CountsWereMade
  <2>4. ASSUME NEW j \in Listener, pc'[j] = "retry"
        PROVE  took'[j][cur'[j]] + 1 <= refusals'[cur'[j]]
    <3>1. CASE j = l
      <4>1. cur'[l] = e /\ took'[l][e] = took[l][e]
        BY DEF TypeOK
      <4>2. took[l][e] \in 0..MaxRetries - 1 /\ took[l][e] <= refusals[e]
        BY DEF TypeOK, CountsWereMade
      <4> QED
        BY <1>1, <1>2, <3>1, <4>1, <4>2, MaxRetriesAssumption
    <3>2. CASE j # l
      <4>1. pc[j] = "retry" /\ cur'[j] = cur[j] /\ cur[j] \in Event
        BY <2>4, <3>2 DEF TypeOK, InHand
      <4>2. took[j][cur[j]] \in Nat /\ took[j][cur[j]] + 1 <= refusals[cur[j]]
        BY <4>1, MaxRetriesAssumption DEF TypeOK, CountsWereMade
      <4> QED
        BY <1>1, <1>5, <2>1, <4>1, <4>2, MaxRetriesAssumption
    <3> QED
      BY <3>1, <3>2
  <2> QED
    BY <2>2, <2>3, <2>4 DEF CountsWereMade
<1> QED
  BY <1>6, <1>7, <1>8, <1>9

\* The three marks, and a mark that fails.
LEMMA MarksKeepSInv ==
    ASSUME SInv, NEW l \in Listener, NEW e \in Event,
           MarkSent(l, e) \/ MarkRetry(l, e) \/ MarkFailed(l, e) \/ MarkFails(l, e)
    PROVE  SInv'
<1> USE MaxRetriesAssumption
    DEF SInv, TInv, TypeOK, InHand, SentWasDelivered, MarkedWasDelivered,
        FailedUsedItsRetries, CountsWereMade, Done, Holds, Phases, inbox, history
<1>1. CASE MarkSent(l, e)
  BY <1>1 DEF MarkSent, Statuses
<1>2. CASE MarkRetry(l, e)
  <2>1. took[l][e] + 1 \in 0..MaxRetries - 1 /\ took[l][e] + 1 <= refusals[e]
    BY <1>2 DEF MarkRetry, RetriesLeft
  <2>2. attempt' \in [Event -> 0..MaxRetries - 1]
    BY <1>2, <2>1 DEF MarkRetry
  <2>3. \A k \in Event : attempt'[k] <= refusals'[k]
    BY <1>2, <2>1 DEF MarkRetry
  <2>4. TypeOK' /\ InHand'
    BY <1>2, <2>2 DEF MarkRetry, Statuses
  <2>5. SentWasDelivered' /\ MarkedWasDelivered' /\ FailedUsedItsRetries'
    BY <1>2 DEF MarkRetry, Statuses
  <2>6. CountsWereMade'
    BY <1>2, <2>3 DEF MarkRetry
  <2> QED
    BY <2>4, <2>5, <2>6
<1>3. CASE MarkFailed(l, e)
  <2>1. refusals[e] = MaxRetries
    <3>1. took[l][e] \in Nat /\ refusals[e] \in 0..MaxRetries
      OBVIOUS
    <3>2. took[l][e] + 1 <= refusals[e] /\ ~(took[l][e] + 1 < MaxRetries)
      BY <1>3 DEF MarkFailed, RetriesLeft
    <3> HIDE DEF SInv, TInv, TypeOK, CountsWereMade, FailedUsedItsRetries
    <3> QED
      BY <3>1, <3>2, MaxRetriesAssumption
  <2> QED
    BY <1>3, <2>1 DEF MarkFailed, Statuses
<1>4. CASE MarkFails(l, e)
  BY <1>4 DEF MarkFails
<1> QED
  BY <1>1, <1>2, <1>3, <1>4

LEMMA RowKeepsSInv ==
    ASSUME SInv, NEW l \in Listener, NEW e \in Event, HandleRow(l, e)
    PROVE  SInv'
<1>1. CASE DeliverOk(l, e) \/ DeliverUnsure(l, e)
  BY <1>1, DeliveryKeepsSInv DEF DeliverOk, DeliverUnsure
<1>2. CASE DeliverFails(l, e)
  BY <1>2, RefusalKeepsSInv
<1>3. CASE MarkSent(l, e) \/ MarkRetry(l, e) \/ MarkFailed(l, e) \/ MarkFails(l, e)
  BY <1>3, MarksKeepSInv
<1> QED
  BY <1>1, <1>2, <1>3 DEF HandleRow

LEMMA StepSInv == SInv /\ [Next]_vars => SInv'
<1> SUFFICES ASSUME SInv, [Next]_vars PROVE SInv'
  OBVIOUS
<1> USE DEF SInv, TInv, TypeOK, InHand, SentWasDelivered, MarkedWasDelivered,
            FailedUsedItsRetries, CountsWereMade, inbox, table, flush, history
<1>1. ASSUME NEW c \in Consumer, NEW e \in Event, Ack(c, e) \/ Unnotified(c, e)
      PROVE  SInv'
  BY <1>1 DEF Ack, Unnotified
<1>2. ASSUME NEW c \in Consumer, NEW e \in Event, Enqueue(c, e) PROVE SInv'
  <2>1. CASE status[e] = "none"
    <3>1. lastId' \in Nat /\ id' \in [Event -> Nat] /\ due' \in [Event -> BOOLEAN]
      <4>1. lastId + 1 \in Nat /\ id \in [Event -> Nat] /\ due \in [Event -> BOOLEAN]
        OBVIOUS
      <4>2. /\ lastId' = lastId + 1
            /\ id' = [id EXCEPT ![e] = lastId + 1]
            /\ due' = [due EXCEPT ![e] = TRUE]
        BY <1>2, <2>1 DEF Enqueue
      <4> HIDE DEF SInv, TInv, TypeOK
      <4> QED
        BY <4>1, <4>2
    <3>2. status' \in [Event -> Statuses]
      BY <1>2, <2>1 DEF Enqueue, Statuses
    <3>3. \A k \in Event : status'[k] \in {"SENT", "FAILED"} => status'[k] = status[k]
      BY <1>2, <2>1 DEF Enqueue
    <3> QED
      BY <1>2, <2>1, <3>1, <3>2, <3>3 DEF Enqueue
  <2>2. CASE status[e] # "none"
    BY <1>2, <2>2 DEF Enqueue
  <2> QED
    BY <2>1, <2>2
<1>3. ASSUME NEW e \in Event, BackoffElapses(e) PROVE SInv'
  BY <1>3 DEF BackoffElapses
<1>4. ASSUME NEW l \in Listener, Start(l) PROVE SInv'
  BY <1>4 DEF Start, Phases
<1>5. ASSUME NEW l \in Listener, Crash(l) \/ EndFlush(l) PROVE SInv'
  <2>1. Leave(l, "down") \/ Leave(l, "idle")
    BY <1>5 DEF Crash, EndFlush
  <2> DEFINE zero == [e \in Event |-> 0]
  <2>2. zero \in [Event -> 0..MaxRetries - 1]
    BY MaxRetriesAssumption
  <2>3. \A e \in Event : zero[e] <= refusals[e]
    BY MaxRetriesAssumption
  <2>4. took' = [took EXCEPT ![l] = zero]
    BY <2>1 DEF Leave
  <2> HIDE DEF zero
  <2> QED
    BY <2>1, <2>2, <2>3, <2>4 DEF Leave, Phases
<1>6. ASSUME NEW l \in Listener, BeginFlush(l) PROVE SInv'
  <2> DEFINE read == [e \in Event |-> IF e \in ListPending THEN attempt[e] ELSE 0]
  <2>1. read \in [Event -> 0..MaxRetries - 1]
    BY MaxRetriesAssumption
  <2>2. \A e \in Event : read[e] <= refusals[e]
    <3> TAKE e \in Event
    <3>1. refusals[e] \in Nat /\ attempt[e] <= refusals[e]
      BY MaxRetriesAssumption
    <3> QED
      BY <3>1
  <2>3. took' = [took EXCEPT ![l] = read]
    BY <1>6 DEF BeginFlush
  <2> HIDE DEF read
  <2> QED
    BY <1>6, <2>1, <2>2, <2>3, ListIsPending, PendingIsEvent DEF BeginFlush, Phases
<1>7. ASSUME NEW l \in Listener, NEW e \in Event, HandleRow(l, e) PROVE SInv'
  BY <1>7, RowKeepsSInv
<1>8. CASE UNCHANGED vars
  BY <1>8 DEF vars
<1> QED
  BY <1>1, <1>2, <1>3, <1>4, <1>5, <1>6, <1>7, <1>8 DEF Next, Command, FlushStep

LEMMA AlwaysSInv == Spec => []SInv
BY InitSInv, StepSInv, PTL DEF Spec

\* The variables keep their types: a row put back has an attempt left.
THEOREM TypeCorrect == Spec => []TypeOK
<1>1. SInv => TypeOK
  BY DEF SInv, TInv
<1> QED
  BY <1>1, AlwaysSInv, PTL

\* A SENT row was delivered, whatever fails and however many listeners flush.
THEOREM SentOnlyIfDelivered == Spec => []SentWasDelivered
<1>1. SInv => SentWasDelivered
  BY DEF SInv
<1> QED
  BY <1>1, AlwaysSInv, PTL

\* No row is given up before MaxRetries attempts at it have failed, however many
\* listeners overwrite its counter.
THEOREM FailedOnlyAfterRetries == Spec => []FailedUsedItsRetries
<1>1. SInv => FailedUsedItsRetries
  BY DEF SInv
<1> QED
  BY <1>1, AlwaysSInv, PTL

-----------------------------------------------------------------------------
(***************************************************************************)
(* One listener: the rows it holds still wait, since nobody else marks     *)
(* them and a second enqueue is refused.                                   *)
(***************************************************************************)

OneListenerOnly == \A l, k \in Listener : l = k

BatchWaits ==
    \A l \in Listener :
        /\ \A e \in batch[l] : status[e] \in {"PENDING", "RETRY"}
        /\ pc[l] \in {"again", "mark", "retry"} => cur[l] \in batch[l]
        /\ pc[l] \in {"down", "idle"} => batch[l] = {}

IInv == SInv /\ BatchWaits

LEMMA StepIInv == OneListenerOnly => (IInv /\ [Next]_vars => IInv')
<1> SUFFICES ASSUME OneListenerOnly, IInv, [Next]_vars PROVE BatchWaits'
  BY StepSInv DEF IInv
<1> USE DEF OneListenerOnly, IInv, SInv, TInv, TypeOK, BatchWaits, inbox, table,
            flush, history
<1>1. ASSUME NEW c \in Consumer, NEW e \in Event, Ack(c, e) \/ Unnotified(c, e)
      PROVE  BatchWaits'
  BY <1>1 DEF Ack, Unnotified
<1>2. ASSUME NEW c \in Consumer, NEW e \in Event, Enqueue(c, e)
      PROVE  BatchWaits'
  BY <1>2 DEF Enqueue
<1>3. ASSUME NEW e \in Event, BackoffElapses(e) PROVE BatchWaits'
  BY <1>3 DEF BackoffElapses
<1>4. ASSUME NEW l \in Listener, Start(l) PROVE BatchWaits'
  BY <1>4 DEF Start
<1>5. ASSUME NEW l \in Listener, Crash(l) \/ EndFlush(l) PROVE BatchWaits'
  BY <1>5 DEF Crash, EndFlush, Leave
<1>6. ASSUME NEW l \in Listener, BeginFlush(l) PROVE BatchWaits'
  BY <1>6, ListIsPending DEF BeginFlush, PendingRows
<1>7. ASSUME NEW l \in Listener, NEW e \in Event, HandleRow(l, e)
      PROVE  BatchWaits'
  <2> USE DEF Goto, Done, Holds, Tries, Reaches
  <2>1. CASE DeliverOk(l, e) \/ DeliverUnsure(l, e) \/ DeliverFails(l, e)
    BY <2>1 DEF DeliverOk, DeliverUnsure, DeliverFails
  <2>2. CASE MarkSent(l, e) \/ MarkRetry(l, e) \/ MarkFailed(l, e)
    BY <2>2 DEF MarkSent, MarkRetry, MarkFailed
  <2>3. CASE MarkFails(l, e)
    BY <2>3 DEF MarkFails
  <2> QED
    BY <1>7, <2>1, <2>2, <2>3 DEF HandleRow
<1>8. CASE UNCHANGED vars
  BY <1>8 DEF vars
<1> QED
  BY <1>1, <1>2, <1>3, <1>4, <1>5, <1>6, <1>7, <1>8 DEF Next, Command, FlushStep

LEMMA RowImplements ==
    ASSUME OneListenerOnly, IInv, NEW l \in Listener, NEW e \in Event,
           HandleRow(l, e)
    PROVE  [Contract!ONext]_(Contract!ovars)
<1> USE DEF IInv, SInv, TInv, TypeOK, BatchWaits, inbox, table, Goto, Done, Holds,
            Tries, Reaches, Contract!ONext, Contract!ovars
<1>1. CASE DeliverOk(l, e) \/ DeliverUnsure(l, e)
  <2>1. status[e] \in {"PENDING", "RETRY"} /\ Arrives(e) /\ UNCHANGED table
    BY <1>1 DEF DeliverOk, DeliverUnsure
  <2>2. CASE delivered[e] < MaxDelivered
    <3>1. Contract!Give(e)
      BY <2>1, <2>2 DEF Arrives, Contract!Give
    <3> QED
      BY <3>1
  <2>3. CASE ~(delivered[e] < MaxDelivered)
    BY <2>1, <2>3 DEF Arrives
  <2> QED
    BY <2>2, <2>3
<1>2. CASE DeliverFails(l, e)
  BY <1>2 DEF DeliverFails
<1>3. CASE MarkSent(l, e)
  <2>1. delivered[e] > 0 /\ status[e] \in {"PENDING", "RETRY"}
    BY <1>3 DEF MarkSent, MarkedWasDelivered
  <2>2. Contract!Settle(e)
    BY <1>3, <2>1 DEF MarkSent, Contract!Settle, history
  <2> QED
    BY <2>2
<1>4. CASE MarkRetry(l, e)
  BY <1>4 DEF MarkRetry, history
<1>5. CASE MarkFailed(l, e)
  <2>1. status[e] \in {"PENDING", "RETRY"}
    BY <1>5 DEF MarkFailed
  <2>2. Contract!Drop(e)
    BY <1>5, <2>1 DEF MarkFailed, Contract!Drop, history
  <2> QED
    BY <2>2
<1>6. CASE MarkFails(l, e)
  BY <1>6 DEF MarkFails, history
<1> QED
  BY <1>1, <1>2, <1>3, <1>4, <1>5, <1>6 DEF HandleRow

LEMMA StepImplements ==
    ASSUME OneListenerOnly, IInv, [Next]_vars
    PROVE  [Contract!ONext]_(Contract!ovars)
<1> USE DEF IInv, SInv, TInv, TypeOK, inbox, table, flush, history,
            Contract!ONext, Contract!ovars
<1>1. ASSUME NEW c \in Consumer, NEW e \in Event, Enqueue(c, e)
      PROVE  [Contract!ONext]_(Contract!ovars)
  <2>1. CASE status[e] = "none"
    <3>1. Contract!Accept(e)
      BY <1>1, <2>1 DEF Enqueue, Contract!Accept
    <3> QED
      BY <3>1
  <2>2. CASE status[e] # "none"
    BY <1>1, <2>2 DEF Enqueue
  <2> QED
    BY <2>1, <2>2
<1>2. ASSUME NEW e \in Event, BackoffElapses(e)
      PROVE  [Contract!ONext]_(Contract!ovars)
  BY <1>2 DEF BackoffElapses
<1>3. ASSUME NEW c \in Consumer, NEW e \in Event, Ack(c, e) \/ Unnotified(c, e)
      PROVE  [Contract!ONext]_(Contract!ovars)
  BY <1>3 DEF Ack, Unnotified
<1>4. ASSUME NEW l \in Listener, Start(l) \/ Crash(l) \/ EndFlush(l) \/ BeginFlush(l)
      PROVE  [Contract!ONext]_(Contract!ovars)
  BY <1>4 DEF Start, Crash, EndFlush, BeginFlush, Leave
<1>5. ASSUME NEW l \in Listener, NEW e \in Event, HandleRow(l, e)
      PROVE  [Contract!ONext]_(Contract!ovars)
  BY <1>5, RowImplements
<1>6. CASE UNCHANGED vars
  BY <1>6 DEF vars
<1> QED
  BY <1>1, <1>2, <1>3, <1>4, <1>5, <1>6 DEF Next, Command, FlushStep

\* With one listener the notification queue implements AtLeastOnce through every
\* fault, for any number of consumers that ask for the same event.
THEOREM Implementation == ASSUME OneListenerOnly PROVE Spec => ImplementsAtLeastOnce
<1>1. Init => IInv
  BY InitSInv DEF Init, IInv, BatchWaits
<1>2. Init => Contract!OInit
  BY DEF Init, Contract!OInit
<1>3. IInv /\ [Next]_vars => IInv'
  BY StepIInv
<1>4. IInv /\ [Next]_vars => [Contract!ONext]_(Contract!ovars)
  BY StepImplements
<1> QED
  BY <1>1, <1>2, <1>3, <1>4, PTL
     DEF Spec, ImplementsAtLeastOnce, Contract!OSpec

=============================================================================
