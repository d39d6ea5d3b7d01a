------------------------- MODULE PushPipelineProofs -------------------------
(***************************************************************************)
(* Proofs about the push path for any messages, batch size and faults:     *)
(* its types; and, when one listener works on the database and a failed    *)
(* send means the session did not take the message, that the session is    *)
(* given each message at most once, that ACKED is final, and that the path *)
(* implements PushOnce; and, when no flush is cut short, that what is ACKED*)
(* was pushed.                                                             *)
(***************************************************************************)
EXTENDS PushPipelineProps, TLAPS

(***************************************************************************)
(* Types.                                                                  *)
(***************************************************************************)

\* Where a flush has a row in hand there is a message in cur.
Holding == {"ackEvent", "inflightEvent", "send", "sentRow", "sentEvent", "retry"}

CurIsMessage == \A l \in Listener : pc[l] \in Holding => cur[l] \in Message

TInv == TypeOK /\ CurIsMessage

LEMMA ListsAreMessages ==
    /\ ListSent \in SUBSET Message
    /\ ListPending \in SUBSET Message
BY DEF ListSent, ListPending, Oldest

LEMMA TypeStep == TInv /\ [Next]_vars => TInv'
<1> SUFFICES ASSUME TInv, [Next]_vars PROVE TInv'
  OBVIOUS
<1> USE DEF TInv, TypeOK, CurIsMessage, Holding, store, flags, flush
<1>1. ASSUME NEW l \in Listener, NEW m \in Message, Route(l, m) PROVE TInv'
  BY <1>1 DEF Route, EventStates, RowStates
<1>2. ASSUME NEW c \in Consumer, NEW m \in Message, Ack(c, m) PROVE TInv'
  BY <1>2 DEF Ack, EventStates
<1>3. ASSUME NEW m \in Message, BackoffElapses(m) PROVE TInv'
  BY <1>3 DEF BackoffElapses
<1>4. CASE EditCredentials
  BY <1>4 DEF EditCredentials
<1>5. ASSUME NEW l \in Listener, Start(l) \/ Reload(l) \/ Stop(l) \/ Crash(l)
      PROVE TInv'
  BY <1>5 DEF Start, TakesSetting, Reload, Stop, Crash, Leave, Phases
<1>6. ASSUME NEW l \in Listener, FlushStep(l) PROVE TInv'
  <2> USE DEF Goto, Hold, Done, Return, Phases
  <2>1. CASE BeginFlush(l)
    BY <2>1, ListsAreMessages DEF BeginFlush
  <2>2. CASE MarkAckedRow(l) \/ MarkInflightRow(l)
    BY <2>2 DEF MarkAckedRow, MarkInflightRow, IsNext, RowStates
  <2>3. CASE MarkAckedEvent(l) \/ MarkInflightEvent(l) \/ MarkSentEvent(l)
    BY <2>3 DEF MarkAckedEvent, MarkInflightEvent, MarkSentEvent, EventStates
  <2>4. CASE MarkAckedFails(l) \/ MarkInflightFails(l) \/ MarkOutcomeFails(l)
    BY <2>4 DEF MarkAckedFails, MarkInflightFails, MarkOutcomeFails
  <2>5. CASE ListDueRows(l)
    BY <2>5, ListsAreMessages DEF ListDueRows
  <2>6. CASE ResolveSession(l) \/ EndFlush(l)
    BY <2>6 DEF ResolveSession, EndFlush
  <2>7. CASE SendOk(l) \/ SendFails(l)
    BY <2>7 DEF SendOk, SendFails, Deliver, MaxDelivered
  <2>8. CASE MarkSentRow(l)
    BY <2>8 DEF MarkSentRow, RowStates
  <2>9. CASE MarkRetry(l)
    BY <2>9 DEF MarkRetry, RowStates
  <2> QED
    BY <1>6, <2>1, <2>2, <2>3, <2>4, <2>5, <2>6, <2>7, <2>8, <2>9
    DEF FlushStep
<1>7. CASE UNCHANGED vars
  BY <1>7 DEF vars
<1> QED
  BY <1>1, <1>2, <1>3, <1>4, <1>5, <1>6, <1>7 DEF Next

\* The variables keep their types, whatever goes wrong and however many
\* listeners work on the database.
THEOREM TypeCorrect == Spec => []TypeOK
<1>1. Init => TInv
  BY DEF Init, TInv, TypeOK, CurIsMessage, Holding, EventStates, RowStates,
         Phases, MaxDelivered
<1>2. TInv => TypeOK
  BY DEF TInv
<1> QED
  BY <1>1, <1>2, TypeStep, PTL DEF Spec

-----------------------------------------------------------------------------
(***************************************************************************)
(* One listener, and no send of unknown outcome.  The inductive invariant  *)
(* says what the listener knows of the rows it has read: a row still to be *)
(* pushed was never given to the session, the rest of the batch is as it   *)
(* was read, and the row in hand is SENT from the in-flight mark until the *)
(* flush is done with it.                                                  *)
(***************************************************************************)

\* What the theorems below assume: no two listeners share the database, and a
\* reported failure is one.
SafeSetting ==
    /\ \A l, k \in Listener : l = k
    /\ "unsure" \notin Faults

\* A message whose row is not there, or still to be pushed, was never shown.
UnpushedNotShown ==
    \A m \in Message :
        /\ seq[m] = 0 => row[m] = "none"
        /\ row[m] \in {"none", "PENDING", "RETRY"} => delivered[m] = 0

\* Phase 1 holds rows that are SENT, phase 2 rows that are still to be pushed,
\* the row in hand excepted; between flushes nothing is held.
BatchAsRead ==
    \A l \in Listener :
        /\ pc[l] \in {"down", "idle"} => batch[l] = {}
        /\ pc[l] = "ackRow" => \A m \in batch[l] : row[m] = "SENT"
        /\ pc[l] = "ackEvent" =>
             \A m \in batch[l] : m # cur[l] => row[m] = "SENT"
        /\ pc[l] \in {"resolve", "inflightRow"} =>
             \A m \in batch[l] : row[m] \in {"PENDING", "RETRY"}
        /\ pc[l] \in {"inflightEvent", "send", "sentRow", "sentEvent", "retry"} =>
             \A m \in batch[l] : m # cur[l] => row[m] \in {"PENDING", "RETRY"}

\* The row in hand.
InHand ==
    \A l \in Listener :
        /\ pc[l] \in {"inflightEvent", "send", "retry"} =>
             row[cur[l]] = "SENT" /\ delivered[cur[l]] = 0
        /\ pc[l] \in {"sentRow", "sentEvent"} => row[cur[l]] = "SENT"

IInv ==
    /\ TInv
    /\ UnpushedNotShown
    /\ BatchAsRead
    /\ InHand
    /\ AtMostOncePush

LEMMA ListsByStatus ==
    /\ \A m \in ListSent : row[m] = "SENT"
    /\ \A m \in ListPending : row[m] \in {"PENDING", "RETRY"}
BY DEF ListSent, ListPending, Oldest

\* A flush step of the one listener.
LEMMA FlushKeepsIInv ==
    ASSUME SafeSetting, IInv, TInv', NEW l \in Listener, FlushStep(l)
    PROVE  IInv'
<1> USE DEF SafeSetting, IInv, TInv, TypeOK, CurIsMessage, Holding,
            UnpushedNotShown, BatchAsRead, InHand, AtMostOncePush,
            store, flags, flush, Goto, Hold, Done, Return
<1>1. CASE BeginFlush(l)
  BY <1>1, ListsByStatus DEF BeginFlush
<1>2. CASE MarkAckedRow(l)
  BY <1>2 DEF MarkAckedRow, IsNext
<1>3. CASE MarkAckedEvent(l) \/ MarkAckedFails(l)
  BY <1>3 DEF MarkAckedEvent, MarkAckedFails
<1>4. CASE ListDueRows(l)
  BY <1>4, ListsByStatus DEF ListDueRows
<1>5. CASE ResolveSession(l) \/ EndFlush(l)
  BY <1>5 DEF ResolveSession, EndFlush
<1>6. CASE MarkInflightRow(l)
  BY <1>6 DEF MarkInflightRow, IsNext
<1>7. CASE MarkInflightEvent(l) \/ MarkInflightFails(l)
  BY <1>7 DEF MarkInflightEvent, MarkInflightFails
<1>8. CASE SendOk(l)
  BY <1>8 DEF SendOk, Deliver, MaxDelivered
<1>9. CASE SendFails(l)
  BY <1>9 DEF SendFails
<1>10. CASE MarkSentRow(l)
  BY <1>10 DEF MarkSentRow
<1>11. CASE MarkSentEvent(l) \/ MarkOutcomeFails(l)
  BY <1>11 DEF MarkSentEvent, MarkOutcomeFails
<1>12. CASE MarkRetry(l)
  BY <1>12 DEF MarkRetry
<1> QED
  BY <1>1, <1>2, <1>3, <1>4, <1>5, <1>6, <1>7, <1>8, <1>9, <1>10, <1>11,
     <1>12 DEF FlushStep

LEMMA IInvStep == SafeSetting => (IInv /\ [Next]_vars => IInv')
<1> SUFFICES ASSUME SafeSetting, IInv, [Next]_vars PROVE IInv'
  OBVIOUS
<1>0. TInv'
  BY TypeStep DEF IInv
<1> USE <1>0 DEF IInv, TInv, TypeOK, UnpushedNotShown, BatchAsRead, InHand,
                 AtMostOncePush, store, flags, flush
<1>1. ASSUME NEW l \in Listener, NEW m \in Message, Route(l, m) PROVE IInv'
  BY <1>1 DEF Route, CurIsMessage, Holding
<1>2. ASSUME NEW c \in Consumer, NEW m \in Message, Ack(c, m) PROVE IInv'
  BY <1>2 DEF Ack
<1>3. ASSUME NEW m \in Message, BackoffElapses(m) PROVE IInv'
  BY <1>3 DEF BackoffElapses
<1>4. CASE EditCredentials
  BY <1>4 DEF EditCredentials
<1>5. ASSUME NEW l \in Listener, Start(l) \/ Reload(l) \/ Stop(l) \/ Crash(l)
      PROVE IInv'
  BY <1>5 DEF Start, TakesSetting, Reload, Stop, Crash, Leave
<1>6. ASSUME NEW l \in Listener, FlushStep(l) PROVE IInv'
  BY <1>6, FlushKeepsIInv
<1>7. CASE UNCHANGED vars
  BY <1>7 DEF vars
<1> QED
  BY <1>1, <1>2, <1>3, <1>4, <1>5, <1>6, <1>7 DEF Next

LEMMA IInvInit == Init => IInv
BY DEF Init, IInv, TInv, TypeOK, CurIsMessage, Holding, EventStates, RowStates,
       Phases, MaxDelivered, UnpushedNotShown, BatchAsRead, InHand,
       AtMostOncePush

\* One listener gives the session each message at most once, through crashes,
\* restarts and failing statements: it never sends a row it has not marked.
THEOREM PushedAtMostOnce == ASSUME SafeSetting PROVE Spec => []AtMostOncePush
<1>1. IInv => AtMostOncePush
  BY DEF IInv
<1>2. IInv /\ [Next]_vars => IInv'
  BY IInvStep
<1> QED
  BY <1>1, <1>2, IInvInit, PTL DEF Spec

-----------------------------------------------------------------------------
(***************************************************************************)
(* The push path implements PushOnce: Route accepts, a send that reached   *)
(* the session shows, the first statement of MarkPushAcked settles, and    *)
(* every other step moves a row between PENDING, RETRY and SENT.           *)
(***************************************************************************)

LEMMA FlushImplements ==
    ASSUME SafeSetting, IInv, IInv', NEW l \in Listener, FlushStep(l)
    PROVE  [Contract!PNext]_(Contract!pvars)
<1> USE DEF SafeSetting, IInv, TInv, TypeOK, CurIsMessage, Holding,
            BatchAsRead, InHand, store, flags, flush,
            Goto, Hold, Done, Return, Contract!PNext, Contract!pvars
<1>1. CASE MarkAckedRow(l)
  <2>1. PICK m \in batch[l] : IsNext(m, batch[l]) /\ row' = [row EXCEPT ![m] = "ACKED"]
    BY <1>1 DEF MarkAckedRow
  <2>2. m \in Message /\ row[m] = "SENT"
    BY <1>1, <2>1 DEF MarkAckedRow
  <2>3. Contract!Settle(m)
    BY <1>1, <2>1, <2>2 DEF MarkAckedRow, Contract!Settle
  <2> QED
    BY <2>2, <2>3
<1>2. CASE SendOk(l)
  <2>1. cur[l] \in Message /\ row[cur[l]] = "SENT" /\ delivered[cur[l]] = 0
    BY <1>2 DEF SendOk
  <2>2. Contract!Show(cur[l])
    BY <1>2, <2>1 DEF SendOk, Deliver, MaxDelivered, Contract!Show
  <2> QED
    BY <2>1, <2>2
<1>3. CASE MarkInflightRow(l)
  BY <1>3 DEF MarkInflightRow, IsNext
<1>4. CASE MarkSentRow(l)
  BY <1>4 DEF MarkSentRow
<1>5. CASE MarkRetry(l)
  BY <1>5 DEF MarkRetry
<1>6. CASE BeginFlush(l) \/ ListDueRows(l) \/ ResolveSession(l) \/ EndFlush(l)
  BY <1>6 DEF BeginFlush, ListDueRows, ResolveSession, EndFlush
<1>7. CASE MarkAckedEvent(l) \/ MarkInflightEvent(l) \/ MarkSentEvent(l)
  BY <1>7 DEF MarkAckedEvent, MarkInflightEvent, MarkSentEvent
<1>8. CASE MarkAckedFails(l) \/ MarkInflightFails(l) \/ MarkOutcomeFails(l)
  BY <1>8 DEF MarkAckedFails, MarkInflightFails, MarkOutcomeFails
<1>9. CASE SendFails(l)
  BY <1>9 DEF SendFails
<1> QED
  BY <1>1, <1>2, <1>3, <1>4, <1>5, <1>6, <1>7, <1>8, <1>9 DEF FlushStep

LEMMA StepImplements ==
    ASSUME SafeSetting, IInv, IInv', [Next]_vars
    PROVE  [Contract!PNext]_(Contract!pvars)
<1> USE DEF IInv, TInv, TypeOK, store, flags, flush, Contract!PNext, Contract!pvars
<1>1. ASSUME NEW l \in Listener, NEW m \in Message, Route(l, m)
      PROVE  [Contract!PNext]_(Contract!pvars)
  <2>1. row[m] = "none"
    BY <1>1 DEF Route, UnpushedNotShown
  <2>2. CASE routeOn[l]
    <3>1. Contract!Accept(m)
      BY <1>1, <2>1, <2>2 DEF Route, Contract!Accept
    <3> QED
      BY <3>1
  <2>3. CASE ~routeOn[l]
    BY <1>1, <2>1, <2>3 DEF Route
  <2> QED
    BY <2>2, <2>3
<1>2. ASSUME NEW c \in Consumer, NEW m \in Message, Ack(c, m)
      PROVE  [Contract!PNext]_(Contract!pvars)
  BY <1>2 DEF Ack
<1>3. ASSUME NEW m \in Message, BackoffElapses(m)
      PROVE  [Contract!PNext]_(Contract!pvars)
  BY <1>3 DEF BackoffElapses
<1>4. CASE EditCredentials
  BY <1>4 DEF EditCredentials
<1>5. ASSUME NEW l \in Listener, Start(l) \/ Reload(l) \/ Stop(l) \/ Crash(l)
      PROVE  [Contract!PNext]_(Contract!pvars)
  BY <1>5 DEF Start, TakesSetting, Reload, Stop, Crash, Leave
<1>6. ASSUME NEW l \in Listener, FlushStep(l)
      PROVE  [Contract!PNext]_(Contract!pvars)
  BY <1>6, FlushImplements
<1>7. CASE UNCHANGED vars
  BY <1>7 DEF vars
<1> QED
  BY <1>1, <1>2, <1>3, <1>4, <1>5, <1>6, <1>7 DEF Next

\* The detailed push path implements the abstract contract.
THEOREM Implementation == ASSUME SafeSetting PROVE Spec => ImplementsPushOnce
<1>1. Init => Contract!PInit
  BY DEF Init, Contract!PInit
<1>2. IInv /\ [Next]_vars => IInv'
  BY IInvStep
<1>3. IInv /\ IInv' /\ [Next]_vars => [Contract!PNext]_(Contract!pvars)
  BY StepImplements
<1> QED
  BY <1>1, <1>2, <1>3, IInvInit, PTL
     DEF Spec, ImplementsPushOnce, Contract!PSpec

\* A row that is ACKED stays ACKED.
THEOREM AckedStaysAcked == ASSUME SafeSetting PROVE Spec => AckedIsFinal
<1>1. IInv /\ IInv' /\ [Next]_vars
      => [\A m \in Message : row[m] = "ACKED" => row'[m] = "ACKED"]_vars
  <2> SUFFICES ASSUME IInv, IInv', Next,
                      NEW m \in Message, row[m] = "ACKED"
               PROVE  row'[m] = "ACKED"
    OBVIOUS
  <2>1. [Contract!PNext]_(Contract!pvars)
    BY StepImplements
  <2>2. m \in {k \in Message : row'[k] = "ACKED"}
    BY <2>1 DEF Contract!PNext, Contract!pvars, Contract!Accept, Contract!Show,
                Contract!Settle
  <2> QED
    BY <2>2
<1>2. IInv /\ [Next]_vars => IInv'
  BY IInvStep
<1> QED
  BY <1>1, <1>2, IInvInit, PTL DEF Spec, AckedIsFinal

-----------------------------------------------------------------------------
(***************************************************************************)
(* ACKED means pushed.  One listener, whose process does not die inside a  *)
(* flush and whose statements do not fail; it may stop between flushes, run*)
(* out of time, find no session, be refused, and not know what became of a *)
(* send.  A SENT row was then given to the session, or is the row in hand  *)
(* on its way there or back; and while phase 1 runs no row is in hand.     *)
(***************************************************************************)
NothingIsCut ==
    /\ \A l, k \in Listener : l = k
    /\ Faults \cap {"crash", "store"} = {}

\* A row between its in-flight mark and the mark of its outcome.
UnderWay(m) ==
    \E l \in Listener : cur[l] = m /\ pc[l] \in {"inflightEvent", "send", "retry"}

SentWasShown == \A m \in Message : row[m] = "SENT" => delivered[m] > 0 \/ UnderWay(m)

\* What phase 1 has read, and what phase 2 has just sent.
HeldWasShown ==
    \A l \in Listener :
        /\ pc[l] \in {"ackRow", "ackEvent"} => \A m \in batch[l] : delivered[m] > 0
        /\ pc[l] \in {"sentRow", "sentEvent"} => delivered[cur[l]] > 0

ShownInv == TInv /\ SentWasShown /\ HeldWasShown /\ AckedWasPushed

LEMMA ShownGrows ==
    ASSUME NEW m \in Message, NEW k \in Message, NEW n \in {1, 2}, TypeOK, Deliver(k, n)
    PROVE  /\ delivered[m] > 0 => delivered'[m] > 0
           /\ delivered'[k] > 0
BY DEF Deliver, TypeOK, MaxDelivered

LEMMA FlushKeepsShown ==
    ASSUME NothingIsCut, ShownInv, TInv', NEW l \in Listener, FlushStep(l)
    PROVE  ShownInv'
<1> USE DEF NothingIsCut, ShownInv, TInv, TypeOK, CurIsMessage, Holding,
            UnderWay, SentWasShown, HeldWasShown, AckedWasPushed,
            store, flags, flush, Goto, Hold, Done, Return
<1>1. CASE BeginFlush(l)
  BY <1>1, ListsByStatus, ListsAreMessages DEF BeginFlush
<1>2. CASE MarkAckedRow(l)
  BY <1>2 DEF MarkAckedRow, IsNext
<1>3. CASE MarkAckedEvent(l)
  BY <1>3 DEF MarkAckedEvent
<1>4. CASE ListDueRows(l) \/ ResolveSession(l) \/ EndFlush(l)
  BY <1>4 DEF ListDueRows, ResolveSession, EndFlush
<1>5. CASE MarkInflightRow(l)
  BY <1>5 DEF MarkInflightRow, IsNext
<1>6. CASE MarkInflightEvent(l)
  BY <1>6 DEF MarkInflightEvent
<1>7. CASE SendOk(l)
  <2>1. PICK n \in {1, 2} : Deliver(cur[l], n)
    BY <1>7 DEF SendOk
  <2>2. \A m \in Message : delivered[m] > 0 => delivered'[m] > 0
    BY <1>7, <2>1, ShownGrows DEF SendOk
  <2>3. delivered'[cur[l]] > 0
    BY <1>7, <2>1, ShownGrows DEF SendOk
  <2> QED
    BY <1>7, <2>2, <2>3 DEF SendOk
<1>8. CASE SendFails(l)
  <2>1. \A m \in Message : delivered[m] > 0 => delivered'[m] > 0
    BY <1>8, ShownGrows DEF SendFails
  <2> QED
    BY <1>8, <2>1 DEF SendFails
<1>9. CASE MarkSentRow(l)
  BY <1>9 DEF MarkSentRow
<1>10. CASE MarkSentEvent(l)
  BY <1>10 DEF MarkSentEvent
<1>11. CASE MarkRetry(l)
  BY <1>11 DEF MarkRetry
<1>12. CASE MarkAckedFails(l) \/ MarkInflightFails(l) \/ MarkOutcomeFails(l)
  BY <1>12 DEF MarkAckedFails, MarkInflightFails, MarkOutcomeFails
<1> QED
  BY <1>1, <1>2, <1>3, <1>4, <1>5, <1>6, <1>7, <1>8, <1>9, <1>10, <1>11, <1>12
  DEF FlushStep

LEMMA ShownStep == NothingIsCut => (ShownInv /\ [Next]_vars => ShownInv')
<1> SUFFICES ASSUME NothingIsCut, ShownInv, [Next]_vars PROVE ShownInv'
  OBVIOUS
<1>0. TInv'
  BY TypeStep DEF ShownInv
<1> USE <1>0 DEF NothingIsCut, ShownInv, TInv, TypeOK, UnderWay, SentWasShown,
                 HeldWasShown, AckedWasPushed, store, flags, flush
<1>1. ASSUME NEW l \in Listener, NEW m \in Message, Route(l, m) PROVE ShownInv'
  BY <1>1 DEF Route
<1>2. ASSUME NEW c \in Consumer, NEW m \in Message, Ack(c, m) PROVE ShownInv'
  BY <1>2 DEF Ack
<1>3. ASSUME NEW m \in Message, BackoffElapses(m) PROVE ShownInv'
  BY <1>3 DEF BackoffElapses
<1>4. CASE EditCredentials
  BY <1>4 DEF EditCredentials
<1>5. ASSUME NEW l \in Listener, Start(l) \/ Reload(l) \/ Stop(l) PROVE ShownInv'
  BY <1>5 DEF Start, TakesSetting, Reload, Stop, Leave
<1>6. ASSUME NEW l \in Listener, FlushStep(l) PROVE ShownInv'
  BY <1>6, FlushKeepsShown
<1>7. CASE UNCHANGED vars
  BY <1>7 DEF vars
<1>8. ASSUME NEW l \in Listener, Crash(l) PROVE ShownInv'
  BY <1>8 DEF Crash
<1> QED
  BY <1>1, <1>2, <1>3, <1>4, <1>5, <1>6, <1>7, <1>8 DEF Next

\* Where nothing cuts a flush short, a row is ACKED only if the session was given
\* its message, however often sends failed and flushes ran out of time.
THEOREM AckedMeansPushed == ASSUME NothingIsCut PROVE Spec => []AckedWasPushed
<1>1. Init => ShownInv
  BY DEF Init, ShownInv, TInv, TypeOK, CurIsMessage, Holding, EventStates, RowStates,
         Phases, MaxDelivered, UnderWay, SentWasShown, HeldWasShown, AckedWasPushed
<1>2. ShownInv /\ [Next]_vars => ShownInv'
  BY ShownStep
<1>3. ShownInv => AckedWasPushed
  BY DEF ShownInv
<1> QED
  BY <1>1, <1>2, <1>3, PTL DEF Spec

=============================================================================
