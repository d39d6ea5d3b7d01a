---------------------------- MODULE InboxProofs ----------------------------
(***************************************************************************)
(* Proofs about the inbox for any messages, listeners, consumers, limits   *)
(* and faults: types, that nothing answered for is lost, that cursors pass *)
(* over nothing and that nothing is handed twice; that the inbox binds as  *)
(* PeerSession does; and, with one binder, that what was handed out has a  *)
(* route.                                                                  *)
(***************************************************************************)
EXTENDS InboxProps, TLAPS, FiniteSetTheorems

-----------------------------------------------------------------------------
(***************************************************************************)
(* The bindings of peers to sessions: types, and with one binder that a    *)
(* binding never ages.                                                     *)
(***************************************************************************)

OneBinderOnly == \A a, b \in Binder : a = b

\* A binder between its two statements will not write an older row than there is.
NextIsNewer ==
    \A b \in Binder :
        target[b] # NoPeer => next[b].at >= route[target[b]].at

BInv == SessionTypeOK /\ NextIsNewer

LEMMA MergedIsRow ==
    ASSUME NEW old \in Row, NEW id \in Ref, NEW key \in Ref, NEW t \in Time
    PROVE  Merge(old, id, key, t) \in Row /\ Merge(old, id, key, t).at = t
BY TimeAssumption DEF Merge, Row

LEMMA UnboundIsRow == Unbound \in Row
BY DEF Unbound, Row, Ref

LEMMA InitSessionTypes == SessionInit => SessionTypeOK
BY UnboundIsRow DEF SessionInit, SessionTypeOK

LEMMA SessionStepTypes ==
    ASSUME SessionTypeOK, [SessionNext]_sessionVars
    PROVE  SessionTypeOK'
<1>1. CASE UNCHANGED sessionVars
  BY <1>1 DEF SessionTypeOK, sessionVars
<1>2. ASSUME NEW b \in Binder, Bind(b)
      PROVE  SessionTypeOK'
  <2>1. PICK p \in Peer, id \in Ref, key \in Ref, t \in Time : BindRead(b, p, id, key, t)
    BY <1>2 DEF Bind
  <2>2. Merge(route[p], id, key, t) \in Row
    BY MergedIsRow DEF SessionTypeOK
  <2> QED
    BY <2>1, <2>2 DEF BindRead, SessionTypeOK
<1>3. ASSUME NEW b \in Binder, BindUpsert(b)
      PROVE  SessionTypeOK'
  <2>1. target[b] \in Peer /\ next[b] \in Row
    BY <1>3 DEF BindUpsert, SessionTypeOK
  <2> QED
    BY <1>3, <2>1, UnboundIsRow DEF BindUpsert, Returns, SessionTypeOK
<1>4. ASSUME NEW b \in Binder, BindFails(b)
      PROVE  SessionTypeOK'
  BY <1>4, UnboundIsRow DEF BindFails, Returns, SessionTypeOK
<1> QED
  BY <1>1, <1>2, <1>3, <1>4 DEF SessionNext

LEMMA SessionStepNewer ==
    ASSUME OneBinderOnly, BInv, [SessionNext]_sessionVars
    PROVE  NextIsNewer' /\ \A p \in Peer : route'[p].at >= route[p].at
<1> USE DEF BInv
<1>0. \A p \in Peer : route[p].at \in Nat
  BY DEF SessionTypeOK, Row
<1>1. CASE UNCHANGED sessionVars
  BY <1>0, <1>1 DEF NextIsNewer, sessionVars
<1>2. ASSUME NEW b \in Binder, Bind(b)
      PROVE  NextIsNewer' /\ UNCHANGED route
  <2>1. PICK p \in Peer, id \in Ref, key \in Ref, t \in Time : BindRead(b, p, id, key, t)
    BY <1>2 DEF Bind
  <2>2. Merge(route[p], id, key, t).at = t
    BY MergedIsRow DEF SessionTypeOK
  <2>3. t >= route[p].at
    BY <1>0, <2>1, TimeAssumption DEF BindRead, Stale
  <2>4. target'[b] = p /\ next'[b].at = t /\ route' = route
    BY <2>1, <2>2 DEF BindRead, SessionTypeOK
  <2> QED
    BY <2>3, <2>4 DEF OneBinderOnly, NextIsNewer
<1>3. ASSUME NEW b \in Binder, BindUpsert(b)
      PROVE  NextIsNewer' /\ \A p \in Peer : route'[p].at >= route[p].at
  <2>1. target[b] \in Peer /\ next[b].at >= route[target[b]].at
    BY <1>3 DEF BindUpsert, SessionTypeOK, NextIsNewer
  <2>2. target'[b] = NoPeer
    BY <1>3 DEF BindUpsert, Returns, SessionTypeOK
  <2>3. NextIsNewer'
    BY <2>2 DEF OneBinderOnly, NextIsNewer
  <2>4. \A p \in Peer : route'[p] = IF p = target[b] THEN next[b] ELSE route[p]
    BY <1>3 DEF BindUpsert, SessionTypeOK
  <2> QED
    BY <1>0, <2>1, <2>3, <2>4
<1>4. ASSUME NEW b \in Binder, BindFails(b)
      PROVE  NextIsNewer' /\ UNCHANGED route
  BY <1>4 DEF BindFails, Returns, SessionTypeOK, OneBinderOnly, NextIsNewer
<1> QED
  BY <1>0, <1>1, <1>2, <1>3, <1>4 DEF SessionNext

LEMMA InitBInv == SessionInit => BInv
BY InitSessionTypes DEF BInv, NextIsNewer, SessionInit

-----------------------------------------------------------------------------
\* The bindings keep their types, with any number of binders.
THEOREM SessionTypeCorrect == SessionSpec => []SessionTypeOK
<1> QED
  BY InitSessionTypes, SessionStepTypes, PTL DEF SessionSpec

\* With one binder a binding is never replaced by an older one, through calls that
\* end between their two statements.  (sessions_race: with two, it may be.)
THEOREM BindingsNeverAge ==
    ASSUME OneBinderOnly
    PROVE  SessionSpec => BindingNeverAges
<1>1. BInv /\ [SessionNext]_sessionVars => BInv'
  BY SessionStepTypes, SessionStepNewer DEF BInv
<1>2. BInv /\ [SessionNext]_sessionVars
        => [\A p \in Peer : route'[p].at >= route[p].at]_sessionVars
  BY SessionStepNewer
<1> QED
  BY <1>1, <1>2, InitBInv, PTL DEF SessionSpec, BindingNeverAges

-----------------------------------------------------------------------------

(***************************************************************************)
(* The parts of the invariant.                                             *)
(***************************************************************************)

\* Only OpenClaw's pulls and acks bind.
OnlyBindersBind == \A c \in Consumer : c \notin Binder => toBind[c] = {}

TInv == TypeOK /\ OnlyBindersBind

\* The router has done with a message what Answer will vouch for.
RoutedIsKept ==
    \A l \in Listener :
        /\ pc[l] # "idle" => hand[l] \in Message
        /\ pc[l] = "answer" => Stored(hand[l]) \/ hand[l] \in dropped

\* Commands are about stored events, and an idle consumer has none.
CommandsAreSound ==
    \A c \in Consumer :
        /\ toBind[c] \subseteq got[c]
        /\ \A m \in got[c] : Stored(m)
        /\ doing[c] = "nothing" => got[c] = {}

\* A running pull is about events behind the cursor,
PullIsAhead ==
    \A c \in Consumer : doing[c] = "pull" => \A m \in got[c] : seq[m] > cursor[c]

\* and has left out none that lies before one of its events.
PullIsPrefix ==
    \A c \in Consumer, m \in Message : \A k \in got[c] :
        doing[c] = "pull" /\ Stored(m) /\ seq[m] <= seq[k] /\ Sender[m] \in Wants[c] =>
            m \in got[c] \/ <<c, m>> \in handed \/ <<c, m>> \in acked

\* What a consumer that resumes was handed lies at or below its cursor.
HandedIsBehind ==
    \A c \in Resumes, m \in Message :
        <<c, m>> \in handed => seq[m] \in 1..cursor[c]

StoreInv == RoutedIsKept /\ AnsweredIsStored
PullInv ==
    /\ CommandsAreSound /\ PullIsAhead /\ PullIsPrefix
    /\ CursorSkipsNothing /\ HandedIsBehind

-----------------------------------------------------------------------------
(***************************************************************************)
(* Every step of the inbox binds as PeerSession does, or not at all.       *)
(***************************************************************************)

LEMMA InboxStepBinds ==
    ASSUME TInv, [Next]_vars
    PROVE  [SessionNext]_sessionVars
<1> USE DEF history, router, events, commands
<1>1. CASE UNCHANGED vars
  BY <1>1 DEF vars, sessionVars
<1>2. ASSUME NEW m \in Message, Publish(m)
      PROVE  UNCHANGED sessionVars
  BY <1>2 DEF Publish
<1>3. ASSUME NEW l \in Listener,
             Crash(l) \/ \E m \in Message : Deliver(l, m) \/ Handle(l, m)
      PROVE  UNCHANGED sessionVars
  BY <1>3 DEF Crash, Deliver, Handle, Refuse, Store, Duplicate, Answer, Routed
<1>4. ASSUME NEW c \in Consumer,
             Pull(c) \/ PrintEvents(c) \/ PrintAck(c) \/ Kill(c) \/ \E m \in Message : Ack(c, m)
      PROVE  UNCHANGED sessionVars
  BY <1>4 DEF Pull, PrintEvents, PrintAck, Kill, Ack
<1>5. ASSUME NEW c \in Consumer, NEW m \in Message, BindStep(c, m), c \in Binder
      PROVE  [SessionNext]_sessionVars
  <2>1. CASE BindEvent(c, m)
    <3>1. PICK ref \in Given(c) : BindRead(c, Sender[m], ref[1], ref[2], MsgTs[m])
      BY <2>1 DEF BindEvent
    <3>2. Sender[m] \in Peer /\ MsgTs[m] \in Time
      BY SenderAssumption, MsgTsAssumption
    <3>3. Bind(c)
      BY <3>1, <3>2 DEF Bind, Given, Ref
    <3> QED
      BY <1>5, <3>3 DEF SessionNext
  <2>2. CASE SkipStale(c, m)
    BY <2>2 DEF SkipStale
  <2>3. CASE BoundEvent(c, m) \/ BindError(c, m)
    BY <1>5, <2>3 DEF BoundEvent, BindError, SessionNext
  <2> QED
    BY <1>5, <2>1, <2>2, <2>3 DEF BindStep
<1>6. ASSUME NEW c \in Consumer, NEW m \in Message, BindStep(c, m)
      PROVE  c \in Binder
  BY <1>6 DEF TInv, OnlyBindersBind, BindStep, BindEvent, SkipStale, BoundEvent,
      BindError, Binds
<1> QED
  BY <1>1, <1>2, <1>3, <1>4, <1>5, <1>6 DEF Next, CommandStep

-----------------------------------------------------------------------------
(***************************************************************************)
(* Types.                                                                  *)
(***************************************************************************)

LEMMA InitTInv == Init => TInv
BY InitSessionTypes DEF Init, TInv, TypeOK, OnlyBindersBind

LEMMA FirstIsSubset == ASSUME NEW S PROVE First(S) \subseteq S
BY DEF First

LEMMA StepTInv ==
    ASSUME TInv, [Next]_vars
    PROVE  TInv'
<1> USE DEF TInv, history, router, events, commands
<1>0. SessionTypeOK'
  BY InboxStepBinds, SessionStepTypes DEF TypeOK
<1>1. CASE UNCHANGED vars
  BY <1>0, <1>1 DEF TypeOK, OnlyBindersBind, vars
<1>2. ASSUME NEW m \in Message, Publish(m)
      PROVE  TInv'
  BY <1>0, <1>2 DEF Publish, TypeOK, OnlyBindersBind
<1>3. ASSUME NEW l \in Listener, Crash(l)
      PROVE  TInv'
  BY <1>0, <1>3 DEF Crash, TypeOK, OnlyBindersBind
<1>4. ASSUME NEW l \in Listener, NEW m \in Message, Deliver(l, m)
      PROVE  TInv'
  BY <1>0, <1>4 DEF Deliver, TypeOK, OnlyBindersBind
<1>5. ASSUME NEW l \in Listener, NEW m \in Message, Refuse(l, m) \/ Duplicate(l, m)
      PROVE  TInv'
  BY <1>0, <1>5 DEF Refuse, Duplicate, Routed, TypeOK, OnlyBindersBind
<1>6. ASSUME NEW l \in Listener, NEW m \in Message, Store(l, m)
      PROVE  TInv'
  <2>1. lastSeq' \in Nat /\ seq' \in [Message -> 0..lastSeq']
    BY <1>6 DEF Store, TypeOK
  <2>2. cursor' \in [Consumer -> 0..lastSeq']
    BY <1>6 DEF Store, Routed, TypeOK
  <2> QED
    BY <1>0, <1>6, <2>1, <2>2 DEF Store, Routed, TypeOK, OnlyBindersBind
<1>7. ASSUME NEW l \in Listener, NEW m \in Message, Answer(l, m)
      PROVE  TInv'
  BY <1>0, <1>7 DEF Answer, TypeOK, OnlyBindersBind
<1>8. ASSUME NEW c \in Consumer, Pull(c)
      PROVE  TInv'
  <2>1. First(Unread(c)) \subseteq Message
    BY FirstIsSubset DEF Unread
  <2> QED
    BY <1>0, <1>8, <2>1, OpenClawAssumption DEF Pull, Runs, TypeOK, OnlyBindersBind
<1>9. ASSUME NEW c \in Consumer, NEW m \in Message, Ack(c, m)
      PROVE  TInv'
  BY <1>0, <1>9 DEF Ack, Runs, TypeOK, OnlyBindersBind
<1>10. ASSUME NEW c \in Consumer, NEW m \in Message, BindStep(c, m)
       PROVE  TInv'
  BY <1>0, <1>10 DEF BindStep, BindEvent, SkipStale, BoundEvent, BindError, Binds,
      Rest, TypeOK, OnlyBindersBind
<1>11. ASSUME NEW c \in Consumer, PrintEvents(c)
       PROVE  TInv'
  <2>1. got[c] \subseteq Message
    BY DEF TypeOK
  <2>2. PICK last \in got[c] :
            cursor' = [cursor EXCEPT ![c] = IF c \in Resumes THEN seq[last] ELSE @]
    BY <1>11 DEF PrintEvents
  <2>3. cursor' \in [Consumer -> 0..lastSeq]
    BY <2>1, <2>2 DEF TypeOK
  <2>4. handed' \subseteq Consumer \X Message
    BY <1>11, <2>1 DEF PrintEvents, TypeOK
  <2> QED
    BY <1>0, <1>11, <2>3, <2>4 DEF PrintEvents, Runs, TypeOK, OnlyBindersBind
<1>12. ASSUME NEW c \in Consumer, PrintAck(c) \/ Kill(c)
       PROVE  TInv'
  BY <1>0, <1>12 DEF PrintAck, Kill, Runs, TypeOK, OnlyBindersBind
<1> QED
  BY <1>1, <1>2, <1>3, <1>4, <1>5, <1>6, <1>7, <1>8, <1>9, <1>10, <1>11, <1>12
  DEF Next, Handle, CommandStep

-----------------------------------------------------------------------------
(***************************************************************************)
(* Nothing answered for is lost.                                           *)
(***************************************************************************)

LEMMA StepStoreInv ==
    ASSUME TInv, StoreInv, [Next]_vars
    PROVE  StoreInv'
<1> USE DEF TInv, StoreInv, Stored, history, router, events, commands
<1>1. CASE UNCHANGED vars
  BY <1>1 DEF RoutedIsKept, AnsweredIsStored, vars
<1>2. ASSUME NEW m \in Message, Publish(m)
      PROVE  StoreInv'
  BY <1>2 DEF Publish, TypeOK, RoutedIsKept, AnsweredIsStored
<1>3. ASSUME NEW l \in Listener, Crash(l)
      PROVE  StoreInv'
  BY <1>3 DEF Crash, TypeOK, RoutedIsKept, AnsweredIsStored
<1>4. ASSUME NEW l \in Listener, NEW m \in Message, Deliver(l, m)
      PROVE  StoreInv'
  BY <1>4 DEF Deliver, TypeOK, RoutedIsKept, AnsweredIsStored
<1>5. ASSUME NEW l \in Listener, NEW m \in Message, Refuse(l, m) \/ Duplicate(l, m)
      PROVE  StoreInv'
  BY <1>5 DEF Refuse, Duplicate, Routed, TypeOK, RoutedIsKept, AnsweredIsStored
<1>6. ASSUME NEW l \in Listener, NEW m \in Message, Store(l, m)
      PROVE  StoreInv'
  <2>1. \A k \in Message : seq[k] > 0 => seq'[k] > 0
    BY <1>6 DEF Store, TypeOK
  <2>2. seq'[m] > 0
    BY <1>6 DEF Store, TypeOK
  <2>3. RoutedIsKept'
    BY <1>6, <2>1, <2>2 DEF Store, Routed, TypeOK, RoutedIsKept
  <2>4. AnsweredIsStored'
    BY <1>6, <2>1 DEF Store, Routed, AnsweredIsStored
  <2> QED
    BY <2>3, <2>4
<1>7. ASSUME NEW l \in Listener, NEW m \in Message, Answer(l, m)
      PROVE  StoreInv'
  BY <1>7 DEF Answer, TypeOK, RoutedIsKept, AnsweredIsStored
<1>8. ASSUME NEW c \in Consumer,
             \/ Pull(c) \/ CommandStep(c) \/ Kill(c)
             \/ \E m \in Message : Ack(c, m)
      PROVE  StoreInv'
  <2>1. UNCHANGED <<broker, pc, hand, seq, dropped>>
    BY <1>8 DEF Pull, Ack, CommandStep, BindStep, BindEvent, SkipStale, BoundEvent,
        BindError, PrintEvents, PrintAck, Kill
  <2> QED
    BY <2>1 DEF RoutedIsKept, AnsweredIsStored
<1> QED
  BY <1>1, <1>2, <1>3, <1>4, <1>5, <1>6, <1>7, <1>8 DEF Next, Handle

LEMMA InitStoreInv == Init => StoreInv
BY DEF Init, StoreInv, RoutedIsKept, AnsweredIsStored

-----------------------------------------------------------------------------
(***************************************************************************)
(* Cursors.                                                                *)
(***************************************************************************)

\* First is an initial part: what lies before one of its members is a member.
LEMMA FirstIsPrefix ==
    ASSUME TypeOK, NEW S \in SUBSET Message,
           NEW k \in First(S), NEW m \in S, seq[m] <= seq[k]
    PROVE  m \in First(S)
<1> DEFINE Before(n) == {j \in S : seq[j] < seq[n]}
<1>1. \A n \in Message : seq[n] \in Nat
  BY DEF TypeOK
<1>2. k \in S /\ Cardinality(Before(k)) < Limit
  BY DEF First
<1>3. Before(m) \in SUBSET Before(k)
  BY <1>1, <1>2
<1>4. IsFiniteSet(Before(k))
  BY MessageAssumption, FS_Subset
<1>5. /\ Cardinality(Before(m)) <= Cardinality(Before(k))
      /\ Cardinality(Before(m)) \in Nat /\ Cardinality(Before(k)) \in Nat
  BY <1>3, <1>4, FS_Subset, FS_CardinalityType
<1>6. Cardinality(Before(m)) < Limit
  BY <1>2, <1>5, LimitAssumption
<1> QED
  BY <1>6 DEF First

LEMMA PullKeepsPullInv ==
    ASSUME TInv, PullInv, NEW c \in Consumer, Pull(c)
    PROVE  PullInv'
<1> USE DEF TInv, PullInv, Pull, Runs, Stored, history, events
<1>1. Unread(c) \in SUBSET Message /\ First(Unread(c)) \subseteq Unread(c)
  BY FirstIsSubset DEF Unread
<1>2. \A d \in Consumer :
        /\ got'[d] = IF d = c THEN First(Unread(c)) ELSE got[d]
        /\ toBind'[d] \subseteq IF d = c THEN First(Unread(c)) ELSE toBind[d]
        /\ doing'[d] = IF d = c THEN "pull" ELSE doing[d]
  BY DEF TypeOK
<1>3. \A m \in Unread(c) : seq[m] \in Nat /\ cursor[c] \in Nat /\ seq[m] > cursor[c]
  BY DEF Unread, TypeOK
<1>4. CommandsAreSound'
  BY <1>1, <1>2, <1>3 DEF CommandsAreSound
<1>5. PullIsAhead'
  BY <1>1, <1>2, <1>3 DEF PullIsAhead
<1>6. PullIsPrefix'
  <2>1. ASSUME NEW m \in Message, NEW k \in First(Unread(c)),
               Stored(m), seq[m] <= seq[k], Sender[m] \in Wants[c]
        PROVE  m \in First(Unread(c)) \/ <<c, m>> \in handed \/ <<c, m>> \in acked
    <3>1. CASE seq[m] > cursor[c]
      BY <1>1, <2>1, <3>1, FirstIsPrefix DEF Unread
    <3>2. CASE ~(seq[m] > cursor[c])
      <4>1. seq[m] \in 1..cursor[c]
        BY <2>1, <3>2 DEF TypeOK
      <4> QED
        BY <2>1, <4>1 DEF CursorSkipsNothing
    <3> QED
      BY <3>1, <3>2
  <2> QED
    BY <1>2, <2>1 DEF PullIsPrefix
<1>7. CursorSkipsNothing' /\ HandedIsBehind'
  BY DEF CursorSkipsNothing, HandedIsBehind
<1> QED
  BY <1>4, <1>5, <1>6, <1>7

LEMMA StoreKeepsPullInv ==
    ASSUME TInv, PullInv, NEW l \in Listener, NEW m \in Message, Store(l, m)
    PROVE  PullInv'
<1> USE DEF TInv, PullInv, Store, Routed, Stored, commands
<1>1. /\ \A k \in Message : k # m => seq'[k] = seq[k]
      /\ seq[m] = 0 /\ seq'[m] = lastSeq + 1
      /\ \A k \in Message : seq[k] \in Nat /\ seq[k] <= lastSeq
      /\ \A c \in Consumer : cursor[c] \in Nat /\ cursor[c] <= lastSeq
      /\ lastSeq \in Nat
  BY DEF TypeOK
<1>2. \A c \in Consumer : got[c] \subseteq Message /\ m \notin got[c]
  BY <1>1 DEF TypeOK, CommandsAreSound
<1>3. CommandsAreSound' /\ PullIsAhead'
  BY <1>1, <1>2 DEF CommandsAreSound, PullIsAhead
<1>4. PullIsPrefix'
  BY <1>1, <1>2 DEF PullIsPrefix
<1>5. CursorSkipsNothing' /\ HandedIsBehind'
  BY <1>1 DEF CursorSkipsNothing, HandedIsBehind
<1> QED
  BY <1>3, <1>4, <1>5

LEMMA PrintKeepsPullInv ==
    ASSUME TInv, PullInv, NEW c \in Consumer, PrintEvents(c)
    PROVE  PullInv'
<1> USE DEF TInv, PullInv, Runs, Stored, events
<1>1. PICK last \in got[c] :
        /\ \A m \in got[c] : seq[m] <= seq[last]
        /\ cursor' = [cursor EXCEPT ![c] = IF c \in Resumes THEN seq[last] ELSE @]
  BY DEF PrintEvents
<1>2. /\ doing[c] = "pull" /\ handed' = handed \cup ({c} \X got[c])
      /\ UNCHANGED <<seq, acked>>
  BY DEF PrintEvents
<1>3. \A d \in Consumer :
        /\ got'[d] = IF d = c THEN {} ELSE got[d]
        /\ toBind'[d] = IF d = c THEN {} ELSE toBind[d]
        /\ doing'[d] = IF d = c THEN "nothing" ELSE doing[d]
        /\ d # c => cursor'[d] = cursor[d]
  BY <1>1 DEF PrintEvents, TypeOK
<1>4. \A d \in Consumer : got[d] \subseteq Message
  BY DEF TypeOK
<1>5. /\ \A m \in Message : seq[m] \in Nat
      /\ \A d \in Consumer : cursor[d] \in Nat
  BY DEF TypeOK
<1>6. CommandsAreSound' /\ PullIsAhead'
  BY <1>2, <1>3 DEF CommandsAreSound, PullIsAhead
<1>7. PullIsPrefix'
  BY <1>2, <1>3 DEF PullIsPrefix
<1>8. CursorSkipsNothing'
  <2>1. ASSUME NEW m \in Message, seq[m] \in 1..seq[last], Sender[m] \in Wants[c]
        PROVE  <<c, m>> \in handed' \/ <<c, m>> \in acked
    BY <1>2, <2>1 DEF PullIsPrefix
  <2>2. c \in Resumes => cursor'[c] = seq[last]
    BY <1>1 DEF TypeOK
  <2>3. c \notin Resumes => cursor'[c] = cursor[c]
    BY <1>1 DEF TypeOK
  <2> QED
    BY <1>2, <1>3, <2>1, <2>2, <2>3 DEF CursorSkipsNothing
<1>9. HandedIsBehind'
  <2>1. ASSUME c \in Resumes, NEW m \in Message, <<c, m>> \in handed'
        PROVE  seq[m] \in 1..cursor'[c]
    <3>1. cursor'[c] = seq[last] /\ seq[last] > cursor[c]
      BY <1>1, <1>2, <2>1 DEF TypeOK, PullIsAhead
    <3>2. CASE <<c, m>> \in handed
      BY <1>4, <1>5, <2>1, <3>1, <3>2 DEF HandedIsBehind
    <3>3. CASE m \in got[c]
      BY <1>1, <1>4, <1>5, <3>1, <3>3 DEF CommandsAreSound
    <3> QED
      BY <1>2, <2>1, <3>2, <3>3
  <2>2. ASSUME NEW d \in Resumes, d # c, NEW m \in Message, <<d, m>> \in handed'
        PROVE  seq[m] \in 1..cursor'[d]
    BY <1>2, <1>3, <2>2, ResumesAssumption DEF HandedIsBehind
  <2> QED
    BY <1>2, <2>1, <2>2 DEF HandedIsBehind
<1> QED
  BY <1>6, <1>7, <1>8, <1>9

LEMMA StepPullInv ==
    ASSUME TInv, PullInv, [Next]_vars
    PROVE  PullInv'
<1> USE DEF TInv, PullInv, Stored, history, router, events, commands
<1>1. CASE UNCHANGED vars
  BY <1>1 DEF vars, CommandsAreSound, PullIsAhead, PullIsPrefix, CursorSkipsNothing,
      HandedIsBehind
<1>2. ASSUME NEW l \in Listener, NEW m \in Message,
             Deliver(l, m) \/ Refuse(l, m) \/ Duplicate(l, m) \/ Answer(l, m)
      PROVE  PullInv'
  <2>1. UNCHANGED <<seq, acked, doing, got, toBind, cursor, handed>>
    BY <1>2 DEF Deliver, Refuse, Duplicate, Answer, Routed
  <2> QED
    BY <2>1 DEF CommandsAreSound, PullIsAhead, PullIsPrefix, CursorSkipsNothing,
        HandedIsBehind
<1>3. ASSUME NEW m \in Message, Publish(m)
      PROVE  PullInv'
  BY <1>3 DEF Publish, CommandsAreSound, PullIsAhead, PullIsPrefix,
      CursorSkipsNothing, HandedIsBehind
<1>4. ASSUME NEW c \in Consumer, NEW m \in Message, Ack(c, m)
      PROVE  PullInv'
  <2>1. acked \subseteq acked' /\ UNCHANGED <<seq, cursor, handed>>
    BY <1>4 DEF Ack
  <2>2. \A d \in Consumer :
          \/ UNCHANGED <<got[d], toBind[d], doing[d]>>
          \/ got'[d] = {m} /\ toBind'[d] = {m} /\ doing'[d] = "ack"
    BY <1>4 DEF Ack, Runs, TypeOK
  <2>3. Stored(m)
    BY <1>4 DEF Ack
  <2>4. CommandsAreSound'
    BY <2>1, <2>2, <2>3 DEF CommandsAreSound
  <2>5. PullIsAhead' /\ PullIsPrefix'
    BY <2>1, <2>2 DEF PullIsAhead, PullIsPrefix
  <2>6. CursorSkipsNothing' /\ HandedIsBehind'
    BY <2>1 DEF CursorSkipsNothing, HandedIsBehind
  <2> QED
    BY <2>4, <2>5, <2>6
<1>5. ASSUME NEW c \in Consumer, NEW m \in Message, BindStep(c, m)
      PROVE  PullInv'
  <2>1. UNCHANGED <<seq, acked, doing, got, cursor, handed>>
    BY <1>5 DEF BindStep, BindEvent, SkipStale, BoundEvent, BindError
  <2>2. \A d \in Consumer : toBind'[d] \subseteq toBind[d]
    BY <1>5 DEF BindStep, BindEvent, SkipStale, BoundEvent, BindError, Rest, TypeOK
  <2>3. CommandsAreSound'
    BY <2>1, <2>2 DEF CommandsAreSound
  <2> QED
    BY <2>1, <2>3 DEF PullIsAhead, PullIsPrefix, CursorSkipsNothing, HandedIsBehind
<1>6. ASSUME NEW c \in Consumer, PrintAck(c) \/ Kill(c)
      PROVE  PullInv'
  <2>1. UNCHANGED <<seq, acked, cursor, handed>>
    BY <1>6 DEF PrintAck, Kill
  <2>2. \A d \in Consumer :
          \/ UNCHANGED <<got[d], toBind[d], doing[d]>>
          \/ got'[d] = {} /\ toBind'[d] = {} /\ doing'[d] = "nothing"
    BY <1>6 DEF PrintAck, Kill, Runs, TypeOK
  <2>3. CommandsAreSound'
    BY <2>1, <2>2 DEF CommandsAreSound
  <2>4. PullIsAhead' /\ PullIsPrefix'
    BY <2>1, <2>2 DEF PullIsAhead, PullIsPrefix
  <2> QED
    BY <2>1, <2>3, <2>4 DEF CursorSkipsNothing, HandedIsBehind
<1>7. ASSUME NEW l \in Listener, Crash(l)
      PROVE  PullInv'
  BY <1>7 DEF Crash, CommandsAreSound, PullIsAhead, PullIsPrefix,
      CursorSkipsNothing, HandedIsBehind
<1> QED
  BY <1>1, <1>2, <1>3, <1>4, <1>5, <1>6, <1>7,
     PullKeepsPullInv, StoreKeepsPullInv, PrintKeepsPullInv
  DEF Next, Handle, CommandStep

LEMMA InitPullInv == Init => PullInv
BY DEF Init, PullInv, CommandsAreSound, PullIsAhead, PullIsPrefix,
    CursorSkipsNothing, HandedIsBehind

\* A pull that is ahead of its cursor is about nothing that lies behind it.
LEMMA AheadIsNew == TInv /\ PullInv => HandedOnce
BY ResumesAssumption
DEF TInv, TypeOK, PullInv, PullIsAhead, HandedIsBehind, HandedOnce

-----------------------------------------------------------------------------
(***************************************************************************)
(* Routes, with one binder.                                                *)
(***************************************************************************)

SeqsDiffer ==
    \A m, k \in Message : Stored(m) /\ seq[m] = seq[k] => m = k

\* Between its two statements a consumer binds the event whose turn it is.
TargetIsInHand ==
    \A c \in Binder : target[c] # NoPeer =>
        \E m \in Message : Binds(c, m) /\ target[c] = Sender[m] /\ next[c].at = MsgTs[m]

HasRoute(m) == m \in unbound \/ route[Sender[m]].at >= MsgTs[m]

\* What a pull of OpenClaw has no longer to bind has a route.
BoundHasRoute ==
    \A c \in OpenClaw : doing[c] = "pull" => \A m \in got[c] \ toBind[c] : HasRoute(m)

RouteInv == SeqsDiffer /\ TargetIsInHand /\ BoundHasRoute /\ HandedHasRoute

\* Routes are never lost: a binding never ages, and a failure is not forgotten.
LEMMA RoutesStay ==
    ASSUME OneBinderOnly, TInv, BInv, [Next]_vars, NEW m \in Message, HasRoute(m)
    PROVE  HasRoute(m)'
<1>1. \A p \in Peer : route'[p].at >= route[p].at
  BY InboxStepBinds, SessionStepNewer
<1>2. unbound \subseteq unbound'
  <2>1. CASE UNCHANGED vars \/ \E k \in Message : Publish(k)
    BY <2>1 DEF vars, Publish, history
  <2>2. ASSUME NEW l \in Listener,
               Crash(l) \/ \E k \in Message : Deliver(l, k) \/ Handle(l, k)
        PROVE  unbound \subseteq unbound'
    BY <2>2 DEF Crash, Deliver, Handle, Refuse, Store, Duplicate, Answer, Routed, history
  <2>3. ASSUME NEW c \in Consumer,
               Pull(c) \/ PrintEvents(c) \/ PrintAck(c) \/ Kill(c) \/ \E k \in Message : Ack(c, k)
        PROVE  unbound \subseteq unbound'
    BY <2>3 DEF Pull, PrintEvents, PrintAck, Kill, Ack, history
  <2>4. ASSUME NEW c \in Consumer, NEW k \in Message, BindStep(c, k)
        PROVE  unbound \subseteq unbound'
    BY <2>4 DEF BindStep, BindEvent, SkipStale, BoundEvent, BindError, history
  <2> QED
    BY <2>1, <2>2, <2>3, <2>4 DEF Next, CommandStep
<1>3. Sender[m] \in Peer /\ MsgTs[m] \in Nat
  BY SenderAssumption, MsgTsAssumption, TimeAssumption
<1>4. route[Sender[m]].at \in Nat /\ route'[Sender[m]].at \in Nat
  BY <1>3, StepTInv DEF TInv, TypeOK, SessionTypeOK, Row
<1> QED
  BY <1>1, <1>2, <1>3, <1>4 DEF HasRoute

LEMMA StepSeqsDiffer ==
    ASSUME TInv, SeqsDiffer, [Next]_vars
    PROVE  SeqsDiffer'
<1>1. CASE UNCHANGED seq
  BY <1>1 DEF SeqsDiffer, Stored
<1>2. ASSUME NEW l \in Listener, NEW m \in Message, Store(l, m)
      PROVE  SeqsDiffer'
  <2>1. /\ \A k \in Message : seq[k] \in Nat /\ seq[k] <= lastSeq
        /\ lastSeq \in Nat
        /\ \A k \in Message : seq'[k] = IF k = m THEN lastSeq + 1 ELSE seq[k]
    BY <1>2 DEF TInv, TypeOK, Store
  <2> QED
    BY <2>1 DEF SeqsDiffer, Stored
<1>3. UNCHANGED seq \/ \E l \in Listener, m \in Message : Store(l, m)
  <2>1. CASE UNCHANGED vars \/ \E k \in Message : Publish(k)
    BY <2>1 DEF vars, Publish, events
  <2>2. ASSUME NEW l \in Listener,
               Crash(l) \/ \E k \in Message : Deliver(l, k) \/ Handle(l, k)
        PROVE  UNCHANGED seq \/ \E k \in Message : Store(l, k)
    BY <2>2 DEF Crash, Deliver, Handle, Refuse, Duplicate, Answer, events
  <2>3. ASSUME NEW c \in Consumer,
               Pull(c) \/ CommandStep(c) \/ Kill(c) \/ \E k \in Message : Ack(c, k)
        PROVE  UNCHANGED seq
    BY <2>3 DEF Pull, CommandStep, BindStep, BindEvent, SkipStale, BoundEvent,
       BindError, PrintEvents, PrintAck, Kill, Ack, events
  <2> QED
    BY <2>1, <2>2, <2>3 DEF Next
<1> QED
  BY <1>1, <1>2, <1>3

\* The event a command binds next is one.
LEMMA OneAtATime ==
    ASSUME TInv, PullInv, SeqsDiffer, NEW c \in Consumer,
           NEW m \in Message, Binds(c, m), NEW k \in Message, Binds(c, k)
    PROVE  m = k
<1>1. Stored(m) /\ seq[m] \in Nat /\ seq[k] \in Nat
  BY DEF Binds, PullInv, CommandsAreSound, TInv, TypeOK
<1>2. seq[m] <= seq[k] /\ seq[k] <= seq[m]
  BY DEF Binds
<1> QED
  BY <1>1, <1>2 DEF SeqsDiffer

LEMMA BindStepKeepsRouteInv ==
    ASSUME OneBinderOnly, TInv, BInv, PullInv, RouteInv, [Next]_vars,
           NEW c \in Consumer, NEW m \in Message, BindStep(c, m)
    PROVE  TargetIsInHand' /\ BoundHasRoute' /\ HandedHasRoute'
<1> USE DEF TInv, RouteInv, Rest
<1>1. c \in Binder /\ Binds(c, m) /\ m \in got[c] /\ got[c] \subseteq Message
  BY DEF BindStep, BindEvent, SkipStale, BoundEvent, BindError, Binds, OnlyBindersBind,
     PullInv, CommandsAreSound, TypeOK
<1>2. \A b \in Binder : b = c
  BY <1>1 DEF OneBinderOnly
<1>3. UNCHANGED <<seq, doing, got, handed>>
  BY DEF BindStep, BindEvent, SkipStale, BoundEvent, BindError, events, commands, history
<1>4. HandedHasRoute'
  BY <1>3, RoutesStay DEF HandedHasRoute, HasRoute
<1>5. \A k \in got[c] \ toBind[c] : c \in OpenClaw /\ doing[c] = "pull" => HasRoute(k)'
  BY <1>1, RoutesStay DEF BoundHasRoute
<1>6. Sender[m] \in Peer /\ MsgTs[m] \in Time /\ MsgTs[m] \in Nat
  BY SenderAssumption, MsgTsAssumption, TimeAssumption
<1>7. CASE BindEvent(c, m)
  <2>1. PICK ref \in Given(c) : BindRead(c, Sender[m], ref[1], ref[2], MsgTs[m])
    BY <1>7 DEF BindEvent
  <2>2. target'[c] = Sender[m] /\ next'[c].at = MsgTs[m]
    BY <1>1, <2>1 DEF BindRead, Merge, TypeOK, SessionTypeOK
  <2>3. toBind' = toBind
    BY <1>7 DEF BindEvent, commands
  <2>4. Binds(c, m)'
    BY <1>1, <1>3, <2>3 DEF Binds
  <2>5. TargetIsInHand'
    BY <1>2, <2>2, <2>4 DEF TargetIsInHand
  <2> QED
    BY <1>2, <1>3, <1>4, <1>5, <2>3, <2>5, OpenClawAssumption DEF BoundHasRoute
<1>8. CASE SkipStale(c, m) \/ BoundEvent(c, m) \/ BindError(c, m)
  <2>1. target'[c] = NoPeer
    <3>1. CASE SkipStale(c, m)
      BY <3>1 DEF SkipStale, sessionVars
    <3>2. CASE BoundEvent(c, m) \/ BindError(c, m)
      BY <1>1, <3>2 DEF BoundEvent, BindError, BindUpsert, BindFails, Returns,
         TypeOK, SessionTypeOK
    <3> QED
      BY <1>8, <3>1, <3>2
  <2>2. toBind'[c] = toBind[c] \ {m}
    BY <1>1, <1>8 DEF SkipStale, BoundEvent, BindError, TypeOK
  <2>3. HasRoute(m)'
    <3>1. CASE SkipStale(c, m)
      <4>1. route[Sender[m]].at \in Nat
        BY <1>6 DEF TypeOK, SessionTypeOK, Row
      <4> QED
        BY <1>6, <3>1, <4>1 DEF SkipStale, Stale, HasRoute, sessionVars
    <3>2. CASE BoundEvent(c, m)
      <4>1. target[c] = Sender[m] /\ next[c].at = MsgTs[m]
        <5>1. target[c] # NoPeer
          BY <3>2 DEF BoundEvent, BindUpsert
        <5>2. PICK k \in Message :
                  Binds(c, k) /\ target[c] = Sender[k] /\ next[c].at = MsgTs[k]
          BY <1>1, <5>1 DEF TargetIsInHand
        <5> QED
          BY <1>1, <5>2, OneAtATime
      <4>2. route'[Sender[m]] = next[c]
        BY <1>6, <3>2, <4>1 DEF BoundEvent, BindUpsert, TypeOK, SessionTypeOK
      <4> QED
        BY <1>6, <4>1, <4>2 DEF HasRoute
    <3>3. CASE BindError(c, m)
      BY <3>3 DEF BindError, HasRoute
    <3> QED
      BY <1>8, <3>1, <3>2, <3>3
  <2>4. TargetIsInHand'
    BY <1>2, <2>1 DEF TargetIsInHand
  <2>5. BoundHasRoute'
    BY <1>1, <1>2, <1>3, <1>5, <2>2, <2>3, OpenClawAssumption DEF BoundHasRoute
  <2> QED
    BY <1>4, <2>4, <2>5
<1> QED
  BY <1>7, <1>8 DEF BindStep

LEMMA StoreKeepsRouteInv ==
    ASSUME OneBinderOnly, TInv, BInv, PullInv, RouteInv, [Next]_vars,
           NEW l \in Listener, NEW m \in Message, Store(l, m)
    PROVE  TargetIsInHand' /\ BoundHasRoute' /\ HandedHasRoute'
<1> USE DEF TInv, RouteInv
<1>1. UNCHANGED <<doing, got, toBind, target, next, handed>>
  BY DEF Store, Routed, commands, sessionVars
<1>2. /\ \A k \in Message : k # m => seq'[k] = seq[k]
      /\ ~Stored(m)
  BY DEF Store, TypeOK
<1>3. \A c \in Consumer : toBind[c] \subseteq Message \ {m}
  BY <1>2 DEF PullInv, CommandsAreSound, TypeOK
<1>4. \A c \in Consumer, k \in Message : Binds(c, k) => Binds(c, k)'
  BY <1>1, <1>2, <1>3 DEF Binds
<1>5. TargetIsInHand'
  BY <1>1, <1>4, BinderAssumption DEF TargetIsInHand
<1>6. BoundHasRoute'
  BY <1>1, RoutesStay, BinderAssumption, OpenClawAssumption DEF BoundHasRoute, TypeOK
<1>7. HandedHasRoute'
  BY <1>1, RoutesStay DEF HandedHasRoute, HasRoute
<1> QED
  BY <1>5, <1>6, <1>7

\* The other commands do not touch the bindings, and start and end between them.
LEMMA CommandKeepsRouteInv ==
    ASSUME OneBinderOnly, TInv, BInv, PullInv, RouteInv, [Next]_vars,
           NEW c \in Consumer,
           \/ Pull(c) \/ PrintEvents(c) \/ PrintAck(c) \/ Kill(c)
           \/ \E m \in Message : Ack(c, m)
    PROVE  TargetIsInHand' /\ BoundHasRoute' /\ HandedHasRoute'
<1> USE DEF TInv, RouteInv, Runs, events, commands, history
<1>1. UNCHANGED <<seq, target, next>>
  BY DEF Pull, PrintEvents, PrintAck, Kill, Ack, sessionVars
<1>2. \A d \in Consumer : d # c => UNCHANGED <<doing[d], got[d], toBind[d]>>
  BY DEF Pull, PrintEvents, PrintAck, Kill, Ack, TypeOK
<1>3. \A d \in Consumer : got[d] \subseteq Message
  BY DEF TypeOK
<1>4. \/ UNCHANGED <<doing[c], got[c], toBind[c]>>
      \/ doing'[c] = "pull" /\ (c \in OpenClaw => toBind'[c] = got'[c])
      \/ doing'[c] # "pull"
  <2>1. CASE Pull(c)
    BY <2>1 DEF Pull, TypeOK
  <2>2. CASE PrintEvents(c) \/ PrintAck(c) \/ Kill(c)
    BY <2>2 DEF PrintEvents, PrintAck, Kill, TypeOK
  <2>3. ASSUME NEW m \in Message, Ack(c, m)
        PROVE  UNCHANGED <<doing[c], got[c], toBind[c]>> \/ doing'[c] # "pull"
    BY <2>3 DEF Ack, TypeOK
  <2> QED
    BY <2>1, <2>2, <2>3
<1>5. ASSUME c \in Binder, target[c] # NoPeer
      PROVE  UNCHANGED <<doing[c], got[c], toBind[c]>>
  <2>1. toBind[c] # {} /\ doing[c] # "nothing"
    BY <1>5 DEF TargetIsInHand, Binds, PullInv, CommandsAreSound
  <2> QED
    BY <1>5, <2>1 DEF Pull, PrintEvents, PrintAck, Kill, Ack
<1>6. TargetIsInHand'
  BY <1>1, <1>2, <1>5, BinderAssumption DEF TargetIsInHand, Binds
<1>7. BoundHasRoute'
  <2>1. ASSUME NEW d \in OpenClaw, doing'[d] = "pull", NEW k \in got'[d], k \notin toBind'[d]
        PROVE  HasRoute(k)'
    <3>1. UNCHANGED <<doing[d], got[d], toBind[d]>>
      BY <1>2, <1>4, <2>1, BinderAssumption, OpenClawAssumption
    <3> QED
      BY <1>3, <2>1, <3>1, RoutesStay, BinderAssumption, OpenClawAssumption
      DEF BoundHasRoute
  <2> QED
    BY <2>1 DEF BoundHasRoute
<1>8. HandedHasRoute'
  <2>1. ASSUME NEW d \in OpenClaw, NEW k \in Message, <<d, k>> \in handed'
        PROVE  HasRoute(k)
    <3>1. CASE <<d, k>> \in handed
      BY <3>1 DEF HandedHasRoute, HasRoute
    <3>2. CASE <<d, k>> \notin handed
      <4>1. PrintEvents(c)
        BY <2>1, <3>2 DEF Pull, PrintAck, Kill, Ack
      <4>2. d = c /\ k \in got[c]
        BY <2>1, <3>2, <4>1 DEF PrintEvents
      <4> QED
        BY <2>1, <4>1, <4>2 DEF PrintEvents, BoundHasRoute
    <3> QED
      BY <3>1, <3>2
  <2> QED
    BY <2>1, RoutesStay DEF HandedHasRoute, HasRoute
<1> QED
  BY <1>6, <1>7, <1>8

LEMMA StepRouteInv ==
    ASSUME OneBinderOnly, TInv, BInv, PullInv, RouteInv, [Next]_vars
    PROVE  RouteInv'
<1> USE DEF RouteInv
<1>1. SeqsDiffer'
  BY StepSeqsDiffer
<1>2. ASSUME UNCHANGED <<seq, doing, got, toBind, target, next, handed>>
      PROVE  RouteInv'
  <2>1. TargetIsInHand'
    BY <1>2 DEF TargetIsInHand, Binds
  <2>2. BoundHasRoute'
    BY <1>2, RoutesStay, BinderAssumption, OpenClawAssumption DEF BoundHasRoute, TInv, TypeOK
  <2>3. HandedHasRoute'
    BY <1>2, RoutesStay DEF HandedHasRoute, HasRoute
  <2> QED
    BY <1>1, <2>1, <2>2, <2>3
<1>3. CASE UNCHANGED vars
  BY <1>2, <1>3 DEF vars
<1>4. ASSUME NEW m \in Message, Publish(m)
      PROVE  RouteInv'
  BY <1>2, <1>4 DEF Publish, events, commands, history, sessionVars
<1>5. ASSUME NEW l \in Listener, Crash(l)
      PROVE  RouteInv'
  BY <1>2, <1>5 DEF Crash, events, commands, history, sessionVars
<1>6. ASSUME NEW l \in Listener, NEW m \in Message,
             Deliver(l, m) \/ Refuse(l, m) \/ Duplicate(l, m) \/ Answer(l, m)
      PROVE  RouteInv'
  BY <1>2, <1>6 DEF Deliver, Refuse, Duplicate, Answer, Routed, events, commands,
     history, sessionVars
<1> QED
  BY <1>1, <1>3, <1>4, <1>5, <1>6, StoreKeepsRouteInv, BindStepKeepsRouteInv,
     CommandKeepsRouteInv
  DEF Next, Handle, CommandStep

LEMMA InitRouteInv == Init => RouteInv
BY DEF Init, SessionInit, RouteInv, SeqsDiffer, Stored, TargetIsInHand, BoundHasRoute,
    HandedHasRoute

-----------------------------------------------------------------------------
(***************************************************************************)
(* The theorems.                                                           *)
(***************************************************************************)

LEMMA TInvAlways == Spec => []TInv
<1> QED
  BY InitTInv, StepTInv, PTL DEF Spec

LEMMA PullInvAlways == Spec => []PullInv
<1> QED
  BY InitPullInv, StepPullInv, TInvAlways, PTL DEF Spec

\* The listeners, the commands and the tables keep their types: no cursor is ahead of
\* the last seq that message_event has given out.
THEOREM TypeCorrect == Spec => []TypeOK
<1>1. TInv => TypeOK
  BY DEF TInv
<1> QED
  BY <1>1, TInvAlways, PTL

\* What was acknowledged to the broker is stored or was turned down, wherever
\* listeners crash between the two, and however often a message is delivered.
THEOREM NothingIsLost == Spec => []AnsweredIsStored
<1>1. StoreInv => AnsweredIsStored
  BY DEF StoreInv
<1> QED
  BY <1>1, InitStoreInv, StepStoreInv, TInvAlways, PTL DEF Spec

\* A cursor passes over no event of a peer its consumer pulls from, for any number of
\* listeners that store and of pulls that die, and any --limit.
THEOREM NothingIsSkipped == Spec => []CursorSkipsNothing
<1>1. PullInv => CursorSkipsNothing
  BY DEF PullInv
<1> QED
  BY <1>1, PullInvAlways, PTL

\* No pull of a consumer that passes its cursor on is about an event that was printed
\* to it before.
THEOREM NothingTwice == Spec => []HandedOnce
<1> QED
  BY AheadIsNew, TInvAlways, PullInvAlways, PTL

\* Pulls and acks bind peers to sessions only as the processes of PeerSession do: what
\* is proved of PeerSession holds in the inbox.
THEOREM BindsAsPeerSession == Spec => SessionSpec
<1>1. Init => SessionInit
  BY DEF Init
<1> QED
  BY <1>1, InboxStepBinds, TInvAlways, PTL DEF Spec, SessionSpec

\* With one consumer that binds, its pulls and acks never replace the binding of a peer
\* by an older one.
THEOREM InboxBindingsNeverAge ==
    ASSUME OneBinderOnly
    PROVE  Spec => BindingNeverAges
<1> QED
  BY BindsAsPeerSession, BindingsNeverAge, PTL

\* With one consumer that binds, what its pulls have printed has a route for the answer
\* that is no older than the message, unless a binding of it failed.
THEOREM HandedMessagesHaveRoutes ==
    ASSUME OneBinderOnly
    PROVE  Spec => []HandedHasRoute
<1>1. Init => BInv
  BY InitBInv DEF Init
<1>2. TInv /\ BInv /\ [Next]_vars => BInv'
  BY InboxStepBinds, SessionStepTypes, SessionStepNewer DEF BInv
<1>3. TInv /\ BInv /\ PullInv /\ RouteInv /\ [Next]_vars => RouteInv'
  BY StepRouteInv
<1>4. RouteInv => HandedHasRoute
  BY DEF RouteInv
<1> QED
  BY <1>1, <1>2, <1>3, <1>4, InitRouteInv, TInvAlways, PullInvAlways, PTL DEF Spec

=============================================================================
