------------------------ MODULE ListenerLeaseProofs ------------------------
(***************************************************************************)
(* Proofs about the listeners of one agent, for any machines, epochs,      *)
(* control plane and faults: the types; that a lease once lost is not got  *)
(* back; and, when a heartbeat is always answered, that a leader without   *)
(* its lease displaces another at most once.                               *)
(***************************************************************************)
EXTENDS ListenerLeaseProps, TLAPS

USE NobodyAssumption, MaxEpochAssumption

\* The lease was given out with an epoch.
GrantedHasEpoch == leader # Nobody => epoch > 0

TInv == TypeOK /\ GrantedHasEpoch

LEMMA InitTInv == Init => TInv
BY DEF Init, TInv, TypeOK, GrantedHasEpoch, Phases, Roles, Reasons, Links

\* An exit keeps the types of the process.
LEMMA ExitKeepsTypes ==
    ASSUME TInv, NEW i \in Instance, NEW why \in Reasons, Exit(i, why),
           epoch' \in epoch..MaxEpoch
    PROVE  /\ phase' \in [Instance -> Phases]
           /\ role' \in [Instance -> Roles]
           /\ myEpoch' \in [Instance -> 0..MaxEpoch]
           /\ \A j \in Instance : role'[j] = "leader" => myEpoch'[j] \in 1..epoch'
           /\ link' \in [Instance -> Links]
           /\ told' \in [Instance -> BOOLEAN]
           /\ left' \in [Instance -> Reasons]
           /\ steals' \in [Instance -> 0..2]
<1> USE DEF TInv, TypeOK, Exit, Phases, Roles, Links
<1>1. epoch \in 0..MaxEpoch /\ epoch' \in Nat /\ epoch <= epoch'
  OBVIOUS
<1>2. \A j \in Instance : role'[j] = "leader" => j # i /\ role[j] = "leader" /\ myEpoch'[j] = myEpoch[j]
  OBVIOUS
<1>3. \A j \in Instance : role'[j] = "leader" => myEpoch'[j] \in 1..epoch'
  BY <1>1, <1>2
<1> QED
  BY <1>3

\* A connect keeps the types of what it writes.
LEMMA ConnectKeepsTypes ==
    ASSUME TInv, NEW i \in Instance, NEW state \in Links, Displace(i, state), CountSteal(i)
    PROVE  link' \in [Instance -> Links] /\ steals' \in [Instance -> 0..2]
<1>1. link' \in [Instance -> Links]
  BY DEF TInv, TypeOK, Displace, Links
<1>2. steals' \in [Instance -> 0..2]
  <2>1. steals \in [Instance -> 0..2]
    BY DEF TInv, TypeOK
  <2> QED
    BY <2>1 DEF CountSteal
<1> QED
  BY <1>1, <1>2

\* The lease after a grant.
LEMMA GrantKeepsTypes ==
    ASSUME TInv, NEW i \in Instance, Grant(i)
    PROVE  leader' = i /\ epoch' \in 1..MaxEpoch /\ epoch' >= epoch
BY DEF TInv, TypeOK, GrantedHasEpoch, Grant

LEMMA StartKeepsTInv == ASSUME TInv, NEW i \in Instance, Start(i) PROVE TInv'
<1> USE DEF TInv, TypeOK, Start, Phases
<1>1. PICK r \in {"leader", "follower", "standalone"} :
        /\ Takes(i, r)
        /\ \/ r = "leader" /\ Grant(i)
           \/ r # "leader" /\ UNCHANGED lease
  BY DEF Refuse
<1>2. /\ leader' \in Instance \cup {Nobody}
      /\ epoch' \in 0..MaxEpoch /\ epoch' >= epoch
      /\ r = "leader" => epoch' > 0
      /\ GrantedHasEpoch'
  BY <1>1, GrantKeepsTypes DEF lease, GrantedHasEpoch
<1>3. role' \in [Instance -> Roles] /\ myEpoch' \in [Instance -> 0..MaxEpoch]
  BY <1>1, <1>2 DEF Takes, Roles
<1>4. \A j \in Instance : role'[j] = "leader" => myEpoch'[j] \in 1..epoch'
  BY <1>1, <1>2, <1>3 DEF Takes
<1> QED
  BY <1>2, <1>3, <1>4

LEMMA MainKeepsTInv == ASSUME TInv, NEW i \in Instance, Main(i) PROVE TInv'
<1> USE DEF TInv, TypeOK, GrantedHasEpoch
<1>1. CASE Connect(i)
  <2>1. link' \in [Instance -> Links] /\ steals' \in [Instance -> 0..2]
    BY <1>1, ConnectKeepsTypes DEF Connect, Links
  <2> QED
    BY <1>1, <2>1 DEF Connect, lease, Phases
<1>2. CASE Subscribe(i)
  BY <1>2 DEF Subscribe, lease, ClientId, Phases
<1>3. CASE \/ ConnectFails(i) \/ SubscribeFails(i) \/ Beat(i) \/ Told(i)
  <2>1. /\ \E why \in Reasons : Exit(i, why)
        /\ UNCHANGED lease
        /\ subs' \subseteq subs
    BY <1>3 DEF ConnectFails, SubscribeFails, Beat, Told, Reasons
  <2> QED
    BY <2>1, ExitKeepsTypes DEF lease
<1>4. CASE Poll(i)
  BY <1>4, ExitKeepsTypes, GrantKeepsTypes DEF Poll, Reasons
<1>5. CASE Flushed(i)
  BY <1>5 DEF Flushed, lease, Phases
<1> QED
  BY <1>1, <1>2, <1>3, <1>4, <1>5 DEF Main

\* A renewal keeps the types of the lease, and of the leaders' epochs.
LEMMA RenewalKeepsTypes ==
    ASSUME TInv, NEW i \in Instance, Renewal(i)
    PROVE  /\ leader' = leader /\ epoch' \in 0..MaxEpoch /\ epoch' >= epoch
           /\ epoch > 0 => epoch' > 0
           /\ \A n \in 1..epoch : n \in 1..epoch'
BY DEF TInv, TypeOK, Renewal

LEMMA RenewKeepsTInv == ASSUME TInv, NEW i \in Instance, Renew(i) PROVE TInv'
<1>1. /\ leader' = leader /\ epoch' \in 0..MaxEpoch /\ epoch' >= epoch
      /\ epoch > 0 => epoch' > 0
      /\ \A n \in 1..epoch : n \in 1..epoch'
  BY RenewalKeepsTypes DEF Renew
<1>2. epoch > 0
  BY DEF TInv, GrantedHasEpoch, Renew, Renewal, HoldsLease
<1>3. myEpoch' \in [Instance -> 0..MaxEpoch]
  BY <1>1 DEF TInv, TypeOK, Renew
<1>4. \A j \in Instance : role'[j] = "leader" => myEpoch'[j] \in 1..epoch'
  BY <1>1, <1>2 DEF TInv, TypeOK, Renew
<1> QED
  BY <1>1, <1>2, <1>3, <1>4 DEF TInv, TypeOK, GrantedHasEpoch, Renew

LEMMA TransportKeepsTInv == ASSUME TInv, NEW i \in Instance, Transport(i) PROVE TInv'
<1> USE DEF TInv, TypeOK, GrantedHasEpoch, lease, proc
<1>1. CASE Guard(i)
  <2>1. UNCHANGED lease \/ Renewal(i)
    BY <1>1 DEF Guard
  <2>2. /\ leader' = leader /\ epoch' \in 0..MaxEpoch
        /\ epoch > 0 => epoch' > 0
        /\ \A n \in 1..epoch : n \in 1..epoch'
    BY <2>1, RenewalKeepsTypes
  <2> QED
    BY <1>1, <2>2 DEF Guard, Links
<1>2. CASE Reconnect(i)
  BY <1>2, ConnectKeepsTypes DEF Reconnect, Links
<1>3. CASE ReconnectFails(i)
  BY <1>3 DEF ReconnectFails, Links
<1>4. CASE Resubscribe(i)
  BY <1>4 DEF Resubscribe, Links, ClientId
<1> QED
  BY <1>1, <1>2, <1>3, <1>4 DEF Transport

LEMMA NextKeepsTInv == TInv /\ [Next]_vars => TInv'
<1> SUFFICES ASSUME TInv, [Next]_vars PROVE TInv'
  OBVIOUS
<1> USE DEF TInv, TypeOK, GrantedHasEpoch, lease, proc
<1>1. CASE Expire
  BY <1>1 DEF Expire
<1>2. CASE UNCHANGED vars
  BY <1>2 DEF vars
<1>3. CASE \E i \in Instance : Main(i)
  BY <1>3, MainKeepsTInv
<1>4. CASE \E i \in Instance : Transport(i)
  BY <1>4, TransportKeepsTInv
<1>5. CASE \E i \in Instance : Start(i)
  BY <1>5, StartKeepsTInv
<1>6. CASE \E i \in Instance : TakeoverCmd(i)
  BY <1>6 DEF TakeoverCmd
<1>7. CASE \E i \in Instance : LoseConnection(i)
  BY <1>7 DEF LoseConnection, Links
<1>8. CASE \E i \in Instance : Stop(i) \/ Crash(i)
  BY <1>8, ExitKeepsTypes DEF Stop, Crash, Reasons
<1>9. CASE \E i \in Instance : Renew(i)
  BY <1>9, RenewKeepsTInv
<1>10. CASE \E i \in Instance : Flush(i)
  BY <1>10 DEF Flush, Phases
<1> QED
  BY <1>1, <1>2, <1>3, <1>4, <1>5, <1>6, <1>7, <1>8, <1>9, <1>10 DEF Next

LEMMA AlwaysTInv == Spec => []TInv
BY InitTInv, NextKeepsTInv, PTL DEF Spec

\* Whatever goes wrong, the lease and the listeners keep their types, and the
\* epoch a leader works with was given out.
THEOREM TypeCorrect == Spec => []TypeOK
<1>1. TInv => TypeOK
  BY DEF TInv
<1> QED
  BY <1>1, AlwaysTInv, PTL

(***************************************************************************)
(* What a leader without its lease can still do.  Reconnect displaces      *)
(* whoever is connected, without a look at the lease: it is the guard      *)
(* before it that looked, and the lease may be lost in between, once.      *)
(***************************************************************************)

\* A process that has yet to connect has no connection and displaced nobody.
StartsClean ==
    \A i \in Instance : phase[i] \in {"down", "connect"} => link[i] = "off" /\ steals[i] = 0

\* Who displaced another without the lease has lost it, and no guard lets it pass.
StealersAreStopped ==
    \A i \in Instance : steals[i] > 0 => Lost(i) /\ link[i] # "guarded"

GInv == TInv /\ StartsClean /\ StealersAreStopped /\ StealsAtMostOnce

\* The ways the lease changes while i is a leader.
LeaseStep(i) ==
    \/ UNCHANGED lease
    \/ leader' = Nobody /\ epoch' = epoch
    \/ \E j \in Instance : leader' = j /\ epoch' = epoch + 1
    \/ \E j \in Instance \ {i} : leader' = j /\ leader = j /\ epoch' = epoch

LEMMA GrantIsLeaseStep ==
    ASSUME NEW i \in Instance, NEW j \in Instance, i # j, Grant(j)
    PROVE  LeaseStep(i)
BY DEF Grant, LeaseStep

LEMMA RenewalIsLeaseStep ==
    ASSUME NEW i \in Instance, NEW j \in Instance, Renewal(j)
    PROVE  LeaseStep(i)
BY DEF Renewal, HoldsLease, LeaseStep, lease

\* A lease once lost stays lost: it comes back with a greater epoch only.
LEMMA LostStaysLost ==
    ASSUME TInv, NEW i \in Instance, Lost(i), LeaseStep(i),
           role'[i] = role[i], myEpoch'[i] = myEpoch[i]
    PROVE  Lost(i)'
<1>1. myEpoch[i] \in Nat /\ epoch \in Nat /\ myEpoch[i] <= epoch
  BY DEF TInv, TypeOK, Lost
<1> QED
  BY <1>1 DEF Lost, HoldsLease, LeaseStep, lease

\* A process that nothing happens to but that its connection may be lost.
Bystander(i) ==
    /\ phase'[i] = phase[i] /\ role'[i] = role[i] /\ myEpoch'[i] = myEpoch[i]
    /\ steals'[i] = steals[i]
    /\ link'[i] = link[i] \/ (Connected(i) /\ link'[i] = "lost")

\* What GInv says of one process.
Good(i) ==
    /\ phase[i] \in {"down", "connect"} => link[i] = "off" /\ steals[i] = 0
    /\ steals[i] > 0 => Lost(i) /\ link[i] # "guarded"
    /\ steals[i] <= 1

LEMMA GInvIsGood == GInv <=> TInv /\ \A i \in Instance : Good(i)
BY DEF GInv, Good, StartsClean, StealersAreStopped, StealsAtMostOnce

LEMMA BystanderStaysGood ==
    ASSUME TInv, NEW i \in Instance, Good(i), Bystander(i), LeaseStep(i)
    PROVE  Good(i)'
<1>1. steals[i] > 0 => Lost(i)'
  BY LostStaysLost DEF Good, Bystander
<1> QED
  BY <1>1 DEF Good, Bystander, Connected

\* After an exit nothing is left.
LEMMA ExitIsGood ==
    ASSUME TInv, NEW i \in Instance, NEW why, Exit(i, why)
    PROVE  Good(i)' /\ \A j \in Instance \ {i} : Bystander(j)
<1>1. phase'[i] = "down" /\ link'[i] = "off" /\ steals'[i] = 0
  BY DEF TInv, TypeOK, Exit
<1>2. \A j \in Instance \ {i} :
        /\ phase'[j] = phase[j] /\ role'[j] = role[j] /\ myEpoch'[j] = myEpoch[j]
        /\ link'[j] = link[j] /\ steals'[j] = steals[j]
  BY DEF TInv, TypeOK, Exit
<1> QED
  BY <1>1, <1>2 DEF Good, Bystander

\* A connect of i, from where it has not displaced anybody yet.
LEMMA ConnectIsGood ==
    ASSUME TInv, NEW i \in Instance, NEW state \in {"on", "fresh"},
           steals[i] = 0, Displace(i, state), CountSteal(i), UNCHANGED lease,
           UNCHANGED <<role, myEpoch>>, phase'[i] \in {"subscribe", "run", "flush"},
           \A j \in Instance \ {i} : phase'[j] = phase[j]
    PROVE  Good(i)' /\ \A j \in Instance \ {i} : Bystander(j)
<1>1. steals \in [Instance -> 0..2] /\ link \in [Instance -> Links]
  BY DEF TInv, TypeOK
<1>2. link'[i] = state
  BY <1>1 DEF Displace
<1>3. steals'[i] = IF Lost(i) THEN 1 ELSE 0
  BY <1>1 DEF CountSteal, Lost
<1>4. Lost(i)' <=> Lost(i)
  BY DEF Lost, HoldsLease, lease
<1>5. Good(i)'
  BY <1>2, <1>3, <1>4 DEF Good
<1>6. ASSUME NEW j \in Instance \ {i} PROVE Bystander(j)
  <2>1. link'[j] = link[j] \/ (Connected(j) /\ link'[j] = "lost")
    BY DEF Displace
  <2>2. steals'[j] = steals[j]
    BY <1>1 DEF CountSteal
  <2> QED
    BY <2>1, <2>2 DEF Bystander
<1> QED
  BY <1>5, <1>6

LEMMA InitGInv == Init => GInv
BY InitTInv DEF Init, GInv, StartsClean, StealersAreStopped, StealsAtMostOnce

LEMMA ListenerKeepsGood ==
    ASSUME TInv, "heartbeat" \notin Faults, NEW i \in Instance, Good(i),
           \/ Main(i) \/ Transport(i) \/ Start(i) \/ Renew(i) \/ Flush(i)
           \/ LoseConnection(i) \/ Stop(i) \/ Crash(i)
    PROVE  /\ Good(i)'
           /\ \A j \in Instance \ {i} : Bystander(j) /\ LeaseStep(j)
<1> USE DEF lease, proc
<1>1. CASE Connect(i) \/ Reconnect(i)
  <2>1. steals[i] = 0
    BY <1>1 DEF Connect, Reconnect, Good, TInv, TypeOK
  <2>2. CASE Connect(i)
    <3>1. phase'[i] \in {"subscribe", "run", "flush"} /\ \A j \in Instance \ {i} : phase'[j] = phase[j]
      BY <2>2 DEF Connect, TInv, TypeOK
    <3> QED
      BY <2>1, <2>2, <3>1, ConnectIsGood DEF Connect, LeaseStep
  <2>3. CASE Reconnect(i)
    <3>1. phase'[i] \in {"subscribe", "run", "flush"}
      BY <2>3 DEF Reconnect, Good, TInv, TypeOK, Phases
    <3> QED
      BY <2>1, <2>3, <3>1, ConnectIsGood DEF Reconnect, LeaseStep
  <2> QED
    BY <1>1, <2>2, <2>3
<1>2. CASE ConnectFails(i) \/ SubscribeFails(i) \/ Beat(i) \/ Told(i) \/ Stop(i) \/ Crash(i)
  BY <1>2, ExitIsGood
  DEF ConnectFails, SubscribeFails, Beat, Told, Stop, Crash, LeaseStep
<1>3. CASE Poll(i)
  BY <1>3, ExitIsGood, GrantIsLeaseStep DEF Poll
<1>4. CASE Start(i)
  <2>1. \A j \in Instance \ {i} : LeaseStep(j)
    BY <1>4, GrantIsLeaseStep DEF Start, Refuse, LeaseStep
  <2>2. phase'[i] = "connect" /\ link'[i] = "off" /\ steals'[i] = 0
    BY <1>4 DEF Start, Good, TInv, TypeOK
  <2>3. \A j \in Instance \ {i} : Bystander(j)
    BY <1>4 DEF Start, Takes, Bystander, TInv, TypeOK
  <2> QED
    BY <2>1, <2>2, <2>3 DEF Good
<1>5. CASE \/ ReconnectFails(i) \/ Resubscribe(i) \/ LoseConnection(i) \/ Subscribe(i)
           \/ Flush(i) \/ Flushed(i)
  <2>1. \A j \in Instance \ {i} : Bystander(j) /\ LeaseStep(j)
    BY <1>5 DEF ReconnectFails, Resubscribe, LoseConnection, Subscribe, Flush, Flushed,
                Bystander, LeaseStep, TInv, TypeOK
  <2>2. Lost(i)' <=> Lost(i)
    BY <1>5 DEF ReconnectFails, Resubscribe, LoseConnection, Subscribe, Flush, Flushed,
                Lost, HoldsLease
  <2>3. steals'[i] = steals[i] /\ (phase'[i] = phase[i] \/ phase'[i] \in {"run", "flush"})
    BY <1>5 DEF ReconnectFails, Resubscribe, LoseConnection, Subscribe, Flush, Flushed,
                TInv, TypeOK
  <2>4. link[i] = "off" => link'[i] = "off"
    BY <1>5 DEF ReconnectFails, Resubscribe, LoseConnection, Subscribe, Flush, Flushed,
                Connected
  <2>5. link'[i] = "guarded" => link[i] = "guarded"
    BY <1>5 DEF ReconnectFails, Resubscribe, LoseConnection, Subscribe, Flush, Flushed,
                TInv, TypeOK
  <2> QED
    BY <2>1, <2>2, <2>3, <2>4, <2>5 DEF Good
<1>6. CASE Guard(i)
  <2>1. UNCHANGED lease \/ Renewal(i)
    BY <1>6 DEF Guard
  <2>2. \A j \in Instance \ {i} : Bystander(j) /\ LeaseStep(j)
    <3>1. \A j \in Instance \ {i} : LeaseStep(j)
      BY <2>1, RenewalIsLeaseStep DEF LeaseStep
    <3>2. \A j \in Instance \ {i} : Bystander(j)
      BY <1>6 DEF Guard, Bystander, TInv, TypeOK
    <3> QED
      BY <3>1, <3>2
  <2>3. phase'[i] = phase[i] /\ steals'[i] = steals[i] /\ link[i] = "lost"
    BY <1>6 DEF Guard
  <2>4. CASE Lost(i)
    <3>1. UNCHANGED lease /\ link'[i] = "off"
      BY <1>6, <2>1, <2>4 DEF Guard, Lost, Renewal, TInv, TypeOK
    <3>2. Lost(i)'
      BY <1>6, <2>4, <3>1 DEF Guard, Lost, HoldsLease
    <3> QED
      BY <2>2, <2>3, <3>1, <3>2 DEF Good
  <2>5. CASE ~Lost(i)
    <3>1. steals[i] = 0
      BY <2>5 DEF Good, TInv, TypeOK
    <3> QED
      BY <2>2, <2>3, <3>1 DEF Good
  <2> QED
    BY <2>4, <2>5
<1>7. CASE Renew(i)
  <2>1. \A j \in Instance \ {i} : Bystander(j)
    BY <1>7 DEF Renew, Bystander, TInv, TypeOK
  <2>2. \A j \in Instance \ {i} : LeaseStep(j)
    BY <1>7, RenewalIsLeaseStep DEF Renew
  <2>3. steals[i] = 0 /\ phase[i] = "run"
    BY <1>7 DEF Renew, Renewal, Good, Lost, TInv, TypeOK
  <2>4. Good(i)'
    BY <1>7, <2>3 DEF Renew, Good
  <2> QED
    BY <2>1, <2>2, <2>4
<1> QED
  BY <1>1, <1>2, <1>3, <1>4, <1>5, <1>6, <1>7 DEF Main, Transport

LEMMA NextKeepsGInv ==
    ASSUME "heartbeat" \notin Faults PROVE GInv /\ [Next]_vars => GInv'
<1> SUFFICES ASSUME GInv, [Next]_vars PROVE GInv'
  OBVIOUS
<1>1. TInv'
  BY NextKeepsTInv DEF GInv
<1>2. TInv /\ \A i \in Instance : Good(i)
  BY GInvIsGood
<1>3. \A i \in Instance : Good(i)'
  <2>1. CASE \E i \in Instance :
               \/ Main(i) \/ Transport(i) \/ Start(i) \/ Renew(i) \/ Flush(i)
               \/ LoseConnection(i) \/ Stop(i) \/ Crash(i)
    BY <1>2, <2>1, ListenerKeepsGood, BystanderStaysGood
  <2>2. CASE Expire \/ UNCHANGED vars \/ \E i \in Instance : TakeoverCmd(i)
    <3>1. \A i \in Instance : Bystander(i) /\ LeaseStep(i)
      BY <2>2 DEF Expire, TakeoverCmd, vars, proc, lease, Bystander, LeaseStep
    <3> QED
      BY <1>2, <3>1, BystanderStaysGood
  <2> QED
    BY <2>1, <2>2 DEF Next
<1>4. GInv' <=> TInv' /\ \A i \in Instance : Good(i)'
  BY DEF GInv, Good, StartsClean, StealersAreStopped, StealsAtMostOnce
<1> QED
  BY <1>1, <1>3, <1>4

\* When a heartbeat is always answered, a leader that has lost its lease takes
\* the base client id from another listener at most once: reconnectLoop's guard
\* refuses it from then on, and the lease never comes back without a restart.
THEOREM StealsOnce ==
    ASSUME "heartbeat" \notin Faults PROVE Spec => []StealsAtMostOnce
<1>1. GInv => StealsAtMostOnce
  BY DEF GInv
<1> QED
  BY <1>1, InitGInv, NextKeepsGInv, PTL DEF Spec

(***************************************************************************)
(* What holds whatever goes wrong, failing heartbeats included.            *)
(***************************************************************************)

\* A process that is down has no role.
DownHasNoRole == \A i \in Instance : phase[i] = "down" => role[i] = "none"

RInv == TInv /\ DownHasNoRole

\* A leader without its lease keeps its epoch, or is a leader no longer.
LEMMA LostKeepsEpoch ==
    ASSUME RInv, [Next]_vars, NEW i \in Instance, Lost(i), role'[i] = "leader"
    PROVE  role'[i] = role[i] /\ myEpoch'[i] = myEpoch[i] /\ LeaseStep(i)
<1> USE DEF lease, proc
<1>1. /\ role \in [Instance -> Roles] /\ myEpoch \in [Instance -> 0..MaxEpoch]
      /\ role[i] = "leader" /\ phase[i] # "down" /\ ~HoldsLease(i)
  BY DEF RInv, TInv, TypeOK, Lost, DownHasNoRole
<1>2. ASSUME NEW k \in Instance, NEW why, Exit(k, why)
      PROVE  k # i /\ role'[i] = role[i] /\ myEpoch'[i] = myEpoch[i]
  BY <1>1, <1>2 DEF Exit
<1>3. CASE UNCHANGED vars \/ Expire
  BY <1>1, <1>3 DEF vars, Expire, LeaseStep
<1>4. ASSUME NEW k \in Instance,
             \/ ConnectFails(k) \/ SubscribeFails(k) \/ Beat(k) \/ Told(k)
             \/ Stop(k) \/ Crash(k)
      PROVE  role'[i] = role[i] /\ myEpoch'[i] = myEpoch[i] /\ LeaseStep(i)
  <2>1. /\ \E why : Exit(k, why)
        /\ UNCHANGED lease
    BY <1>4 DEF ConnectFails, SubscribeFails, Beat, Told, Stop, Crash
  <2> QED
    BY <1>2, <2>1 DEF LeaseStep
<1>5. ASSUME NEW k \in Instance, Poll(k)
      PROVE  role'[i] = role[i] /\ myEpoch'[i] = myEpoch[i] /\ LeaseStep(i)
  BY <1>2, <1>5, GrantIsLeaseStep DEF Poll
<1>6. ASSUME NEW k \in Instance, Start(k)
      PROVE  role'[i] = role[i] /\ myEpoch'[i] = myEpoch[i] /\ LeaseStep(i)
  <2>1. k # i
    BY <1>1, <1>6 DEF Start
  <2>2. UNCHANGED lease \/ Grant(k)
    BY <1>6 DEF Start, Refuse
  <2>3. \E r : Takes(k, r)
    BY <1>6 DEF Start
  <2>4. role'[i] = role[i] /\ myEpoch'[i] = myEpoch[i]
    BY <1>1, <2>1, <2>3 DEF Takes
  <2> QED
    BY <2>1, <2>2, <2>4, GrantIsLeaseStep DEF LeaseStep
<1>7. ASSUME NEW k \in Instance, Renew(k)
      PROVE  role'[i] = role[i] /\ myEpoch'[i] = myEpoch[i] /\ LeaseStep(i)
  <2>1. k # i /\ role' = role /\ LeaseStep(i)
    BY <1>1, <1>7, RenewalIsLeaseStep DEF Renew, Renewal
  <2>2. myEpoch'[i] = myEpoch[i]
    BY <1>1, <1>7, <2>1 DEF Renew
  <2> QED
    BY <2>1, <2>2
<1>8. ASSUME NEW k \in Instance,
             \/ Connect(k) \/ Subscribe(k) \/ Flush(k) \/ Flushed(k) \/ LoseConnection(k)
             \/ Reconnect(k) \/ ReconnectFails(k) \/ Resubscribe(k)
      PROVE  role'[i] = role[i] /\ myEpoch'[i] = myEpoch[i] /\ LeaseStep(i)
  BY <1>8 DEF Connect, Subscribe, Flush, Flushed, LoseConnection, Reconnect,
     ReconnectFails, Resubscribe, LeaseStep
<1>9. ASSUME NEW k \in Instance, Guard(k) \/ TakeoverCmd(k)
      PROVE  role'[i] = role[i] /\ myEpoch'[i] = myEpoch[i] /\ LeaseStep(i)
  BY <1>9, RenewalIsLeaseStep DEF Guard, TakeoverCmd, LeaseStep
<1> QED
  BY <1>3, <1>4, <1>5, <1>6, <1>7, <1>8, <1>9 DEF Next, Main, Transport

LEMMA NextKeepsDown ==
    ASSUME RInv, [Next]_vars PROVE DownHasNoRole'
<1> USE DEF DownHasNoRole
<1>1. /\ phase \in [Instance -> Phases] /\ role \in [Instance -> Roles]
      /\ \A i \in Instance : phase[i] = "down" => role[i] = "none"
  BY DEF RInv, TInv, TypeOK
<1>2. ASSUME NEW k \in Instance, NEW why, Exit(k, why) PROVE DownHasNoRole'
  BY <1>1, <1>2 DEF Exit
<1>3. ASSUME NEW k \in Instance,
             \/ ConnectFails(k) \/ SubscribeFails(k) \/ Beat(k) \/ Told(k) \/ Poll(k)
             \/ Stop(k) \/ Crash(k)
      PROVE  DownHasNoRole'
  BY <1>2, <1>3 DEF ConnectFails, SubscribeFails, Beat, Told, Poll, Stop, Crash
<1>4. ASSUME NEW k \in Instance, Start(k) PROVE DownHasNoRole'
  BY <1>1, <1>4 DEF Start, Takes
<1>5. ASSUME NEW k \in Instance,
             Connect(k) \/ Subscribe(k) \/ Flush(k) \/ Flushed(k)
      PROVE  DownHasNoRole'
  BY <1>1, <1>5 DEF Connect, Subscribe, Flush, Flushed
<1>6. ASSUME NEW k \in Instance,
             \/ Guard(k) \/ Reconnect(k) \/ ReconnectFails(k) \/ Resubscribe(k)
             \/ LoseConnection(k) \/ TakeoverCmd(k) \/ Renew(k)
      PROVE  DownHasNoRole'
  BY <1>1, <1>6 DEF Guard, Reconnect, ReconnectFails, Resubscribe, LoseConnection,
     TakeoverCmd, Renew, proc
<1>7. CASE UNCHANGED vars \/ Expire
  BY <1>1, <1>7 DEF vars, proc, Expire
<1> QED
  BY <1>3, <1>4, <1>5, <1>6, <1>7 DEF Next, Main, Transport

LEMMA AlwaysRInv == Spec => []RInv
<1>1. Init => RInv
  BY InitTInv DEF Init, RInv, DownHasNoRole
<1>2. RInv /\ [Next]_vars => RInv'
  BY NextKeepsTInv, NextKeepsDown DEF RInv
<1> QED
  BY <1>1, <1>2, PTL DEF Spec

\* Whatever goes wrong, a leader that has lost its lease is without it until it
\* has left its loop: whatever heartbeats bring, and whoever takes over.
THEOREM LossIsFinal == Spec => LostForGood
<1>1. RInv /\ [Next]_vars => [\A i \in Instance : Lost(i) /\ role'[i] = "leader" => Lost(i)']_vars
  <2> SUFFICES ASSUME RInv, [Next]_vars, NEW i \in Instance, Lost(i), role'[i] = "leader"
               PROVE  Lost(i)'
    OBVIOUS
  <2> QED
    BY LostKeepsEpoch, LostStaysLost DEF RInv
<1> QED
  BY <1>1, AlwaysRInv, PTL DEF Spec, LostForGood

=============================================================================
