--------------------------- MODULE ListenerLease ---------------------------
(***************************************************************************)
(* The listeners of one agent: each machine runs `listener run`, which     *)
(* asks the control plane for the lease, connects to the MQTT broker and   *)
(* subscribes.  Leader and standalone share the base client id, so each    *)
(* connect displaces the other; a follower connects under a client id of   *)
(* its own.  A lost connection is taken up again by reconnectLoop, a       *)
(* goroutine beside the select loop; a leader's loop asks a guard first.   *)
(*                                                                         *)
(* The control plane and the broker are external and modelled from what    *)
(* the clients send and expect.  Messages are left out: what counts is who *)
(* is connected, and which client id is subscribed.                        *)
(***************************************************************************)
EXTENDS Naturals

CONSTANTS
    Instance,   \* the machines, one listener process each
    Nobody,     \* the lease is free
    Base,       \* the base client id; a follower's client id is its instance
    MaxEpoch,   \* bound on the epochs the control plane gives out
    HonourForce,\* the control plane grants what asks with forceTakeover
    Manager,    \* what the service manager restarts: "always" or "failures"
    Faults      \* what may go wrong

FaultKinds ==
    { "crash",      \* the process dies
      "stop",       \* SIGINT or SIGTERM
      "acquire",    \* the Acquire of a starting listener fails
      "heartbeat",  \* a Heartbeat call fails
      "connection", \* a connection is lost, a connect fails
      "subscribe" } \* a subscribe is not acknowledged

ASSUME NobodyAssumption == Nobody \notin Instance
ASSUME BaseAssumption == Base \notin Instance
ASSUME MaxEpochAssumption == MaxEpoch \in Nat
ASSUME HonourForceAssumption == HonourForce \in BOOLEAN
ASSUME ManagerAssumption == Manager \in {"always", "failures"}
ASSUME FaultsAssumption == Faults \subseteq FaultKinds

VARIABLES
    leader,   \* the holder of the lease
    epoch,    \* the epoch of the lease
    subs,     \* the client ids whose broker session subscribes to the agent's topic
    phase,    \* where each process stands
    role,     \* the role each process has got
    myEpoch,  \* the epoch each process has got
    link,     \* the MQTT connection of each process
    told,     \* the guard has put a reason into shutdownCh
    left,     \* why the process is down
    steals    \* history: connects under Base by a leader that had lost its lease

lease == <<leader, epoch>>
proc == <<phase, role, myEpoch, told, left>>
vars == <<leader, epoch, subs, phase, role, myEpoch, link, told, left, steals>>

Roles == {"none", "leader", "follower", "standalone"}
\* "run": the select loop waits for what comes; "flush": it is in a flush.
Phases == {"down", "connect", "subscribe", "run", "flush"}
Reasons == {"never", "failed", "stopped", "revoked", "promoted"}

\* "fresh": connected by reconnectLoop, not resubscribed; "lost": reconnectLoop
\* sleeps; "guarded": it is about to connect.
Links == {"off", "on", "fresh", "lost", "guarded"}

TypeOK ==
    /\ leader \in Instance \cup {Nobody}
    /\ epoch \in 0..MaxEpoch
    /\ subs \subseteq Instance \cup {Base}
    /\ phase \in [Instance -> Phases]
    /\ role \in [Instance -> Roles]
    /\ myEpoch \in [Instance -> 0..MaxEpoch]
    /\ \A i \in Instance : role[i] = "leader" => myEpoch[i] \in 1..epoch
    /\ link \in [Instance -> Links]
    /\ told \in [Instance -> BOOLEAN]
    /\ left \in [Instance -> Reasons]
    /\ steals \in [Instance -> 0..2]

Init ==
    /\ leader = Nobody
    /\ epoch = 0
    /\ subs = {}
    /\ phase = [i \in Instance |-> "down"]
    /\ role = [i \in Instance |-> "none"]
    /\ myEpoch = [i \in Instance |-> 0]
    /\ link = [i \in Instance |-> "off"]
    /\ told = [i \in Instance |-> FALSE]
    /\ left = [i \in Instance |-> "never"]
    /\ steals = [i \in Instance |-> 0]

-----------------------------------------------------------------------------
(***************************************************************************)
(* The control plane.                                                      *)
(***************************************************************************)

\* What a heartbeat of i is answered with: the lease is i's, at i's epoch.
HoldsLease(i) == role[i] = "leader" /\ leader = i /\ myEpoch[i] = epoch

\* The yes: the lease is renewed, under the epoch that the answer brings.
Renewal(i) ==
    /\ HoldsLease(i)
    /\ epoch' \in {epoch, epoch + 1} \cap (0..MaxEpoch)
    /\ UNCHANGED leader

\* i becomes the holder; the epoch grows unless i was the holder before.
Grant(i) ==
    /\ leader = i \/ epoch < MaxEpoch
    /\ leader' = i
    /\ epoch' = IF leader = i THEN epoch ELSE epoch + 1

\* Acquire is answered with the role follower.
Refuse(i) ==
    /\ ~HonourForce
    /\ leader \notin {i, Nobody}
    /\ UNCHANGED lease

\* `listener takeover` on the machine of i.
TakeoverCmd(i) ==
    /\ epoch < MaxEpoch
    /\ leader' = i
    /\ epoch' = epoch + 1
    /\ UNCHANGED <<subs, proc, link, steals>>

\* The lease runs out; a process that waits in its loop renews it in time.
Expire ==
    /\ leader # Nobody
    /\ phase[leader] # "run" \/ ~HoldsLease(leader) \/ "heartbeat" \in Faults
    /\ leader' = Nobody
    /\ UNCHANGED <<epoch, subs, proc, link, steals>>

-----------------------------------------------------------------------------
(***************************************************************************)
(* The broker.                                                             *)
(***************************************************************************)

\* Mutant: a follower connects under the base client id too.
SameClientId(i) == Base

ClientId(i) == IF role[i] = "follower" THEN i ELSE Base

Connected(i) == link[i] \in {"on", "fresh"}

\* i connects: the connection with the same client id is closed, and its
\* process starts a reconnectLoop.
Displace(i, state) ==
    link' = [j \in Instance |->
        IF j = i THEN state
        ELSE IF Connected(j) /\ ClientId(j) = ClientId(i) THEN "lost"
        ELSE link[j]]

CountSteal(i) ==
    steals' = [steals EXCEPT ![i] =
        IF role[i] = "leader" /\ ~HoldsLease(i) /\ @ < 2 THEN @ + 1 ELSE @]

-----------------------------------------------------------------------------
(***************************************************************************)
(* listener run, up to its loop.                                           *)
(***************************************************************************)

\* i keeps the role r it has got; only a leader uses its epoch.
Takes(i, r) ==
    /\ role' = [role EXCEPT ![i] = r]
    /\ myEpoch' = [myEpoch EXCEPT ![i] = IF r = "leader" THEN epoch' ELSE 0]

\* The process starts and acquires; when the call fails it is standalone.
Start(i) ==
    /\ phase[i] = "down"
    /\ \/ Grant(i) /\ Takes(i, "leader")
       \/ Refuse(i) /\ Takes(i, "follower")
       \/ "acquire" \in Faults /\ UNCHANGED lease /\ Takes(i, "standalone")
    /\ phase' = [phase EXCEPT ![i] = "connect"]
    /\ UNCHANGED <<subs, link, told, left, steals>>

\* The process is gone for reason why, and its connection with it.
Exit(i, why) ==
    /\ phase' = [phase EXCEPT ![i] = "down"]
    /\ role' = [role EXCEPT ![i] = "none"]
    /\ myEpoch' = [myEpoch EXCEPT ![i] = 0]
    /\ link' = [link EXCEPT ![i] = "off"]
    /\ told' = [told EXCEPT ![i] = FALSE]
    /\ left' = [left EXCEPT ![i] = why]
    /\ steals' = [steals EXCEPT ![i] = 0]

\* transport.Connect
Connect(i) ==
    /\ phase[i] = "connect"
    /\ Displace(i, "on")
    /\ CountSteal(i)
    /\ phase' = [phase EXCEPT ![i] = IF role[i] = "follower" THEN "run" ELSE "subscribe"]
    /\ UNCHANGED <<lease, subs, role, myEpoch, told, left>>

ConnectFails(i) ==
    /\ "connection" \in Faults
    /\ phase[i] = "connect"
    /\ Exit(i, "failed")
    /\ UNCHANGED <<lease, subs>>

\* transport.Subscribe
Subscribe(i) ==
    /\ phase[i] = "subscribe"
    /\ Connected(i)
    /\ subs' = subs \cup {ClientId(i)}
    /\ phase' = [phase EXCEPT ![i] = "run"]
    /\ UNCHANGED <<lease, role, myEpoch, link, told, left, steals>>

SubscribeFails(i) ==
    /\ phase[i] = "subscribe"
    /\ ~Connected(i) \/ "subscribe" \in Faults
    /\ Exit(i, "failed")
    /\ UNCHANGED <<lease, subs>>

-----------------------------------------------------------------------------
(***************************************************************************)
(* reconnectLoop.                                                          *)
(***************************************************************************)

LoseConnection(i) ==
    /\ "connection" \in Faults
    /\ Connected(i)
    /\ link' = [link EXCEPT ![i] = "lost"]
    /\ UNCHANGED <<lease, subs, proc, steals>>

\* Mutant: the guard is not asked.
GuardOpen(i) ==
    /\ link[i] = "lost"
    /\ link' = [link EXCEPT ![i] = "guarded"]
    /\ UNCHANGED <<lease, subs, proc, steals>>

\* The guard of a leader sends a heartbeat.  It drops the epoch of a yes and
\* takes an error for a yes; on a no it gives up reconnecting and tells the loop.
\* Others have no guard.
Guard(i) ==
    /\ link[i] = "lost"
    /\ \/ /\ \/ Renewal(i)
             \/ (role[i] = "leader" => "heartbeat" \in Faults) /\ UNCHANGED lease
          /\ link' = [link EXCEPT ![i] = "guarded"]
          /\ UNCHANGED told
       \/ /\ role[i] = "leader" /\ ~HoldsLease(i)
          /\ link' = [link EXCEPT ![i] = "off"]
          /\ told' = [told EXCEPT ![i] = TRUE]
          /\ UNCHANGED lease
    /\ UNCHANGED <<subs, phase, role, myEpoch, left, steals>>

Reconnect(i) ==
    /\ link[i] = "guarded"
    /\ Displace(i, "fresh")
    /\ CountSteal(i)
    /\ UNCHANGED <<lease, subs, proc>>

\* Token or connect fails: the loop sleeps again.
ReconnectFails(i) ==
    /\ "connection" \in Faults
    /\ link[i] = "guarded"
    /\ link' = [link EXCEPT ![i] = "lost"]
    /\ UNCHANGED <<lease, subs, proc, steals>>

\* Mutant: the loop does not subscribe again.
ResubscribeForgotten(i) ==
    /\ link[i] = "fresh"
    /\ link' = [link EXCEPT ![i] = "on"]
    /\ UNCHANGED <<lease, subs, proc, steals>>

\* The loop subscribes, whatever the role, and ignores an error.
Resubscribe(i) ==
    /\ link[i] = "fresh"
    /\ \/ subs' = subs \cup {ClientId(i)}
       \/ "subscribe" \in Faults /\ UNCHANGED subs
    /\ link' = [link EXCEPT ![i] = "on"]
    /\ UNCHANGED <<lease, proc, steals>>

-----------------------------------------------------------------------------
(***************************************************************************)
(* The select loop.                                                        *)
(***************************************************************************)

\* Mutant: unsubscribe, and stay.
BeatStays(i) ==
    /\ phase[i] = "run"
    /\ role[i] = "leader"
    /\ ~HoldsLease(i)
    /\ subs' = IF Connected(i) THEN subs \ {ClientId(i)} ELSE subs
    /\ UNCHANGED <<lease, proc, link, steals>>

\* A leader's heartbeat is answered with no: unsubscribe if connected, and exit.
Beat(i) ==
    /\ phase[i] = "run"
    /\ role[i] = "leader"
    /\ ~HoldsLease(i)
    /\ subs' = IF Connected(i) THEN subs \ {ClientId(i)} ELSE subs
    /\ Exit(i, "revoked")
    /\ UNCHANGED lease

\* Mutant: the answer's epoch is taken before the answer is looked at.
TakesAnyAnswer(i) ==
    /\ phase[i] = "run"
    /\ role[i] = "leader"
    /\ myEpoch' = [myEpoch EXCEPT ![i] = epoch]
    /\ UNCHANGED <<lease, subs, phase, role, link, told, left, steals>>

\* It is answered with yes, and the leader goes on under the answer's epoch; an
\* answer that is lost changes nothing here.
Renew(i) ==
    /\ phase[i] = "run"
    /\ Renewal(i)
    /\ \/ myEpoch' = [myEpoch EXCEPT ![i] = epoch']
       \/ "heartbeat" \in Faults /\ UNCHANGED myEpoch
    /\ UNCHANGED <<subs, phase, role, link, told, left, steals>>

\* flushTicker: no heartbeat, no guard's word and no signal is heard until the
\* sends of a flush are over.  The connection goes its own way.
Flush(i) ==
    /\ phase[i] = "run"
    /\ role[i] # "follower"
    /\ phase' = [phase EXCEPT ![i] = "flush"]
    /\ UNCHANGED <<lease, subs, role, myEpoch, link, told, left, steals>>

Flushed(i) ==
    /\ phase[i] = "flush"
    /\ phase' = [phase EXCEPT ![i] = "run"]
    /\ UNCHANGED <<lease, subs, role, myEpoch, link, told, left, steals>>

\* shutdownCh: the guard has been answered with no.
Told(i) ==
    /\ phase[i] = "run"
    /\ told[i]
    /\ Exit(i, "revoked")
    /\ UNCHANGED <<lease, subs>>

\* A follower acquires again and exits when it is granted the lease.
Poll(i) ==
    /\ phase[i] = "run"
    /\ role[i] = "follower"
    /\ HonourForce \/ leader \in {i, Nobody}
    /\ Grant(i)
    /\ Exit(i, "promoted")
    /\ UNCHANGED subs

Stop(i) ==
    /\ "stop" \in Faults
    /\ phase[i] = "run"
    /\ Exit(i, "stopped")
    /\ UNCHANGED <<lease, subs>>

Crash(i) ==
    /\ "crash" \in Faults
    /\ phase[i] # "down"
    /\ Exit(i, "failed")
    /\ UNCHANGED <<lease, subs>>

-----------------------------------------------------------------------------

Transport(i) ==
    \/ Guard(i)
    \/ Reconnect(i)
    \/ ReconnectFails(i)
    \/ Resubscribe(i)

Main(i) ==
    \/ Connect(i)
    \/ ConnectFails(i)
    \/ Subscribe(i)
    \/ SubscribeFails(i)
    \/ Beat(i)
    \/ Told(i)
    \/ Poll(i)
    \/ Flushed(i)

Next ==
    \/ Expire
    \/ \E i \in Instance :
        \/ Main(i)
        \/ Transport(i)
        \/ Start(i)
        \/ Renew(i)
        \/ Flush(i)
        \/ TakeoverCmd(i)
        \/ LoseConnection(i)
        \/ Stop(i)
        \/ Crash(i)

Spec == Init /\ [][Next]_vars

=============================================================================
