------------------------- MODULE ListenerLeaseProps -------------------------
(***************************************************************************)
(* What is claimed of the listeners of one agent.                          *)
(***************************************************************************)
EXTENDS ListenerLease

\* A leader that has lost its lease displaces the new leader's connection at
\* most once: its guard ("Prevents ping-pong when a new leader has taken over",
\* listener.go:275) stops every reconnect but one that it let pass before.
StealsAtMostOnce == \A i \in Instance : steals[i] <= 1

\* A leader that has lost its lease does not get it back: not by an expiry, not
\* by a `listener takeover` on its own machine, and not by the epochs its
\* heartbeats bring.  The guard relies on it when it gives up reconnecting for
\* good and leaves the rest to the loop (listener.go:282-288), which may be in a
\* flush.
Lost(i) == role[i] = "leader" /\ ~HoldsLease(i)

LostForGood == [][\A i \in Instance : Lost(i) /\ role'[i] = "leader" => Lost(i)']_vars

\* i is connected under the base client id, and its session is subscribed.
Serves(i) == Connected(i) /\ ClientId(i) = Base /\ Base \in subs

\* A process that holds the lease ends up connected and subscribed, or loses the
\* lease or its life: the Unsubscribe of the leader before it, and reconnects
\* that displace each other, do not leave it deaf.
LeaderServes ==
    \A i \in Instance : HoldsLease(i) ~> Serves(i) \/ ~HoldsLease(i)

\* A leader whose lease is gone leaves its loop, whatever its connection does.
DisplacedLeaves ==
    \A i \in Instance :
        role[i] = "leader" /\ ~HoldsLease(i) ~> role[i] # "leader"

\* i takes its client id from j.
Displaces(i, j) ==
    /\ Connected(j) /\ link'[j] = "lost"
    /\ ~Connected(i) /\ link'[i] \in {"on", "fresh"}

\* When processes stop being started, they stop displacing each other: no two
\* reconnectLoops of live listeners take the base client id in turns for ever.
ContentionEnds ==
    <>[][\A i \in Instance : phase[i] = "down" => phase'[i] = "down"]_vars
    => <>[][\A i, j \in Instance : ~Displaces(i, j)]_vars

(***************************************************************************)
(* Fairness.  The steps of a live process are taken; the service manager   *)
(* restarts what install.sh tells it to; a connect or subscribe that is    *)
(* tried for ever succeeds once in a while; select takes each of the cases *)
(* that stay ready once in a while; a flush returns.                       *)
(***************************************************************************)
Restarts(i) == Manager = "always" \/ left[i] \in {"failed"}

Fairness ==
    \A i \in Instance :
        /\ WF_vars(Main(i))
        /\ SF_vars(Beat(i) \/ Told(i))
        /\ WF_vars(Transport(i))
        /\ WF_vars(Restarts(i) /\ Start(i))
        /\ SF_vars(Connect(i) \/ Reconnect(i))
        /\ SF_vars((Subscribe(i) \/ Resubscribe(i)) /\ ClientId(i) \in subs')

FairSpec == Spec /\ Fairness

=============================================================================
