---------------------------- MODULE PeerSession ----------------------------
(***************************************************************************)
(* Which session of the agent a peer's messages belong to: the table       *)
(* peer_session_route, one row per peer.  A pull, an ack and the SENT mark *)
(* of an outgoing message bind a session to a peer, each from a process of *)
(* its own.  BindPeerSession reads the row, leaves it alone if it is newer *)
(* than the binding, and upserts in a second statement.                    *)
(*                                                                         *)
(* Abstractions.  A session is known by an id, a key or both: row.id and   *)
(* row.key hold the session they were taken from.  The column "source" is  *)
(* left out.  A peer without a row has the row Unbound.                    *)
(***************************************************************************)
EXTENDS Naturals

CONSTANTS
    Peer,
    Binder,     \* the processes that bind, each with one call at a time
    Session,
    Time,       \* the values of updated_at
    Faults,     \* what may go wrong: "bind", a statement fails, or the process dies
    NoPeer,
    NoSession

ASSUME TimeAssumption == Time \subseteq Nat
ASSUME NoPeerAssumption == NoPeer \notin Peer

VARIABLES
    route,      \* peer_session_route
    target,     \* the peer each binder is binding
    next        \* the row it is going to write

sessionVars == <<route, target, next>>

Ref == Session \cup {NoSession}
Row == [id : Ref, key : Ref, at : Nat]
Unbound == [id |-> NoSession, key |-> NoSession, at |-> 0]

SessionTypeOK ==
    /\ route \in [Peer -> Row]
    /\ target \in [Binder -> Peer \cup {NoPeer}]
    /\ next \in [Binder -> Row]

SessionInit ==
    /\ route = [p \in Peer |-> Unbound]
    /\ target = [b \in Binder |-> NoPeer]
    /\ next = [b \in Binder |-> Unbound]

-----------------------------------------------------------------------------
\* A reference that is not given keeps what the row had.
Merge(old, id, key, t) ==
    [id  |-> IF id = NoSession THEN old.id ELSE id,
     key |-> IF key = NoSession THEN old.key ELSE key,
     at  |-> t]

\* Mutant: the row's age is not looked at.
NeverStale(p, t) == FALSE

\* existUpdatedAt > updatedAt
Stale(p, t) == route[p].at > t

\* The first statement of BindPeerSession, when a second one follows.
BindRead(b, p, id, key, t) ==
    /\ target[b] = NoPeer
    /\ id # NoSession \/ key # NoSession
    /\ ~Stale(p, t)
    /\ target' = [target EXCEPT ![b] = p]
    /\ next' = [next EXCEPT ![b] = Merge(route[p], id, key, t)]
    /\ UNCHANGED route

\* The call of b returns.
Returns(b) ==
    /\ target' = [target EXCEPT ![b] = NoPeer]
    /\ next' = [next EXCEPT ![b] = Unbound]

\* The second statement.
BindUpsert(b) ==
    /\ target[b] # NoPeer
    /\ route' = [route EXCEPT ![target[b]] = next[b]]
    /\ Returns(b)

\* The second statement fails, or its process dies before it.
BindFails(b) ==
    /\ "bind" \in Faults
    /\ target[b] # NoPeer
    /\ Returns(b)
    /\ UNCHANGED route

Bind(b) ==
    \E p \in Peer, id, key \in Ref, t \in Time : BindRead(b, p, id, key, t)

SessionNext == \E b \in Binder : Bind(b) \/ BindUpsert(b) \/ BindFails(b)

SessionSpec == SessionInit /\ [][SessionNext]_sessionVars

-----------------------------------------------------------------------------
\* "If the existing binding has a newer updated_at, the update is skipped (stale
\* binding)" (peer_session.go:60): whatever the order in which bindings are made,
\* the one in the table never becomes older.
BindingNeverAges ==
    [][\A p \in Peer : route'[p].at >= route[p].at]_sessionVars

=============================================================================
