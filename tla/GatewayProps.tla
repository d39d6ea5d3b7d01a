---------------------------- MODULE GatewayProps ----------------------------
(***************************************************************************)
(* What must hold of a message on its way to OpenClaw.                     *)
(***************************************************************************)
EXTENDS Gateway

TookFor(n, to) == \E t \in taken : t.job = n /\ t.to = to

\* A push that reports success was taken by the AI session, and anything else
\* that reports success was taken by the session or by the channel: success is
\* the answer to the request that handed the message over, not to the
\* handshake, not a frame for somebody else, and not the image's own way
\* (gateway.go:222, dispatchDualChannel).
SuccessWasTaken ==
    \A n \in 1..Len(jobs) :
        outcome[n] = "ok" =>
            \/ TookFor(n, "session")
            \/ jobs[n].kind # "push" /\ TookFor(n, "channel")

\* The user or the agent sees one message twice only if the listener once gave
\* up on it without knowing: a request that was written and not answered in
\* time, or a CLI that failed, or hung, after its work.  A gateway that cannot be
\* reached, that turns the listener away or that answers with an error leads
\* to the CLI and to no second copy (session.go:213-247).
SeenTwice(n) ==
    \E t, u \in taken :
        /\ t # u /\ t.job = n /\ u.job = n
        /\ t.to = u.to \/ jobs[n].kind # "push"

TwiceOnlyIfUnsure == \A n \in 1..Len(jobs) : SeenTwice(n) => n \in unsure

\* Copies of the message of job n; the image of a push goes a way of its own.
Copies(n) == {t \in taken : t.job = n /\ (t.to = "session" \/ jobs[n].kind # "push")}

HandedOver == INSTANCE Handover
    WITH MaxAttempts <- MaxJobs, begun <- number,
         once <- {n \in 1..number : Copies(n) # {}},
         twice <- {n \in 1..number : \E t, u \in Copies(n) : t # u},
         doubt <- unsure, report <- outcome

\* To its callers, the client with its fallbacks is a handover: what a job
\* reports is what became of its message, unless it is in doubt.  The outboxes
\* rest on it when they mark a row SENT, or retry it.
ImplementsHandover == HandedOver!HSpec

\* Whatever frames keep coming and whatever the gateway does not answer, a job
\* ends: the deadline is set once for a request and not for each frame
\* (gateway.go:224), and every fallback has an end.  Only an openclaw command
\* that does not return holds it, and then for ever: the command has neither a
\* context nor a timeout (session.go:51, 236, 282).
EndsUnlessCliHangs == pc # "idle" ~> pc \in {"idle", "hung"}

-----------------------------------------------------------------------------
(* The choice of the session, on every list that was read.                 *)

\* The choice is a session of the list, with an id, and it is the main session
\* only if no other has one.
Usable(s) ==
    /\ s.id /\ \E i \in DOMAIN listed : listed[i] = s
    /\ s.key = MainKey => \A i \in DOMAIN listed : listed[i].id => listed[i].key = MainKey

\* Feishu goes before every other channel, and the newest goes first.
Preferred(s, channels) ==
    \A i \in channels :
        IF IsFeishu(listed[i]) THEN IsFeishu(s) /\ s.at >= listed[i].at
        ELSE HasTarget(s.key) /\ (IsFeishu(s) \/ s.at >= listed[i].at)

\* If any session of the list can be addressed, the choice is one that can be,
\* and the preferred one as long as no channel session lacks its id, in whatever
\* order the list has them (ResolvePushSession, session.go:113-116).
ChoiceIsRight ==
    LET s == ResolvePushSession(listed)
        channels == {i \in DOMAIN listed : HasTarget(listed[i].key)}
    IN  /\ (\E i \in DOMAIN listed : listed[i].id) => Usable(s)
        /\ (\A i \in channels : listed[i].id) => Preferred(s, channels)
=============================================================================
