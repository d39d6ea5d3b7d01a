----------------------------- MODULE LoginProps -----------------------------
(* What the start of the listener promises, with logins and pulls around it. *)
EXTENDS Login

AutoTypeOK ==
    /\ managed \in BOOLEAN /\ old \in BOOLEAN
    /\ unit \in Procs \cup {None}
    /\ pidFile \in Procs \cup {None}
    /\ proc \in [Procs -> ProcStates]
    /\ pipe \in [Procs -> Commands \cup {None, "broken"}]
    /\ lock \in Commands \cup {None}
    /\ pc \in [Commands -> Steps]
    /\ polls \in [Commands -> 0 .. MaxWait - 1]
    /\ creds \in Agents \cup {None, "torn"}
    /\ causes \subseteq FaultsOnce \cup {"slow"}

\* Types, among them: a command never looks for the PID file more than MaxWait
\* times and get-auth never asks more than MaxTries times.
TypeOK ==
    /\ AutoTypeOK
    /\ code \in [Logins -> Agents \cup {"none", "issued"}]
    /\ login \in [Logins -> LoginSteps]
    /\ poll \in [Logins -> BOOLEAN]
    /\ tries \in [Logins -> 0 .. MaxTries - 1]
    /\ agent \in [Logins -> Agents \cup {None}]

\* What two listeners of one directory can come from: one started by hand, a
\* command that died while it held the lock, a PID file that could not be
\* written, a listener that took longer to start than its command waits, or a
\* process that was given a stale PID and stood for the one that was starting.
Causes == {"user", "died", "nopid", "reuse", "slow"}
Undisturbed == causes \cap Causes = {}

Serving == {p \in Procs : proc[p] \in {"starting", "running"}}

\* However pulls, logins and the service manager interleave, two listeners serve
\* one directory only after one of Causes (the re-check under the autostart lock).
TwoListenersNeedACause == Undisturbed => \A p, q \in Serving : p = q

\* Until one of Causes has happened, a listener that runs is the one the PID file
\* names, so the next command finds it (writePIDFile, removePIDFile).
RunningIsFound ==
    Undisturbed => \A p \in Procs : proc[p] = "running" => pidFile = p

\* With credentials in place and pulls that go on, a listener runs again and again
\* whatever died and wherever it did, or a process that was given the PID of the
\* dead one passes for it (the stale lock is removed, the stale PID seen through).
ListenerComesBack ==
    <>[](creds \in Agents) =>
        []<>(\E p \in Procs : proc[p] = "running" \/ (proc[p] = "other" /\ pidFile = p))

\* A login and its pulls do to the lock, the PID file and the processes nothing
\* that Autostart does not allow.
ImplementsAutostart == AutoSpec

\* "ensureListenerRunning starts `listener run` in background when it is not
\* alive" (listener_autostart.go:43): once credentials are in place, some listener
\* comes to stay up.  For a system where nobody stops or kills one (Faults).
StaysUp == <>[](creds \in Agents) => <>[](\E p \in Procs : proc[p] = "running")
=============================================================================
