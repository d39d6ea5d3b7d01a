------------------------------- MODULE Login -------------------------------
(***************************************************************************)
(* gen-auth-code and get-auth (auth.go): the code, the question asked once *)
(* or again and again, the credentials file, and the start of the listener *)
(* that follows, composed with the pulls that start one too (Autostart).   *)
(***************************************************************************)
EXTENDS Autostart

CONSTANTS
    Logins,     \* the commands that are get-auth; the others are inbox pull
    MaxTries    \* questions asked by get-auth --poll: 30

ASSUME LoginsAssumption == Logins \subseteq Commands
ASSUME TriesAssumption == MaxTries \in Nat \ {0}

VARIABLES
    code,   \* its auth code at the server: "none", "issued", or the agent granted
    login,  \* what each get-auth is doing
    poll,   \* it was called with --poll
    tries,  \* questions it has asked
    agent   \* the agent whose credentials it was given

loginVars == <<code, login, poll, tries, agent>>
vars == <<autoVars, loginVars>>

Pulls == Commands \ Logins
LoginSteps == {"idle", "asking", "saving", "filling", "starting", "started"}

Init ==
    /\ AutoInit
    /\ code = [l \in Logins |-> "none"]
    /\ login = [l \in Logins |-> "idle"]
    /\ poll = [l \in Logins |-> FALSE]
    /\ tries = [l \in Logins |-> 0]
    /\ agent = [l \in Logins |-> None]

-----------------------------------------------------------------------------
(* The code of a login, at the server *)

UserAuthorises(l) ==
    /\ code[l] = "issued"
    /\ \E a \in Agents : code' = [code EXCEPT ![l] = a]
    /\ UNCHANGED <<autoVars, login, poll, tries, agent>>

CodeExpires(l) ==
    /\ code[l] # "none"
    /\ code' = [code EXCEPT ![l] = "none"]
    /\ UNCHANGED <<autoVars, login, poll, tries, agent>>

-----------------------------------------------------------------------------
(* get-auth *)

Now(l, step) == login' = [login EXCEPT ![l] = step]

\* It asks no more: neither the code nor the count is read again.
AsksNoMore(l) ==
    /\ code' = [code EXCEPT ![l] = "none"]
    /\ poll' = [poll EXCEPT ![l] = FALSE]
    /\ tries' = [tries EXCEPT ![l] = 0]

\* The process of the login is gone, with what it knew.
Over(l) ==
    /\ Now(l, "idle")
    /\ AsksNoMore(l)
    /\ agent' = [agent EXCEPT ![l] = None]

\* gen-auth-code: a code the server issued, or one made up here when it did not
\* answer; of that one it hears, if at all, when the user opens the page.
GenAuthCode(l) == \E state \in {"issued", "none"} : code' = [code EXCEPT ![l] = state]

GetAuth(l) ==
    /\ login[l] = "idle" /\ pc[l] = "idle"
    /\ GenAuthCode(l)
    /\ Now(l, "asking")
    /\ \E b \in BOOLEAN : poll' = [poll EXCEPT ![l] = b]
    /\ UNCHANGED <<autoVars, tries, agent>>

\* Mutant of AskAgain: one question too many.
AskOnceMore(l) ==
    \/ /\ poll[l] /\ tries[l] < MaxTries
       /\ tries' = [tries EXCEPT ![l] = @ + 1]
       /\ UNCHANGED <<code, login, poll, agent>>
    \/ ~(poll[l] /\ tries[l] < MaxTries) /\ Over(l)

\* Without --poll the first answer is the last; with it the 30th is.
AskAgain(l) ==
    \/ /\ poll[l] /\ tries[l] + 1 < MaxTries
       /\ tries' = [tries EXCEPT ![l] = @ + 1]
       /\ UNCHANGED <<code, login, poll, agent>>
    \/ ~(poll[l] /\ tries[l] + 1 < MaxTries) /\ Over(l)

autoVarsButCauses == <<hostVars, lock, old, pc, polls>>

\* No answer, or one that does not parse.
AskFails(l) ==
    /\ login[l] = "asking"
    /\ May("answer")
    /\ AskAgain(l)
    /\ UNCHANGED autoVarsButCauses

Pending(l) ==
    /\ login[l] = "asking" /\ code[l] = "issued"
    /\ AskAgain(l)
    /\ UNCHANGED autoVars

\* The server knows no such code: IsSuccess is false, and that ends the poll too.
Refused(l) ==
    /\ login[l] = "asking" /\ code[l] = "none"
    /\ Over(l)
    /\ UNCHANGED autoVars

Authorised(l) ==
    /\ login[l] = "asking" /\ code[l] \in Agents
    /\ agent' = [agent EXCEPT ![l] = code[l]]
    /\ AsksNoMore(l)
    /\ Now(l, "saving")
    /\ UNCHANGED autoVars

\* os.WriteFile: the file is truncated, then filled.
SetCreds(value) ==
    /\ creds' = value
    /\ UNCHANGED <<managed, unit, pidFile, proc, pipe, lock, old, pc, polls, causes>>

Truncate(l) ==
    /\ login[l] = "saving"
    /\ SetCreds("torn")
    /\ Now(l, "filling")
    /\ UNCHANGED <<code, poll, tries, agent>>

Fill(l) ==
    /\ login[l] = "filling"
    /\ SetCreds(agent[l])
    /\ Now(l, "starting")
    /\ UNCHANGED <<code, poll, tries, agent>>

\* The directory cannot be made, the file not opened, or the disk is full.
SaveFails(l) ==
    /\ login[l] \in {"saving", "filling"}
    /\ May("disk")
    /\ Over(l)
    /\ UNCHANGED autoVarsButCauses

\* Mutant of EnsureAfterSave: a login starts the listener without asking whether
\* one runs.
SpawnAfterSave(l) ==
    /\ login[l] = "starting"
    /\ pc[l] = "idle" /\ Goto(l, "spawn")
    /\ Now(l, "started")
    /\ UNCHANGED <<hostVars, lock, old, polls, causes, code, poll, tries, agent>>

EnsureAfterSave(l) ==
    /\ login[l] = "starting"
    /\ Call(l)
    /\ Now(l, "started")
    /\ UNCHANGED <<code, poll, tries, agent>>

\* listener_running is printed, and the process ends.
Report(l) == Finish(l) /\ Over(l)

LoginDies(l) ==
    /\ \/ /\ login[l] \in {"asking", "saving", "filling", "starting"}
          /\ May("died")
          /\ UNCHANGED autoVarsButCauses
       \/ Die(l)
    /\ Over(l)

-----------------------------------------------------------------------------
Asks(l) == AskFails(l) \/ Pending(l) \/ Refused(l) \/ Authorised(l)
Saves(l) == Truncate(l) \/ Fill(l) \/ SaveFails(l) \/ EnsureAfterSave(l)

PullSteps(c) == Call(c) \/ Ensures(c) \/ Finish(c) \/ Die(c)

Server(l) == UserAuthorises(l) \/ CodeExpires(l)

Next ==
    \/ \E c \in Pulls : PullSteps(c) /\ UNCHANGED loginVars
    \/ \E l \in Logins : Ensures(l) /\ UNCHANGED loginVars
    \/ Background /\ UNCHANGED loginVars
    \/ \E l \in Logins : GetAuth(l) \/ Asks(l) \/ Saves(l) \/ Report(l) \/ LoginDies(l)
    \/ \E l \in Logins : Server(l)

Spec == Init /\ [][Next]_vars

\* The steps of a command follow one another; a lock left behind grows old; a
\* process that was started goes on to write its PID or to exit, and then to log
\* its lease and connection.  A pull is called again and again (the agent's
\* heartbeat); nothing makes a user log in.  A process that is no listener need not
\* end while the PID file names it; after that its identity is free for the model.
FairSpec ==
    /\ Spec
    /\ \A c \in Commands : WF_vars(Ensures(c) /\ UNCHANGED loginVars)
    /\ \A c \in Pulls : WF_vars((Call(c) \/ Finish(c)) /\ UNCHANGED loginVars)
    /\ \A l \in Logins : WF_vars(Asks(l)) /\ WF_vars(Saves(l)) /\ WF_vars(Report(l))
    /\ \A p \in Procs : /\ WF_vars((LoadFails(p) \/ WritesPid(p)) /\ UNCHANGED loginVars)
                        /\ WF_vars(Exits(p) /\ UNCHANGED loginVars)
                        /\ WF_vars(BrokenPipe(p) /\ UNCHANGED loginVars)
                        /\ WF_vars(OtherEnds(p) /\ pidFile # p /\ UNCHANGED loginVars)
    /\ WF_vars(Age /\ UNCHANGED loginVars)
=============================================================================
