----------------------------- MODULE Autostart -----------------------------
(***************************************************************************)
(* How a command (inbox pull, get-auth) makes sure that a listener runs:   *)
(* ensureListenerRunning, the autostart lock, the PID file and the service *)
(* manager, with the start and the ends of the listener processes          *)
(* (listener_autostart.go, and listenerRunCmd of listener.go).             *)
(*                                                                         *)
(* A command is a process: each step of its run is one system call.  A     *)
(* listener process is an identity of Procs; an identity is used again for *)
(* a later process, never while the PID file still names it, and `other'   *)
(* is a process that is no listener and was given a listener's old PID.    *)
(***************************************************************************)
EXTENDS Naturals, FiniteSets

CONSTANTS
    Commands,   \* the commands that call ensureListenerRunning
    Procs,      \* identities (PIDs) of listener processes
    Agents,     \* the agents whose credentials the file can hold
    None,       \* no process, no command, no agent
    MaxWait,    \* times a command looks for the PID file after a start: 10
    Faults,     \* what may happen to the processes: a subset of FaultKinds
    MaxFaults   \* how many of FaultsOnce in one behaviour, each at most once

FaultsOnce == {"user", "died", "nopid", "spawn", "manager", "load", "reuse", "answer",
               "disk"}
FaultKinds == FaultsOnce \cup {"stop", "kill"}

ASSUME NoneAssumption == None \notin Commands \cup Procs \cup Agents
ASSUME WaitAssumption == MaxWait \in Nat \ {0}
ASSUME FaultsAssumption == Faults \subseteq FaultKinds /\ MaxFaults \in Nat

VARIABLES
    managed,  \* a service file exists (LaunchAgent or systemd unit)
    unit,     \* the process the service manager started, or None
    pidFile,  \* the process named by listener.pid, or None
    proc,     \* state of each process
    pipe,     \* who reads a process's output: a command, None (a file), or "broken"
    lock,     \* who made listener_autostart.lock, or None
    old,      \* the lock is older than 30 s
    pc,       \* where each command is
    polls,    \* times it has looked for the PID file
    creds,    \* credentials.json: an agent, None (no file) or "torn"
    causes    \* what has gone wrong so far (history)

autoVars == <<managed, unit, pidFile, proc, pipe, lock, old, pc, polls, creds, causes>>
hostVars == <<managed, unit, pidFile, proc, pipe, creds>>

ProcStates == {"free", "starting", "running", "ending", "other"}
Listeners == {p \in Procs : proc[p] \in {"starting", "running", "ending"}}
Locked == {"recheck", "spawn", "poll", "unlock"}
Steps == {"idle", "check", "manager", "wait", "mkdir", "stat", "rmdir", "again",
          "end"} \cup Locked

AutoInit ==
    /\ managed \in BOOLEAN
    /\ unit = None /\ pidFile = None /\ lock = None /\ old = FALSE
    /\ proc = [p \in Procs |-> "free"]
    /\ pipe = [p \in Procs |-> None]
    /\ pc = [c \in Commands |-> "idle"]
    /\ polls = [c \in Commands |-> 0]
    /\ creds \in Agents \cup {None}
    /\ causes = {}

-----------------------------------------------------------------------------
(* The command *)

IsListenerAlive == pidFile # None /\ proc[pidFile] # "free"

Goto(c, step) == pc' = [pc EXCEPT ![c] = step]

May(fault) ==
    /\ fault \in (Faults \cap FaultsOnce) \ causes
    /\ Cardinality(causes \ {"slow"}) < MaxFaults
    /\ causes' = causes \cup {fault}

\* A process that is not named by the PID file begins: the kernel does not give
\* it the number the file still holds.
Starts(p, reader) ==
    /\ proc[p] = "free" /\ p # pidFile
    /\ proc' = [proc EXCEPT ![p] = "starting"]
    /\ pipe' = [pipe EXCEPT ![p] = reader]

\* The bound of the model: with no identity left a start fails, as it may anyway.
NoneLeft == \A p \in Procs : proc[p] # "free" \/ p = pidFile

StartFails(fault) == May(fault) \/ (NoneLeft /\ UNCHANGED causes)

Call(c) ==
    /\ pc[c] = "idle"
    /\ Goto(c, "check")
    /\ UNCHANGED <<hostVars, lock, old, polls, causes>>

Check(c) ==
    /\ pc[c] = "check"
    /\ Goto(c, IF IsListenerAlive THEN "end" ELSE IF managed THEN "manager" ELSE "mkdir")
    /\ UNCHANGED <<hostVars, lock, old, polls, causes>>

\* The manager starts the unit unless it is active; an error is ignored.
AskManager(c) ==
    /\ pc[c] = "manager"
    /\ Goto(c, "wait")
    /\ polls' = [polls EXCEPT ![c] = 0]
    /\ \/ /\ unit = None
          /\ \E p \in Procs : Starts(p, None) /\ unit' = p
          /\ UNCHANGED causes
       \/ unit # None /\ UNCHANGED <<unit, proc, pipe, causes>>
       \/ StartFails("manager") /\ UNCHANGED <<unit, proc, pipe>>
    /\ UNCHANGED <<managed, pidFile, creds, lock, old>>

\* 100 ms later: is the PID file there?  A command that gives up on a listener
\* it started leaves one that is slow, or that could not start.
LookAgain(c) ==
    /\ pc[c] \in {"wait", "poll"}
    /\ LET over == IsListenerAlive \/ polls[c] + 1 = MaxWait
       IN  /\ polls' = [polls EXCEPT ![c] = IF over THEN 0 ELSE @ + 1]
           /\ Goto(c, IF ~over THEN pc[c] ELSE IF pc[c] = "wait" THEN "end" ELSE "unlock")
           /\ causes' = IF pc[c] = "poll" /\ over /\ ~IsListenerAlive
                        THEN causes \cup {"slow"} ELSE causes
    /\ UNCHANGED <<hostVars, lock, old>>

TakesLock(c) ==
    /\ lock' = c /\ old' = FALSE
    /\ Goto(c, "recheck")

Mkdir(c) ==
    /\ pc[c] = "mkdir"
    /\ \/ lock = None /\ TakesLock(c)
       \/ lock # None /\ Goto(c, "stat") /\ UNCHANGED <<lock, old>>
    /\ UNCHANGED <<hostVars, polls, causes>>

\* Mutant of Stat: no lock is ever stale.
StatNeverOld(c) ==
    /\ pc[c] = "stat"
    /\ Goto(c, "end")
    /\ UNCHANGED <<hostVars, lock, old, polls, causes>>

\* The age that is read here is acted on by RemoveStale.
Stat(c) ==
    /\ pc[c] = "stat"
    /\ Goto(c, IF lock # None /\ old THEN "rmdir" ELSE "end")
    /\ UNCHANGED <<hostVars, lock, old, polls, causes>>

\* os.Remove of the lock, whoever's it is by now.
RemovesLock == lock' = None /\ old' = FALSE

RemoveStale(c) ==
    /\ pc[c] = "rmdir"
    /\ RemovesLock
    /\ Goto(c, "again")
    /\ UNCHANGED <<hostVars, polls, causes>>

MkdirAgain(c) ==
    /\ pc[c] = "again"
    /\ \/ lock = None /\ TakesLock(c)
       \/ lock # None /\ Goto(c, "end") /\ UNCHANGED <<lock, old>>
    /\ UNCHANGED <<hostVars, polls, causes>>

\* Mutant of Recheck: the check before the lock is thought to be enough.
RecheckNever(c) ==
    /\ pc[c] = "recheck"
    /\ Goto(c, "spawn")
    /\ UNCHANGED <<hostVars, lock, old, polls, causes>>

Recheck(c) ==
    /\ pc[c] = "recheck"
    /\ Goto(c, IF IsListenerAlive THEN "unlock" ELSE "spawn")
    /\ UNCHANGED <<hostVars, lock, old, polls, causes>>

\* The output of the child is no *os.File, so os/exec makes a pipe, and a goroutine
\* of the command copies what comes through it to the log file.
Spawn(c) ==
    /\ pc[c] = "spawn"
    /\ \/ /\ \E p \in Procs : Starts(p, c)
          /\ Goto(c, "poll")
          /\ UNCHANGED causes
       \/ /\ StartFails("spawn")
          /\ Goto(c, "unlock")
          /\ UNCHANGED <<proc, pipe>>
    /\ UNCHANGED <<managed, unit, pidFile, creds, lock, old, polls>>

\* ensureListenerRunning returns: the log file is closed, the lock removed.
Unlock(c) ==
    /\ pc[c] = "unlock"
    /\ RemovesLock
    /\ Goto(c, "end")
    /\ UNCHANGED <<hostVars, polls, causes>>

\* The process of the command is gone, and with it the reader of its pipes.
Gone(c) ==
    /\ Goto(c, "idle")
    /\ polls' = [polls EXCEPT ![c] = 0]
    /\ pipe' = [p \in Procs |-> IF pipe[p] = c THEN "broken" ELSE pipe[p]]
    /\ UNCHANGED <<managed, unit, pidFile, proc, creds, lock, old>>

Finish(c) == pc[c] = "end" /\ Gone(c) /\ UNCHANGED causes

\* The command is killed between two steps; a lock it holds stays.
Die(c) == pc[c] # "idle" /\ May("died") /\ Gone(c)

\* 30 s after the lock was made.  A command holds it for little more than one
\* second, so it grows old only when its maker has died.
Age ==
    /\ lock # None /\ ~old
    /\ pc[lock] \notin Locked
    /\ old' = TRUE
    /\ UNCHANGED <<hostVars, lock, pc, polls, causes>>

-----------------------------------------------------------------------------
(* The listener process *)

processVars == <<managed, creds, lock, old, pc, polls>>

Freed(p) ==
    /\ proc' = [proc EXCEPT ![p] = "free"]
    /\ pipe' = [pipe EXCEPT ![p] = None]
    /\ unit' = IF unit = p THEN None ELSE unit

\* No credentials, no instance id or no store: the process ends before it has
\* written anything.
LoadFails(p) ==
    /\ proc[p] = "starting"
    /\ (creds \notin Agents /\ UNCHANGED causes) \/ May("load")
    /\ Freed(p)
    /\ UNCHANGED <<processVars, pidFile>>

\* Mutant of WritesPid: the loop runs and the PID is written at its end only.
RunsWithoutPid(p) ==
    /\ proc[p] = "starting" /\ creds \in Agents
    /\ proc' = [proc EXCEPT ![p] = "running"]
    /\ UNCHANGED <<processVars, unit, pidFile, pipe, causes>>

\* The credentials are read, the store is opened and the PID file written; an
\* error of the write is only logged.
WritesPid(p) ==
    /\ proc[p] = "starting" /\ creds \in Agents
    /\ proc' = [proc EXCEPT ![p] = "running"]
    /\ \/ pidFile' = p /\ UNCHANGED causes
       \/ May("nopid") /\ UNCHANGED pidFile
    /\ UNCHANGED <<processVars, unit, pipe>>

\* A signal or a lost lease ends the loop; the deferred removePIDFile removes the
\* file, whatever process it names.
Ends(p) ==
    /\ "stop" \in Faults
    /\ proc[p] = "running"
    /\ proc' = [proc EXCEPT ![p] = "ending"]
    /\ pidFile' = None
    /\ UNCHANGED <<processVars, unit, pipe, causes>>

Exits(p) ==
    /\ proc[p] = "ending"
    /\ Freed(p)
    /\ UNCHANGED <<processVars, pidFile, causes>>

\* SIGKILL, a panic, the end of the machine: no deferred call runs.
Killed(p) ==
    /\ "kill" \in Faults
    /\ proc[p] = "running"
    /\ Freed(p)
    /\ UNCHANGED <<processVars, pidFile, causes>>

\* The first log line after ensureListenerRunning has returned is copied to the
\* closed log file: that fails, and the goroutine closes its end of the pipe, also
\* when the command itself goes on.
LosesReader(p) ==
    /\ proc[p] \in {"running", "ending"}
    /\ pipe[p] \in Commands /\ pc[pipe[p]] = "end"
    /\ pipe' = [pipe EXCEPT ![p] = "broken"]
    /\ UNCHANGED <<processVars, unit, pidFile, proc, causes>>

\* The next log line (the lease, the connection) goes to a pipe nobody reads.
\* The Go runtime ends a process whose write to stderr gets SIGPIPE.
BrokenPipe(p) ==
    /\ proc[p] \in {"running", "ending"} /\ pipe[p] = "broken"
    /\ Freed(p)
    /\ UNCHANGED <<processVars, pidFile, causes>>

-----------------------------------------------------------------------------
(* Others: a user, the service manager, the kernel *)

\* `listener run' by hand takes no lock and looks at no PID file.
UserStarts(p) ==
    /\ May("user")
    /\ Starts(p, None)
    /\ UNCHANGED <<processVars, unit, pidFile>>

\* RunAtLoad, KeepAlive, Restart=on-failure: the manager starts its unit itself.
ManagerStarts(p) ==
    /\ managed /\ unit = None
    /\ Starts(p, None)
    /\ unit' = p
    /\ UNCHANGED <<processVars, pidFile, causes>>

\* The number in a stale PID file is given to a process of the same user.
PidReused(p) ==
    /\ pidFile = p /\ proc[p] = "free"
    /\ May("reuse")
    /\ proc' = [proc EXCEPT ![p] = "other"]
    /\ UNCHANGED <<processVars, unit, pidFile, pipe>>

OtherEnds(p) ==
    /\ "stop" \in Faults
    /\ proc[p] = "other"
    /\ proc' = [proc EXCEPT ![p] = "free"]
    /\ UNCHANGED <<processVars, unit, pidFile, pipe, causes>>

\* What a command does of its own: credentials.json is truncated, filled or
\* removed, and things go wrong that are none of the listener's.
CallerStep ==
    /\ creds' \in Agents \cup {None, "torn"}
    /\ causes' = causes \/ \E fault \in {"answer", "disk", "died"} : May(fault)
    /\ UNCHANGED <<managed, unit, pidFile, proc, pipe, lock, old, pc, polls>>

-----------------------------------------------------------------------------
\* ensureListenerRunning
Ensures(c) ==
    \/ Check(c) \/ AskManager(c) \/ LookAgain(c) \/ Mkdir(c) \/ Stat(c)
    \/ RemoveStale(c) \/ MkdirAgain(c) \/ Recheck(c) \/ Spawn(c) \/ Unlock(c)

Process(p) ==
    \/ LoadFails(p) \/ WritesPid(p) \/ Ends(p) \/ Exits(p) \/ Killed(p)
    \/ LosesReader(p) \/ BrokenPipe(p)

Others(p) == UserStarts(p) \/ ManagerStarts(p) \/ PidReused(p) \/ OtherEnds(p)

\* What happens whether or not a command runs.
Background == Age \/ \E p \in Procs : Process(p) \/ Others(p)

AutoNext ==
    \/ \E c \in Commands : Call(c) \/ Ensures(c) \/ Finish(c) \/ Die(c)
    \/ Background
    \/ CallerStep

AutoSpec == AutoInit /\ [][AutoNext]_autoVars
=============================================================================
