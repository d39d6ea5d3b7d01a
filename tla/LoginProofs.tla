---------------------------- MODULE LoginProofs ----------------------------
(***************************************************************************)
(* For every set of commands, processes and agents: the types, that two    *)
(* listeners need a cause and that a running one is found, and that logins *)
(* and pulls together implement Autostart.                                 *)
(*                                                                         *)
(* The argument.  While nothing of Causes has happened (Undisturbed) the   *)
(* lock is never old, so the command that made it is the only one between  *)
(* the re-check and the unlock (LockKept).  It passes the re-check only    *)
(* when nothing serves (SpawnAlone): a running listener would be named by  *)
(* the PID file, and a starting one would have its command still in the    *)
(* poll (StartingAwaited).  It leaves the poll only when the PID file is   *)
(* there, so the listener it started runs, and is named (RunningIsFound).  *)
(* Under a service manager no command spawns, and the unit is the only one *)
(* that serves (UnitServes).                                               *)
(***************************************************************************)
EXTENDS LoginProps, TLAPS

\* The lock is as old as its maker's section, and whoever is in the section made it.
LockKept ==
    /\ ~old
    /\ lock # None => pc[lock] \in Locked
    /\ \A c \in Commands : pc[c] \in Locked => lock = c
    /\ \A c \in Commands : pc[c] \notin {"rmdir", "again"}

\* With a service file no command is on the way to the lock, without one none asks
\* the manager.
ManagedOrNot ==
    \A c \in Commands :
        /\ managed => pc[c] \notin {"mkdir", "stat"} \cup Locked
        /\ ~managed => pc[c] # "manager"

OneServes == \A p, q \in Serving : p = q

RunningNamed == \A p \in Procs : proc[p] = "running" => pidFile = p

OnlyRunningNamed == pidFile # None => proc[pidFile] \in {"free", "running"}

StartingAwaited ==
    ~managed => \A p \in Procs : proc[p] = "starting" => \E c \in Commands : pc[c] = "poll"

SpawnAlone == \A c \in Commands : pc[c] = "spawn" => Serving = {}

UnitServes == managed => \A p \in Serving : unit = p

Quiet ==
    /\ LockKept /\ ManagedOrNot
    /\ OneServes /\ RunningNamed /\ OnlyRunningNamed
    /\ StartingAwaited /\ SpawnAlone /\ UnitServes

IInv == AutoTypeOK /\ (Undisturbed => Quiet)

LEMMA NoneIsNoOther ==
    /\ None \notin Procs /\ None \notin Commands /\ None \notin Agents
    /\ MaxWait \in Nat /\ MaxWait > 0
BY NoneAssumption, WaitAssumption

-----------------------------------------------------------------------------
(* Types *)

LEMMA InitTypes == AutoInit => AutoTypeOK
<1> SUFFICES ASSUME AutoInit PROVE AutoTypeOK
  OBVIOUS
<1>1. 0 \in 0 .. MaxWait - 1
  BY NoneIsNoOther
<1>2. polls \in [Commands -> 0 .. MaxWait - 1]
  BY <1>1 DEF AutoInit
<1>3. /\ proc \in [Procs -> ProcStates] /\ pc \in [Commands -> Steps]
      /\ pipe \in [Procs -> Commands \cup {None, "broken"}]
  BY DEF AutoInit, ProcStates, Steps
<1> QED
  BY <1>2, <1>3 DEF AutoInit, AutoTypeOK

LEMMA CommandTypes ==
    ASSUME AutoTypeOK, NEW c \in Commands, Call(c) \/ Ensures(c) \/ Finish(c) \/ Die(c)
    PROVE  AutoTypeOK'
<1> USE DEF AutoTypeOK, ProcStates, Steps, Locked, hostVars
<1>1. CASE Call(c)
  BY <1>1 DEF Call, Goto
<1>2. CASE Check(c)
  BY <1>2 DEF Check, Goto
<1>3. CASE AskManager(c)
  <2>1. pc' \in [Commands -> Steps] /\ polls' \in [Commands -> 0 .. MaxWait - 1]
    BY <1>3, NoneIsNoOther DEF AskManager, Goto
  <2>2. /\ unit' \in Procs \cup {None} /\ proc' \in [Procs -> ProcStates]
        /\ pipe' \in [Procs -> Commands \cup {None, "broken"}]
    BY <1>3 DEF AskManager, Starts
  <2>3. causes' \subseteq FaultsOnce \cup {"slow"}
    BY <1>3 DEF AskManager, StartFails, May
  <2> QED
    BY <1>3, <2>1, <2>2, <2>3 DEF AskManager
<1>4. CASE LookAgain(c)
  <2>1. causes' \subseteq FaultsOnce \cup {"slow"}
    BY <1>4 DEF LookAgain
  <2>2. polls' \in [Commands -> 0 .. MaxWait - 1]
    BY <1>4, NoneIsNoOther DEF LookAgain
  <2>3. pc' \in [Commands -> Steps]
    BY <1>4 DEF LookAgain, Goto
  <2> QED
    BY <1>4, <2>1, <2>2, <2>3 DEF LookAgain
<1>5. CASE Mkdir(c)
  BY <1>5 DEF Mkdir, TakesLock, Goto
<1>6. CASE Stat(c)
  BY <1>6 DEF Stat, Goto
<1>7. CASE RemoveStale(c)
  BY <1>7 DEF RemoveStale, RemovesLock, Goto
<1>8. CASE MkdirAgain(c)
  BY <1>8 DEF MkdirAgain, TakesLock, Goto
<1>9. CASE Recheck(c)
  BY <1>9 DEF Recheck, Goto
<1>10. CASE Spawn(c)
  <2>1. /\ proc' \in [Procs -> ProcStates]
        /\ pipe' \in [Procs -> Commands \cup {None, "broken"}]
    BY <1>10 DEF Spawn, Starts
  <2>2. causes' \subseteq FaultsOnce \cup {"slow"}
    BY <1>10 DEF Spawn, StartFails, May
  <2>3. pc' \in [Commands -> Steps]
    BY <1>10 DEF Spawn, Goto
  <2> QED
    BY <1>10, <2>1, <2>2, <2>3 DEF Spawn
<1>11. CASE Unlock(c)
  BY <1>11 DEF Unlock, RemovesLock, Goto
<1>12. ASSUME Gone(c)
       PROVE  /\ pc' \in [Commands -> Steps] /\ polls' \in [Commands -> 0 .. MaxWait - 1]
              /\ pipe' \in [Procs -> Commands \cup {None, "broken"}]
  BY <1>12, NoneIsNoOther DEF Gone, Goto
<1>13. CASE Finish(c)
  BY <1>12, <1>13 DEF Finish, Gone
<1>14. CASE Die(c)
  BY <1>12, <1>14 DEF Die, Gone, May
<1> QED
  BY <1>1, <1>2, <1>3, <1>4, <1>5, <1>6, <1>7, <1>8, <1>9, <1>10, <1>11, <1>13, <1>14
     DEF Ensures

LEMMA BackgroundTypes ==
    ASSUME AutoTypeOK, Background
    PROVE  AutoTypeOK'
<1> USE DEF AutoTypeOK, ProcStates, processVars
<1>1. CASE Age
  BY <1>1 DEF Age, hostVars
<1>2. ASSUME NEW p \in Procs, LoadFails(p) \/ Exits(p) \/ Killed(p) \/ BrokenPipe(p)
      PROVE  AutoTypeOK'
  BY <1>2 DEF LoadFails, Exits, Killed, BrokenPipe, Freed, May
<1>3. ASSUME NEW p \in Procs, WritesPid(p)
      PROVE  AutoTypeOK'
  BY <1>3 DEF WritesPid, May
<1>4. ASSUME NEW p \in Procs, Ends(p)
      PROVE  AutoTypeOK'
  BY <1>4 DEF Ends
<1>5. ASSUME NEW p \in Procs, UserStarts(p)
      PROVE  AutoTypeOK'
  BY <1>5 DEF UserStarts, Starts, May
<1>6. ASSUME NEW p \in Procs, ManagerStarts(p)
      PROVE  AutoTypeOK'
  BY <1>6 DEF ManagerStarts, Starts
<1>7. ASSUME NEW p \in Procs, PidReused(p)
      PROVE  AutoTypeOK'
  BY <1>7 DEF PidReused, May
<1>8. ASSUME NEW p \in Procs, OtherEnds(p)
      PROVE  AutoTypeOK'
  BY <1>8 DEF OtherEnds
<1>9. ASSUME NEW p \in Procs, LosesReader(p)
      PROVE  AutoTypeOK'
  BY <1>9 DEF LosesReader
<1> QED
  BY <1>1, <1>2, <1>3, <1>4, <1>5, <1>6, <1>7, <1>8, <1>9 DEF Background, Process, Others

LEMMA StepTypes ==
    ASSUME AutoTypeOK, [AutoNext]_autoVars
    PROVE  AutoTypeOK'
<1>1. CASE UNCHANGED autoVars
  BY <1>1 DEF AutoTypeOK, autoVars
<1>2. CASE CallerStep
  <2>1. causes' \subseteq FaultsOnce \cup {"slow"}
    BY <1>2 DEF CallerStep, May, AutoTypeOK
  <2> QED
    BY <1>2, <2>1 DEF CallerStep, AutoTypeOK
<1> QED
  BY <1>1, <1>2, CommandTypes, BackgroundTypes DEF AutoNext

-----------------------------------------------------------------------------
(* While nothing of Causes has happened *)

LEMMA CausesStay ==
    ASSUME [AutoNext]_autoVars
    PROVE  causes \subseteq causes'
<1>1. ASSUME NEW c \in Commands, Call(c) \/ Ensures(c) \/ Finish(c) \/ Die(c)
      PROVE  causes \subseteq causes'
  BY <1>1 DEF Call, Ensures, Check, AskManager, LookAgain, Mkdir, Stat, RemoveStale,
     MkdirAgain, Recheck, Spawn, Unlock, Finish, Die, StartFails, May
<1>2. ASSUME Background
      PROVE  causes \subseteq causes'
  BY <1>2 DEF Background, Process, Others, Age, LoadFails, WritesPid, Ends, Exits,
     Killed, LosesReader, BrokenPipe, UserStarts, ManagerStarts, PidReused, OtherEnds, May
<1>3. CASE CallerStep
  BY <1>3 DEF CallerStep, May
<1> QED
  BY <1>1, <1>2, <1>3 DEF AutoNext, autoVars

\* Nothing serves where the PID file names no live process: a running listener
\* would be named, a starting one awaited.
LEMMA NothingServes ==
    ASSUME AutoTypeOK, Quiet, ~managed, ~IsListenerAlive,
           \A c \in Commands : pc[c] # "poll"
    PROVE  Serving = {}
BY NoneIsNoOther
   DEF AutoTypeOK, Quiet, IsListenerAlive, Serving, RunningNamed, StartingAwaited

\* A step of a command that starts nothing and takes no lock.
LEMMA QuietCommand ==
    ASSUME AutoTypeOK, Quiet, Undisturbed', NEW c \in Commands,
           Call(c) \/ Check(c) \/ LookAgain(c) \/ Stat(c) \/ RemoveStale(c)
           \/ MkdirAgain(c) \/ Unlock(c) \/ Recheck(c)
    PROVE  Quiet'
<1> USE NoneIsNoOther DEF AutoTypeOK, Locked, Steps, Goto, hostVars, Quiet
<1>1. ASSUME UNCHANGED <<managed, unit, pidFile, proc>>
      PROVE  /\ OneServes' /\ RunningNamed' /\ OnlyRunningNamed' /\ UnitServes'
             /\ Serving' = Serving
  BY <1>1 DEF OneServes, RunningNamed, OnlyRunningNamed, UnitServes, Serving
<1>2. CASE Call(c)
  <2>1. LockKept' /\ ManagedOrNot'
    BY <1>2 DEF Call, LockKept, ManagedOrNot
  <2>2. StartingAwaited' /\ SpawnAlone'
    BY <1>2, <1>1 DEF Call, StartingAwaited, SpawnAlone
  <2> QED
    BY <1>1, <1>2, <2>1, <2>2 DEF Call
<1>3. CASE Check(c)
  <2>1. LockKept' /\ ManagedOrNot'
    BY <1>3 DEF Check, LockKept, ManagedOrNot
  <2>2. StartingAwaited' /\ SpawnAlone'
    BY <1>3, <1>1 DEF Check, StartingAwaited, SpawnAlone
  <2> QED
    BY <1>1, <1>3, <2>1, <2>2 DEF Check
<1>4. CASE Stat(c)
  <2>1. LockKept' /\ ManagedOrNot'
    BY <1>4 DEF Stat, LockKept, ManagedOrNot
  <2>2. StartingAwaited' /\ SpawnAlone'
    BY <1>4, <1>1 DEF Stat, StartingAwaited, SpawnAlone
  <2> QED
    BY <1>1, <1>4, <2>1, <2>2 DEF Stat
<1>5. CASE RemoveStale(c) \/ MkdirAgain(c)
  BY <1>5 DEF RemoveStale, MkdirAgain, LockKept
<1>6. CASE Unlock(c)
  <2>1. LockKept' /\ ManagedOrNot'
    BY <1>6 DEF Unlock, RemovesLock, LockKept, ManagedOrNot
  <2>2. StartingAwaited' /\ SpawnAlone'
    BY <1>6, <1>1 DEF Unlock, StartingAwaited, SpawnAlone
  <2> QED
    BY <1>1, <1>6, <2>1, <2>2 DEF Unlock
<1>7. CASE Recheck(c)
  <2>1. LockKept' /\ ManagedOrNot'
    BY <1>7 DEF Recheck, LockKept, ManagedOrNot
  <2>2. ~managed /\ \A d \in Commands : pc[d] # "poll"
    BY <1>7 DEF Recheck, LockKept, ManagedOrNot
  <2>3. ~IsListenerAlive => Serving = {}
    BY <2>2, NothingServes
  <2>4. StartingAwaited' /\ SpawnAlone'
    BY <1>7, <1>1, <2>3 DEF Recheck, StartingAwaited, SpawnAlone
  <2> QED
    BY <1>1, <1>7, <2>1, <2>4 DEF Recheck
<1>8. CASE LookAgain(c)
  <2>1. LockKept' /\ ManagedOrNot'
    BY <1>8 DEF LookAgain, LockKept, ManagedOrNot
  <2>2. SpawnAlone'
    BY <1>8, <1>1 DEF LookAgain, SpawnAlone
  <2>3. ASSUME pc[c] = "poll", pc'[c] # "poll", NEW p \in Procs, proc[p] = "starting"
        PROVE  FALSE
    <3>1. IsListenerAlive
      BY <1>8, <2>3 DEF LookAgain, Undisturbed, Causes
    <3>2. pidFile \in Procs /\ proc[pidFile] = "running"
      BY <3>1 DEF IsListenerAlive, OnlyRunningNamed
    <3> QED
      BY <2>3, <3>2 DEF OneServes, Serving
  <2>4. StartingAwaited'
    BY <1>8, <2>3 DEF LookAgain, StartingAwaited
  <2> QED
    BY <1>1, <1>8, <2>1, <2>2, <2>4 DEF LookAgain
<1> QED
  BY <1>2, <1>3, <1>4, <1>5, <1>6, <1>7, <1>8

LEMMA QuietTakesLock ==
    ASSUME AutoTypeOK, Quiet, NEW c \in Commands, Mkdir(c)
    PROVE  Quiet'
<1> USE NoneIsNoOther DEF AutoTypeOK, Locked, Steps, Goto, hostVars, Quiet
<1>1. /\ OneServes' /\ RunningNamed' /\ OnlyRunningNamed' /\ UnitServes'
      /\ Serving' = Serving
  BY DEF Mkdir, OneServes, RunningNamed, OnlyRunningNamed, UnitServes, Serving
<1>2. LockKept' /\ ManagedOrNot'
  BY DEF Mkdir, TakesLock, LockKept, ManagedOrNot
<1>3. StartingAwaited' /\ SpawnAlone'
  BY <1>1 DEF Mkdir, TakesLock, StartingAwaited, SpawnAlone
<1> QED
  BY <1>1, <1>2, <1>3

LEMMA QuietAsksManager ==
    ASSUME AutoTypeOK, Quiet, NEW c \in Commands, AskManager(c)
    PROVE  Quiet'
<1> USE NoneIsNoOther DEF AutoTypeOK, Locked, Steps, Goto, Quiet
<1>1. managed
  BY DEF AskManager, ManagedOrNot
<1>2. LockKept' /\ ManagedOrNot' /\ StartingAwaited'
  BY <1>1 DEF AskManager, LockKept, ManagedOrNot, StartingAwaited
<1>3. SpawnAlone'
  BY <1>1, <1>2 DEF AskManager, SpawnAlone, ManagedOrNot
<1>4. CASE UNCHANGED <<unit, proc, pipe>>
  <2>1. OneServes' /\ RunningNamed' /\ OnlyRunningNamed' /\ UnitServes'
    BY <1>4 DEF AskManager, OneServes, RunningNamed, OnlyRunningNamed, UnitServes, Serving
  <2> QED
    BY <1>2, <1>3, <2>1
<1>5. ASSUME unit = None, NEW p \in Procs, Starts(p, None), unit' = p, UNCHANGED pidFile
      PROVE  Quiet'
  <2>1. Serving = {}
    BY <1>1, <1>5 DEF UnitServes, Serving
  <2>2. Serving' = {p} /\ OneServes'
    BY <1>5, <2>1 DEF Starts, Serving, OneServes
  <2>3. RunningNamed' /\ OnlyRunningNamed' /\ UnitServes'
    BY <1>5, <2>2 DEF Starts, RunningNamed, OnlyRunningNamed, UnitServes
  <2> QED
    BY <1>2, <1>3, <2>2, <2>3
<1> QED
  BY <1>4, <1>5 DEF AskManager

LEMMA QuietSpawns ==
    ASSUME AutoTypeOK, Quiet, NEW c \in Commands, Spawn(c)
    PROVE  Quiet'
<1> USE NoneIsNoOther DEF AutoTypeOK, Locked, Steps, Goto, Quiet
<1>1. ~managed /\ Serving = {}
  BY DEF Spawn, ManagedOrNot, SpawnAlone
<1>2. LockKept' /\ ManagedOrNot' /\ UnitServes'
  BY <1>1 DEF Spawn, LockKept, ManagedOrNot, UnitServes
<1>3. \A d \in Commands : pc'[d] # "spawn"
  BY DEF Spawn, LockKept
<1>4. CASE UNCHANGED <<proc, pipe>>
  <2>1. OneServes' /\ RunningNamed' /\ OnlyRunningNamed' /\ StartingAwaited'
    BY <1>1, <1>4 DEF Spawn, OneServes, RunningNamed, OnlyRunningNamed, Serving,
       StartingAwaited
  <2> QED
    BY <1>2, <1>3, <2>1 DEF SpawnAlone
<1>5. ASSUME NEW p \in Procs, Starts(p, c), Goto(c, "poll"), UNCHANGED pidFile
      PROVE  Quiet'
  <2>1. Serving' = {p} /\ OneServes'
    BY <1>1, <1>5 DEF Starts, Serving, OneServes
  <2>2. RunningNamed' /\ OnlyRunningNamed'
    BY <1>5 DEF Starts, RunningNamed, OnlyRunningNamed
  <2>3. StartingAwaited'
    BY <1>5 DEF StartingAwaited
  <2> QED
    BY <1>2, <1>3, <2>1, <2>2, <2>3 DEF SpawnAlone
<1> QED
  BY <1>4, <1>5 DEF Spawn

LEMMA QuietFinishes ==
    ASSUME AutoTypeOK, Quiet, NEW c \in Commands, Finish(c)
    PROVE  Quiet'
<1> USE NoneIsNoOther DEF AutoTypeOK, Locked, Steps, Goto, Quiet, Finish, Gone
<1>1. /\ OneServes' /\ RunningNamed' /\ OnlyRunningNamed' /\ UnitServes'
      /\ Serving' = Serving
  BY DEF OneServes, RunningNamed, OnlyRunningNamed, UnitServes, Serving
<1>2. LockKept' /\ ManagedOrNot'
  BY DEF LockKept, ManagedOrNot
<1>3. StartingAwaited' /\ SpawnAlone'
  BY <1>1 DEF StartingAwaited, SpawnAlone
<1> QED
  BY <1>1, <1>2, <1>3

\* The steps of the listener, of the manager and of time.
LEMMA QuietBackground ==
    ASSUME AutoTypeOK, Quiet, Background, Undisturbed'
    PROVE  Quiet'
<1> USE NoneIsNoOther DEF AutoTypeOK, Quiet, processVars
<1>1. CASE Age
  BY <1>1 DEF Age, LockKept
<1>2. ASSUME UNCHANGED processVars
      PROVE  LockKept' /\ ManagedOrNot'
  BY <1>2 DEF LockKept, ManagedOrNot
<1>3. ASSUME NEW p \in Procs, LoadFails(p) \/ Exits(p) \/ Killed(p) \/ BrokenPipe(p)
      PROVE  Quiet'
  <2>1. /\ UNCHANGED <<processVars, pidFile>>
        /\ proc' = [proc EXCEPT ![p] = "free"]
        /\ unit' = IF unit = p THEN None ELSE unit
    BY <1>3 DEF LoadFails, Exits, Killed, BrokenPipe, Freed
  <2>2. Serving' \subseteq Serving /\ p \notin Serving'
    BY <2>1 DEF Serving
  <2>3. OneServes' /\ RunningNamed' /\ OnlyRunningNamed'
    BY <2>1, <2>2 DEF OneServes, RunningNamed, OnlyRunningNamed
  <2>4. StartingAwaited' /\ SpawnAlone' /\ UnitServes'
    BY <2>1, <2>2 DEF StartingAwaited, SpawnAlone, UnitServes
  <2> QED
    BY <1>2, <2>1, <2>3, <2>4
<1>4. ASSUME NEW p \in Procs, WritesPid(p)
      PROVE  Quiet'
  <2>1. /\ pidFile' = p /\ UNCHANGED <<processVars, unit>>
        /\ proc[p] = "starting" /\ proc' = [proc EXCEPT ![p] = "running"]
    BY <1>4 DEF WritesPid, May, Undisturbed, Causes
  <2>2. Serving' = Serving
    BY <2>1 DEF Serving
  <2>3. RunningNamed'
    BY <2>1 DEF RunningNamed, OneServes, Serving
  <2>4. OneServes' /\ OnlyRunningNamed' /\ StartingAwaited' /\ SpawnAlone' /\ UnitServes'
    BY <2>1, <2>2 DEF OneServes, OnlyRunningNamed, StartingAwaited, SpawnAlone, UnitServes
  <2> QED
    BY <1>2, <2>1, <2>3, <2>4
<1>5. ASSUME NEW p \in Procs, Ends(p)
      PROVE  Quiet'
  <2>1. Serving' = Serving \ {p} /\ UNCHANGED <<processVars, unit>>
    BY <1>5 DEF Ends, Serving
  <2>2. RunningNamed'
    BY <1>5 DEF Ends, RunningNamed, OneServes, Serving
  <2>3. OneServes' /\ OnlyRunningNamed' /\ SpawnAlone' /\ UnitServes'
    BY <1>5, <2>1 DEF Ends, OneServes, OnlyRunningNamed, SpawnAlone, UnitServes
  <2>4. StartingAwaited'
    BY <1>5, <2>1 DEF Ends, StartingAwaited
  <2> QED
    BY <1>2, <2>1, <2>2, <2>3, <2>4
<1>6. ASSUME NEW p \in Procs, UserStarts(p) \/ PidReused(p)
      PROVE  FALSE
  BY <1>6 DEF UserStarts, PidReused, May, Undisturbed, Causes
<1>7. ASSUME NEW p \in Procs, ManagerStarts(p)
      PROVE  Quiet'
  <2>1. Serving = {}
    BY <1>7 DEF ManagerStarts, UnitServes, Serving
  <2>2. Serving' = {p} /\ OneServes' /\ UNCHANGED processVars
    BY <1>7, <2>1 DEF ManagerStarts, Starts, Serving, OneServes
  <2>3. RunningNamed' /\ OnlyRunningNamed' /\ UnitServes'
    BY <1>7, <2>2 DEF ManagerStarts, Starts, RunningNamed, OnlyRunningNamed, UnitServes
  <2>4. StartingAwaited' /\ SpawnAlone'
    BY <1>7 DEF ManagerStarts, StartingAwaited, SpawnAlone, ManagedOrNot, Locked
  <2> QED
    BY <1>2, <2>2, <2>3, <2>4
<1>8. ASSUME NEW p \in Procs, OtherEnds(p)
      PROVE  Quiet'
  <2>1. Serving' = Serving /\ UNCHANGED <<processVars, unit, pidFile>>
    BY <1>8 DEF OtherEnds, Serving
  <2>2. OneServes' /\ RunningNamed' /\ OnlyRunningNamed'
    BY <1>8, <2>1 DEF OtherEnds, OneServes, RunningNamed, OnlyRunningNamed
  <2>3. StartingAwaited' /\ SpawnAlone' /\ UnitServes'
    BY <1>8, <2>1 DEF OtherEnds, StartingAwaited, SpawnAlone, UnitServes
  <2> QED
    BY <1>2, <2>1, <2>2, <2>3
<1>9. ASSUME NEW p \in Procs, LosesReader(p)
      PROVE  Quiet'
  <2>1. UNCHANGED <<processVars, unit, pidFile, proc>>
    BY <1>9 DEF LosesReader
  <2>2. OneServes' /\ RunningNamed' /\ OnlyRunningNamed' /\ Serving' = Serving
    BY <2>1 DEF OneServes, RunningNamed, OnlyRunningNamed, Serving
  <2>3. StartingAwaited'
    BY <1>9, <2>1 DEF LosesReader, StartingAwaited
  <2>4. SpawnAlone' /\ UnitServes'
    BY <2>1, <2>2 DEF SpawnAlone, UnitServes
  <2> QED
    BY <1>2, <2>1, <2>2, <2>3, <2>4
<1> QED
  BY <1>1, <1>3, <1>4, <1>5, <1>6, <1>7, <1>8, <1>9 DEF Background, Process, Others

LEMMA QuietStep ==
    ASSUME AutoTypeOK, Quiet, [AutoNext]_autoVars, Undisturbed'
    PROVE  Quiet'
<1>1. ASSUME UNCHANGED <<managed, unit, pidFile, proc, pipe, lock, old, pc, polls>>
      PROVE  Quiet'
  BY <1>1 DEF Quiet, LockKept, ManagedOrNot, OneServes, RunningNamed, OnlyRunningNamed,
     StartingAwaited, SpawnAlone, UnitServes, Serving
<1>2. CASE UNCHANGED autoVars \/ CallerStep
  BY <1>1, <1>2 DEF autoVars, CallerStep
<1>3. ASSUME NEW c \in Commands, Die(c)
      PROVE  FALSE
  BY <1>3 DEF Die, May, Undisturbed, Causes
<1>4. ASSUME NEW c \in Commands, Call(c) \/ Ensures(c) \/ Finish(c)
      PROVE  Quiet'
  BY <1>4, QuietCommand, QuietTakesLock, QuietAsksManager, QuietSpawns, QuietFinishes
     DEF Ensures
<1> QED
  BY <1>2, <1>3, <1>4, QuietBackground DEF AutoNext

-----------------------------------------------------------------------------
(* The theorems *)

LEMMA InitIInv == AutoInit => IInv
<1> SUFFICES ASSUME AutoInit PROVE IInv
  OBVIOUS
<1>1. Serving = {} /\ pidFile = None
  BY DEF AutoInit, Serving
<1>2. LockKept /\ ManagedOrNot
  BY DEF AutoInit, LockKept, ManagedOrNot, Locked
<1>3. RunningNamed /\ StartingAwaited
  BY DEF AutoInit, RunningNamed, StartingAwaited
<1>4. OneServes /\ OnlyRunningNamed /\ SpawnAlone /\ UnitServes
  BY <1>1 DEF OneServes, OnlyRunningNamed, SpawnAlone, UnitServes
<1> QED
  BY <1>2, <1>3, <1>4, InitTypes DEF IInv, Quiet

LEMMA StepIInv ==
    ASSUME IInv, [AutoNext]_autoVars
    PROVE  IInv'
<1>1. Undisturbed' => Undisturbed
  BY CausesStay DEF Undisturbed
<1> QED
  BY <1>1, StepTypes, QuietStep DEF IInv

LEMMA AutoInvariant == AutoSpec => []IInv
<1> QED
  BY InitIInv, StepIInv, PTL DEF AutoSpec

\* Whatever calls it, the start of the listener keeps its types.
THEOREM AutoTypes == AutoSpec => []AutoTypeOK
<1>1. IInv => AutoTypeOK
  BY DEF IInv
<1> QED
  BY <1>1, AutoInvariant, PTL

\* A step of logins and pulls is one of Autostart, or leaves the lock, the PID file
\* and the processes alone.
LEMMA StepImplements ==
    ASSUME TypeOK, [Next]_vars
    PROVE  [AutoNext]_autoVars
<1>1. ASSUME NEW c \in Pulls, PullSteps(c)
      PROVE  AutoNext
  BY <1>1 DEF Pulls, PullSteps, AutoNext
<1>2. ASSUME NEW l \in Logins, Ensures(l) \/ Report(l) \/ EnsureAfterSave(l)
      PROVE  AutoNext
  BY <1>2, LoginsAssumption DEF Report, EnsureAfterSave, AutoNext
<1>3. ASSUME NEW l \in Logins,
             GetAuth(l) \/ Server(l) \/ Pending(l) \/ Refused(l) \/ Authorised(l)
      PROVE  UNCHANGED autoVars
  BY <1>3 DEF GetAuth, Server, UserAuthorises, CodeExpires, Pending, Refused, Authorised
<1>4. ASSUME NEW fault \in {"answer", "disk", "died"}, May(fault), UNCHANGED autoVarsButCauses
      PROVE  AutoNext
  BY <1>4 DEF autoVarsButCauses, hostVars, CallerStep, AutoNext, TypeOK, AutoTypeOK
<1>5. ASSUME NEW l \in Logins, AskFails(l) \/ SaveFails(l) \/ LoginDies(l)
      PROVE  AutoNext
  BY <1>4, <1>5, LoginsAssumption DEF AskFails, SaveFails, LoginDies, AutoNext
<1>6. ASSUME NEW value \in Agents \cup {None, "torn"}, SetCreds(value)
      PROVE  AutoNext
  BY <1>6 DEF SetCreds, CallerStep, AutoNext
<1>7. ASSUME NEW l \in Logins, Truncate(l) \/ Fill(l)
      PROVE  AutoNext
  <2>1. agent[l] \in Agents \cup {None}
    BY DEF TypeOK
  <2> QED
    BY <1>6, <1>7, <2>1 DEF Truncate, Fill
<1>8. ASSUME Background
      PROVE  AutoNext
  BY <1>8 DEF AutoNext
<1>9. CASE UNCHANGED vars
  BY <1>9 DEF vars
<1> QED
  BY <1>1, <1>2, <1>3, <1>5, <1>7, <1>8, <1>9 DEF Next, Asks, Saves

LEMMA OverTypes ==
    ASSUME TypeOK, NEW l \in Logins, Over(l)
    PROVE  /\ code' \in [Logins -> Agents \cup {"none", "issued"}]
           /\ login' \in [Logins -> LoginSteps] /\ poll' \in [Logins -> BOOLEAN]
           /\ tries' \in [Logins -> 0 .. MaxTries - 1]
           /\ agent' \in [Logins -> Agents \cup {None}]
<1>1. 0 \in 0 .. MaxTries - 1
  BY TriesAssumption
<1> QED
  BY <1>1 DEF Over, AsksNoMore, Now, TypeOK, LoginSteps

LEMMA StepLoginTypes ==
    ASSUME TypeOK, [Next]_vars
    PROVE  TypeOK'
<1>1. AutoTypeOK'
  BY StepImplements, StepTypes DEF TypeOK
<1>2. ASSUME UNCHANGED loginVars
      PROVE  TypeOK'
  BY <1>1, <1>2 DEF TypeOK, loginVars
<1>3. ASSUME NEW l \in Logins, Over(l)
      PROVE  TypeOK'
  BY <1>1, <1>3, OverTypes DEF TypeOK
<1>4. ASSUME NEW l \in Logins, GetAuth(l) \/ Server(l)
      PROVE  TypeOK'
  BY <1>1, <1>4 DEF GetAuth, GenAuthCode, Now, Server, UserAuthorises, CodeExpires, TypeOK,
     LoginSteps
<1>5. ASSUME NEW l \in Logins, AskAgain(l)
      PROVE  TypeOK'
  <2>1. CASE Over(l)
    BY <1>3, <2>1
  <2>2. CASE ~Over(l)
    <3>1. tries[l] \in 0 .. MaxTries - 1
      BY DEF TypeOK
    <3>2. tries[l] + 1 \in 0 .. MaxTries - 1
      BY <1>5, <2>2, <3>1, TriesAssumption DEF AskAgain
    <3>3. tries' \in [Logins -> 0 .. MaxTries - 1] /\ UNCHANGED <<code, login, poll, agent>>
      BY <1>5, <2>2, <3>2 DEF AskAgain, TypeOK
    <3> QED
      BY <1>1, <3>3 DEF TypeOK
  <2> QED
    BY <2>1, <2>2
<1>6. ASSUME NEW l \in Logins, Authorised(l)
      PROVE  TypeOK'
  <2>1. 0 \in 0 .. MaxTries - 1
    BY TriesAssumption
  <2> QED
    BY <1>1, <1>6, <2>1 DEF Authorised, AsksNoMore, Now, TypeOK, LoginSteps
<1>7. ASSUME NEW l \in Logins, Truncate(l) \/ Fill(l) \/ EnsureAfterSave(l)
      PROVE  TypeOK'
  BY <1>1, <1>7 DEF Truncate, Fill, EnsureAfterSave, Now, TypeOK, LoginSteps
<1> QED
  BY <1>2, <1>3, <1>4, <1>5, <1>6, <1>7
     DEF Next, vars, Asks, Saves, AskFails, Pending, Refused, SaveFails, Report, LoginDies

LEMMA InitLoginTypes == Init => TypeOK
<1> SUFFICES ASSUME Init PROVE TypeOK
  OBVIOUS
<1>1. 0 \in 0 .. MaxTries - 1
  BY TriesAssumption
<1>2. AutoTypeOK
  BY InitTypes DEF Init
<1> QED
  BY <1>1, <1>2 DEF Init, TypeOK, LoginSteps

\* The types of logins and pulls together.
THEOREM LoginTypes == Spec => []TypeOK
BY InitLoginTypes, StepLoginTypes, PTL DEF Spec

\* Logins and pulls implement the open specification of the start.
THEOREM LoginImplements == Spec => ImplementsAutostart
<1>1. Init => AutoInit
  BY DEF Init
<1>2. TypeOK /\ [Next]_vars => [AutoNext]_autoVars
  BY StepImplements
<1> QED
  BY <1>1, <1>2, LoginTypes, PTL DEF Spec, ImplementsAutostart, AutoSpec

LEMMA LoginInvariant == Spec => []IInv
BY LoginImplements, AutoInvariant, PTL DEF ImplementsAutostart

\* However many commands race, two listeners need a cause.
THEOREM TwoListenersTheorem == Spec => []TwoListenersNeedACause
<1>1. IInv => TwoListenersNeedACause
  BY DEF IInv, Quiet, OneServes, TwoListenersNeedACause
<1> QED
  BY <1>1, LoginInvariant, PTL

\* And without one the listener that runs is named by the PID file.
THEOREM RunningIsFoundTheorem == Spec => []RunningIsFound
<1>1. IInv => RunningIsFound
  BY DEF IInv, Quiet, RunningNamed, RunningIsFound
<1> QED
  BY <1>1, LoginInvariant, PTL

=============================================================================
