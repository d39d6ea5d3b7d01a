# A verification project for a2hmarket-cli

`a2hmarket-cli` is the command line client of an agent-to-agent market. Short
commands (`send`, `inbox ack`, `get-auth`, `update`, `order ...`) run and exit; one
long-running process, `listener run`, keeps an MQTT connection, stores what arrives in
a SQLite file and empties three outbox tables on a ticker. Everything that is hard in
the program happens where these processes meet each other and the world: in the SQLite
file, the PID file, the lock, the credentials and the binary that several of them write,
at the MQTT broker, which gives a client id to one connection only, at the control
plane, which leases the role of leader to one machine, and at the OpenClaw gateway,
which may take a message and not say so.

This directory holds TLA+ models of those parts, the TLC configurations that check
them on small instances, and theorems about them for every size, checked by TLAPS.

```
tlc -workers 2 -config media_settles.cfg MCMediaOutbox   # one run
tlapm MediaOutboxProofs.tla                              # one module's proofs
```

## 1. Inventory

### The processes and what they share

| process | reads and writes |
|---|---|
| `listener run` (one per machine, but nothing enforces it) | message_event, push_outbox, a2a_outbox, media_outbox, peer_session_route, PID file, MQTT, lease, OpenClaw gateway |
| `inbox pull / ack / check ...` | message_event, consumer_ack, media_outbox, peer_session_route; a pull starts a listener |
| `gen-auth-code`, `get-auth` | credentials.json; starts a listener |
| `update`, `update-skill` | the binary, the files of the skill |
| `send`, `sync` | MQTT, once |
| `listener takeover`, `listener reload`, `listener role` | lease; a signal to the listener |
| service manager (launchd, systemd) | starts the listener again |

The listener itself is a select loop (`listener.go` 354-479: signal, reload,
shutdown, heartbeat, follower poll, flush and update tickers) beside the MQTT
client's goroutines (message handler, reconnect loop). The handlers of the loop do
not overlap; they interleave with the goroutines and with other processes.

### The parts

**Push path** (`a2a/router.go`, `store/push_outbox.go`, `dispatcher/push_outbox.go`,
`store/ack.go`). State: an event's state NEW / PUSHED / CONSUMED, its push row's
status PENDING / RETRY / SENT / ACKED, the acks of the consumers, and two copies of
push_enabled in the listener. Operations: intake (one transaction), a flush in two
phases (SENT becomes ACKED; due rows are marked SENT, given to the OpenClaw session,
and marked again), ack. Hard: the two marks are two statements each outside a
transaction; a crash between a mark and the send; acks between the flush's read
and its write; a second listener. Correct means: a message is pushed at most once,
an ACKED row stays so, every row settles, an acked event ends CONSUMED.

**Outbound queue** (`store/a2a_outbox.go`, `dispatcher/a2a_outbox.go`, `backoff.go`).
State: status PENDING / RETRY / SENT, attempt counter, retry time. Operations:
enqueue, a flush that publishes and marks. Hard: a publish waits 15 s and the flush's
context lives 4 s; rows out of retries are passed over but stay in the list; a
counter written from an older read. Correct means: a SENT row was published and is not
published again; every row gets its retries.

**Notification queue** (`inbox.go` ack, `store/media_outbox.go`,
`dispatcher/media_outbox.go`). State: as above, with FAILED as a fourth status.
Operations: ack and enqueue, two transactions of one command; a flush that tries up
to two ways of delivery and marks. Hard: several consumers ask for one event; a way
that fails after it delivered; marks that fail. Correct means: SENT was delivered,
FAILED used its retries, both are final, and every row gets there.

**Listener and lease** (`listener.go`, `lease/client.go`, `mqtt/transport.go`,
restart policies of `install.sh`). State: the lease and its epoch; each process's
role and epoch; its connection; the client ids that are subscribed. Operations:
acquire, connect, subscribe, heartbeat, follower poll, takeover, reconnect with
guard, exit and restart. Hard: leader and standalone share one client id, so that a
connect displaces the other; a guard is asked before a connect that happens later;
the leader that leaves unsubscribes the session it shares with the one that comes.
Correct means: who holds the lease ends up connected and subscribed, who lost it
leaves, and nobody displaces another for ever.

**Peer sessions** (`store/peer_session.go`). State: one route per peer, with the time
of the message it was taken from. Operations: BindPeerSession (read, compare
updated_at, upsert), called by pull, by the first ack and by the SENT mark;
FindA2aReplyRoute, which at this commit only tests call: routes are written and not yet
read. Hard: read and upsert are two statements of different processes. Correct means:
an older binding never replaces a newer one.

**Inbox** (`mqtt/transport.go` subscribe, `a2a/router.go`, `a2a/service.go`,
`store/event.go`, `store/ack.go`, `inbox.go`). State: the broker's queue for the
persistent session; events with a seq and UNIQUE message_id, (peer, hash) and
a2a_message_id; acks; the cursors the agents keep. Operations: delivery and answer,
refusal, insert with deduplication, pull after a cursor, bind, print, ack; peek, check
and history only read. Hard: the broker repeats what was not answered, also to the next
process; inserts go on while a pull runs; a pull may die between its query, its
bindings and its printout; a failed insert is answered like any other. Correct means:
what was answered is stored or was turned down, stored once, no cursor passes over an
event, none is handed out twice, and in the end every message is seen.

**OpenClaw gateway** (`openclaw/gateway.go`, `openclaw/session.go`; called by the push
dispatcher, deliverMedia and checkAndNotifyUpdate). State: one websocket connection per
call, the id of the request that is awaited, one read deadline; OpenClaw's list of
sessions. Operations: handshake (challenge, signed connect), one request, the frames
read until its answer, the CLI when any of it fails, the choice of a session from the
list. Hard: events and answers of others come in between; the answer may be late, and the
message then goes out by the next way; the choice has three fallbacks. Correct means:
what reports success was taken, what went out twice was once of unknown outcome, the
chosen session is the preferred one that can be addressed, every call ends unless the CLI
hangs.

**Background start** (`listener_autostart.go`, `inbox.go` isListenerAlive, `listener.go`
listenerRunCmd, `install.sh`). State: PID file, lock directory with its age, service
file, the processes and who reads their output. Operations: the command's eleven system
calls from the first look at the PID file to the unlock; the listener's load, its PID
file, its end or death. Hard: the age of a lock is read before the lock is removed; the
PID file is overwritten by a second listener and removed by whoever ends first; a PID is
given to another process; commands and listeners die at any point. Correct means: two
listeners of one directory have a cause that is known, a live one is found, a dead one is
replaced.

**Login** (`auth.go`). State: the code at the server, the question asked up to 30 times,
credentials.json. Operations: gen-auth-code, get-auth with and without `--poll`, the
write of the file (truncated, then filled), the start of the listener. Hard: all of it
interleaves with pulls that start a listener, and with listeners that read the file.
Correct means: a login does to lock, PID file and processes only what the start of a
listener allows.

**Self-update** (`update.go`, `update_skill.go`, `listener.go` checkAndNotifyUpdate).
State: the binary and binary.new as inodes with pieces, the version compiled into each
process, the files of the skill. Operations: compare versions, fetch, unpack, copy to
binary.new, rename; unpack a skill over its files; the listener's check and its message
to the user. Hard: it may stop at any byte; all updates share one binary.new; what the
server calls latest may be behind; SKILL.md tells the version of files that may be
another's. Correct means: the path of the binary holds one whole version that never gets
older, SKILL.md tells the truth after an extraction that ended, and news arrive.

**MQTT token cache** and **backoff**: small state and a pure function, planned
(section 7). What is not modelled is listed there as well.

`PROJECT.json` lists the same parts with their sources, and the hazards line by line.

## 2. Modules

| module | what it is |
|---|---|
| `PushOnce` | the promise of the push path: shown at most once, never after it settled |
| `PushPipeline` | the push path, every statement a step |
| `PushPipelineProps`, `PushPipelineProofs`, `MCPushPipeline` | its properties and fairness; its theorems; its instances for TLC |
| `AtLeastOnce` | the promise of an outbox with retries: given while it waits, settled only after it was given |
| `A2AOutbox` (+ `Props`, `Proofs`, `MC`) | the outbound queue |
| `MediaOutbox` (+ `Props`, `Proofs`, `MC`) | the notification queue and the ack that feeds it |
| `ListenerLease` (+ `Props`, `Proofs`, `MC`) | the listeners of one agent, the control plane and the broker |
| `PeerSession` (+ `MC`) | the bindings of peers to sessions, by any processes |
| `Inbox` (+ `Props`, `Proofs`, `MC`) | from the broker to the events a pull prints; EXTENDS `PeerSession`, whose steps are its commands' bindings; its proofs hold those about the bindings |
| `SessionChoice` | how a session is picked from OpenClaw's list: pure operators |
| `Handover` | what a caller of the OpenClaw client may rely on: "ok" is taken, "error" is not, nothing is taken twice or late, but for an attempt in doubt |
| `Gateway` (+ `Props`, `Proofs`, `MC`) | pushes, notifications and announcements on their way to OpenClaw; EXTENDS `SessionChoice` |
| `Autostart` | a command that makes sure a listener runs, one system call at a time, and the listener processes |
| `Login` (+ `Props`, `Proofs`, `MC`) | get-auth beside pulls; EXTENDS `Autostart`, and is shown to implement it |
| `SelfUpdate` | `update`: versions, binary.new, the rename, by any number of processes |
| `SkillUpdate`, `UpdateProps`, `UpdateProofs`, `MCUpdate` | one installation: `update`, `update-skill`, and the listener that tells the user; EXTENDS `SelfUpdate` |

Each component's module holds constants with their assumptions, state, one action
per step of the code, and `Spec`; `Faults` names what may go wrong, and each fault
enables actions or disjuncts, so that a configuration switches faults on by name.
Definitions marked *Mutant* are wrong versions of the definition below them; each
property is checked to fail when its mutant takes that definition's place. They are no
part of `Spec`.

### How state and actions correspond to the code

*PushPipeline.* `seq`, `state`, `row`, `due`, `acks` are the columns of
message_event, push_outbox and consumer_ack for one message; `due` stands for
next_retry_at <= now. `routeOn` is `RouterConfig.PushEnabled`, `flushOn` the local
`pushEnabled` of the loop: `Reload` changes the second only; a start takes both from
credentials.json, or with the fault "flag" from `--push-enabled` (`TakesSetting`). `pc` is the place in
`FlushPushOutbox`/`dispatchDualChannel`; `batch` and `cur` are the rows read. MarkPushSent
and MarkPushAcked are two actions each (`...Row`, `...Event`), since they are two
statements without a transaction; intake and ack are one, since they are transactions.
`SendOk` and `SendFails` are SendToSession with its CLI fallback: with the fault
"unsure" the gateway may have taken what it reports as failed.

*A2AOutbox.* `Expire` is the end of the 4 s context: from then on the loop stops and
both marks fail, since they use that context. `PublishTimesOut` is the 15 s wait, after
which the context is over. `took` holds the attempt counters as they were read:
`MarkRetry` writes `took + 1`. Only tests call the enqueue at this commit, so `Enqueue`
stands for any caller.

*MediaOutbox.* `Ack` and `Enqueue` are the two transactions of one command, and
`Unnotified` its end without a row: no target, an enqueue error, or death in between.
`DeliverUnsure` is a way of deliverMedia that reports an error although it delivered:
the next way follows. The marks have a context of their own, so the flush's 10 s end
the loop (`EndFlush` under "slow") and no mark.

*ListenerLease.* `Start` is acquire with its three outcomes (leader, follower, a failed
call makes a standalone). `Displace` is the broker: one connection per client id.
`Guard`, `Reconnect`, `Resubscribe` are the three steps of reconnectLoop; between the
guard and the connect a token is fetched, so they are two actions. `Beat` and `Told` are
the two ways out for a leader that lost its lease: its own heartbeat, or the guard's
message. `Renew` is the heartbeat that is answered with yes: the leader goes on under the
epoch of the answer (`listener.go:409`), which the control plane may have raised
(`Renewal`); the guard asks the same question and drops that epoch. `Flush` and `Flushed`
are the time a flush takes in the select loop, in which neither way out is open, while
the reconnect loop goes on beside it. `HonourForce` and `Expire` leave open what the control plane does with a
forced acquire and with a lease that is not renewed.

*PeerSession.* `BindRead` is BindPeerSession up to its merge, `BindUpsert` its second
statement, `BindFails` that statement's error or the process's death. A call that ends
at "stale_binding" or for want of a peer or a session changes nothing and is no step.
`next` is the row in the caller's variables. MarkA2aOutboxSent is one more binder.

*Inbox.* `broker` is what the MQTT session owes this agent: `Answer` is the return of
the handler, after which the client acknowledges. `Refuse`, `Store` and `Duplicate` are
the three ends of HandleA2AMessage; an insert that fails ends as `Refuse`, since the
router drops the error. `Crash` leaves the broker's copy where it was, and a process
that starts again is one that stands at "idle". A message is known by its message_id:
its hash is made of the peer, the timestamp, a preview and that id, so the three UNIQUE
indexes refuse the same rows unless a second peer uses a taken id (section 6). `Pull` is
the query that finds something; what a waiting pull reads before that changes nothing.
`got` is the batch in the command's memory and `toBind` the rest of its loop over it:
`BindEvent` and `BoundEvent` are the two statements of a binding, so that other processes
act between them. `Binder` holds the consumers whose commands may name a session, `OpenClaw`
those whose pulls bind as well (`inbox.go:128`); `Given` says which options make a binding
(`inbox.go:210-234`: a key without an id is accepted of OpenClaw alone). The steps of `Inbox` that touch the
bindings are those of `PeerSession`, which is proved (`BindsAsPeerSession`).

*Gateway.* A job is one push, one media_outbox row or one announcement; `fn` is the
public function it is in (ListSessions, SendToSession, SendMediaToChannel), `method` its
request, `pc` the place in openGatewaySession and sendRPC. `Write` is one request with
an id from gwNextID; `ReadSkips` ... `ReadFails` are what the read loop does with a frame,
a deadline or a lost connection. `left` counts down to the deadline that is set once per
request. `GatewayFails` is where every error leads: to the CLI, in SendToSession by way
of a list of sessions (`session.go:220`). The CLI is run without context or timeout, so
next to its two outcomes it may never return: `CliHangs`, after which the job is "hung" and
nothing follows, and the message of a `clisend` may have been taken. `Serve`, `Refuse`, `Chatter`, `Challenge` are
the gateway, which is not under src/. It serves a request also after the client has given
up, which is why `unsure` is kept. Lists of sessions are read from `SessionLists`
(`ReadAnswer`, `CliList`); a session's key is the sequence of its parts. The loops of
`session.go` over a list are one operator, `Loop`, with the turn of each loop as its argument:
a function on the places of the list, by recursion.

`Handover` is the contract between the gateway and the outboxes. `PushPipeline` and
`MediaOutbox` take a send for one step, and what those steps assume is what the client is
shown to keep: `SendOk` that "ok" was taken, `SendFails` without the fault "unsure" that
"error" was not and will not be, and the fault "unsure" stands for an attempt in doubt.

*Autostart.* Each step of ensureListenerRunning is one system call; `Stat` reads the age
that `RemoveStale` acts on. `proc` is "free", "starting", "running", "ending" or "other":
the last is a process that is no listener and was given a stale PID. `pipe` is who reads a
listener's output: `Spawn` gives the child a pipe of the command (`os/exec` makes one,
since its writers are no files). Two things break it: `Gone`, when the command ends, and
`LosesReader`, when the listener writes after ensureListenerRunning has returned and its
deferred `logFile.Close` has run, so that the copy fails and the copying goroutine closes its
end. `BrokenPipe` is the signal of the log line after that. `causes` collects what has gone wrong, and what a
property may then be excused by; each fault happens once at most (`May`), with `MaxFaults`
in one behaviour. `CallerStep` leaves room for what a caller of it does.

*Login.* `code` is the auth code at the server; `Truncate` and `Fill` are os.WriteFile.
`AsksNoMore` forgets what the process never reads again. The steps of `Ensures` are those of
`Autostart`, so that `AutoSpec` is the abstract specification of the composition.

*SelfUpdate.* Paths lead to inodes: `Create` empties the inode binary.new leads to, if it
is there, `Copy` writes at the offset of the process, `Rename` moves the name. `Run` needs a
binary that is whole, and `ran` is its version. `Stops` is every way to give up, death
included; `ReplaceFails` removes the path. `isNewer` compares three numbers of a version,
`isMajorMinorNewer` two.

*SkillUpdate.* `OpenFile` and `CloseFile` are one file of extractSkillZip, in the order the
archive has. `News` compares with the version compiled into the running listener.
`Notify` tells of either or both, since the two requests fail separately. One
`update-skill` runs at a time here.

## 3. What the runs show

Passing runs:

| run | instance | shows |
|---|---|---|
| `push_once` | 1 listener, 2 messages, batch 2, every fault but "unsure" | `AtMostOncePush`, and `PushPipeline` implements `PushOnce` |
| `push_delivers` | 1 listener, 2 messages, batch 1, transient failures, fairness | `AckedWasPushed`; every row settles, is pushed, and an acked event ends CONSUMED |
| `a2a` | 1 listener, 2 messages (one does not decode), batch 2, 2 retries, every fault, fairness | `SentWasPublished`, `EveryRowGetsItsRetries`, and `A2AOutbox` implements `AtLeastOnce` |
| `media_settles` | 1 listener, 2 events, 2 consumers, batch 1, 2 attempts, every fault, fairness | `FailedUsedItsRetries`, `EveryRowSettles`, and `MediaOutbox` implements `AtLeastOnce` |
| `inbox_delivers` | 1 listener, 1 OpenClaw consumer, 2 messages of one peer, limit 1, every fault, fairness | `AnsweredIsStored`, `CursorSkipsNothing`, `HandedOnce`, `HandedHasRoute`, `BindingNeverAges`, `EverySeen` |
| `lease_guard` | 2 machines, epochs to 3, every fault but "heartbeat", followers | `StealsAtMostOnce`, `LostForGood` |
| `lease_serves` | 2 machines, epochs to 2, lost connections, followers, fairness | `LeaderServes`, `DisplacedLeaves`, `ContentionEnds` |
| `gateway_sends` | one job of any kind, 26 lists of sessions, every fault, fairness | `SuccessWasTaken`, `TwiceOnlyIfUnsure`, `ChoiceIsRight`, `EndsUnlessCliHangs`, and `Gateway` implements `Handover` |
| `startup` | a pull and a login, 2 processes, with and without a service manager, any one fault, fairness | `TwoListenersNeedACause`, `RunningIsFound`, `ListenerComesBack`, and `Login` implements `Autostart` |
| `update` | 1 updater, 1 skill updater, 2 versions that differ in the minor number, 2 skill packages with different files, every step may fail, fairness | `WholeUnlessTogether`, `NeverOlder`, `SkillVersionHolds`, `NewsArrive` |

Runs that TLC must find violated; each checks one sentence of the repository and is a
finding in `PROJECT.json`:

| run | the sentence | what happens |
|---|---|---|
| `sessions_race` | "If the existing binding has a newer updated_at, the update is skipped" (`store/peer_session.go:60`) | two processes both find no newer row; the older binding is written last |
| `autostart_dies` | "ensureListenerRunning starts `listener run` in background when it is not alive" (`listener_autostart.go:43`) | with no fault at all: the listener's output is a pipe of the command that started it, which nobody reads at the latest when the command has ended; the next log line kills the listener, again and again |

### Bounds, and why they are enough

Two messages (events) are the least with which order in a batch, a row behind another
and a batch that is full (`BatchSize` 1) mean something; rows do not affect each other
except through the batch. Two listeners are the least that race; a third only repeats
either's role. Two attempts have a first, a last and a counter in between. Two consumers
are the least that ask for the same notification. History counters saturate
(`MaxDelivered`, `MaxPublished`, `steals`): what the properties ask of them lies below.
In `media_settles` the counter saturates at one, enough for "was it delivered"; that
nothing is delivered again after it settled is then proved, for every `MaxDelivered`
(section 5). `MaxEpoch` bounds how often the lease changes hands; each property of the
lease is about one change of hands and what follows, and `lease_guard` allows three.
After the last epoch nothing may be enabled, hence `CHECK_DEADLOCK FALSE` there. The
`seq`/`id` counters are bounded because each message is inserted once.

`inbox_delivers` has the two messages carry timestamps in the wrong order, so that the
second one stored may be stale for the binding, and `Limit` 1, so that a batch is full
and a cursor stops between two events. One consumer is enough there: consumers share the
events and nothing else (acks and cursors are their own), except for the bindings, and
what two processes do to a binding is `sessions_race`. A second listener would add
duplicate deliveries, which one listener and the broker already produce. The theorems
about the inbox hold for any number of either.

`gateway_sends` has one job at a time and one in a behaviour, since a job opens
connections of its own and keeps nothing for the next but the counter of ids, which grows
(the theorems are about any number of jobs, one after the other).
`RpcWait` 2 lets the deadline pass before and after frames were read, `MaxWire` 1 lets one
unrelated frame wait before the answer. The lists have no session, one, and two in every
order of channel, time and id; three only where a main session stands first.

In `startup`, two commands are the least that race for the lock; with "died" or an old lock
both may be past the same check. Two processes are the least that serve twice; a third
start then fails, as starts may. `MaxWait` 1 is a listener that is late at once,
`MaxTries` 2 a first and a last question. One fault in a behaviour is enough to see that
every fault alone leads to the causes named and is recovered from; the theorems allow all
of them together, for any number of commands and processes.

In `update`, two versions are the least that differ, and releases are withdrawn as well.
With two inodes one is the binary, the other binary.new. A binary of one piece can be empty
or whole, so that every point at which it may be torn exists. Two updates at a time are left
to the theorems; section 6 says what they do to each other.

## 4. Fairness

Weak fairness: a live process takes its next step (the select loop and its tickers, and
in `ListenerLease` the end of a flush), the
service manager starts a stopped listener again, and clocks pass every backoff. For
ListenerLease `Restarts` reads the policy of `install.sh`: launchd restarts always,
systemd failures only (`Manager`). Strong fairness, where a step is tried for ever and
its failures are transient: a session is found, a publish, delivery, connect, subscribe
or mark succeeds once in a while, and a listener lives to its next tick. It is strong as
well for the two ways out of a leader without its lease, `Beat` and `Told`: a flush closes
both again and again, and `select` chooses at random among the cases that are ready. In the inbox
the agents pull, the broker gets to every message it owes, and once in a while a
listener lives long enough to answer for it and a command long enough to bind and print;
a message whose insert fails counts as dropped, so no success is assumed of inserts.
Nothing is assumed about users, peers, lost connections, takeovers or acks: they happen
or not.

For the gateway: the listener reads what is there and time passes, so that deadlines are
met. Nothing is assumed of the gateway. Of the CLI it is assumed that it returns or hangs for
good; `EndsUnlessCliHangs` has the second as one of its two ends, and section 6 says what
it does to the listener. `DisplacedLeaves` and the liveness of the queues assume that a flush
returns, and so that no CLI hangs. For the start of a listener: a command
goes on with its steps, pulls are called again and again (the agent's heartbeat), a lock
left behind grows old, a process that was started writes its PID or ends, and a listener
whose output is a broken pipe logs its next line; nobody is assumed to log in, to
authorise, or to end a process that was given a listener's PID while the PID file names
it. For updates: a listener that is down is started (by pulls or the service manager),
its check gets through to the user about each kind of news, the user runs the command he
is told to run, commands go on, and what stops them comes to an end: `<>[][~Trouble]_vars`
says it of updates that stop or cannot replace the binary, of extractions cut short and of
listeners that end. Releases, and updates nobody asked for, happen or not.

`EveryRowGetsItsRetries` needs a batch with room beside the rows out of retries
(section 6 says what happens without it). `ContentionEnds` speaks of what happens
once starts end, since every start takes the lease by force.

## 5. What is proved

Each `...Proofs` module proves its theorems from the named assumptions on the
constants (`BatchSizeAssumption`, `MaxRetriesAssumption`, ... in the component's module,
where TLC evaluates them on every run). No other assumption is made except those that
appear in the theorems themselves: *one listener* (`OneListenerOnly`, `SafeSetting`), for the
push path *no send of unknown outcome*, for bindings *one binder* (`OneBinderOnly`);
`AckedMeansPushed` assumes that no crash and no failing statement cuts a flush short
(`NothingIsCut`), and `StealsOnce` that heartbeats are answered.

| theorem | says |
|---|---|
| `PushPipelineProofs!TypeCorrect` | types |
| `PushPipelineProofs!PushedAtMostOnce`, `AckedStaysAcked`, `Implementation` | one listener, through crashes, stops, failing statements and late ticks |
| `PushPipelineProofs!AckedMeansPushed` | one listener that no crash and no failing statement cuts short: an ACKED row was given to the session |
| `A2AOutboxProofs!TypeCorrect`, `SentOnlyIfPublished` | any number of listeners, any faults |
| `A2AOutboxProofs!Implementation` | one listener, any faults: implements `AtLeastOnce` |
| `MediaOutboxProofs!TypeCorrect`, `SentOnlyIfDelivered`, `FailedOnlyAfterRetries` | any number of listeners, any faults |
| `MediaOutboxProofs!Implementation` | one listener, any faults, any number of consumers: implements `AtLeastOnce` |
| `ListenerLeaseProofs!TypeCorrect`, `StealsOnce` | any number of machines and epochs |
| `ListenerLeaseProofs!LossIsFinal` | any machines, any faults, failing heartbeats included: a leader that lost its lease is without it until it has left |
| `InboxProofs!SessionTypeCorrect`; `BindingsNeverAge` | any number of binders; one binder |
| `InboxProofs!TypeCorrect`, `NothingIsLost`, `NothingIsSkipped`, `NothingTwice` | any messages, listeners, consumers, limits and faults |
| `InboxProofs!BindsAsPeerSession` | every behaviour of the inbox is one of `PeerSession`, as far as the bindings go |
| `InboxProofs!InboxBindingsNeverAge`, `HandedMessagesHaveRoutes` | one consumer that binds, any faults |
| `GatewayProofs!TypeCorrect`, `SuccessTheorem`, `ErrorTheorem` | any jobs one after the other, lists, waits, frames and faults: "ok" was taken; "error" was not, unless the listener was unsure |
| `GatewayProofs!TwiceTheorem`, `LateTheorem`, `HandoverTheorem` | likewise: nothing is taken twice, or after the report, unless the listener was unsure; the client implements `Handover` |
| `GatewayProofs!ChoiceTheorem` | the chosen session is the preferred one, in lists of any length |
| `LoginProofs!AutoTypes`, `LoginTypes`, `LoginImplements` | any number of pulls, logins and processes, any faults: types; `Login` implements `Autostart` |
| `LoginProofs!TwoListenersTheorem`, `RunningIsFoundTheorem` | likewise: two listeners have a named cause; one that runs is named by the PID file |
| `UpdateProofs!ImplementsUpdate`, `UpdateInvariant` | any number of updaters, versions, inodes and pieces: the installation updates its binary as `update` alone would |
| `UpdateProofs!NewerIsStrict` | the comparison of versions is strict |
| `UpdateProofs!WholeTheorem`, `NeverOlderTheorem` | until two updates have met: one whole version at the path of the binary, never replaced by an older one |
| `UpdateProofs!SkillVersionTheorem` | any versions and packages of files: SKILL.md tells the truth after an extraction that ended |

The inductive invariants, and why they are needed:

*Push path.* "Pushed at most once" says nothing of a row that is still PENDING. The
invariant says what the flush knows of the rows it has read: a row still to be pushed
was never given to the session, the rest of the batch is as it was read, and the row in
hand is SENT from the in-flight mark until the flush leaves it. With that, a crash
leaves either a row that was never given, or one that is SENT and will only be ACKED.
"ACKED was pushed" cannot survive that crash, nor a mark that fails after its send (section
6), so `AckedMeansPushed` assumes neither happens (`NothingIsCut`): a SENT row was then given
to the session or is in hand between its in-flight mark and the mark of the outcome
(`SentWasShown`), and phase 1 has read only rows of the first kind (`HeldWasShown`), because the
one listener is never in both phases.

*Outbound and notification queue.* "SENT was delivered" needs that a flush about to
write SENT has delivered its row (`MarkedWasDelivered`). "FAILED used its retries" needs
that no attempt is counted that was not made, in three places: in the table, in what
each flush has read, and in the count a flush is about to write (`CountsWereMade`);
that is what makes it hold for listeners that overwrite each other's counters. The
refinements need `BatchWaits`: rows held by the only listener still wait.

*Lease.* A process that lost its lease never regains it (`LostStaysLost`: epochs grow,
and only a yes gives a process a new one), so after the one reconnect its guard had let pass, the
next guard answers no. The invariant says that whoever has displaced another without
the lease has lost it and is not past a guard (`StealersAreStopped`), and that a process
that has not connected yet has displaced nobody (`StartsClean`). These need heartbeats that are
answered. That a loss is final does not (`LossIsFinal`): a leader without its lease has an
epoch between 1 and the last, keeps it in every step that leaves it a leader
(`LostKeepsEpoch`), and whoever becomes the holder meanwhile, by a takeover on the same
machine too, does so under a greater one; a process that leaves is down and without a
role (`DownHasNoRole`).

*Peer sessions.* A binding does not age in a step because the row that is about to be
written is not older than the one in the table (`NextIsNewer`): true when it was read,
and as long as nobody else writes, which is why the theorem asks for one binder.

*Inbox.* "Answered is stored" needs to know it one step before, of the message a
listener is about to answer for (`RoutedIsKept`). "A cursor passes over nothing" needs
that the batch a pull holds is an initial part of what lay behind the cursor when it was
read, and remains so (`PullIsPrefix`): what is inserted later has a greater seq than
every event of the batch, and what lay before one of them was in the batch, printed or
acked. That a batch cut by LIMIT is such a part is the lemma `FirstIsPrefix`, by
cardinalities. "Handed once" follows from the cursor: what was handed lies behind it
(`HandedIsBehind`), what is pulled ahead (`PullIsAhead`). "What was handed has a route"
needs that between the two statements of a binding the command is at the event whose
turn it is (`TargetIsInHand`, `SeqsDiffer`), that what its loop has passed has a route
(`BoundHasRoute`), and that routes do not age.

*OpenClaw gateway.* "Ok was taken" needs to know what an answer says while it is on the wire.
Requests differ by their ids and each is served once (`Distinct`); the request whose answer is
awaited is the one just written, for the job under way (`Awaited`); so a result under that id
says that the message was taken (`AnswerTells`), although events, answers to other requests
and the handshake's answer come in between. "Error was not taken" is about every way before
the last: a job enters its next way with no request left at the gateway, unless it is unsure
(`NoneLeftBehind`), and unless it is unsure nothing of it has been taken on the ways before
(`TakenWhenServed`, which excepts the image of a push). That jobs report in order
(`EndedInOrder`) keeps what is said of ended jobs from being disturbed by the next. The
refinement of `Handover` follows: each step is work on one job, that may take it, doubt it
and report it.

*Choice of the session.* A loop keeps a best session; what it has after i turns is shown by
induction on i: the best of the first i sessions, by the order of that loop, or `NoSession`
if none qualifies. `ChoiceIsRight` is then by cases over the three fallbacks of
ResolvePushSession. The library's induction theorems take an operator and are of no use to the
provers here, so the induction is made from `WFMin` over the natural numbers, with the set
of the i that satisfy the claim in the place of the operator (`NatSetInduction`,
`InductionUpTo`); `LoopExists` shows the same way that the recursive function of `Loop` is
defined.

*Start of a listener.* "Two listeners have a cause" says nothing of commands, and it is they
who start them. As long as no cause has happened, the lock is never old and whoever is
between the re-check and the unlock made it (`LockKept`); such a command starts a listener
only while nothing serves (`SpawnAlone`), because a listener that runs is named by the
PID file (`RunningNamed`) and one that is starting still has its command in the poll
(`StartingAwaited`). With a service manager nobody comes to the lock (`ManagedOrNot`), and
what serves is the unit (`UnitServes`).

*Self-update.* "The binary is whole" needs to know what is about to be renamed: one update
at a time (`Alone`) writes binary.new and nothing else (`WritesNew`), what it has copied so
far is the version it fetched (`CopiedSoFar`), which is all of it by the time of the rename
(`Ready`). "Never older" needs that what is replaced is the version the updater was
compiled from (`RunsBinary`) and that what it fetched is newer than that (`FetchedNewer`).
"SKILL.md tells the truth" needs the same of an extraction: the files of the package that are
no longer left to do have its version (`UnpackedSoFar`), and a file is written only while a
package is unpacked and nothing counts as whole (`WritesLeft`).

Only model-checked: the liveness properties (`EveryRowSettles`, `LeaderServes`, `EndsUnlessCliHangs`,
`NewsArrive`, ...), since leads-to under fairness and ENABLED are outside what the prover
handles. Every invariant, action property and refinement that a passing run checks is
stated by a theorem as well.

## 6. What the code does that no run reports

Seen while modelling. Where a model contains the behaviour, the constants that bring it
about are given; the rest lies in code that is left out.

Queues, inbox and lease:

- A crash between the in-flight mark and the send: the next flush turns the SENT row into
  ACKED (`dispatcher/push_outbox.go:49-57`) and the message was never pushed. With
  "crash" in `Faults`, `AckedWasPushed` fails; `PushOnce` allows it, its promise is
  at-most-once.
- Two listeners on one database push one message twice ("Messages are pushed once",
  `dispatcher/push_outbox.go:48`): both list the row before either marks it. And with two
  listeners and "refused" in `Faults`, `AckedWasPushed` fails: phase 1 of one turns into
  ACKED the row that the other is sending (`store/push_outbox.go:43`, and 143, "push
  confirmed consumed"); the send then fails, and the message was never pushed.
- With `BatchSize` 1 and one row that does not decode, `EveryRowGetsItsRetries` fails without
  any fault: rows out of retries stay in the list of due rows (`store/a2a_outbox.go:23`)
  and fill each batch, the good row behind them is never tried ("reliable delivery",
  `dispatcher/backoff.go:1`).
- `listener reload` reaches the flush and not the router (`listener.go:220-226` and 380),
  so push switched on takes effect on intake only after a restart; the usage text
  (`listener.go:82`) says "Hot-reload credentials (e.g. push_enabled) without restarting".
- a2a rows never become FAILED, though the list of statuses has it
  (`store/a2a_outbox.go:21`).
- reconnectLoop subscribes whatever the role (`transport.go:257`); a follower that
  reconnects then receives messages (`harness/docs/arch/invariants.md:72`: a follower stands by).
- `ForceTakeover` is always set (`listener.go:186`): a revoked listener that is restarted
  takes the lease back, although the comment at `listener.go:400-402` expects it to
  come back as a follower.
- A promoted follower exits with 0 to be restarted (`listener.go:425-428`); systemd's
  `Restart=on-failure` (`install.sh:137`) does not restart it, launchd's KeepAlive does.
- If `inbox ack` dies between its ack and its enqueue, or the enqueue fails, a repeated
  ack finds the event acked and the notification is never enqueued (`inbox.go:242-249`).
- When the agent send succeeds, a notification's media file is not sent
  (`dispatcher/media_outbox.go:101`, `docs/commands.md:325`).
- A publish that times out waits 15 s (`transport.go:17,173`), the flush's context lives
  4 s (`listener.go:440`): the RETRY mark that follows fails and its error is dropped
  (`dispatcher/a2a_outbox.go:76`), so no attempt is counted and no backoff set, although
  "Rows that fail to publish are marked RETRY with exponential backoff"
  (`dispatcher/a2a_outbox.go:33`). `PublishTimesOut` of A2AOutbox does this.
- A standalone listener has neither guard nor heartbeat (`listener.go:277`) and uses the
  leader's base client id: the two displace each other for ever, although the guard
  "Prevents ping-pong when a new leader has taken over." (`listener.go:275`). With
  "acquire" in `Faults`, `ContentionEnds` fails.
- A message whose insert fails was answered to the broker all the same
  (`a2a/router.go:92`, `a2a/service.go:41-54`) and does not come again.
- With a shared secret, a message that waited at the broker for more than five minutes,
  because no listener ran, is refused for its age (`protocol/a2a.go:125`): fault "late".
- message_id is unique over all peers (`store/schema.go:32`): a second peer's message
  with a taken id is dropped as a duplicate.
- A binding with a key and no id keeps the id of the row it replaces
  (`store/peer_session.go:86-89`), although its comment says "clear ambiguous id unless
  explicitly set": id and key of a row may belong to two sessions.
- Without `--cursor` a pull starts at 0 and prints again what was printed but not acked;
  such consumers are outside `Resumes`. A pull that finds nothing prints the cursor it
  was given.

OpenClaw:

- The CLI is run without context or timeout (`session.go:51`, `236`, `282`), and a send of a
  flush runs in the select loop; the flush's 10 s context is not handed on to it
  (`listener.go:456`). A CLI that hangs therefore stops the job, the row and with it
  heartbeats, signals and reloads for ever, although "外部调用有合理的超时设置"
  (`harness/roles/code-reviewer.md:63`: external calls have reasonable timeouts). Reconnects,
  which run beside the loop, go on. It is the second end of `EndsUnlessCliHangs`.
- Without any fault, the gateway may take a message and answer later than 30 s; the CLI
  then sends it again (`session.go:204-239`): `TwiceOnlyIfUnsure` allows just that.
- The fallback of SendToSession sends to the first session of the list
  (`session.go:220`), whatever session the caller had chosen.
- A push with an image repeats the direct send of the image at every retry of the session's
  send (`dispatcher/push_outbox.go:124`): the row records the latter only.
- ResolvePushSession takes the preferred channel session, and if that one lacks an id it
  looks at no other channel session as such (`session.go:144`): the next choice is the
  newest of all that are not the main one.
- A frame of type "res" is success whatever is in it (`gateway.go:237`); only type "err" is an
  error.

Reconnects and backoff:

- The guard drops the epoch of its answer (`listener.go:277-290`), the heartbeat keeps it
  (`listener.go:409`). With a control plane that renumbers a lease when it renews it, a leader
  is answered with no after its own guard's renewal, and leaves (`Guard`).
- With Faults {"connection", "subscribe"}, `LeaderServes` fails: the error of the
  resubscribe after a reconnect is dropped (`transport.go:257`) while the callback logs
  "reconnected - resubscribing" (`listener.go:271`), and nothing repeats it: the leader
  holds the lease and hears nothing.
- reconnectLoop sets `t.client` also when Close has run meanwhile (`transport.go:252`).
- CalculateBackoffMs applies the cap inside its loop only (`dispatcher/backoff.go:19-25`):
  attempt 1, and 0 or less, wait the base delay whatever the cap.

Start, login, update:

- Outside the cause "died", the lock is as reliable as its age: two pulls that both find it
  stale may remove each other's (`listener_autostart.go:127`); and a listener that takes
  longer than a second to write its PID is started twice (cause "slow").
- A PID that was given to another process of the user passes for a listener
  (`inbox.go:516`), and none is started as long as it lives.
- removePIDFile removes the file whichever process it names (`listener.go:173`).
- Two local listeners share one instance id, hence one lease: to the control plane they are
  one machine.
- A get-auth leaves the running listener on its old credentials, and the new
  credentials.json has no push_enabled and no listener settings (`auth.go:375`): the
  restart then takes their defaults. "默认值为 false" (`listener.go:152`) says of
  push_enabled what the loader does not do (`config/credentials.go:105`: true).
- credentials.json is truncated and then written (`auth.go:386`): a listener that starts in
  between cannot, and a death in between leaves no credentials.
- `--poll` is "持续轮询直到授权完成（约30s间隔）" (`docs/commands.md:75`) and ends after 30
  questions, at intervals that grow from 2 s to 30 s (`auth.go:173`).
- Two updates share one binary.new ("原子替换", `update.go:259`): one truncates the file that
  the other renames, or renames over it an older version. With two updaters and without
  `together \/`, `WholeUnlessTogether` and `NeverOlder` fail. A stale binary.new stays where
  a process died.
- An extraction that ends early leaves files of two versions under a SKILL.md that may
  already tell the new one, or under a torn one, after which nobody is told any more
  (`listener.go:493` ff.). Files that a new package no longer has remain. update-skill
  compares no versions and may go back.
- A listener compares the version compiled into it, so it announces an update that was
  installed while it ran, and again at every check.
- findBinaryInDir looks for the name "a2hmarket-cli" (`update.go:254`): an archive whose
  binary is "a2hmarket-cli.exe" ends the update.

Left out of the modelled parts: the target-session columns; the column source of a binding
and FindA2aReplyRoute; the text, channel and file of a notification; the token cache, MQTT
keep-alive, and a reconnect that ends after Close; `status` and `api-call`. Statements of
one transaction are one step, and SQLite serialises writers, so no finer interleaving is
needed.

## 7. Not modelled, and the plan

Not modelled, and not planned:

- *Commands of the platform API* (order, works, profile, address, discussion, file, doctor):
  one signed HTTP request and a printout each; the state machines of orders and works are
  the platform's and not in this repository.
- *Envelope signing* (`protocol/`): string functions and HMAC. Whether an envelope is accepted
  is an input of the models.
- *Text formatting, downloads, logging, helpers*: no state that another part reads.
- *`internal/auth/auth.go` and `client.go`*: no command calls them.
- *Harness documents, mock server, install scripts* apart from the restart policies, which
  are the constant `Manager` of `ListenerLease` and the service file of `Autostart`.

Planned, in this order:

1. Compositions: `Inbox` with `PushPipeline` (intake feeds both, the ack ends both) and
   with `MediaOutbox`; two listeners of the lease in front of one broker queue. What is
   worth asking: an event that was acked is not pushed later; a takeover loses nothing.
2. `TokenCache` with the reconnects: a token that is used is valid or was refused once.
3. `CalculateBackoffMs` against a reference definition, FindA2aReplyRoute over a table of
   rows.
4. Theorems: the composition of `PushPipeline` and `MediaOutbox` with `Handover` in the
   place of their sends; `AckedWasPushed` after crashes, with the excuse that names them.

Runs are kept to a dozen: one for each question, each with several properties. Where a
later module needs one, a run that a new composition subsumes goes first.
