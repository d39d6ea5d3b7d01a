------------------------------ MODULE Gateway ------------------------------
(***************************************************************************)
(* Messages on their way from the listener to OpenClaw                     *)
(* (openclaw/gateway.go and session.go; their callers dispatchDualChannel, *)
(* deliverMedia and checkAndNotifyUpdate).  A job is one push, one         *)
(* notification or one announcement; it calls ListSessions, SendToSession  *)
(* and SendMediaToChannel, each of which opens a websocket session of its  *)
(* own, authenticates, sends one request and waits for the answer, and     *)
(* goes to the openclaw CLI when that fails.                               *)
(***************************************************************************)
EXTENDS SessionChoice, FiniteSets

CONSTANTS Jobs,           \* the jobs the listener may have to do
          SessionLists,   \* the lists of sessions OpenClaw may show
          MaxJobs,        \* jobs in one behaviour
          MaxWire,        \* unrelated frames that wait to be read
          ChallengeWait,  \* ticks to the 15 s read deadline of the handshake
          RpcWait,        \* ticks to the 30 s read deadline of a request
          Faults          \* which of AllFaults may occur

\* "config": openclaw.json, device.json or the key cannot be read; "down": the
\* gateway stops and starts; "refuse": it answers a request with an error;
\* "nocli": no openclaw binary, or it fails; "unsure": the CLI fails after it
\* has done its work; "hang": it does not return.
AllFaults == {"config", "down", "refuse", "nocli", "unsure", "hang"}

\* Where a job starts: "push" of an event (with an image or without),
\* "notify" of a media_outbox row (its session key may be empty), "announce"
\* of a new version.
JobTypes == [kind : {"push", "notify", "announce"}, image : BOOLEAN, key : Seq(STRING)]

ASSUME JobsAssumption == Jobs \subseteq JobTypes
ASSUME ListsAssumption == SessionLists \subseteq Seq(Session)
ASSUME BoundsAssumption ==
    /\ MaxJobs \in Nat
    /\ MaxWire \in Nat
    /\ ChallengeWait \in Nat \ {0}
    /\ RpcWait \in Nat \ {0}
ASSUME FaultsAssumption == Faults \subseteq AllFaults

VARIABLES jobs,     \* the jobs so far, the last one under way unless pc is "idle"
          fn,       \* the public function it is in: "list", "session", "media"
          method,   \* the request that function makes
          key,      \* the session or channel it is for
          pc,       \* where the function is
          sent,     \* requests made so far (gwReqCounter)
          req,      \* the id of the request whose answer is awaited
          left,     \* ticks left to the read deadline
          wire,     \* frames of this connection that are not read yet
          alive,    \* the gateway has this connection
          up,       \* the gateway runs
          pending,  \* requests the gateway has received and not served
          listed,   \* the sessions a list brought
          taken,    \* history: what OpenClaw took, by which way
          unsure,   \* history: jobs that gave up without knowing
          outcome   \* history: how each job ended

client  == <<jobs, fn, method, key, pc, sent, req, left, listed, unsure, outcome>>
server  == <<up, pending, taken>>
vars    == <<client, wire, alive, server>>

number == Len(jobs)
job == jobs[number]

\* The requests that hand a message over, and where the session reads frames.
Sends == {"agent", "chat.send", "send"}
Reading == {"challenge", "connect", "method"}

FrameTypes == [type : {"challenge", "event", "res", "err"}, id : Nat, body : BOOLEAN]

\* chat.send when a push has no channel to deliver to, agent otherwise.
MethodOf(f, j, k) ==
    CASE f = "list"    -> "sessions.list"
      [] f = "media"   -> "send"
      [] f = "session" -> IF j.kind = "push" /\ ~HasTarget(k) THEN "chat.send"
                          ELSE "agent"

To(m) == IF m = "send" THEN "channel" ELSE "session"

Init == /\ jobs = <<>>
        /\ fn = "none" /\ method = "none" /\ key = <<>> /\ pc = "idle"
        /\ sent = 0 /\ req = 0 /\ left = 0 /\ wire = <<>> /\ alive = FALSE
        /\ up \in BOOLEAN /\ pending = {}
        /\ listed = <<>>
        /\ taken = {} /\ unsure = {}
        /\ outcome = [n \in 1..MaxJobs |-> "none"]

-----------------------------------------------------------------------------
(* The job: which public function is called next, and how it ends.         *)

\* The call of public function f for k: a session of its own is opened.
Call(f, k) == /\ fn' = f /\ method' = MethodOf(f, job, k) /\ key' = k
              /\ pc' = "dial"
              /\ UNCHANGED outcome

JobEnds(how) == /\ outcome' = [outcome EXCEPT ![number] = how]
                /\ fn' = "none" /\ method' = "none" /\ key' = <<>> /\ pc' = "idle"

Begin(j) ==
    /\ pc = "idle" /\ number < MaxJobs
    /\ jobs' = Append(jobs, j)
    /\ LET channel == ParseSessionKey(j.key).channel
           f == CASE j.kind # "notify" \/ j.key = <<>>                    -> "list"
                  [] j.kind = "notify" /\ j.key # <<>> /\ channel # ""   -> "session"
                  [] j.kind = "notify" /\ j.key # <<>> /\ channel = ""   -> "media"
       IN  fn' = f /\ method' = MethodOf(f, j, j.key) /\ key' = j.key /\ pc' = "dial"
    /\ UNCHANGED <<sent, req, left, wire, alive, server, listed, unsure, outcome>>

\* SendMediaToChannel returned: a push goes on to the AI session whatever
\* became of its image, the others end.
MediaReturns(ok) == IF job.kind = "push" THEN Call("session", key)
                    ELSE JobEnds(IF ok THEN "ok" ELSE "error")

\* Mutant: the error of SendToSession is logged and dropped.
ErrorDropped(ok) == IF ~ok /\ job.kind = "notify" THEN Call("media", job.key)
                    ELSE JobEnds("ok")

\* SendToSession returned: a notification that failed is sent raw.
SessionReturns(ok) == IF ~ok /\ job.kind = "notify" THEN Call("media", job.key)
                      ELSE JobEnds(IF ok THEN "ok" ELSE "error")

SendReturns(ok) == IF fn = "media" THEN MediaReturns(ok) ELSE SessionReturns(ok)

\* The list could not be had, in ListSessions or in the fallback of
\* SendToSession: the push is skipped, a notification is sent raw.
ListFails == CASE fn = "session"                     -> SessionReturns(FALSE)
               [] fn = "list" /\ job.kind = "notify" -> Call("media", job.key)
               [] fn = "list" /\ job.kind # "notify" -> JobEnds("error")

\* The list is there: pick the session.
Choose ==
    /\ pc = "choose"
    /\ CASE fn = "session" ->
              \* the fallback of SendToSession goes to the first of the list
              LET s == GetMostRecentSession(listed)
              IN  IF s = NoSession THEN SessionReturns(FALSE)
                  ELSE /\ key' = s.key /\ pc' = "clisend"
                       /\ UNCHANGED <<fn, method, outcome>>
         [] fn = "list" /\ job.kind = "push" ->
              LET s == ResolvePushSession(listed)
              IN  CASE s = NoSession -> JobEnds("error")
                    [] s # NoSession /\ job.image /\ HasTarget(s.key)
                                          -> Call("media", s.key)
                    [] OTHER              -> Call("session", s.key)
         [] fn = "list" /\ job.kind # "push" ->
              LET s == FindMostRecentDeliverableSession(listed)
              IN  CASE s = NoSession         -> ListFails
                    [] s # NoSession /\ job.kind = "notify"   -> Call("session", s.key)
                    [] s # NoSession /\ job.kind = "announce" -> Call("media", s.key)
    /\ listed' = <<>>
    /\ UNCHANGED <<jobs, sent, req, left, wire, alive, server, unsure>>

-----------------------------------------------------------------------------
(* One websocket session: dial, challenge, connect, request, close.        *)

Closed == wire' = <<>> /\ alive' = FALSE /\ req' = 0 /\ left' = 0

\* Every error of the session leads here: the function goes to the CLI;
\* SendToSession asks for a list of sessions first.
GatewayFails ==
    /\ Closed
    /\ CASE method = "sessions.list" ->
              pc' = "clilist" /\ UNCHANGED <<fn, method, key, outcome>>
         [] method \in {"agent", "chat.send"} ->
              /\ pc' = "dial" /\ method' = "sessions.list"
              /\ UNCHANGED <<fn, key, outcome>>
         [] method = "send" ->
              pc' = "clisend" /\ UNCHANGED <<fn, method, key, outcome>>
    /\ UNCHANGED <<jobs, sent, listed, pending, up, taken>>

\* The files are read and the gateway takes the connection.
Dial == /\ pc = "dial" /\ up
        /\ pc' = "challenge" /\ left' = ChallengeWait
        /\ wire' = <<>> /\ alive' = TRUE
        /\ UNCHANGED <<jobs, fn, method, key, sent, req, listed, unsure, outcome, server>>

DialFails == /\ pc = "dial" /\ (~up \/ "config" \in Faults)
             /\ GatewayFails
             /\ UNCHANGED unsure

\* The write of a request.  gwNextID gives it an id of its own.
Write(m) ==
    /\ sent' = sent + 1 /\ req' = sent' /\ left' = RpcWait
    /\ pending' = IF alive
                  THEN pending \union {[id |-> sent', method |-> m,
                                        job |-> number, key |-> key]}
                  ELSE pending

\* Mutant: the deadline is set again for every frame.
SkipAndWait == left' = IF pc = "challenge" THEN ChallengeWait ELSE RpcWait

\* A frame that is not what the client waits for leaves its deadline alone.
Skip == UNCHANGED left

\* Mutant: any frame with a result is taken for the answer.
AnyAnswer(f) == f.type = "res"

IsAnswer(f) == f.id = req /\ f.type \in {"res", "err"}

\* Mutant: an answer without a body is taken for an error.
EmptyIsError(f) == IsAnswer(f) /\ f.type = "res" /\ f.body

Accepted(f) == IsAnswer(f) /\ f.type = "res"

\* ReadMessage before the deadline, and what the loop does with the frame.
ReadSkips ==
    /\ pc \in Reading /\ left > 0 /\ wire # <<>>
    /\ IF pc = "challenge" THEN Head(wire).type # "challenge"
       ELSE ~IsAnswer(Head(wire)) /\ ~Accepted(Head(wire))
    /\ wire' = Tail(wire)
    /\ Skip
    /\ UNCHANGED <<jobs, fn, method, key, pc, sent, req, listed, unsure, outcome,
                   alive, server>>

\* The nonce is signed and the connect request written.
ReadChallenge ==
    /\ pc = "challenge" /\ left > 0 /\ wire # <<>> /\ Head(wire).type = "challenge"
    /\ wire' = Tail(wire)
    /\ pc' = "connect" /\ Write("connect")
    /\ UNCHANGED <<jobs, fn, method, key, listed, unsure, outcome, alive, up, taken>>

\* The session is authenticated: the function's own request is written.
ReadConnected ==
    /\ pc = "connect" /\ left > 0 /\ wire # <<>> /\ Accepted(Head(wire))
    /\ wire' = Tail(wire)
    /\ pc' = "method" /\ Write(method)
    /\ UNCHANGED <<jobs, fn, method, key, listed, unsure, outcome, alive, up, taken>>

\* The answer of the function's request.  An empty list counts as none.
ReadAnswer ==
    /\ pc = "method" /\ left > 0 /\ wire # <<>> /\ Accepted(Head(wire))
    /\ IF method = "sessions.list"
       THEN \E l \in SessionLists :
              IF l = <<>> THEN GatewayFails
              ELSE /\ Closed
                   /\ listed' = l /\ pc' = "choose"
                   /\ UNCHANGED <<jobs, fn, method, key, sent, outcome, pending, up, taken>>
       ELSE /\ Closed
            /\ SendReturns(TRUE)
            /\ UNCHANGED <<jobs, sent, listed, pending, up, taken>>
    /\ UNCHANGED unsure

ReadError ==
    /\ pc \in {"connect", "method"} /\ left > 0 /\ wire # <<>>
    /\ IsAnswer(Head(wire)) /\ ~Accepted(Head(wire))
    /\ GatewayFails
    /\ UNCHANGED unsure

\* The deadline has passed or the connection is gone.  What became of a
\* message that was written is then not known.
ReadFails ==
    /\ pc \in Reading
    /\ left = 0 \/ (~alive /\ wire = <<>>)
    /\ GatewayFails
    /\ unsure' = IF pc = "method" /\ method \in Sends THEN unsure \union {number} ELSE unsure

Tick == /\ pc \in Reading /\ left > 0
        /\ left' = left - 1
        /\ UNCHANGED <<jobs, fn, method, key, pc, sent, req, listed, unsure, outcome,
                       wire, alive, server>>

-----------------------------------------------------------------------------
(* The CLI.                                                                *)

CliList == /\ pc = "clilist"
           /\ \E l \in SessionLists : listed' = l
           /\ pc' = "choose"
           /\ UNCHANGED <<jobs, fn, method, key, sent, req, left, unsure, outcome,
                          wire, alive, server>>

CliListFails == /\ pc = "clilist" /\ "nocli" \in Faults
                /\ ListFails
                /\ UNCHANGED <<jobs, sent, req, left, listed, unsure, wire, alive, server>>

Took(n, m, by, k) == taken' = taken \union {[job |-> n, to |-> To(m), by |-> by, key |-> k]}

\* The method of the job's function, also when its fallback has asked for a list.
Handed == IF fn = "media" THEN "send" ELSE "agent"

CliSend == /\ pc = "clisend"
           /\ Took(number, Handed, "cli", key)
           /\ SendReturns(TRUE)
           /\ UNCHANGED <<jobs, sent, req, left, listed, unsure, wire, alive, up, pending>>

CliSendFails ==
    /\ pc = "clisend"
    /\ \/ "nocli" \in Faults /\ UNCHANGED <<taken, unsure>>
       \/ /\ "unsure" \in Faults
          /\ Took(number, Handed, "cli", key)
          /\ unsure' = unsure \union {number}
    /\ SendReturns(FALSE)
    /\ UNCHANGED <<jobs, sent, req, left, listed, wire, alive, up, pending>>

\* The CLI is run without a context and without a timeout: nothing ends the wait
\* for one that does not return, whether it has done its work or not.
CliHangs ==
    /\ pc \in {"clilist", "clisend"} /\ "hang" \in Faults
    /\ pc' = "hung"
    /\ \/ UNCHANGED taken
       \/ pc = "clisend" /\ Took(number, Handed, "cli", key)
    /\ unsure' = IF pc = "clisend" THEN unsure \union {number} ELSE unsure
    /\ UNCHANGED <<jobs, fn, method, key, sent, req, left, listed, outcome, wire, alive,
                   up, pending>>

-----------------------------------------------------------------------------
(* The gateway (not under src/, as the client uses it).                    *)

\* An answer reaches the client if it still waits for it on that connection.
Answer(r, f) == wire' = IF alive /\ r.id = req THEN Append(wire, f) ELSE wire

Challenge == /\ alive /\ pc = "challenge" /\ Len(wire) <= MaxWire
             /\ \A i \in 1..Len(wire) : wire[i].type # "challenge"
             /\ wire' = Append(wire, [type |-> "challenge", id |-> 0, body |-> TRUE])
             /\ UNCHANGED <<client, alive, server>>

\* Events, frames that do not parse, answers to nobody.
Chatter == /\ alive /\ Len(wire) < MaxWire
           /\ \E t \in {"event", "res"} :
                wire' = Append(wire, [type |-> t, id |-> 0, body |-> TRUE])
           /\ UNCHANGED <<client, alive, server>>

\* A request is served, also after its client has given up: the message is
\* taken before the answer is written.
Serve == \E r \in pending, body \in BOOLEAN :
           /\ pending' = pending \ {r}
           /\ IF r.method \in Sends THEN Took(r.job, r.method, "gateway", r.key)
              ELSE UNCHANGED taken
           /\ Answer(r, [type |-> "res", id |-> r.id, body |-> body])
           /\ UNCHANGED <<client, alive, up>>

Refuse == \E r \in pending :
            /\ "refuse" \in Faults
            /\ pending' = pending \ {r}
            /\ Answer(r, [type |-> "err", id |-> r.id, body |-> FALSE])
            /\ UNCHANGED <<client, alive, up, taken>>

GatewayStops == /\ up /\ "down" \in Faults
                /\ up' = FALSE /\ alive' = FALSE /\ pending' = {}
                /\ UNCHANGED <<client, wire, taken>>

GatewayStarts == /\ ~up /\ "down" \in Faults
                 /\ up' = TRUE
                 /\ UNCHANGED <<client, wire, alive, pending, taken>>

-----------------------------------------------------------------------------
Reads == ReadSkips \/ ReadChallenge \/ ReadConnected \/ ReadAnswer \/ ReadError
         \/ ReadFails

Client == \/ Dial \/ DialFails \/ Reads \/ Choose
          \/ CliList \/ CliListFails \/ CliSend \/ CliSendFails \/ CliHangs

Server == Challenge \/ Chatter \/ Serve \/ Refuse \/ GatewayStops \/ GatewayStarts

Next == (\E j \in Jobs : Begin(j)) \/ Client \/ Tick \/ Server

Spec == Init /\ [][Next]_vars

\* A live process reads what is there, and time passes.  Of the CLI this says
\* that it returns or hangs.
FairSpec == Spec /\ WF_vars(Client) /\ WF_vars(Tick)
=============================================================================
