--------------------------- MODULE GatewayProofs ---------------------------
(***************************************************************************)
(* Proofs about a message on its way to OpenClaw, for any jobs, lists of   *)
(* sessions, deadlines and faults: types; that what reports success was    *)
(* taken; that what reports an error was not, and that nothing is taken    *)
(* twice or late, unless the listener gave up without knowing; that the    *)
(* client therefore implements Handover; and that the session picked from  *)
(* a list of any length is the right one.                                  *)
(*                                                                         *)
(* The argument.  A request is known by its id and served once (Distinct), *)
(* and the one that is awaited belongs to the job under way (Awaited), so  *)
(* its result says that the message was taken (AnswerTells).  A job goes   *)
(* on to the next way with no request left behind, unless it is unsure     *)
(* (NoneLeftBehind), hence nothing of it is taken then (TakenWhenServed).  *)
(***************************************************************************)
EXTENDS GatewayProps, TLAPS, WellFoundedInduction

(***************************************************************************)
(* Types, and how function, method and place go together.                  *)
(***************************************************************************)

Places == {"idle", "dial", "challenge", "connect", "method", "choose", "clilist",
           "clisend", "hung"}

TypeOK ==
    /\ jobs \in Seq(Jobs) /\ number <= MaxJobs
    /\ fn \in {"none", "list", "session", "media"}
    /\ method \in {"none", "sessions.list"} \union Sends
    /\ pc \in Places
    /\ sent \in Nat /\ req \in 0..sent
    /\ wire \in Seq(FrameTypes)
    /\ alive \in BOOLEAN
    /\ \A r \in pending : /\ r.id \in 1..sent
                          /\ r.method \in {"connect", "sessions.list"} \union Sends
                          /\ r.job \in 1..number
    /\ \A t \in taken : t.job \in 1..number /\ t.to \in {"session", "channel"}
    /\ unsure \subseteq 1..number
    /\ outcome \in [1..MaxJobs -> {"none", "ok", "error"}]

Placed ==
    /\ pc # "idle" => number >= 1 /\ fn # "none"
    /\ fn = "list" => method = "sessions.list"
    /\ fn = "session" => method \in {"agent", "chat.send", "sessions.list"}
    /\ fn = "media" => method = "send"
    /\ pc \in {"choose", "clilist"} => method = "sessions.list"
    /\ pc = "clisend" => fn # "list"
    /\ pc \in {"connect", "method"} => req >= 1

(***************************************************************************)
(* Requests and answers.                                                   *)
(***************************************************************************)

Frames == {wire[i] : i \in 1..Len(wire)}

\* A request is known by its id, and is served once.
Distinct ==
    /\ \A r, s \in pending : r.id = s.id => r = s
    /\ \A f \in Frames : f.id \in 0..sent /\ \A r \in pending : r.id # f.id

\* The request whose answer is awaited is the one that was written,
Awaited ==
    \A r \in pending : r.id = req =>
        /\ pc = "connect" => r.method = "connect"
        /\ pc = "method" => r.method = method /\ r.job = number

\* and its answer comes when the message is taken.
AnswerTells ==
    \A f \in Frames :
        pc = "method" /\ method \in Sends /\ f.id = req /\ f.type = "res" =>
            TookFor(number, To(method))

(***************************************************************************)
(* What the listener may be sure of.                                       *)
(***************************************************************************)

\* No request of a job is left behind at the gateway,
NoneLeftBehind ==
    \A r \in pending :
        r.method \in Sends /\ r.job \notin unsure =>
            r.job = number /\ pc = "method" /\ r.id = req

\* What T holds of the job under way when it enters f: at most the image.
Clear(T, f) ==
    \A t \in T :
        t.job = number => job.kind = "push" /\ f = "session" /\ t.to = "channel"

\* The message was served, and not with an error.
Served ==
    /\ pc = "method" /\ method \in Sends
    /\ \A r \in pending : r.id # req
    /\ \A f \in Frames : f.id = req => f.type = "res"
    /\ job.kind = "push" /\ fn = "media" => Clear(taken, "session")

TakenWhenServed ==
    pc # "idle" /\ number \notin unsure => Clear(taken, fn) \/ Served

\* A job whose end is known, not unsure, has one copy at most at each end.
OneCopy ==
    \A t, u \in taken :
        /\ t.job = u.job /\ t.job \notin unsure
        /\ t.to = u.to \/ jobs[t.job].kind # "push"
        => t = u

\* Jobs end one after the other.
Ended == {n \in 1..MaxJobs : outcome[n] # "none"}

EndedInOrder ==
    \A n \in 1..MaxJobs : n \in Ended <=> n < number \/ (n = number /\ pc = "idle")

\* A job that reports an error was not taken, the image of a push excepted,
\* unless the listener gave up without knowing: a retry after an error (the
\* outboxes, which call these functions again) makes no second copy.
ErrorWasNotTaken ==
    \A n \in 1..Len(jobs) :
        outcome[n] = "error" /\ n \notin unsure =>
            \A t \in taken : t.job = n => jobs[n].kind = "push" /\ t.to = "channel"

IInv ==
    /\ TypeOK /\ Placed
    /\ Distinct /\ Awaited /\ AnswerTells
    /\ NoneLeftBehind /\ TakenWhenServed /\ OneCopy
    /\ EndedInOrder /\ SuccessWasTaken /\ ErrorWasNotTaken

-----------------------------------------------------------------------------
(***************************************************************************)
(* The frames of a connection.                                             *)
(***************************************************************************)

LEMMA HeadIsFrame ==
    ASSUME wire \in Seq(FrameTypes), wire # <<>>
    PROVE  Head(wire) \in Frames /\ Head(wire) \in FrameTypes
<1>1. 1 \in 1..Len(wire) /\ Head(wire) = wire[1] /\ wire[1] \in FrameTypes
  OBVIOUS
<1> QED
  BY <1>1 DEF Frames

LEMMA TailLosesHead ==
    ASSUME wire \in Seq(FrameTypes), wire # <<>>, wire' = Tail(wire)
    PROVE  wire' \in Seq(FrameTypes) /\ Frames' \subseteq Frames
<1>1. /\ wire' \in Seq(FrameTypes) /\ Len(wire') = Len(wire) - 1
      /\ \A i \in 1..Len(wire') : i + 1 \in 1..Len(wire) /\ wire'[i] = wire[i + 1]
  OBVIOUS
<1> QED
  BY <1>1 DEF Frames

LEMMA AppendAddsOne ==
    ASSUME wire \in Seq(FrameTypes), NEW e \in FrameTypes, wire' = Append(wire, e)
    PROVE  wire' \in Seq(FrameTypes) /\ Frames' \subseteq Frames \union {e}
<1>1. /\ wire' \in Seq(FrameTypes) /\ Len(wire') = Len(wire) + 1
      /\ \A i \in 1..Len(wire') : i \in 1..Len(wire) \/ i = Len(wire) + 1
      /\ \A i \in 1..Len(wire) : wire'[i] = wire[i]
      /\ wire'[Len(wire) + 1] = e
  OBVIOUS
<1> QED
  BY <1>1 DEF Frames

LEMMA ClosedHasNoFrames ==
    ASSUME wire' = <<>>
    PROVE  wire' \in Seq(FrameTypes) /\ Frames' = {}
BY DEF Frames

LEMMA JobIsJob ==
    ASSUME TypeOK, Placed, pc # "idle"
    PROVE  /\ number \in Nat /\ number \in 1..MaxJobs
           /\ job.kind \in {"push", "notify", "announce"}
<1>1. number \in Nat /\ number >= 1 /\ number <= MaxJobs /\ jobs[number] \in Jobs
  BY DEF TypeOK, Placed, number
<1> QED
  BY <1>1, JobsAssumption, BoundsAssumption DEF job, JobTypes

-----------------------------------------------------------------------------
(***************************************************************************)
(* Steps after which the listener is where it was, and only frames that    *)
(* answer nothing come or frames go.                                       *)
(***************************************************************************)

LEMMA QuietKeeps ==
    ASSUME IInv,
           UNCHANGED <<jobs, fn, method, pc, sent, req, unsure, outcome, taken>>,
           pending' \subseteq pending, alive' \in BOOLEAN, wire' \in Seq(FrameTypes),
           \A f \in Frames' : f \in Frames \/ f.id = 0
    PROVE  IInv'
<1> USE DEF IInv, number, job
<1>1. TypeOK' /\ Placed'
  BY DEF TypeOK, Placed
<1>2. Distinct'
  <2>1. \A f \in Frames' : f.id \in 0..sent /\ \A r \in pending' : r.id # f.id
    BY DEF Distinct, TypeOK
  <2> QED
    BY <2>1 DEF Distinct
<1>3. Awaited' /\ NoneLeftBehind'
  BY DEF Awaited, NoneLeftBehind
<1>4. AnswerTells'
  BY DEF AnswerTells, TookFor, To, Placed
<1>5. TakenWhenServed'
  BY DEF TakenWhenServed, Served, Clear, Placed
<1>6. OneCopy' /\ EndedInOrder' /\ SuccessWasTaken' /\ ErrorWasNotTaken'
  BY DEF OneCopy, EndedInOrder, Ended, SuccessWasTaken, ErrorWasNotTaken, TookFor
<1> QED
  BY <1>1, <1>2, <1>3, <1>4, <1>5, <1>6

-----------------------------------------------------------------------------
(***************************************************************************)
(* Steps by which the listener leaves a session, or takes one outside of   *)
(* it: it goes on to the next function or way, or the job ends.            *)
(***************************************************************************)

Ends(how) ==
    /\ pc' = "idle" /\ fn' = "none" /\ method' = "none"
    /\ outcome' = [outcome EXCEPT ![number] = how]

\* The listener goes on, or ends the job, only as it is sure that it may.
GoesOn ==
    /\ pc' \in {"dial", "choose", "clilist", "clisend", "hung"}
    /\ outcome' = outcome
    /\ number \notin unsure' => Clear(taken', fn')

EndsInError ==
    /\ Ends("error")
    /\ number \notin unsure' => Clear(taken', "session")

EndsWell ==
    /\ Ends("ok")
    /\ \E t \in taken' : /\ t.job = number
                         /\ t.to = "session" \/ (job.kind # "push" /\ t.to = "channel")

Lands == GoesOn \/ EndsInError \/ EndsWell

LEMMA LandTypes ==
    ASSUME IInv, pc # "idle", Lands,
           UNCHANGED <<jobs, sent, pending>>,
           wire' \in {wire, <<>>}, alive' \in {alive, FALSE}, req' \in {req, 0},
           unsure' \subseteq 1..number,
           \A t \in taken' : t \in taken
               \/ (t.job = number /\ t.to \in {"session", "channel"}),
           fn' \in {"none", "list", "session", "media"},
           method' \in {"none", "sessions.list"} \union Sends
    PROVE  TypeOK'
<1>0. TypeOK /\ number' = number /\ number \in Nat /\ number \in 1..number
  BY JobIsJob DEF IInv, number
<1>1. jobs' \in Seq(Jobs) /\ number' <= MaxJobs
  BY <1>0 DEF TypeOK
<1>2. pc' \in Places
  BY DEF Lands, GoesOn, EndsInError, EndsWell, Ends, Places
<1>3. /\ sent' \in Nat /\ req' \in 0..sent'
      /\ alive' \in BOOLEAN
  <2>1. sent \in Nat /\ req \in 0..sent /\ sent' = sent
    BY <1>0 DEF TypeOK
  <2>2. sent' \in Nat /\ req' \in 0..sent'
    BY <2>1
  <2>3. alive' \in BOOLEAN
    BY <1>0 DEF TypeOK
  <2> QED
    BY <2>2, <2>3
<1>4. wire' \in Seq(FrameTypes)
  BY <1>0, ClosedHasNoFrames DEF TypeOK
<1>5. \A r \in pending' : /\ r.id \in 1..sent'
                          /\ r.method \in {"connect", "sessions.list"} \union Sends
                          /\ r.job \in 1..number'
  BY <1>0 DEF TypeOK
<1>6. \A t \in taken' : t.job \in 1..number' /\ t.to \in {"session", "channel"}
  BY <1>0 DEF TypeOK
<1>7. outcome' \in [1..MaxJobs -> {"none", "ok", "error"}]
  BY <1>0 DEF TypeOK, Lands, GoesOn, EndsInError, EndsWell, Ends
<1> QED
  BY <1>0, <1>1, <1>2, <1>3, <1>4, <1>5, <1>6, <1>7 DEF TypeOK

LEMMA LandKeeps ==
    ASSUME IInv, TypeOK', Placed', OneCopy',
           pc # "idle", jobs' = jobs, sent' = sent, pending' = pending,
           wire' \in {wire, <<>>},
           unsure \subseteq unsure', taken \subseteq taken',
           \A t \in taken' : t \in taken \/ t.job = number,
           \A r \in pending : r.method \in Sends => r.job \in unsure',
           Lands
    PROVE  IInv'
<1> USE DEF IInv, number, job
<1>0. number \in Nat /\ number \in 1..MaxJobs /\ outcome \in [1..MaxJobs -> {"none", "ok", "error"}]
  BY JobIsJob DEF TypeOK
<1>1. pc' \in {"idle", "dial", "choose", "clilist", "clisend", "hung"}
  BY DEF Lands, GoesOn, EndsInError, EndsWell, Ends
<1>2. Frames' \subseteq Frames
  BY ClosedHasNoFrames DEF Frames
<1>3. Distinct' /\ Awaited' /\ AnswerTells' /\ NoneLeftBehind'
  BY <1>1, <1>2 DEF Distinct, Awaited, AnswerTells, NoneLeftBehind
<1>4. TakenWhenServed'
  BY DEF TakenWhenServed, Lands, GoesOn, EndsInError, EndsWell, Ends, Clear
<1>5. \A n \in 1..MaxJobs : n # number => outcome'[n] = outcome[n]
  BY <1>0 DEF Lands, GoesOn, EndsInError, EndsWell, Ends
<1>6. outcome[number] = "none"
  BY <1>0 DEF EndedInOrder, Ended
<1>7. \/ pc' # "idle" /\ outcome'[number] = "none"
      \/ pc' = "idle" /\ outcome'[number] = "ok" /\ EndsWell
      \/ pc' = "idle" /\ outcome'[number] = "error" /\ EndsInError
  BY <1>0, <1>6 DEF Lands, GoesOn, EndsInError, EndsWell, Ends
<1>8. EndedInOrder'
  BY <1>0, <1>5, <1>7 DEF EndedInOrder, Ended
<1>9. SuccessWasTaken'
  <2> SUFFICES ASSUME NEW n \in 1..Len(jobs), outcome'[n] = "ok"
               PROVE  \/ TookFor(n, "session")'
                      \/ jobs[n].kind # "push" /\ TookFor(n, "channel")'
    BY DEF SuccessWasTaken
  <2>1. CASE n = number
    BY <2>1, <1>7 DEF EndsWell, TookFor
  <2>2. CASE n # number
    <3>1. n \in 1..MaxJobs
      BY <1>0, BoundsAssumption
    <3> QED
      BY <2>2, <3>1, <1>5 DEF SuccessWasTaken, TookFor
  <2> QED
    BY <2>1, <2>2
<1>10. ErrorWasNotTaken'
  <2> SUFFICES ASSUME NEW n \in 1..Len(jobs), outcome'[n] = "error", n \notin unsure',
                      NEW t \in taken', t.job = n
               PROVE  jobs[n].kind = "push" /\ t.to = "channel"
    BY DEF ErrorWasNotTaken
  <2>1. CASE n = number
    BY <2>1, <1>7 DEF EndsInError, Clear
  <2>2. CASE n # number
    <3>1. n \in 1..MaxJobs
      BY <1>0, BoundsAssumption
    <3> QED
      BY <2>2, <3>1, <1>5 DEF ErrorWasNotTaken
  <2> QED
    BY <2>1, <2>2
<1> QED
  BY <1>3, <1>4, <1>8, <1>9, <1>10

\* What each function may return to, once it is known what was taken.
LEMMA CallGoesOn ==
    ASSUME IInv, pc # "idle", NEW f \in {"session", "media"}, NEW k, Call(f, k),
           number \notin unsure' => Clear(taken', f)
    PROVE  GoesOn /\ fn' = f /\ pc' = "dial" /\ method' \in Sends
           /\ (f = "session" => method' \in {"agent", "chat.send"})
           /\ (f = "media" => method' = "send")
BY DEF Call, MethodOf, GoesOn, Sends

LEMMA JobEndsEnds ==
    ASSUME NEW how, JobEnds(how)
    PROVE  Ends(how)
BY DEF JobEnds, Ends

\* The types and places after a landing.
LandsTyped ==
    /\ fn' \in {"none", "session", "media"} /\ method' \in {"none"} \union Sends
    /\ pc' \in {"dial", "idle"}
    /\ fn' = "none" => pc' = "idle"
    /\ fn' = "session" => method' \in {"agent", "chat.send"}
    /\ fn' = "media" => method' = "send"

LEMMA FailureLands ==
    ASSUME IInv, pc # "idle", fn \in {"session", "media"}, SendReturns(FALSE),
           number \notin unsure' => Clear(taken', fn)
    PROVE  Lands /\ LandsTyped
<1>1. CASE fn = "media" /\ job.kind = "push"
  <2>1. Call("session", key)
    BY <1>1 DEF SendReturns, MediaReturns
  <2>2. number \notin unsure' => Clear(taken', "session")
    BY <1>1 DEF Clear
  <2> QED
    BY <2>1, <2>2, CallGoesOn DEF Lands, LandsTyped
<1>2. CASE fn = "session" /\ job.kind = "notify"
  <2>1. Call("media", job.key)
    BY <1>2 DEF SendReturns, SessionReturns
  <2>2. number \notin unsure' => Clear(taken', "media")
    BY <1>2 DEF Clear
  <2> QED
    BY <2>1, <2>2, CallGoesOn DEF Lands, LandsTyped
<1>3. CASE ~(fn = "media" /\ job.kind = "push") /\ ~(fn = "session" /\ job.kind = "notify")
  <2>1. JobEnds("error")
    BY <1>3 DEF SendReturns, MediaReturns, SessionReturns
  <2>2. number \notin unsure' => Clear(taken', "session")
    BY <1>3 DEF Clear
  <2> QED
    BY <2>1, <2>2, JobEndsEnds DEF Lands, LandsTyped, EndsInError, Ends
<1> QED
  BY <1>1, <1>2, <1>3

\* Success: the function's own target has taken the message.
LEMMA SuccessLands ==
    ASSUME IInv, pc # "idle", fn \in {"session", "media"}, SendReturns(TRUE),
           \E t \in taken' : t.job = number
                             /\ t.to = IF fn = "media" THEN "channel" ELSE "session",
           number \notin unsure' /\ fn = "media" /\ job.kind = "push"
               => Clear(taken', "session")
    PROVE  Lands /\ LandsTyped
<1>1. CASE fn = "media" /\ job.kind = "push"
  <2>1. Call("session", key)
    BY <1>1 DEF SendReturns, MediaReturns
  <2> QED
    BY <1>1, <2>1, CallGoesOn DEF Lands, LandsTyped
<1>2. CASE ~(fn = "media" /\ job.kind = "push")
  <2>1. JobEnds("ok")
    BY <1>2 DEF SendReturns, MediaReturns, SessionReturns
  <2> QED
    BY <1>2, <2>1, JobEndsEnds DEF Lands, LandsTyped, EndsWell, Ends
<1> QED
  BY <1>1, <1>2

LEMMA ListFailureLands ==
    ASSUME IInv, pc # "idle", fn \in {"list", "session"}, ListFails,
           number \notin unsure' => Clear(taken', fn)
    PROVE  Lands /\ LandsTyped
<1>1. CASE fn = "session"
  <2>1. SendReturns(FALSE)
    BY <1>1 DEF ListFails, SendReturns
  <2> QED
    BY <1>1, <2>1, FailureLands
<1>2. CASE fn = "list" /\ job.kind = "notify"
  <2>1. Call("media", job.key)
    BY <1>2 DEF ListFails
  <2>2. number \notin unsure' => Clear(taken', "media")
    BY <1>2 DEF Clear
  <2> QED
    BY <2>1, <2>2, CallGoesOn DEF Lands, LandsTyped
<1>3. CASE fn = "list" /\ job.kind # "notify"
  <2>1. JobEnds("error")
    BY <1>3 DEF ListFails
  <2>2. number \notin unsure' => Clear(taken', "session")
    BY <1>3 DEF Clear
  <2> QED
    BY <2>1, <2>2, JobEndsEnds DEF Lands, LandsTyped, EndsInError, Ends
<1> QED
  BY <1>1, <1>2, <1>3

-----------------------------------------------------------------------------
(***************************************************************************)
(* The steps of the client.                                                *)
(***************************************************************************)

\* A session that fails is left for the CLI, or for the list of the fallback.
LEMMA SessionFailureKeeps ==
    ASSUME IInv, pc \in {"dial"} \union Reading, GatewayFails,
           unsure \subseteq unsure', unsure' \subseteq 1..number,
           number \notin unsure' => Clear(taken, fn),
           \A r \in pending : r.method \in Sends => r.job \in unsure'
    PROVE  IInv'
<1>1. /\ wire' = <<>> /\ alive' = FALSE /\ req' = 0
      /\ UNCHANGED <<jobs, fn, sent, pending, taken, outcome>>
      /\ \/ method = "sessions.list" /\ pc' = "clilist" /\ method' = method
         \/ method \in {"agent", "chat.send"} /\ pc' = "dial" /\ method' = "sessions.list"
         \/ method = "send" /\ pc' = "clisend" /\ method' = method
  <2>1. method \in {"sessions.list", "agent", "chat.send", "send"}
    BY DEF IInv, TypeOK, Placed, Sends, Reading
  <2>2. CASE method = "sessions.list"
    BY <2>2 DEF GatewayFails, Closed
  <2>3. CASE method \in {"agent", "chat.send"}
    BY <2>3 DEF GatewayFails, Closed
  <2>4. CASE method = "send"
    BY <2>4 DEF GatewayFails, Closed
  <2> QED
    BY <2>1, <2>2, <2>3, <2>4
<1>2. pc # "idle"
  BY DEF Reading
<1>3. Lands
  BY <1>1 DEF Lands, GoesOn, Clear, number, job
<1>4. TypeOK'
  BY <1>1, <1>2, <1>3, LandTypes DEF IInv, TypeOK
<1>5. Placed'
  BY <1>1, <1>2 DEF IInv, Placed, number
<1>6. OneCopy'
  BY <1>1 DEF IInv, OneCopy
<1> QED
  BY <1>1, <1>2, <1>3, <1>4, <1>5, <1>6, LandKeeps

\* Outside of the wait for an answer nothing of the job is at the gateway, and
\* nothing was taken that the function has not been called after.
LEMMA BeforeTheRequest ==
    ASSUME IInv, pc # "idle", pc # "method" \/ method \notin Sends
    PROVE  /\ number \notin unsure => Clear(taken, fn)
           /\ \A r \in pending : r.method \in Sends => r.job \in unsure
BY DEF IInv, TakenWhenServed, Served, NoneLeftBehind, Awaited

LEMMA DialFailsKeeps == ASSUME IInv, DialFails PROVE IInv'
<1>1. pc = "dial" /\ GatewayFails /\ unsure' = unsure
  BY DEF DialFails
<1> QED
  BY <1>1, BeforeTheRequest, SessionFailureKeeps DEF IInv, TypeOK

\* An error is the answer to the request: it was not served.
LEMMA ReadErrorKeeps == ASSUME IInv, ReadError PROVE IInv'
<1>1. /\ pc \in {"connect", "method"} /\ GatewayFails /\ unsure' = unsure
      /\ wire # <<>> /\ Head(wire).id = req /\ Head(wire).type # "res"
  BY DEF ReadError, IsAnswer, Accepted
<1>2. Head(wire) \in Frames
  BY <1>1, HeadIsFrame DEF IInv, TypeOK
<1>3. ~Served /\ \A r \in pending : r.id # req
  BY <1>1, <1>2 DEF Served, IInv, Distinct
<1>4. number \notin unsure' => Clear(taken, fn)
  BY <1>1, <1>3 DEF IInv, TakenWhenServed
<1>5. \A r \in pending : r.method \in Sends => r.job \in unsure'
  BY <1>1, <1>3 DEF IInv, NoneLeftBehind
<1> QED
  BY <1>1, <1>4, <1>5, SessionFailureKeeps DEF IInv, TypeOK, Reading

\* Without an answer the job is unsure, if it had handed a message over.
LEMMA ReadFailsKeeps == ASSUME IInv, ReadFails PROVE IInv'
<1>1. /\ pc \in Reading /\ GatewayFails /\ pc # "idle"
      /\ unsure' = IF pc = "method" /\ method \in Sends THEN unsure \union {number} ELSE unsure
  BY DEF ReadFails, Reading
<1>2. number \in 1..number /\ unsure \subseteq 1..number
  BY <1>1, JobIsJob DEF IInv, TypeOK
<1>3. CASE pc = "method" /\ method \in Sends
  <2>1. \A r \in pending : r.method \in Sends => r.job \in unsure'
    BY <1>1, <1>3 DEF IInv, NoneLeftBehind
  <2> QED
    BY <1>1, <1>2, <1>3, <2>1, SessionFailureKeeps
<1>4. CASE ~(pc = "method" /\ method \in Sends)
  BY <1>1, <1>2, <1>4, BeforeTheRequest, SessionFailureKeeps
<1> QED
  BY <1>3, <1>4

\* The answer to a request that hands the message over means that it was taken.
LEMMA ReadAnswerKeeps == ASSUME IInv, ReadAnswer PROVE IInv'
<1>1. /\ pc = "method" /\ unsure' = unsure
      /\ wire # <<>> /\ Head(wire).id = req /\ Head(wire).type = "res"
  BY DEF ReadAnswer, IsAnswer, Accepted
<1>2. Head(wire) \in Frames
  BY <1>1, HeadIsFrame DEF IInv, TypeOK
<1>3. \A r \in pending : r.id # req
  BY <1>1, <1>2 DEF IInv, Distinct
<1>4. \A r \in pending : r.method \in Sends => r.job \in unsure'
  BY <1>1, <1>3 DEF IInv, NoneLeftBehind
<1>5. CASE method = "sessions.list"
  <2>1. number \notin unsure => Clear(taken, fn)
    BY <1>1, <1>5, BeforeTheRequest DEF Sends
  <2>2. CASE GatewayFails
    BY <1>1, <1>4, <2>1, <2>2, SessionFailureKeeps DEF IInv, TypeOK, Reading
  <2>3. CASE /\ Closed /\ pc' = "choose"
             /\ UNCHANGED <<jobs, fn, method, key, sent, outcome, pending, up, taken>>
    <3>1. Lands
      BY <1>1, <2>1, <2>3 DEF Lands, GoesOn, Clear, number, job
    <3>2. TypeOK'
      BY <1>1, <2>3, <3>1, LandTypes DEF IInv, TypeOK, Closed
    <3>3. Placed'
      BY <1>1, <1>5, <2>3 DEF IInv, Placed, number
    <3>4. OneCopy'
      BY <1>1, <2>3 DEF IInv, OneCopy
    <3> QED
      BY <1>1, <1>4, <2>3, <3>1, <3>2, <3>3, <3>4, LandKeeps DEF Closed
  <2> QED
    BY <1>5, <2>2, <2>3 DEF ReadAnswer
<1>6. CASE method # "sessions.list"
  <2>1. /\ Closed /\ SendReturns(TRUE)
        /\ UNCHANGED <<jobs, sent, listed, pending, up, taken>>
    BY <1>6 DEF ReadAnswer
  <2>2. method \in Sends /\ fn \in {"session", "media"}
    BY <1>1, <1>6 DEF IInv, TypeOK, Placed
  <2>3. \E t \in taken' : t.job = number
                          /\ t.to = IF fn = "media" THEN "channel" ELSE "session"
    BY <1>1, <1>2, <2>1, <2>2 DEF IInv, AnswerTells, TookFor, To, Placed
  <2>4. number \notin unsure' /\ fn = "media" /\ job.kind = "push"
            => Clear(taken', "session")
    BY <1>1, <2>1 DEF IInv, TakenWhenServed, Served, Clear, number, job
  <2>5. Lands /\ LandsTyped
    BY <1>1, <2>1, <2>2, <2>3, <2>4, SuccessLands
  <2>6. TypeOK'
    BY <1>1, <2>1, <2>5, LandTypes DEF IInv, TypeOK, Closed, LandsTyped
  <2>7. Placed'
    BY <1>1, <2>1, <2>5 DEF IInv, Placed, LandsTyped, number, Sends
  <2>8. OneCopy'
    BY <1>1, <2>1 DEF IInv, OneCopy
  <2> QED
    BY <1>1, <1>4, <2>1, <2>5, <2>6, <2>7, <2>8, LandKeeps DEF Closed
<1> QED
  BY <1>5, <1>6

LEMMA ListFailsKeeps ==
    ASSUME IInv, pc \in {"choose", "clilist"}, ListFails,
           UNCHANGED <<jobs, sent, req, unsure, wire, alive, pending, taken>>
    PROVE  IInv'
<1>1. /\ pc # "idle" /\ fn \in {"list", "session"}
      /\ number \notin unsure => Clear(taken, fn)
      /\ \A r \in pending : r.method \in Sends => r.job \in unsure
  BY BeforeTheRequest DEF IInv, TypeOK, Placed, Sends
<1>2. Lands /\ LandsTyped
  BY <1>1, ListFailureLands
<1>3. TypeOK'
  BY <1>1, <1>2, LandTypes DEF IInv, TypeOK, LandsTyped
<1>4. Placed'
  BY <1>1, <1>2 DEF IInv, Placed, LandsTyped, number, Sends
<1>5. OneCopy'
  BY DEF IInv, OneCopy
<1> QED
  BY <1>1, <1>2, <1>3, <1>4, <1>5, LandKeeps

\* What Choose does, whatever the list holds.
LEMMA ChooseCases ==
    ASSUME IInv, Choose
    PROVE  \/ fn = "session" /\ SessionReturns(FALSE)
           \/ /\ fn = "session" /\ pc' = "clisend"
              /\ UNCHANGED <<fn, method, outcome>>
           \/ fn = "list" /\ job.kind = "push" /\ JobEnds("error")
           \/ fn = "list" /\ job.kind = "push" /\ \E k : Call("media", k)
           \/ fn = "list" /\ \E k : Call("session", k)
           \/ fn = "list" /\ job.kind # "push" /\ ListFails
           \/ fn = "list" /\ job.kind # "push" /\ \E k : Call("media", k)
<1>1. pc = "choose" /\ fn \in {"list", "session"}
      /\ job.kind \in {"push", "notify", "announce"}
  BY JobIsJob DEF Choose, IInv, TypeOK, Placed, Sends
<1>2. CASE fn = "session"
  BY <1>2 DEF Choose
<1>3. CASE fn = "list" /\ job.kind = "push"
  <2> DEFINE s == ResolvePushSession(listed)
  <2>1. (CASE s = NoSession -> JobEnds("error")
           [] s # NoSession /\ job.image /\ HasTarget(s.key) -> Call("media", s.key)
           [] OTHER -> Call("session", s.key))
    BY <1>3 DEF Choose
  <2>2. CASE s = NoSession
    BY <1>3, <2>1, <2>2
  <2>3. CASE s # NoSession /\ job.image /\ HasTarget(s.key)
    BY <1>3, <2>1, <2>3
  <2>4. CASE s # NoSession /\ ~(job.image /\ HasTarget(s.key))
    BY <1>3, <2>1, <2>4
  <2> QED
    BY <2>2, <2>3, <2>4
<1>4. CASE fn = "list" /\ job.kind # "push"
  <2> DEFINE s == FindMostRecentDeliverableSession(listed)
  <2>1. (CASE s = NoSession -> ListFails
           [] s # NoSession /\ job.kind = "notify" -> Call("session", s.key)
           [] s # NoSession /\ job.kind = "announce" -> Call("media", s.key))
    BY <1>4 DEF Choose
  <2>2. CASE s = NoSession
    BY <1>4, <2>1, <2>2
  <2>3. CASE s # NoSession /\ job.kind = "notify"
    BY <1>4, <2>1, <2>3
  <2>4. CASE s # NoSession /\ job.kind = "announce"
    BY <1>4, <2>1, <2>4
  <2> QED
    BY <1>1, <1>4, <2>2, <2>3, <2>4
<1> QED
  BY <1>1, <1>2, <1>3, <1>4

LEMMA ChooseKeeps == ASSUME IInv, Choose PROVE IInv'
<1>1. /\ pc = "choose"
      /\ UNCHANGED <<jobs, sent, req, unsure, wire, alive, pending, taken>>
  BY DEF Choose, server
<1>2. /\ number \notin unsure' => Clear(taken', fn)
      /\ \A r \in pending : r.method \in Sends => r.job \in unsure'
      /\ OneCopy' /\ TypeOK /\ Placed
  BY <1>1, BeforeTheRequest DEF IInv, OneCopy, Placed, Sends
<1>3. CASE fn = "session" /\ SessionReturns(FALSE)
  <2>1. ListFails
    BY <1>3 DEF ListFails
  <2> QED
    BY <1>1, <2>1, ListFailsKeeps
<1>4. CASE fn = "list" /\ job.kind # "push" /\ ListFails
  BY <1>1, <1>4, ListFailsKeeps
<1>5. CASE fn = "session" /\ pc' = "clisend" /\ UNCHANGED <<fn, method, outcome>>
  <2>1. Lands
    BY <1>2, <1>5 DEF Lands, GoesOn
  <2>2. TypeOK' /\ Placed'
    BY <1>1, <1>2, <1>5, <2>1, LandTypes DEF TypeOK, Placed, number
  <2> QED
    BY <1>1, <1>2, <2>1, <2>2, LandKeeps
<1>6. ASSUME fn = "list",
             \/ job.kind = "push" /\ JobEnds("error")
             \/ \E k : Call("session", k)
             \/ \E k : Call("media", k)
      PROVE  IInv'
  <2>1. \A f : number \notin unsure' => Clear(taken', f)
    BY <1>2, <1>6 DEF Clear
  <2>2. Lands /\ LandsTyped
    BY <1>1, <1>6, <2>1, JobEndsEnds, CallGoesOn DEF Lands, LandsTyped, EndsInError, Ends
  <2>3. TypeOK'
    BY <1>1, <1>2, <2>2, LandTypes DEF TypeOK, LandsTyped
  <2>4. Placed'
    BY <1>1, <1>2, <2>2 DEF Placed, LandsTyped, number, Sends
  <2> QED
    BY <1>1, <1>2, <2>2, <2>3, <2>4, LandKeeps
<1> QED
  BY <1>3, <1>4, <1>5, <1>6, ChooseCases

LEMMA CliListKeeps == ASSUME IInv, CliList \/ CliListFails PROVE IInv'
<1>1. CASE CliList
  <2>1. /\ pc = "clilist" /\ pc' = "choose"
        /\ UNCHANGED <<jobs, fn, method, sent, req, unsure, outcome, wire, alive, pending, taken>>
    BY <1>1 DEF CliList, server
  <2>2. /\ number \notin unsure' => Clear(taken', fn)
        /\ \A r \in pending : r.method \in Sends => r.job \in unsure'
        /\ OneCopy'
    BY <2>1, BeforeTheRequest DEF IInv, OneCopy, Placed, Sends
  <2>3. Lands
    BY <2>1, <2>2 DEF Lands, GoesOn
  <2>4. TypeOK' /\ Placed'
    BY <2>1, <2>3, LandTypes DEF IInv, TypeOK, Placed, number
  <2> QED
    BY <2>1, <2>2, <2>3, <2>4, LandKeeps
<1>2. CASE CliListFails
  BY <1>2, ListFailsKeeps DEF CliListFails, server
<1> QED
  BY <1>1, <1>2

\* A copy handed over for the job under way, that was not to be taken yet, is
\* the only one of its kind.
LEMMA FirstCopy ==
    ASSUME IInv, number \notin unsure => Clear(taken, fn),
           jobs' = jobs, unsure \subseteq unsure',
           NEW copy, taken' \subseteq taken \union {copy}, copy.job = number,
           copy.to = IF fn = "media" THEN "channel" ELSE "session"
    PROVE  OneCopy'
<1> SUFFICES ASSUME NEW t \in taken', NEW u \in taken', t.job = u.job, t.job \notin unsure',
                    t.to = u.to \/ jobs[t.job].kind # "push"
             PROVE  t = u
  BY DEF OneCopy
<1>1. CASE t \in taken /\ u \in taken
  BY <1>1 DEF IInv, OneCopy
<1>2. CASE t.job = number /\ t \in taken /\ u = copy
  BY <1>2 DEF Clear, job
<1>3. CASE u.job = number /\ u \in taken /\ t = copy
  BY <1>3 DEF Clear, job
<1> QED
  BY <1>1, <1>2, <1>3

\* The CLI takes the message, or may have, or does not.
LEMMA CliSendKeeps == ASSUME IInv, CliSend \/ CliSendFails PROVE IInv'
<1>1. /\ pc = "clisend" /\ pc # "idle"
      /\ UNCHANGED <<jobs, sent, req, wire, alive, pending>>
  BY DEF CliSend, CliSendFails
<1>2. /\ fn \in {"session", "media"}
      /\ number \notin unsure => Clear(taken, fn)
      /\ \A r \in pending : r.method \in Sends => r.job \in unsure
      /\ TypeOK /\ Placed /\ number \in 1..number /\ number' = number
  BY <1>1, BeforeTheRequest, JobIsJob DEF IInv, TypeOK, Placed, number
<1>3. PICK copy :
        /\ copy.job = number /\ copy.to = IF fn = "media" THEN "channel" ELSE "session"
        /\ \/ taken' = taken /\ unsure' = unsure /\ SendReturns(FALSE)
           \/ taken' = taken \union {copy} /\ unsure' = unsure /\ SendReturns(TRUE)
           \/ taken' = taken \union {copy} /\ unsure' = unsure \union {number}
              /\ SendReturns(FALSE)
  <2> DEFINE c == [job |-> number, to |-> To(Handed), by |-> "cli", key |-> key]
  <2>1. c.job = number /\ c.to = IF fn = "media" THEN "channel" ELSE "session"
    BY DEF To, Handed
  <2>2. \/ taken' = taken /\ unsure' = unsure /\ SendReturns(FALSE)
        \/ taken' = taken \union {c} /\ unsure' = unsure /\ SendReturns(TRUE)
        \/ taken' = taken \union {c} /\ unsure' = unsure \union {number} /\ SendReturns(FALSE)
    BY DEF CliSend, CliSendFails, Took
  <2> QED
    BY <2>1, <2>2
<1>4. Lands /\ LandsTyped
  <2>1. CASE SendReturns(FALSE) /\ (number \notin unsure' => Clear(taken', fn))
    BY <1>1, <1>2, <2>1, FailureLands
  <2>2. CASE taken' = taken \union {copy} /\ unsure' = unsure /\ SendReturns(TRUE)
    <3>1. \E t \in taken' : t.job = number
                            /\ t.to = IF fn = "media" THEN "channel" ELSE "session"
      BY <1>3, <2>2
    <3>2. number \notin unsure' /\ fn = "media" /\ job.kind = "push"
              => Clear(taken', "session")
      BY <1>2, <1>3, <2>2 DEF Clear
    <3> QED
      BY <1>1, <1>2, <2>2, <3>1, <3>2, SuccessLands
  <2> QED
    BY <1>2, <1>3, <2>1, <2>2
<1>5. OneCopy'
  BY <1>1, <1>2, <1>3, FirstCopy
<1>6. /\ unsure \subseteq unsure' /\ unsure' \subseteq 1..number /\ taken \subseteq taken'
      /\ \A t \in taken' : t \in taken
             \/ (t.job = number /\ t.to \in {"session", "channel"})
  BY <1>2, <1>3 DEF TypeOK
<1>7. TypeOK'
  BY <1>1, <1>4, <1>6, LandTypes DEF LandsTyped
<1>8. Placed'
  BY <1>1, <1>2, <1>4 DEF Placed, LandsTyped, Sends
<1> QED
  BY <1>1, <1>2, <1>4, <1>5, <1>6, <1>7, <1>8, LandKeeps

\* The CLI does not return: the job stays where it is, in doubt if the CLI has
\* its message.
LEMMA CliHangsKeeps == ASSUME IInv, CliHangs PROVE IInv'
<1> DEFINE c == [job |-> number, to |-> To(Handed), by |-> "cli", key |-> key]
<1>1. /\ pc \in {"clilist", "clisend"} /\ pc # "idle" /\ pc' = "hung"
      /\ UNCHANGED <<jobs, fn, method, sent, req, outcome, wire, alive, pending>>
  BY DEF CliHangs
<1>2. /\ number \notin unsure => Clear(taken, fn)
      /\ \A r \in pending : r.method \in Sends => r.job \in unsure
      /\ TypeOK /\ Placed /\ number \in 1..number /\ number' = number
  BY <1>1, BeforeTheRequest, JobIsJob DEF IInv, TypeOK, Placed, number, Sends
<1>3. c.job = number /\ c.to \in {"session", "channel"}
  BY DEF To, Handed
<1>4. \/ taken' = taken /\ (unsure' = unsure \/ unsure' = unsure \union {number})
      \/ taken' = taken \union {c} /\ unsure' = unsure \union {number}
  BY DEF CliHangs, Took
<1> HIDE DEF c
<1>5. /\ unsure \subseteq unsure' /\ unsure' \subseteq 1..number /\ taken \subseteq taken'
      /\ \A t \in taken' : t \in taken
             \/ (t.job = number /\ t.to \in {"session", "channel"})
  BY <1>2, <1>3, <1>4 DEF TypeOK
<1>6. Lands
  <2>1. number \notin unsure' => Clear(taken', fn')
    BY <1>1, <1>2, <1>4
  <2> QED
    BY <1>1, <2>1 DEF Lands, GoesOn
<1>7. OneCopy'
  <2> SUFFICES ASSUME NEW t \in taken', NEW u \in taken', t.job = u.job,
                      t.job \notin unsure', t.to = u.to \/ jobs[t.job].kind # "push"
               PROVE  t = u
    BY <1>1 DEF OneCopy
  <2>1. t \in taken /\ u \in taken
    BY <1>3, <1>4
  <2> QED
    BY <1>5, <2>1 DEF IInv, OneCopy
<1>8. TypeOK'
  BY <1>1, <1>2, <1>5, <1>6, LandTypes DEF TypeOK
<1>9. Placed'
  BY <1>1, <1>2 DEF Placed
<1> QED
  BY <1>1, <1>2, <1>5, <1>6, <1>7, <1>8, <1>9, LandKeeps

\* A new job, of which nothing was asked or taken.
LEMMA BeginKeeps == ASSUME IInv, NEW j \in Jobs, Begin(j) PROVE IInv'
<1>1. /\ pc = "idle" /\ number \in Nat /\ number < MaxJobs /\ jobs' = Append(jobs, j)
      /\ UNCHANGED <<sent, req, wire, alive, pending, taken, unsure, outcome>>
      /\ pc' = "dial"
  <2>1. /\ pc = "idle" /\ number < MaxJobs /\ jobs' = Append(jobs, j)
        /\ UNCHANGED <<sent, req, wire, alive, pending, taken, unsure, outcome>>
    BY DEF Begin, server
  <2>2. pc' = "dial"
    BY DEF Begin
  <2>3. number \in Nat
    BY DEF IInv, TypeOK, number
  <2> QED
    BY <2>1, <2>2, <2>3
<1>2. /\ number' = number + 1 /\ jobs' \in Seq(Jobs)
      /\ \A n \in 1..number : jobs'[n] = jobs[n]
      /\ jobs'[number'] = j
  BY <1>1 DEF IInv, TypeOK, number
<1>3. /\ fn' \in {"list", "session", "media"}
      /\ fn' = "list" => method' = "sessions.list"
      /\ fn' = "session" => method' \in {"agent", "chat.send"}
      /\ fn' = "media" => method' = "send"
  <2> DEFINE channel == ParseSessionKey(j.key).channel
             f == CASE j.kind # "notify" \/ j.key = <<>> -> "list"
                    [] j.kind = "notify" /\ j.key # <<>> /\ channel # "" -> "session"
                    [] j.kind = "notify" /\ j.key # <<>> /\ channel = "" -> "media"
  <2>1. f \in {"list", "session", "media"}
    OBVIOUS
  <2>2. fn' = f /\ method' = MethodOf(f, j, j.key)
    BY DEF Begin
  <2> HIDE DEF f
  <2> QED
    BY <2>1, <2>2 DEF MethodOf
<1>4. TypeOK'
  <2>1. number' <= MaxJobs /\ 1..number \subseteq 1..number'
    BY <1>1, <1>2, BoundsAssumption
  <2>2. /\ \A r \in pending' : /\ r.id \in 1..sent'
                               /\ r.method \in {"connect", "sessions.list"} \union Sends
                               /\ r.job \in 1..number'
        /\ \A t \in taken' : t.job \in 1..number' /\ t.to \in {"session", "channel"}
        /\ unsure' \subseteq 1..number'
    BY <1>1, <2>1 DEF IInv, TypeOK
  <2>3. /\ fn' \in {"none", "list", "session", "media"}
        /\ method' \in {"none", "sessions.list"} \union Sends
        /\ pc' \in Places
    BY <1>1, <1>3 DEF Sends, Places
  <2> QED
    BY <1>1, <1>2, <2>1, <2>2, <2>3 DEF IInv, TypeOK
<1>5. Placed'
  BY <1>1, <1>2, <1>3 DEF IInv, Placed
<1>6. Distinct' /\ Awaited' /\ AnswerTells'
  BY <1>1 DEF IInv, Distinct, Awaited, AnswerTells, Frames
<1>7. NoneLeftBehind'
  BY <1>1 DEF IInv, NoneLeftBehind
<1>8. TakenWhenServed'
  BY <1>1, <1>2 DEF IInv, TakenWhenServed, Clear, TypeOK
<1>9. OneCopy'
  BY <1>1, <1>2 DEF IInv, OneCopy, TypeOK
<1>10. EndedInOrder'
  BY <1>1, <1>2, BoundsAssumption DEF IInv, EndedInOrder, Ended
<1>11. outcome[number'] = "none"
  BY <1>1, <1>2, BoundsAssumption DEF IInv, EndedInOrder, Ended
<1>12. SuccessWasTaken' /\ ErrorWasNotTaken'
  <2>1. \A n \in 1..Len(jobs') : n \in 1..Len(jobs) \/ n = number'
    BY <1>1, <1>2 DEF number
  <2>2. \A n \in 1..Len(jobs) : jobs'[n] = jobs[n]
    BY <1>2 DEF number
  <2> QED
    BY <1>1, <1>11, <2>1, <2>2 DEF IInv, SuccessWasTaken, ErrorWasNotTaken, TookFor
<1> QED
  BY <1>4, <1>5, <1>6, <1>7, <1>8, <1>9, <1>10, <1>12 DEF IInv

LEMMA DialKeeps == ASSUME IInv, Dial PROVE IInv'
<1>1. /\ pc = "dial" /\ pc' = "challenge" /\ wire' = <<>> /\ alive' = TRUE
      /\ UNCHANGED <<jobs, fn, method, sent, req, unsure, outcome, pending, taken>>
      /\ number' = number
  BY DEF Dial, server, number
<1>2. wire' \in Seq(FrameTypes) /\ Frames' = {}
  BY <1>1, ClosedHasNoFrames
<1>3. TypeOK' /\ Placed'
  BY <1>1, <1>2 DEF IInv, TypeOK, Placed, Places
<1>4. Distinct' /\ Awaited' /\ AnswerTells' /\ NoneLeftBehind'
  BY <1>1, <1>2 DEF IInv, Distinct, Awaited, AnswerTells, NoneLeftBehind
<1>5. TakenWhenServed'
  BY <1>1 DEF IInv, TakenWhenServed, Served, Clear, job
<1>6. OneCopy' /\ EndedInOrder' /\ SuccessWasTaken' /\ ErrorWasNotTaken'
  BY <1>1 DEF IInv, OneCopy, EndedInOrder, Ended, SuccessWasTaken, ErrorWasNotTaken,
              TookFor
<1> QED
  BY <1>3, <1>4, <1>5, <1>6 DEF IInv

\* A request is written under an id that no frame and no request has.
LEMMA WriteKeeps ==
    ASSUME IInv, wire # <<>>, wire' = Tail(wire), NEW m, Write(m),
           \/ pc = "challenge" /\ pc' = "connect" /\ m = "connect"
           \/ pc = "connect" /\ pc' = "method" /\ m = method,
           UNCHANGED <<jobs, fn, method, key, unsure, outcome, alive, taken>>
    PROVE  IInv'
<1> DEFINE new == [id |-> sent', method |-> m, job |-> number, key |-> key]
<1>1. /\ sent \in Nat /\ sent' = sent + 1 /\ req' = sent' /\ number' = number
      /\ pending' \in {pending, pending \union {new}}
      /\ new.id = sent' /\ new.method = m /\ new.job = number
  BY DEF Write, IInv, TypeOK, number
<1> HIDE DEF new
<1>2. wire' \in Seq(FrameTypes) /\ Frames' \subseteq Frames
  BY TailLosesHead DEF IInv, TypeOK
<1>3. /\ \A f \in Frames : f.id \in 0..sent /\ \A r \in pending : r.id # f.id
      /\ \A r \in pending : r.id \in 1..sent
      /\ method \in {"sessions.list"} \union Sends
      /\ number \in 1..number
  BY JobIsJob DEF IInv, Distinct, TypeOK, Placed, Sends
<1>4. TypeOK'
  <2>1. \A r \in pending' : /\ r.id \in 1..sent'
                            /\ r.method \in {"connect", "sessions.list"} \union Sends
                            /\ r.job \in 1..number'
    BY <1>1, <1>3 DEF IInv, TypeOK
  <2> QED
    BY <1>1, <1>2, <2>1 DEF IInv, TypeOK, Places
<1>5. Placed'
  BY <1>1 DEF IInv, Placed
<1>6. Distinct' /\ Awaited'
  BY <1>1, <1>2, <1>3 DEF IInv, Distinct, Awaited
<1>7. AnswerTells'
  BY <1>1, <1>2, <1>3 DEF IInv, AnswerTells
<1>8. NoneLeftBehind'
  BY <1>1, <1>3 DEF IInv, NoneLeftBehind, Sends
<1>9. TakenWhenServed'
  BY <1>1, BeforeTheRequest DEF IInv, TakenWhenServed, Served, Clear, job
<1>10. OneCopy' /\ EndedInOrder' /\ SuccessWasTaken' /\ ErrorWasNotTaken'
  BY <1>1 DEF IInv, OneCopy, EndedInOrder, Ended, SuccessWasTaken, ErrorWasNotTaken,
              TookFor
<1> QED
  BY <1>4, <1>5, <1>6, <1>7, <1>8, <1>9, <1>10 DEF IInv

-----------------------------------------------------------------------------
(***************************************************************************)
(* The steps of the gateway.                                               *)
(***************************************************************************)

\* A request is served or refused: the answer goes out if it is still awaited.
LEMMA AnswerArrives ==
    ASSUME IInv, NEW r \in pending, NEW t \in {"res", "err"}, NEW b \in BOOLEAN,
           pending' = pending \ {r}, Answer(r, [type |-> t, id |-> r.id, body |-> b]),
           UNCHANGED <<jobs, fn, method, pc, sent, req, unsure, outcome, alive>>,
           \A u \in taken' : u \in taken \/ (u.job = r.job /\ u.to \in {"session", "channel"}),
           taken \subseteq taken'
    PROVE  /\ TypeOK' /\ Placed' /\ Distinct' /\ Awaited' /\ NoneLeftBehind'
           /\ \A f \in Frames' : f \in Frames \/ (f.id = r.id /\ f.type = t)
           /\ \A f \in Frames : f.id # r.id
           /\ \A s \in pending' : s.id # r.id
<1> DEFINE e == [type |-> t, id |-> r.id, body |-> b]
<1>0. TypeOK /\ Placed /\ Distinct /\ Awaited /\ NoneLeftBehind /\ number' = number
  BY DEF IInv, number
<1>1. r.id \in 1..sent /\ r.job \in 1..number /\ sent \in Nat
  BY <1>0 DEF TypeOK
<1>2. e \in FrameTypes /\ e.id = r.id /\ e.type = t
  BY <1>1 DEF FrameTypes
<1>3. wire' \in Seq(FrameTypes) /\ Frames' \subseteq Frames \union {e}
  <2>1. CASE wire' = Append(wire, e)
    <3> HIDE DEF e
    <3> QED
      BY <1>0, <1>2, <2>1, AppendAddsOne DEF TypeOK
  <2>2. CASE wire' = wire
    BY <1>0, <2>2 DEF TypeOK, Frames
  <2> QED
    BY <2>1, <2>2 DEF Answer
<1> HIDE DEF e
<1>4. TypeOK' /\ Placed'
  <2>1. \A u \in taken' : u.job \in 1..number' /\ u.to \in {"session", "channel"}
    BY <1>0, <1>1 DEF TypeOK
  <2> QED
    BY <1>0, <1>3, <2>1 DEF TypeOK, Placed
<1>5. /\ \A f \in Frames' : f \in Frames \/ (f.id = r.id /\ f.type = t)
      /\ \A f \in Frames : f.id # r.id
      /\ \A s \in pending' : s.id # r.id
  BY <1>0, <1>2, <1>3 DEF Distinct
<1>6. Distinct'
  <2>1. \A f \in Frames' : f.id \in 0..sent' /\ \A s \in pending' : s.id # f.id
    BY <1>0, <1>1, <1>5 DEF Distinct
  <2> QED
    BY <1>0, <2>1 DEF Distinct
<1>7. Awaited' /\ NoneLeftBehind'
  BY <1>0 DEF Awaited, NoneLeftBehind
<1> QED
  BY <1>4, <1>5, <1>6, <1>7

LEMMA RefuseKeeps == ASSUME IInv, Refuse PROVE IInv'
<1>1. PICK r \in pending :
        /\ pending' = pending \ {r}
        /\ Answer(r, [type |-> "err", id |-> r.id, body |-> FALSE])
        /\ UNCHANGED <<client, alive, up, taken>>
  BY DEF Refuse
<1>2. /\ UNCHANGED <<jobs, fn, method, pc, sent, req, unsure, outcome, alive, taken>>
      /\ number' = number /\ job' = job
  BY <1>1 DEF client, number, job
<1>3. /\ TypeOK' /\ Placed' /\ Distinct' /\ Awaited' /\ NoneLeftBehind'
      /\ \A f \in Frames' : f \in Frames \/ (f.id = r.id /\ f.type = "err")
      /\ \A f \in Frames : f.id # r.id
      /\ \A s \in pending' : s.id # r.id
  BY <1>1, <1>2, AnswerArrives
<1>4. AnswerTells'
  BY <1>2, <1>3 DEF IInv, AnswerTells, TookFor, To
<1>5. TakenWhenServed'
  BY <1>1, <1>2, <1>3 DEF IInv, TakenWhenServed, Served, Clear
<1>6. OneCopy' /\ EndedInOrder' /\ SuccessWasTaken' /\ ErrorWasNotTaken'
  BY <1>2 DEF IInv, OneCopy, EndedInOrder, Ended, SuccessWasTaken, ErrorWasNotTaken, TookFor
<1> QED
  BY <1>3, <1>4, <1>5, <1>6 DEF IInv

\* The message is taken: of a job that is sure, the one under way, which has
\* not been taken, by the request it awaits.
LEMMA ServeKeeps == ASSUME IInv, Serve PROVE IInv'
<1>1. PICK r \in pending, body \in BOOLEAN :
        /\ pending' = pending \ {r}
        /\ IF r.method \in Sends THEN Took(r.job, r.method, "gateway", r.key)
           ELSE UNCHANGED taken
        /\ Answer(r, [type |-> "res", id |-> r.id, body |-> body])
        /\ UNCHANGED <<client, alive, up>>
  BY DEF Serve
<1>2. /\ UNCHANGED <<jobs, fn, method, pc, sent, req, unsure, outcome, alive>>
      /\ number' = number /\ job' = job
  BY <1>1 DEF client, number, job
<1>3. PICK copy :
        /\ copy.job = r.job /\ copy.to = To(r.method)
        /\ r.method \in Sends => taken' = taken \union {copy}
        /\ r.method \notin Sends => taken' = taken
  <2> DEFINE c == [job |-> r.job, to |-> To(r.method), by |-> "gateway", key |-> r.key]
  <2>1. c.job = r.job /\ c.to = To(r.method)
    OBVIOUS
  <2>2. /\ r.method \in Sends => taken' = taken \union {c}
        /\ r.method \notin Sends => taken' = taken
    BY <1>1 DEF Took
  <2> QED
    BY <2>1, <2>2
<1>4. /\ TypeOK' /\ Placed' /\ Distinct' /\ Awaited' /\ NoneLeftBehind'
      /\ \A f \in Frames' : f \in Frames \/ (f.id = r.id /\ f.type = "res")
      /\ \A f \in Frames : f.id # r.id
      /\ \A s \in pending' : s.id # r.id
  <2>1. \A u \in taken' : u \in taken \/ (u.job = r.job /\ u.to \in {"session", "channel"})
    BY <1>3 DEF To
  <2> QED
    BY <1>1, <1>2, <1>3, <2>1, AnswerArrives
<1>5. AnswerTells'
  <2> SUFFICES ASSUME NEW f \in Frames', pc = "method", method \in Sends, f.id = req,
                      f.type = "res"
               PROVE  TookFor(number, To(method))'
    BY <1>2 DEF AnswerTells
  <2>1. CASE f \in Frames
    BY <1>2, <1>3, <2>1 DEF IInv, AnswerTells, TookFor, To
  <2>2. CASE r.id = req
    BY <1>2, <1>3, <2>2 DEF IInv, Awaited, TookFor, To
  <2> QED
    BY <1>4, <2>1, <2>2
\* Of a sure job only the request that is awaited is served.
<1>6. r.method \in Sends /\ r.job \notin unsure =>
        /\ r.job = number /\ pc = "method" /\ r.id = req /\ r.method = method
        /\ Clear(taken, fn)
        /\ copy.to = IF fn = "media" THEN "channel" ELSE "session"
  <2> SUFFICES ASSUME r.method \in Sends, r.job \notin unsure
               PROVE  /\ r.job = number /\ pc = "method" /\ r.id = req
                      /\ r.method = method /\ Clear(taken, fn)
                      /\ copy.to = IF fn = "media" THEN "channel" ELSE "session"
    OBVIOUS
  <2>1. r.job = number /\ pc = "method" /\ r.id = req
    BY DEF IInv, NoneLeftBehind
  <2>2. r.method = method
    BY <2>1 DEF IInv, Awaited
  <2>3. Clear(taken, fn)
    BY <2>1 DEF IInv, TakenWhenServed, Served
  <2>4. copy.to = IF fn = "media" THEN "channel" ELSE "session"
    BY <1>3, <2>1, <2>2 DEF IInv, TypeOK, Placed, To, Sends
  <2> QED
    BY <2>1, <2>2, <2>3, <2>4
<1>7. TakenWhenServed'
  <2> SUFFICES ASSUME pc # "idle", number \notin unsure
               PROVE  (Clear(taken, fn) \/ Served)'
    BY <1>2 DEF TakenWhenServed
  <2>1. CASE r.method \in Sends /\ r.job = number
    BY <1>2, <1>3, <1>4, <1>6, <2>1 DEF Served, Clear
  <2>2. CASE ~(r.method \in Sends /\ r.job = number)
    <3>1. \A u \in taken' : u.job = number => u \in taken
      BY <1>3, <2>2
    <3>2. CASE Clear(taken, fn)
      BY <1>2, <3>1, <3>2 DEF Clear
    <3>3. CASE Served
      BY <1>1, <1>2, <1>4, <3>1, <3>3 DEF Served, Clear
    <3> QED
      BY <3>2, <3>3 DEF IInv, TakenWhenServed
  <2> QED
    BY <2>1, <2>2
<1>8. OneCopy'
  <2>1. CASE r.method \in Sends /\ r.job \notin unsure
    BY <1>2, <1>3, <1>6, <2>1, FirstCopy
  <2>2. CASE ~(r.method \in Sends /\ r.job \notin unsure)
    BY <1>2, <1>3, <2>2 DEF IInv, OneCopy
  <2> QED
    BY <2>1, <2>2
<1>9. EndedInOrder' /\ SuccessWasTaken'
  BY <1>2, <1>3 DEF IInv, EndedInOrder, Ended, SuccessWasTaken, TookFor
<1>10. ErrorWasNotTaken'
  <2> SUFFICES ASSUME NEW n \in 1..Len(jobs), outcome[n] = "error", n \notin unsure,
                      NEW u \in taken', u.job = n
               PROVE  jobs[n].kind = "push" /\ u.to = "channel"
    BY <1>2 DEF ErrorWasNotTaken
  <2>1. n \in Ended
    BY BoundsAssumption DEF IInv, TypeOK, number, Ended
  <2>2. ~(r.method \in Sends /\ r.job = n)
    BY <1>6, <2>1 DEF IInv, EndedInOrder, TypeOK
  <2>3. u \in taken
    BY <1>3, <2>2
  <2> QED
    BY <2>3 DEF IInv, ErrorWasNotTaken
<1> QED
  BY <1>4, <1>5, <1>7, <1>8, <1>9, <1>10 DEF IInv

-----------------------------------------------------------------------------
(***************************************************************************)
(* Every step keeps the invariant.                                         *)
(***************************************************************************)

LEMMA InitIInv == Init => IInv
<1> SUFFICES ASSUME Init PROVE IInv
  OBVIOUS
<1>1. jobs = <<>> /\ number = 0 /\ Frames = {}
  BY DEF Init, number, Frames
<1>2. TypeOK
  <2>1. jobs \in Seq(Jobs) /\ wire \in Seq(FrameTypes)
    BY DEF Init
  <2>2. outcome \in [1..MaxJobs -> {"none", "ok", "error"}]
    BY DEF Init
  <2>3. alive \in BOOLEAN /\ pc \in Places
    BY DEF Init, Places
  <2> QED
    BY <1>1, <2>1, <2>2, <2>3, BoundsAssumption DEF Init, TypeOK
<1>3. EndedInOrder /\ SuccessWasTaken /\ ErrorWasNotTaken
  BY <1>1 DEF Init, EndedInOrder, Ended, SuccessWasTaken, ErrorWasNotTaken
<1> QED
  BY <1>1, <1>2, <1>3 DEF Init, IInv, Placed, Distinct, Awaited, AnswerTells,
     NoneLeftBehind, TakenWhenServed, OneCopy

\* The steps that leave the listener where it is.
LEMMA QuietStepsKeep ==
    ASSUME IInv,
           \/ ReadSkips \/ Tick \/ Challenge \/ Chatter \/ GatewayStops \/ GatewayStarts
           \/ UNCHANGED vars
    PROVE  IInv'
<1>0. wire \in Seq(FrameTypes) /\ alive \in BOOLEAN
  BY DEF IInv, TypeOK
<1>1. CASE ReadSkips
  <2>1. wire # <<>> /\ wire' = Tail(wire)
    BY <1>1 DEF ReadSkips
  <2> QED
    BY <1>0, <1>1, <2>1, TailLosesHead, QuietKeeps DEF ReadSkips, server
<1>2. ASSUME NEW t \in {"challenge", "event", "res"}, client' = client,
             wire' = Append(wire, [type |-> t, id |-> 0, body |-> TRUE]),
             UNCHANGED <<alive, server>>
      PROVE  IInv'
  <2> DEFINE e == [type |-> t, id |-> 0, body |-> TRUE]
  <2>1. e \in FrameTypes /\ e.id = 0 /\ wire' = Append(wire, e)
    BY <1>2 DEF FrameTypes
  <2> HIDE DEF e
  <2>2. wire' \in Seq(FrameTypes) /\ Frames' \subseteq Frames \union {e}
    BY <1>0, <2>1, AppendAddsOne
  <2> QED
    BY <1>0, <1>2, <2>1, <2>2, QuietKeeps DEF client, server
<1>3. CASE Challenge \/ Chatter
  BY <1>2, <1>3 DEF Challenge, Chatter
<1>4. ASSUME Tick \/ GatewayStops \/ GatewayStarts \/ UNCHANGED vars PROVE IInv'
  <2>1. /\ UNCHANGED <<jobs, fn, method, pc, sent, req, unsure, outcome, taken, wire>>
        /\ pending' \subseteq pending /\ alive' \in BOOLEAN
    BY <1>0, <1>4 DEF Tick, GatewayStops, GatewayStarts, vars, client, server
  <2>2. wire' \in Seq(FrameTypes) /\ Frames' = Frames
    BY <1>0, <2>1 DEF Frames
  <2> QED
    BY <2>1, <2>2, QuietKeeps
<1> QED
  BY <1>1, <1>3, <1>4

LEMMA StepKeepsIInv == ASSUME IInv, [Next]_vars PROVE IInv'
<1>1. ASSUME NEW j \in Jobs, Begin(j) PROVE IInv'
  BY <1>1, BeginKeeps
<1>2. CASE Dial \/ DialFails
  BY <1>2, DialKeeps, DialFailsKeeps
<1>3. CASE Choose \/ CliList \/ CliListFails \/ CliSend \/ CliSendFails \/ CliHangs
  BY <1>3, ChooseKeeps, CliListKeeps, CliSendKeeps, CliHangsKeeps
<1>4. CASE ReadChallenge
  BY <1>4, WriteKeeps DEF ReadChallenge
<1>5. CASE ReadConnected
  BY <1>5, WriteKeeps DEF ReadConnected
<1>6. CASE ReadAnswer \/ ReadError \/ ReadFails
  BY <1>6, ReadAnswerKeeps, ReadErrorKeeps, ReadFailsKeeps
<1>7. CASE Serve \/ Refuse
  BY <1>7, ServeKeeps, RefuseKeeps
<1>8. CASE \/ ReadSkips \/ Tick \/ Challenge \/ Chatter \/ GatewayStops \/ GatewayStarts
           \/ UNCHANGED vars
  BY <1>8, QuietStepsKeep
<1> QED
  BY <1>1, <1>2, <1>3, <1>4, <1>5, <1>6, <1>7, <1>8 DEF Next, Client, Reads, Server

LEMMA Invariance == Spec => []IInv
BY InitIInv, StepKeepsIInv, PTL DEF Spec

-----------------------------------------------------------------------------
(***************************************************************************)
(* The theorems.                                                           *)
(***************************************************************************)

\* The variables keep their types, for any jobs, lists, deadlines and faults.
THEOREM TypeCorrect == Spec => []TypeOK
<1>1. IInv => TypeOK
  BY DEF IInv
<1> QED
  BY <1>1, Invariance, PTL

\* A job that reports success was taken where it says.
THEOREM SuccessTheorem == Spec => []SuccessWasTaken
<1>1. IInv => SuccessWasTaken
  BY DEF IInv
<1> QED
  BY <1>1, Invariance, PTL

\* A job that reports an error and was not given up was not taken.
THEOREM ErrorTheorem == Spec => []ErrorWasNotTaken
<1>1. IInv => ErrorWasNotTaken
  BY DEF IInv
<1> QED
  BY <1>1, Invariance, PTL

\* Nobody sees a message twice unless the listener gave up on it unsure.
THEOREM TwiceTheorem == Spec => []TwiceOnlyIfUnsure
<1>1. IInv => TwiceOnlyIfUnsure
  BY DEF IInv, OneCopy, TwiceOnlyIfUnsure, SeenTwice
<1> QED
  BY <1>1, Invariance, PTL

LEMMA NothingLateStep ==
    ASSUME IInv, [Next]_vars, NEW n \in Ended, n \notin unsure,
           NEW t \in taken', t.job = n
    PROVE  t \in taken
<1>1. n < number \/ (n = number /\ pc = "idle")
  BY DEF IInv, EndedInOrder, Ended
<1>2. CASE CliSend \/ CliSendFails \/ CliHangs
  <2>1. pc # "idle"
    BY <1>2 DEF CliSend, CliSendFails, CliHangs
  <2>2. t \in taken \/ t = [job |-> number, to |-> To(Handed), by |-> "cli", key |-> key]
    BY <1>2 DEF CliSend, CliSendFails, CliHangs, Took
  <2>3. t \in taken \/ t.job = number
    BY <2>2
  <2> QED
    BY <1>1, <2>1, <2>3 DEF IInv, TypeOK, number
<1>3. CASE Serve
  <2>1. PICK r \in pending : t \in taken \/ (t.job = r.job /\ r.method \in Sends)
    BY <1>3 DEF Serve, Took
  <2> QED
    BY <1>1, <2>1 DEF IInv, NoneLeftBehind, TypeOK, number
<1>4. ASSUME ~(CliSend \/ CliSendFails \/ CliHangs \/ Serve) PROVE taken' = taken
  BY <1>4 DEF Next, Client, Reads, Server, Begin, Dial, DialFails, Choose, CliList,
     CliListFails, ReadSkips, ReadChallenge, ReadConnected, ReadAnswer, ReadError,
     ReadFails, GatewayFails, Tick, Challenge, Chatter, Refuse, GatewayStops,
     GatewayStarts, vars, server
<1> QED
  BY <1>2, <1>3, <1>4

\* Nothing of a job is taken after it has reported, unless the listener gave up
\* without knowing: an abandoned request is not served behind the back of a
\* job that is over.
NothingLate ==
    [][\A n \in Ended : n \notin unsure =>
           \A t \in taken' : t.job = n => t \in taken]_vars

THEOREM LateTheorem == Spec => NothingLate
<1>1. IInv /\ [Next]_vars =>
        [\A n \in Ended : n \notin unsure =>
            \A t \in taken' : t.job = n => t \in taken]_vars
  BY NothingLateStep
<1> QED
  BY <1>1, Invariance, PTL DEF Spec, NothingLate

-----------------------------------------------------------------------------
(***************************************************************************)
(* The client is a Handover.  Every step but Begin is work on one job n:   *)
(* it takes one copy at most, and n is the job under way if it falls into  *)
(* doubt or reports.                                                       *)
(***************************************************************************)

Reported(n) ==
    \E how \in {"ok", "error"} : outcome' = [outcome EXCEPT ![n] = how]

Work(n) ==
    /\ jobs' = jobs
    /\ taken' = taken \/ \E c : c.job = n /\ taken' = taken \union {c}
    /\ unsure' = unsure \/ (n = number /\ pc # "idle" /\ unsure' = unsure \union {n})
    /\ outcome' = outcome \/ (n = number /\ pc # "idle" /\ Reported(n))

LEMMA ReturnsReport ==
    ASSUME NEW ok \in BOOLEAN, SendReturns(ok) \/ SessionReturns(ok)
    PROVE  outcome' = outcome \/ Reported(number)
BY DEF SendReturns, MediaReturns, SessionReturns, Call, JobEnds, Reported

LEMMA ListFailureReports ==
    ASSUME fn \in {"list", "session"}, ListFails
    PROVE  outcome' = outcome \/ Reported(number)
<1>1. CASE fn = "session"
  <2>1. SessionReturns(FALSE)
    BY <1>1 DEF ListFails
  <2> QED
    BY <2>1, ReturnsReport
<1>2. CASE fn = "list" /\ job.kind = "notify"
  BY <1>2 DEF ListFails, Call
<1>3. CASE fn = "list" /\ job.kind # "notify"
  <2>1. JobEnds("error")
    BY <1>3 DEF ListFails
  <2> QED
    BY <2>1 DEF JobEnds, Reported
<1> QED
  BY <1>1, <1>2, <1>3

LEMMA SessionFailureReportsNot ==
    ASSUME IInv, pc \in {"dial"} \union Reading, GatewayFails
    PROVE  UNCHANGED <<jobs, taken, outcome>>
<1>1. method \in {"sessions.list", "agent", "chat.send", "send"}
  BY DEF IInv, TypeOK, Placed, Sends, Reading
<1> QED
  BY <1>1 DEF GatewayFails

LEMMA ChooseWorks ==
    ASSUME IInv, Choose PROVE Work(number)
<1>1. pc = "choose" /\ UNCHANGED <<jobs, taken, unsure>>
  BY DEF Choose, server
<1>2. outcome' = outcome \/ Reported(number)
  BY ChooseCases, ReturnsReport, ListFailureReports DEF Call, JobEnds, Reported
<1> QED
  BY <1>1, <1>2 DEF Work

LEMMA CliWorks ==
    ASSUME IInv, CliListFails \/ CliSend \/ CliSendFails \/ CliHangs PROVE Work(number)
<1>1. CASE CliListFails
  <2>1. pc = "clilist" /\ fn \in {"list", "session"}
    BY <1>1 DEF CliListFails, IInv, TypeOK, Placed, Sends
  <2> QED
    BY <1>1, <2>1, ListFailureReports DEF CliListFails, server, Work
<1>2. CASE CliSend \/ CliSendFails \/ CliHangs
  <2> DEFINE c == [job |-> number, to |-> To(Handed), by |-> "cli", key |-> key]
  <2>1. /\ pc # "idle" /\ jobs' = jobs
        /\ SendReturns(TRUE) \/ SendReturns(FALSE) \/ outcome' = outcome
    BY <1>2 DEF CliSend, CliSendFails, CliHangs
  <2>2. /\ taken' = taken \/ taken' = taken \union {c}
        /\ unsure' = unsure \/ unsure' = unsure \union {number}
    BY <1>2 DEF CliSend, CliSendFails, CliHangs, Took
  <2>3. c.job = number
    OBVIOUS
  <2> HIDE DEF c
  <2> QED
    BY <2>1, <2>2, <2>3, ReturnsReport DEF Work
<1> QED
  BY <1>1, <1>2

LEMMA ReadWorks ==
    ASSUME IInv, ReadAnswer \/ ReadError \/ ReadFails \/ DialFails PROVE Work(number)
<1>1. pc \in {"dial"} \union Reading /\ pc # "idle"
  BY DEF ReadAnswer, ReadError, ReadFails, DialFails, Reading
<1>2. CASE GatewayFails /\ unsure' \in {unsure, unsure \union {number}}
  BY <1>1, <1>2, SessionFailureReportsNot DEF Work
<1>3. CASE ReadAnswer /\ ~GatewayFails
  <2>1. jobs' = jobs /\ taken' = taken /\ unsure' = unsure
    BY <1>3 DEF ReadAnswer
  <2>2. outcome' = outcome \/ SendReturns(TRUE)
    BY <1>3 DEF ReadAnswer
  <2> QED
    BY <1>1, <2>1, <2>2, ReturnsReport DEF Work
<1> QED
  BY <1>2, <1>3 DEF ReadAnswer, ReadError, ReadFails, DialFails

LEMMA ServeWorks ==
    ASSUME IInv, Serve PROVE \E n \in 1..number : Work(n)
<1>1. PICK r \in pending :
        /\ UNCHANGED <<jobs, unsure, outcome>>
        /\ \/ UNCHANGED taken
           \/ taken' = taken \union
                {[job |-> r.job, to |-> To(r.method), by |-> "gateway", key |-> r.key]}
  BY DEF Serve, Took, client
<1> DEFINE c == [job |-> r.job, to |-> To(r.method), by |-> "gateway", key |-> r.key]
<1>2. c.job = r.job /\ r.job \in 1..number
  BY DEF IInv, TypeOK
<1> HIDE DEF c
<1>3. Work(r.job)
  BY <1>1, <1>2 DEF Work, c
<1> QED
  BY <1>2, <1>3

LEMMA StepIsWork ==
    ASSUME IInv, [Next]_vars
    PROVE  \/ \E j \in Jobs : Begin(j)
           \/ \E n \in 1..number : Work(n)
           \/ UNCHANGED <<jobs, taken, unsure, outcome>>
<1>1. ASSUME pc # "idle", Work(number) PROVE \E n \in 1..number : Work(n)
  BY <1>1, JobIsJob DEF IInv
<1>2. CASE Choose
  BY <1>1, <1>2, ChooseWorks DEF Choose
<1>3. CASE CliListFails \/ CliSend \/ CliSendFails \/ CliHangs
  BY <1>1, <1>3, CliWorks DEF CliListFails, CliSend, CliSendFails, CliHangs
<1>4. CASE ReadAnswer \/ ReadError \/ ReadFails \/ DialFails
  BY <1>1, <1>4, ReadWorks DEF ReadAnswer, ReadError, ReadFails, DialFails, Reading
<1>5. CASE Serve
  BY <1>5, ServeWorks
<1>6. CASE Dial \/ ReadSkips \/ ReadChallenge \/ ReadConnected \/ CliList \/ Tick
  BY <1>6 DEF Dial, ReadSkips, ReadChallenge, ReadConnected, CliList, Tick, server
<1>7. CASE Challenge \/ Chatter \/ Refuse \/ GatewayStops \/ GatewayStarts
           \/ UNCHANGED vars
  BY <1>7 DEF Challenge, Chatter, Refuse, GatewayStops, GatewayStarts, vars, client, server
<1> QED
  BY <1>2, <1>3, <1>4, <1>5, <1>6, <1>7 DEF Next, Client, Reads, Server

\* What the copies of n are after work on n.
LEMMA WorkOnCopies ==
    ASSUME IInv, IInv', NEW n \in 1..number, Work(n),
           n \in Ended /\ n \notin unsure => \A t \in taken' : t.job = n => t \in taken
    PROVE  /\ \A m \in 1..number : m # n => Copies(m)' = Copies(m)
           /\ \/ Copies(n)' = Copies(n)
              \/ /\ Copies(n) = {} /\ \E c : Copies(n)' = {c}
                 /\ n \notin Ended \/ n \in unsure
              \/ /\ Copies(n) # {} /\ \E t, u \in Copies(n)' : t # u
                 /\ n \in unsure'
<1>1. jobs' = jobs
  BY DEF Work
<1>2. CASE taken' = taken
  BY <1>1, <1>2 DEF Copies
<1>3. ASSUME NEW c, c.job = n, taken' = taken \union {c}, c \notin taken
      PROVE  /\ \A m \in 1..number : m # n => Copies(m)' = Copies(m)
             /\ \/ Copies(n)' = Copies(n)
                \/ /\ Copies(n) = {} /\ Copies(n)' = {c}
                   /\ n \notin Ended \/ n \in unsure
                \/ /\ Copies(n) # {} /\ \E t, u \in Copies(n)' : t # u
                   /\ n \in unsure'
  <2>1. \A m \in 1..number : m # n => Copies(m)' = Copies(m)
    BY <1>1, <1>3 DEF Copies
  <2>2. n \notin Ended \/ n \in unsure
    BY <1>3
  <2>3. CASE ~(c.to = "session" \/ jobs[n].kind # "push")
    BY <1>1, <1>3, <2>1, <2>3 DEF Copies
  <2>4. CASE c.to = "session" \/ jobs[n].kind # "push"
    <3>1. Copies(n)' = Copies(n) \union {c}
      BY <1>1, <1>3, <2>4 DEF Copies
    <3>2. CASE Copies(n) = {}
      BY <2>1, <2>2, <3>1, <3>2
    <3>3. CASE Copies(n) # {}
      <4>1. PICK t \in taken : t.job = n /\ (t.to = "session" \/ jobs[n].kind # "push")
        BY <3>3 DEF Copies
      <4>2. t # c /\ t \in taken' /\ c \in taken' /\ t \in Copies(n)' /\ c \in Copies(n)'
        BY <1>3, <3>1, <4>1 DEF Copies
      <4>3. n \in unsure'
        BY <1>1, <1>3, <2>4, <4>1, <4>2 DEF IInv, OneCopy
      <4> QED
        BY <2>1, <3>3, <4>2, <4>3
    <3> QED
      BY <3>2, <3>3
  <2> QED
    BY <2>3, <2>4
<1> QED
  <2>1. CASE taken' # taken
    <3>1. PICK c : c.job = n /\ taken' = taken \union {c}
      BY <2>1 DEF Work
    <3>2. c \notin taken
      BY <2>1, <3>1
    <3> QED
      BY <1>3, <3>1, <3>2
  <2> QED
    BY <1>2, <2>1

\* The state functions of the mapping.
HOnce == {n \in 1..number : Copies(n) # {}}
HTwice == {n \in 1..number : \E t, u \in Copies(n) : t # u}

LEMMA WorkIsHandover ==
    ASSUME IInv, IInv', [Next]_vars, NEW n \in 1..number, Work(n)
    PROVE  HandedOver!HNext
<1>1. /\ jobs' = jobs /\ number' = number
      /\ number \in Nat /\ number <= MaxJobs /\ n \in 1..MaxJobs
      /\ outcome \in [1..MaxJobs -> {"none", "ok", "error"}]
  BY BoundsAssumption DEF Work, number, IInv, TypeOK
<1>2. /\ \A m \in 1..number : m # n => Copies(m)' = Copies(m)
      /\ \/ Copies(n)' = Copies(n)
         \/ /\ Copies(n) = {} /\ \E c : Copies(n)' = {c}
            /\ n \notin Ended \/ n \in unsure
         \/ /\ Copies(n) # {} /\ \E t, u \in Copies(n)' : t # u
            /\ n \in unsure'
  BY WorkOnCopies, NothingLateStep
<1>3. n = number /\ pc # "idle" => outcome[n] = "none"
  BY <1>1 DEF IInv, EndedInOrder, Ended
<1>4. \/ UNCHANGED unsure
      \/ outcome[n] = "none" /\ unsure' = unsure \union {n}
  BY <1>3 DEF Work
<1>5. \/ UNCHANGED <<HOnce, HTwice>>
      \/ /\ n \notin HOnce /\ (outcome[n] = "none" \/ n \in unsure)
         /\ HOnce' = HOnce \union {n} /\ UNCHANGED HTwice
      \/ /\ n \in HOnce /\ n \in unsure'
         /\ HTwice' = HTwice \union {n} /\ UNCHANGED HOnce
  <2>1. CASE Copies(n)' = Copies(n)
    BY <1>1, <1>2, <2>1 DEF HOnce, HTwice
  <2>2. CASE /\ Copies(n) = {} /\ \E c : Copies(n)' = {c}
             /\ n \notin Ended \/ n \in unsure
    <3>1. n \notin HOnce /\ n \notin HTwice /\ n \in HOnce' /\ n \notin HTwice'
      BY <1>1, <2>2 DEF HOnce, HTwice
    <3>2. HOnce' = HOnce \union {n} /\ HTwice' = HTwice
      BY <1>1, <1>2, <3>1 DEF HOnce, HTwice
    <3> QED
      BY <1>1, <2>2, <3>1, <3>2 DEF Ended
  <2>3. CASE /\ Copies(n) # {} /\ \E t, u \in Copies(n)' : t # u
             /\ n \in unsure'
    <3>1. n \in HOnce /\ n \in HOnce' /\ n \in HTwice'
      BY <1>1, <2>3 DEF HOnce, HTwice
    <3>2. HTwice' = HTwice \union {n} /\ HOnce' = HOnce
      BY <1>1, <1>2, <3>1 DEF HOnce, HTwice
    <3> QED
      BY <2>3, <3>1, <3>2
  <2> QED
    BY <1>2, <2>1, <2>2, <2>3
<1>6. \/ UNCHANGED outcome
      \/ /\ n = number /\ outcome[n] = "none"
         /\ \/ n \in HOnce' /\ outcome' = [outcome EXCEPT ![n] = "ok"]
            \/ (n \in HOnce' => n \in unsure') /\ outcome' = [outcome EXCEPT ![n] = "error"]
  <2> SUFFICES ASSUME n = number, pc # "idle", NEW how \in {"ok", "error"},
                      outcome' = [outcome EXCEPT ![n] = how]
               PROVE  \/ n \in HOnce' /\ how = "ok"
                      \/ (n \in HOnce' => n \in unsure') /\ how = "error"
    BY <1>3 DEF Work, Reported
  <2>1. outcome'[n] = how
    BY <1>1
  <2>2. CASE how = "ok"
    <3>1. TookFor(n, "session")' \/ (jobs[n].kind # "push" /\ TookFor(n, "channel")')
      BY <1>1, <2>1, <2>2 DEF IInv, SuccessWasTaken, number
    <3> QED
      BY <1>1, <2>2, <3>1 DEF HOnce, Copies, TookFor
  <2>3. CASE how = "error"
    <3>1. n \notin unsure' =>
            \A t \in taken' : t.job = n => jobs[n].kind = "push" /\ t.to = "channel"
      BY <1>1, <2>1, <2>3 DEF IInv, ErrorWasNotTaken, number
    <3> QED
      BY <1>1, <2>3, <3>1 DEF HOnce, Copies
  <2> QED
    BY <2>2, <2>3
<1> QED
  BY <1>1, <1>4, <1>5, <1>6
  DEF HandedOver!HNext, HandedOver!Doubts, HandedOver!Takes, HandedOver!Reports,
      HOnce, HTwice

LEMMA BeginIsHandover ==
    ASSUME IInv, NEW j \in Jobs, Begin(j)
    PROVE  HandedOver!HBegin
<1>1. /\ pc = "idle" /\ number < MaxJobs /\ jobs' = Append(jobs, j)
      /\ UNCHANGED <<taken, unsure, outcome>>
  BY DEF Begin, server
<1>2. /\ number \in Nat /\ number' = number + 1
      /\ \A n \in 1..number : jobs'[n] = jobs[n]
  BY <1>1 DEF IInv, TypeOK, number
<1>3. number > 0 => outcome[number] # "none"
  BY <1>1, <1>2, BoundsAssumption DEF IInv, EndedInOrder, Ended
<1>4. \A k \in Nat : k = number + 1 => Copies(k)' = {}
  BY <1>1, <1>2 DEF IInv, TypeOK, Copies
<1>5. \A n \in 1..number : Copies(n)' = Copies(n)
  BY <1>1, <1>2 DEF Copies
<1>6. \A n \in 1..number' : n \in 1..number \/ (n \in Nat /\ n = number + 1)
  BY <1>2
<1>7. 1..number \subseteq 1..number'
  BY <1>2
<1>8. UNCHANGED <<HOnce, HTwice>>
  BY <1>4, <1>5, <1>6, <1>7 DEF HOnce, HTwice
<1> QED
  BY <1>1, <1>2, <1>3, <1>8 DEF HandedOver!HBegin, HOnce, HTwice

\* What a job reports is what became of its message, unless it is in doubt: the
\* client implements Handover, step by step.
THEOREM HandoverTheorem == Spec => ImplementsHandover
<1>1. Init => HandedOver!HInit
  BY DEF Init, HandedOver!HInit, HandedOver!Attempts, number, Copies
<1>2. IInv /\ IInv' /\ [Next]_vars => [HandedOver!HNext]_(HandedOver!hvars)
  <2> SUFFICES ASSUME IInv, IInv', [Next]_vars
               PROVE  HandedOver!HNext \/ UNCHANGED HandedOver!hvars
    OBVIOUS
  <2>1. CASE \E j \in Jobs : Begin(j)
    BY <2>1, BeginIsHandover DEF HandedOver!HNext
  <2>2. CASE \E n \in 1..number : Work(n)
    BY <2>2, WorkIsHandover
  <2>3. CASE UNCHANGED <<jobs, taken, unsure, outcome>>
    BY <2>3 DEF HandedOver!hvars, number, Copies
  <2> QED
    BY <2>1, <2>2, <2>3, StepIsWork
<1> QED
  BY <1>1, <1>2, Invariance, PTL DEF Spec, ImplementsHandover, HandedOver!HSpec

-----------------------------------------------------------------------------
(***************************************************************************)
(* The choice of the session, for lists of any length.  Induction is over  *)
(* the turns of the three loops of ResolvePushSession, which keep the best *)
(* session so far.                                                         *)
(***************************************************************************)

\* A set with 0 and the successor of each of its numbers has every number.
LEMMA NatSetInduction ==
    ASSUME NEW S, 0 \in S, \A n \in Nat : n \in S => n + 1 \in S
    PROVE  Nat \subseteq S
<1> DEFINE R == OpToRel(<, Nat)
           T == {n \in Nat : n \notin S}
<1>1. SUFFICES ASSUME T # {} PROVE FALSE
  OBVIOUS
<1>2. IsWellFoundedOn(R, Nat)
  BY NatLessThanWellFounded
<1>3. T \subseteq Nat
  OBVIOUS
<1>4. \A x, y \in Nat : x < y => <<x, y>> \in R
  BY DEF OpToRel
<1> HIDE DEF R
<1>5. PICK n \in T : \A m \in T : <<m, n>> \notin R
  <2> HIDE DEF T
  <2> QED
    BY <1>1, <1>2, <1>3, WFMin
<1>6. n \in Nat /\ n # 0 /\ n - 1 \in Nat /\ n - 1 < n
  OBVIOUS
<1>7. n - 1 \in S
  BY <1>4, <1>5, <1>6
<1> QED
  BY <1>6, <1>7

\* The same for the numbers up to k.
LEMMA InductionUpTo ==
    ASSUME NEW k \in Nat, NEW S, 0 \in S, \A n \in 0..(k - 1) : n \in S => n + 1 \in S
    PROVE  k \in S
<1> DEFINE T == S \union {n \in Nat : n > k}
<1>1. 0 \in T /\ \A n \in Nat : n \in T => n + 1 \in T
  OBVIOUS
<1>2. k \in T
  <2> HIDE DEF T
  <2> QED
    BY <1>1, NatSetInduction
<1> QED
  BY <1>2

\* A loop over k steps has a result after each of them.
LEMMA LoopExists ==
    ASSUME NEW V, NEW base \in V, NEW k \in Nat, NEW step \in [1..k -> [V -> V]]
    PROVE  \E f \in [0..k -> V] :
               /\ f[0] = base
               /\ \A i \in 1..k : f[i] = step[i][f[i - 1]]
<1> DEFINE Runs(n) == {f \in [0..n -> V] : /\ f[0] = base
                                           /\ \A i \in 1..n : f[i] = step[i][f[i - 1]]}
           S == {n \in Nat : n <= k => Runs(n) # {}}
<1>1. 0 \in S
  <2>1. [i \in 0..0 |-> base] \in Runs(0)
    OBVIOUS
  <2> QED
    BY <2>1
<1>2. ASSUME NEW n \in Nat, n \in S PROVE n + 1 \in S
  <2>1. ASSUME n + 1 <= k PROVE Runs(n + 1) # {}
    <3>1. Runs(n) # {}
      BY <1>2, <2>1
    <3>2. PICK f \in [0..n -> V] : /\ f[0] = base
                                   /\ \A i \in 1..n : f[i] = step[i][f[i - 1]]
      BY <3>1
    <3> DEFINE last == step[n + 1][f[n]]
               g == [i \in 0..(n + 1) |-> IF i = n + 1 THEN last ELSE f[i]]
    <3>3. last \in V
      BY <2>1
    <3> HIDE DEF last
    <3>4. /\ g \in [0..(n + 1) -> V] /\ g[0] = base /\ g[n + 1] = last
          /\ \A i \in 0..n : g[i] = f[i]
      BY <3>2, <3>3
    <3> HIDE DEF g
    <3>5. ASSUME NEW i \in 1..(n + 1) PROVE g[i] = step[i][g[i - 1]]
      <4>1. CASE i \in 1..n
        BY <3>2, <3>4, <4>1
      <4>2. CASE i = n + 1
        BY <3>4, <4>2 DEF last
      <4> QED
        BY <4>1, <4>2
    <3> QED
      BY <3>4, <3>5
  <2> QED
    BY <2>1
<1>3. k \in S
  <2> HIDE DEF S
  <2> QED
    BY <1>1, <1>2, NatSetInduction
<1>4. Runs(k) # {}
  <2>1. k <= k
    OBVIOUS
  <2> HIDE DEF Runs
  <2> QED
    BY <1>3, <2>1
<1> QED
  BY <1>4

LEMMA KeysWithoutTarget ==
    /\ NoSession \in Session
    /\ ~HasTarget(NoSession.key)
    /\ ~HasTarget(MainKey)
BY DEF NoSession, Session, HasTarget, ParseSessionKey, MainKey

\* A turn keeps the best so far or takes the session at hand.
LEMMA TurnTakesOrKeeps ==
    ASSUME NEW b \in Session, NEW s \in Session
    PROVE  /\ BetterChannel(b, s) \in {b, s}
           /\ BetterOther(b, s) \in {b, s}
           /\ FirstWithId(b, s) \in {b, s}
<1>1. BetterChannel(b, s) \in {b, s}
  BY DEF BetterChannel
<1>2. BetterOther(b, s) \in {b, s} /\ FirstWithId(b, s) \in {b, s}
  BY DEF BetterOther, FirstWithId
<1> QED
  BY <1>1, <1>2

LEMMA ChannelTurns ==
    ASSUME NEW list \in Seq(Session)
    PROVE  \E best : /\ best[0] = NoSession
                     /\ \A i \in 1..Len(list) : best[i] = BetterChannel(best[i - 1], list[i])
                     /\ BestChannel(list) = best[Len(list)]
<1> DEFINE k == Len(list)
           step == [i \in 1..k |-> [b \in Session |-> BetterChannel(b, list[i])]]
           Turns(f) == [i \in 0..k |-> IF i = 0 THEN NoSession
                                       ELSE BetterChannel(f[i - 1], list[i])]
<1>1. k \in Nat /\ step \in [1..k -> [Session -> Session]]
  BY TurnTakesOrKeeps
<1>2. PICK f \in [0..k -> Session] : /\ f[0] = NoSession
                                     /\ \A i \in 1..k : f[i] = step[i][f[i - 1]]
  <2>1. NoSession \in Session
    BY KeysWithoutTarget
  <2> HIDE DEF step, k
  <2> QED
    BY <1>1, <2>1, LoopExists
<1>3. f = Turns(f)
  <2>1. ASSUME NEW i \in 1..k PROVE f[i] = BetterChannel(f[i - 1], list[i])
    <3>1. i - 1 \in 0..k /\ f[i - 1] \in Session
      BY <1>1
    <3>2. step[i] = [b \in Session |-> BetterChannel(b, list[i])]
      OBVIOUS
    <3> QED
      BY <1>2, <3>1, <3>2
  <2> HIDE DEF step
  <2> QED
    BY <1>1, <1>2, <2>1
<1> DEFINE best == CHOOSE g : g = Turns(g)
<1>4. best = Turns(best)
  <2> HIDE DEF Turns
  <2> QED
    BY <1>3
<1>5. BestChannel(list) = best[k]
  BY DEF BestChannel, Loop
<1> HIDE DEF best
<1> QED
  BY <1>1, <1>4, <1>5

LEMMA OtherTurns ==
    ASSUME NEW list \in Seq(Session)
    PROVE  \E best : /\ best[0] = NoSession
                     /\ \A i \in 1..Len(list) : best[i] = BetterOther(best[i - 1], list[i])
                     /\ BestOther(list) = best[Len(list)]
<1> DEFINE k == Len(list)
           step == [i \in 1..k |-> [b \in Session |-> BetterOther(b, list[i])]]
           Turns(f) == [i \in 0..k |-> IF i = 0 THEN NoSession
                                       ELSE BetterOther(f[i - 1], list[i])]
<1>1. k \in Nat /\ step \in [1..k -> [Session -> Session]]
  BY TurnTakesOrKeeps
<1>2. PICK f \in [0..k -> Session] : /\ f[0] = NoSession
                                     /\ \A i \in 1..k : f[i] = step[i][f[i - 1]]
  <2>1. NoSession \in Session
    BY KeysWithoutTarget
  <2> HIDE DEF step, k
  <2> QED
    BY <1>1, <2>1, LoopExists
<1>3. f = Turns(f)
  <2>1. ASSUME NEW i \in 1..k PROVE f[i] = BetterOther(f[i - 1], list[i])
    <3>1. i - 1 \in 0..k /\ f[i - 1] \in Session
      BY <1>1
    <3>2. step[i] = [b \in Session |-> BetterOther(b, list[i])]
      OBVIOUS
    <3> QED
      BY <1>2, <3>1, <3>2
  <2> HIDE DEF step
  <2> QED
    BY <1>1, <1>2, <2>1
<1> DEFINE best == CHOOSE g : g = Turns(g)
<1>4. best = Turns(best)
  <2> HIDE DEF Turns
  <2> QED
    BY <1>3
<1>5. BestOther(list) = best[k]
  BY DEF BestOther, Loop
<1> HIDE DEF best
<1> QED
  BY <1>1, <1>4, <1>5

LEMMA FirstTurns ==
    ASSUME NEW list \in Seq(Session)
    PROVE  \E best : /\ best[0] = NoSession
                     /\ \A i \in 1..Len(list) : best[i] = FirstWithId(best[i - 1], list[i])
                     /\ AnyWithId(list) = best[Len(list)]
<1> DEFINE k == Len(list)
           step == [i \in 1..k |-> [b \in Session |-> FirstWithId(b, list[i])]]
           Turns(f) == [i \in 0..k |-> IF i = 0 THEN NoSession
                                       ELSE FirstWithId(f[i - 1], list[i])]
<1>1. k \in Nat /\ step \in [1..k -> [Session -> Session]]
  BY TurnTakesOrKeeps
<1>2. PICK f \in [0..k -> Session] : /\ f[0] = NoSession
                                     /\ \A i \in 1..k : f[i] = step[i][f[i - 1]]
  <2>1. NoSession \in Session
    BY KeysWithoutTarget
  <2> HIDE DEF step, k
  <2> QED
    BY <1>1, <2>1, LoopExists
<1>3. f = Turns(f)
  <2>1. ASSUME NEW i \in 1..k PROVE f[i] = FirstWithId(f[i - 1], list[i])
    <3>1. i - 1 \in 0..k /\ f[i - 1] \in Session
      BY <1>1
    <3>2. step[i] = [b \in Session |-> FirstWithId(b, list[i])]
      OBVIOUS
    <3> QED
      BY <1>2, <3>1, <3>2
  <2> HIDE DEF step
  <2> QED
    BY <1>1, <1>2, <2>1
<1> DEFINE best == CHOOSE g : g = Turns(g)
<1>4. best = Turns(best)
  <2> HIDE DEF Turns
  <2> QED
    BY <1>3
<1>5. AnyWithId(list) = best[k]
  BY DEF AnyWithId, Loop
<1> HIDE DEF best
<1> QED
  BY <1>1, <1>4, <1>5

\* What the loop over the channel sessions has found: one of them if there is
\* one, of Feishu if there is one, and the newest of its sort.
BestOf(b, list, n) ==
    /\ b \in Session
    /\ \/ b = NoSession /\ \A j \in 1..n : ~HasTarget(list[j].key)
       \/ HasTarget(b.key) /\ \E j \in 1..n : b = list[j]
    /\ \A j \in 1..n : HasTarget(list[j].key) =>
           IF IsFeishu(list[j]) THEN IsFeishu(b) /\ b.at >= list[j].at
           ELSE IsFeishu(b) \/ b.at >= list[j].at

LEMMA BetterIsBest ==
    ASSUME NEW list \in Seq(Session), NEW n \in Nat, n + 1 <= Len(list), NEW b,
           BestOf(b, list, n)
    PROVE  BestOf(BetterChannel(b, list[n + 1]), list, n + 1)
<1> DEFINE s == list[n + 1]
           c == BetterChannel(b, s)
<1>1. /\ b \in Session /\ s \in Session /\ c \in {b, s}
      /\ b.at \in Int /\ s.at \in Int
      /\ \A j \in 1..n : list[j] \in Session /\ list[j].at \in Int
      /\ \A j \in 1..(n + 1) : j \in 1..n \/ j = n + 1
  <2>1. b \in Session /\ \A j \in 1..(n + 1) : list[j] \in Session
    BY DEF BestOf
  <2>2. c \in {b, s} /\ s \in Session
    BY <2>1, TurnTakesOrKeeps
  <2>3. \A t \in Session : t.at \in Int
    BY DEF Session
  <2>4. \A j \in 1..(n + 1) : j \in 1..n \/ j = n + 1
    OBVIOUS
  <2> QED
    BY <2>1, <2>2, <2>3, <2>4
<1>2. /\ \A t \in Session : IsFeishu(t) \in BOOLEAN
      /\ b = NoSession => ~HasTarget(b.key)
  BY KeysWithoutTarget DEF IsFeishu
<1>3. CASE ~HasTarget(s.key)
  <2>1. c = b
    BY <1>3 DEF BetterChannel
  <2> QED
    BY <1>1, <1>3, <2>1 DEF BestOf
<1>4. CASE HasTarget(s.key) /\ b = NoSession
  <2>1. c = s
    BY <1>4 DEF BetterChannel
  <2> QED
    BY <1>1, <1>2, <1>4, <2>1 DEF BestOf
<1>5. CASE HasTarget(s.key) /\ b # NoSession
  <2>1. HasTarget(b.key) /\ \E j \in 1..n : b = list[j]
    BY <1>5 DEF BestOf
  <2>2. CASE c = s /\ IsFeishu(s) /\ ~IsFeishu(b)
    BY <1>1, <1>2, <1>5, <2>1, <2>2 DEF BestOf
  <2>3. CASE c = s /\ (IsFeishu(s) <=> IsFeishu(b)) /\ s.at > b.at
    BY <1>1, <1>2, <1>5, <2>1, <2>3 DEF BestOf
  <2>4. CASE \/ c = b /\ ~IsFeishu(s) /\ IsFeishu(b)
             \/ c = b /\ (IsFeishu(s) <=> IsFeishu(b)) /\ b.at >= s.at
    BY <1>1, <1>2, <1>5, <2>1, <2>4 DEF BestOf
  <2>5. \/ c = s /\ IsFeishu(s) /\ ~IsFeishu(b)
        \/ c = s /\ (IsFeishu(s) <=> IsFeishu(b)) /\ s.at > b.at
        \/ c = b /\ ~IsFeishu(s) /\ IsFeishu(b)
        \/ c = b /\ (IsFeishu(s) <=> IsFeishu(b)) /\ b.at >= s.at
    <3>1. CASE IsFeishu(s) /\ ~IsFeishu(b)
      BY <1>5, <3>1 DEF BetterChannel
    <3>2. CASE ~IsFeishu(s) /\ IsFeishu(b)
      <4>1. IsFeishu(s) # IsFeishu(b)
        BY <3>2
      <4>2. c = b
        BY <1>5, <3>2, <4>1 DEF BetterChannel
      <4> QED
        BY <3>2, <4>2
    <3>3. CASE IsFeishu(s) <=> IsFeishu(b)
      <4>1. IsFeishu(s) = IsFeishu(b)
        BY <1>1, <1>2, <3>3
      <4>2. c = IF s.at > b.at THEN s ELSE b
        BY <1>5, <3>3, <4>1 DEF BetterChannel
      <4> QED
        BY <1>1, <3>3, <4>2
    <3> QED
      BY <3>1, <3>2, <3>3
  <2> QED
    BY <2>2, <2>3, <2>4, <2>5
<1> QED
  BY <1>3, <1>4, <1>5

LEMMA BestChannelIsBest ==
    ASSUME NEW list \in Seq(Session)
    PROVE  BestOf(BestChannel(list), list, Len(list))
<1>1. PICK best : /\ best[0] = NoSession
                  /\ \A i \in 1..Len(list) : best[i] = BetterChannel(best[i - 1], list[i])
                  /\ BestChannel(list) = best[Len(list)]
  BY ChannelTurns
<1> DEFINE S == {n \in 0..Len(list) : BestOf(best[n], list, n)}
<1>2. 0 \in S
  BY <1>1, KeysWithoutTarget DEF BestOf
<1>3. ASSUME NEW n \in 0..(Len(list) - 1), n \in S PROVE n + 1 \in S
  <2>1. n \in Nat /\ n + 1 \in 1..Len(list) /\ (n + 1) - 1 = n
    OBVIOUS
  <2>2. best[n + 1] = BetterChannel(best[n], list[n + 1])
    BY <1>1, <2>1
  <2>3. BestOf(best[n], list, n)
    BY <1>3
  <2> QED
    BY <2>1, <2>2, <2>3, BetterIsBest
<1>4. Len(list) \in S
  <2>1. Len(list) \in Nat
    OBVIOUS
  <2> HIDE DEF S
  <2> QED
    BY <1>2, <1>3, <2>1, InductionUpTo
<1> QED
  BY <1>1, <1>4

\* The other loops find a session with an id, not the main one if there is
\* another.
LEMMA BestOtherIsOther ==
    ASSUME NEW list \in Seq(Session)
    PROVE  \/ /\ BestOther(list) = NoSession
              /\ \A j \in 1..Len(list) : list[j].id => list[j].key = MainKey
           \/ /\ BestOther(list).id /\ BestOther(list).key # MainKey
              /\ \E j \in 1..Len(list) : BestOther(list) = list[j]
<1>1. PICK best : /\ best[0] = NoSession
                  /\ \A i \in 1..Len(list) : best[i] = BetterOther(best[i - 1], list[i])
                  /\ BestOther(list) = best[Len(list)]
  BY OtherTurns
<1> DEFINE Found(b, n) ==
               \/ b = NoSession /\ \A j \in 1..n : list[j].id => list[j].key = MainKey
               \/ b.id /\ b.key # MainKey /\ \E j \in 1..n : b = list[j]
           S == {n \in 0..Len(list) : Found(best[n], n)}
<1>2. 0 \in S
  BY <1>1
<1>3. ASSUME NEW n \in 0..(Len(list) - 1), n \in S PROVE n + 1 \in S
  <2>1. /\ n \in Nat /\ n + 1 \in 1..Len(list) /\ (n + 1) - 1 = n
        /\ \A j \in 1..(n + 1) : j \in 1..n \/ j = n + 1
    OBVIOUS
  <2>2. best[n + 1] = BetterOther(best[n], list[n + 1])
    BY <1>1, <2>1
  <2>3. Found(best[n], n)
    BY <1>3
  <2>4. Found(best[n + 1], n + 1)
    BY <2>1, <2>2, <2>3 DEF BetterOther
  <2> QED
    BY <2>1, <2>4
<1>4. Len(list) \in S
  <2>1. Len(list) \in Nat
    OBVIOUS
  <2> HIDE DEF S
  <2> QED
    BY <1>2, <1>3, <2>1, InductionUpTo
<1> QED
  BY <1>1, <1>4

LEMMA AnyWithIdHasId ==
    ASSUME NEW list \in Seq(Session)
    PROVE  \/ /\ AnyWithId(list) = NoSession
              /\ \A j \in 1..Len(list) : ~list[j].id
           \/ /\ AnyWithId(list).id
              /\ \E j \in 1..Len(list) : AnyWithId(list) = list[j]
<1>1. PICK best : /\ best[0] = NoSession
                  /\ \A i \in 1..Len(list) : best[i] = FirstWithId(best[i - 1], list[i])
                  /\ AnyWithId(list) = best[Len(list)]
  BY FirstTurns
<1> DEFINE Found(b, n) ==
               \/ b = NoSession /\ \A j \in 1..n : ~list[j].id
               \/ b.id /\ \E j \in 1..n : b = list[j]
           S == {n \in 0..Len(list) : Found(best[n], n)}
<1>2. 0 \in S
  BY <1>1
<1>3. ASSUME NEW n \in 0..(Len(list) - 1), n \in S PROVE n + 1 \in S
  <2>1. /\ n \in Nat /\ n + 1 \in 1..Len(list) /\ (n + 1) - 1 = n
        /\ \A j \in 1..(n + 1) : j \in 1..n \/ j = n + 1
    OBVIOUS
  <2>2. best[n + 1] = FirstWithId(best[n], list[n + 1])
    BY <1>1, <2>1
  <2>3. Found(best[n], n)
    BY <1>3
  <2>4. Found(best[n + 1], n + 1)
    BY <2>1, <2>2, <2>3 DEF FirstWithId
  <2> QED
    BY <2>1, <2>4
<1>4. Len(list) \in S
  <2>1. Len(list) \in Nat
    OBVIOUS
  <2> HIDE DEF S
  <2> QED
    BY <1>2, <1>3, <2>1, InductionUpTo
<1> QED
  BY <1>1, <1>4

\* ChoiceIsRight, on one list.
LEMMA ChoiceOnList ==
    ASSUME NEW list \in Seq(Session)
    PROVE  LET s == ResolvePushSession(list)
               channels == {i \in DOMAIN list : HasTarget(list[i].key)}
           IN  /\ (\E i \in DOMAIN list : list[i].id) =>
                     /\ s.id /\ \E i \in DOMAIN list : list[i] = s
                     /\ s.key = MainKey =>
                           \A i \in DOMAIN list : list[i].id => list[i].key = MainKey
               /\ (\A i \in channels : list[i].id) =>
                     \A i \in channels :
                         IF IsFeishu(list[i]) THEN IsFeishu(s) /\ s.at >= list[i].at
                         ELSE HasTarget(s.key) /\ (IsFeishu(s) \/ s.at >= list[i].at)
<1> DEFINE c == BestChannel(list)
           o == BestOther(list)
           a == AnyWithId(list)
           s == ResolvePushSession(list)
           channels == {i \in DOMAIN list : HasTarget(list[i].key)}
<1>0. DOMAIN list = 1..Len(list) /\ ~HasTarget(MainKey) /\ ~HasTarget(NoSession.key)
      /\ ~NoSession.id
  BY KeysWithoutTarget DEF NoSession
<1>1. BestOf(c, list, Len(list))
  BY BestChannelIsBest
<1>2. \/ o = NoSession /\ \A j \in 1..Len(list) : list[j].id => list[j].key = MainKey
      \/ o.id /\ o.key # MainKey /\ \E j \in 1..Len(list) : o = list[j]
  BY BestOtherIsOther
<1>3. \/ a = NoSession /\ \A j \in 1..Len(list) : ~list[j].id
      \/ a.id /\ \E j \in 1..Len(list) : a = list[j]
  BY AnyWithIdHasId
<1>4. /\ c.id => s = c
      /\ ~c.id /\ o # NoSession => s = o
      /\ ~c.id /\ o = NoSession => s = a
  BY DEF ResolvePushSession
<1> HIDE DEF c, o, a, s
<1>5. ASSUME \E i \in DOMAIN list : list[i].id
      PROVE  /\ s.id /\ \E i \in DOMAIN list : list[i] = s
             /\ s.key = MainKey =>
                   \A i \in DOMAIN list : list[i].id => list[i].key = MainKey
  <2>1. CASE c.id
    <3>1. HasTarget(c.key) /\ \E j \in 1..Len(list) : c = list[j]
      BY <1>0, <1>1, <2>1 DEF BestOf
    <3> QED
      BY <1>0, <1>4, <2>1, <3>1
  <2>2. CASE ~c.id /\ o # NoSession
    BY <1>0, <1>2, <1>4, <2>2
  <2>3. CASE ~c.id /\ o = NoSession
    BY <1>0, <1>2, <1>3, <1>4, <1>5, <2>3
  <2> QED
    BY <2>1, <2>2, <2>3
<1>6. ASSUME \A i \in channels : list[i].id, NEW i \in channels
      PROVE  IF IsFeishu(list[i]) THEN IsFeishu(s) /\ s.at >= list[i].at
             ELSE HasTarget(s.key) /\ (IsFeishu(s) \/ s.at >= list[i].at)
  <2>1. i \in 1..Len(list) /\ HasTarget(list[i].key)
    BY <1>0
  <2>2. HasTarget(c.key) /\ \E j \in 1..Len(list) : c = list[j]
    BY <1>1, <2>1 DEF BestOf
  <2>3. c.id
    BY <1>0, <1>6, <2>2
  <2> QED
    BY <1>1, <1>4, <2>1, <2>2, <2>3 DEF BestOf
<1> QED
  BY <1>5, <1>6 DEF s

ListedIsList == listed \in Seq(Session)

LEMMA ListedStep == ASSUME ListedIsList, [Next]_vars PROVE ListedIsList'
<1> USE DEF ListedIsList
<1>1. CASE CliList \/ ReadAnswer
  <2>1. listed' = listed \/ \E l \in SessionLists : listed' = l
    BY <1>1 DEF CliList, ReadAnswer, GatewayFails
  <2> QED
    BY <2>1, ListsAssumption
<1>2. CASE Choose
  BY <1>2 DEF Choose
<1>3. ASSUME NEW j \in Jobs, Begin(j) PROVE listed' = listed
  BY <1>3 DEF Begin
<1>4. CASE Server \/ Tick \/ UNCHANGED vars
  BY <1>4 DEF Server, Challenge, Chatter, Serve, Refuse, GatewayStops, GatewayStarts,
     Tick, vars, client
<1>5. CASE Dial \/ DialFails \/ CliListFails \/ CliSend \/ CliSendFails \/ CliHangs
  BY <1>5 DEF Dial, DialFails, GatewayFails, CliListFails, CliSend, CliSendFails, CliHangs
<1>6. CASE ReadSkips \/ ReadChallenge \/ ReadConnected \/ ReadError \/ ReadFails
  BY <1>6 DEF ReadSkips, ReadChallenge, ReadConnected, ReadError, ReadFails, GatewayFails
<1> QED
  BY <1>1, <1>2, <1>3, <1>4, <1>5, <1>6 DEF Next, Client, Reads

\* The choice is right on every list, of any length, that a listing brought.
THEOREM ChoiceTheorem == Spec => []ChoiceIsRight
<1>1. Init => ListedIsList
  BY DEF Init, ListedIsList
<1>2. ListedIsList => ChoiceIsRight
  BY ChoiceOnList DEF ListedIsList, ChoiceIsRight, Usable, Preferred
<1> QED
  BY <1>1, <1>2, ListedStep, PTL DEF Spec
=============================================================================
