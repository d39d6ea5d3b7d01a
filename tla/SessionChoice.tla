--------------------------- MODULE SessionChoice ---------------------------
(***************************************************************************)
(* How a session is picked from OpenClaw's list (openclaw/session.go).     *)
(* Pure operators.  A session key is the sequence of its parts between     *)
(* colons, "at" is updatedAt, and "id" says whether the session id is more *)
(* than blanks.                                                            *)
(***************************************************************************)
EXTENDS Integers, Sequences

Session == [key : Seq(STRING), at : Int, id : BOOLEAN]

NoSession == [key |-> <<>>, at |-> 0, id |-> FALSE]

MainKey == <<"agent", "main", "main">>

\* agent:<agentId>:<channel>:<kind>:<target>, the target may hold colons; a
\* shorter key names no channel.
ParseSessionKey(key) ==
    IF Len(key) < 5 THEN [channel |-> "", target |-> <<"">>]
    ELSE [channel |-> key[3], target |-> SubSeq(key, 5, Len(key))]

HasTarget(key) == LET p == ParseSessionKey(key)
                  IN  p.channel # "" /\ p.target # <<"">>

IsFeishu(s) == \E i \in DOMAIN s.key : s.key[i] = "feishu"

-----------------------------------------------------------------------------
\* A loop over the list that keeps the best session so far.
Loop(Better(_, _), list) ==
    LET best[i \in 0..Len(list)] ==
            IF i = 0 THEN NoSession ELSE Better(best[i - 1], list[i])
    IN  best[Len(list)]

\* One turn of the loop over the channel sessions.
BetterChannel(best, s) ==
    CASE ~HasTarget(s.key)                         -> best
      [] HasTarget(s.key) /\ best = NoSession      -> s
      [] HasTarget(s.key) /\ best # NoSession
         /\ IsFeishu(s) /\ ~IsFeishu(best)         -> s
      [] HasTarget(s.key) /\ best # NoSession
         /\ IsFeishu(s) = IsFeishu(best)
         /\ s.at > best.at                         -> s
      [] OTHER                                     -> best

\* One turn of the loop over the sessions that are not the main one.
BetterOther(best, s) ==
    IF s.key # MainKey /\ s.id /\ (best = NoSession \/ s.at > best.at)
    THEN s ELSE best

FirstWithId(best, s) == IF best = NoSession /\ s.id THEN s ELSE best

BestChannel(list) == Loop(BetterChannel, list)

BestOther(list) == Loop(BetterOther, list)

AnyWithId(list) == Loop(FirstWithId, list)

\* Mutant: the channel session is taken although it has no id.
ResolveIgnoringId(list) ==
    IF BestChannel(list) # NoSession THEN BestChannel(list) ELSE AnyWithId(list)

ResolvePushSession(list) ==
    LET channel == BestChannel(list)
        other   == BestOther(list)
    IN  CASE channel.id                         -> channel
          [] ~channel.id /\ other # NoSession   -> other
          [] OTHER                              -> AnyWithId(list)

FindMostRecentDeliverableSession(list) ==
    Loop(LAMBDA best, s : IF HasTarget(s.key) /\ (best = NoSession \/ s.at > best.at)
                          THEN s ELSE best,
         list)

\* The first of the list, if it has an id.
GetMostRecentSession(list) ==
    IF list # <<>> /\ Head(list).id THEN Head(list) ELSE NoSession
=============================================================================
