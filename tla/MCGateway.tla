----------------------------- MODULE MCGateway -----------------------------
(* Instances of Gateway for TLC. *)
EXTENDS GatewayProps

Key(channel, kind) == <<"agent", "a", channel, kind, "someone">>

Feishu == Key("feishu", "direct")
Other  == Key("telegram", "direct")
Sub    == <<"agent", "a", "sub">>
Blank  == <<"agent", "a", "feishu", "direct", "">>

MCJobs == [kind : {"push"}, image : BOOLEAN, key : {<<>>}]
          \union [kind : {"notify"}, image : {FALSE}, key : {<<>>, Feishu, Sub}]
          \union [kind : {"announce"}, image : {FALSE}, key : {<<>>}]

Channel(id) == [key : {Feishu, Other}, at : 1..2, id : {id}]
Main == [key |-> MainKey, at |-> 1, id |-> TRUE]
Inner(at, id) == [key |-> Sub, at |-> at, id |-> id]

\* No session, one, two channel sessions in any order, the first with or
\* without an id, the main session before or after others, and a channel with
\* nobody to deliver to.
MCSessionLists ==
    {<<>>, <<Main>>, <<Inner(1, FALSE)>>, <<Main, Inner(1, TRUE)>>, <<Inner(2, FALSE), Main>>,
     <<[key |-> Blank, at |-> 1, id |-> TRUE]>>}
    \union {<<s, t>> : s \in Channel(TRUE), t \in Channel(TRUE)}
    \union {<<Main, s, Inner(1, TRUE)>> : s \in Channel(FALSE)}
=============================================================================
