------------------------------- MODULE MCWfMsg -------------------------------
(***************************************************************************)
(* Instances of module WfMsg for TLC.  A header is two cells, every        *)
(* payload sent one, buffers have sizes 4 and 8.                           *)
(***************************************************************************)
EXTENDS WfMsg

CONSTANTS c1, c2

Req(t, len, arg) == [type |-> t, magic |-> TRUE, len |-> len, arg |-> arg]
Ticks == Req("subscribe", 1, <<"tick">>)
Modes == Req("subscribe", 1, <<"mode">>)
Tick == Req("send_tick", 0, <<>>)
Run(len) == Req("command", len, <<>>)
Inputs == Req("query", 0, <<>>)
WfRequests == {Ticks, Modes, Tick, Run(1), Run(4), Inputs}

Line(req, monitor, says) == [req |-> req, monitor |-> monitor, says |-> says]

\* A subscriber of some kind and a process that asks for something else.
SubscriberAndAsker ==
  [c \in Clients |->
     IF c = c1 THEN {Line(Ticks, TRUE, "ok"), Line(Ticks, FALSE, "ok"), Line(Modes, TRUE, "ok")}
     ELSE {Line(Tick, FALSE, "ok"), Line(Run(1), FALSE, "failed"), Line(Inputs, FALSE, "empty"),
           Line(Run(4), FALSE, "ok"), Line(Inputs, TRUE, "ok")}]
==============================================================================
