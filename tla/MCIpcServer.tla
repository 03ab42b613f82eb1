------------------------------ MODULE MCIpcServer ------------------------------
(***************************************************************************)
(* Instances of module IpcServer for TLC.  In the passing runs a header is *)
(* two cells, every payload sent one, and buffers have sizes 4 and 8: a    *)
(* buffer has to grow for the second message, and the third disconnects a  *)
(* client that does not read.                                              *)
(***************************************************************************)
EXTENDS IpcServerProps

CONSTANTS c1, c2

Req(t, len, arg) == [type |-> t, magic |-> TRUE, len |-> len, arg |-> arg]
Garbage == [type |-> "query", magic |-> FALSE, len |-> 0, arg |-> <<>>]

\* Requests of every kind: without payload, with a short and a long one, not
\* supported, bytes that are no request, and arrays of names: subscriptions
\* that are granted, refused, repeated and given up, with values that are not
\* strings and the two names that share a bit.
MixedRequests ==
  {Req("query", 0, <<>>), Req("command", 2, <<>>), Req("other", 1, <<>>), Garbage,
   Req("send_tick", 0, <<>>),
   Req("subscribe", 1, <<"input", NotString, "tick">>), Req("subscribe", 1, <<"output", "binding">>),
   Req("subscribe", 1, <<"window">>), Req("unsubscribe", 1, <<"window", "mode", "tick">>),
   Req("unsubscribe", 1, <<"binding">>)}

\* Two clients: commands, subscriptions to an event of the plugin, and ticks.
ServiceRequests ==
  {Req("command", 1, <<>>), Req("subscribe", 1, <<"window">>), Req("subscribe", 1, <<"tick">>),
   Req("send_tick", 0, <<>>)}

\* What two clients need to make the server break its word.
ClaimRequests ==
  {Req("subscribe", 1, <<"input">>), Req("unsubscribe", 1, <<"binding">>),
   Req("subscribe", 1, <<"binding">>), Req("subscribe", 1, <<"tick">>)}
================================================================================
