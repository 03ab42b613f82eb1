------------------------------ MODULE TeardownLoop ------------------------------
(***************************************************************************)
(* i3_ipc_server::client_disconnect, step by step, and the loop of         *)
(* handle_display_destroy that calls it for the last client of the list as *)
(* long as there is one.  The list shrinks under both loops: erase takes   *)
(* the client out of it while an iterator walks it, and the loop of the    *)
(* caller comes to an end by this alone.  Module IpcServer takes either as *)
(* one step (StillListed, HandleDisplayDestroy), which is right if the     *)
(* loops do, for every list, what Released says.                           *)
(***************************************************************************)
EXTENDS Integers, SequencesExt

CONSTANTS
  Clients,  \* the i3_ipc_client objects that have been allocated
  MaxList   \* bound: the length of the client list at first

VARIABLES
  list0,    \* the client list at first
  list,     \* ipc_client_list
  alive,    \* the objects that have not been deleted
  sources,  \* the event sources of the clients: <<client, which>>
  left,     \* the clients a handler has disconnected
  stage,    \* where the program is
  client,   \* the argument of client_disconnect
  it,       \* its iterator
  destroys  \* is handle_display_destroy the caller?

vars == <<list0, list, alive, sources, left, stage, client, it, destroys>>

Lists == {l \in UNION {[1..n -> Clients] : n \in 0..MaxList} : IsInjective(l)}
Listed(l) == {l[k] : k \in DOMAIN l}

\* Every client has its readable source, some have the writable one, too.
Init ==
  /\ list0 \in Lists /\ list = list0
  /\ alive = Listed(list0)
  /\ \E w \in SUBSET Listed(list0) :
       sources = {<<c, "readable">> : c \in Listed(list0)} \cup {<<c, "writable">> : c \in w}
  /\ left = {} /\ stage = "event_loop" /\ client \in Clients /\ it = 1 /\ destroys = FALSE

\* client_disconnect is called.
Disconnect(c) ==
  /\ client' = c /\ stage' = "sources"
  /\ UNCHANGED <<list0, list, alive, sources, it>>

\* client_handle_readable or client_handle_writable gives its client up.
HandlerGivesUp ==
  /\ stage = "event_loop"
  /\ \E s \in sources : Disconnect(s[1]) /\ left' = left \cup {s[1]}
  /\ UNCHANGED destroys

HandleDisplayDestroy ==
  /\ stage = "event_loop" /\ destroys' = TRUE /\ stage' = "while"
  /\ UNCHANGED <<list0, list, alive, sources, left, client, it>>

\* while (size()): the last client is the next one.
DisconnectLast ==
  /\ stage = "while" /\ list # <<>>
  /\ Disconnect(Last(list))
  /\ UNCHANGED <<left, destroys>>

\* Broken form: for (i = 0; i < size(); i++), which meets the shrinking list half-way.
NoneLeft_Counted ==
  /\ stage = "while" /\ stage' = "closed"
  /\ (Len(list0) - Cardinality(left)) - Len(list) >= Len(list)
  /\ UNCHANGED <<list0, list, alive, sources, left, client, it, destroys>>

NoneLeft ==
  /\ stage = "while" /\ list = <<>> /\ stage' = "closed"
  /\ UNCHANGED <<list0, list, alive, sources, left, client, it, destroys>>

\* Broken form: the writable source stays.
RemoveSources_ReadableOnly ==
  /\ stage = "sources" /\ stage' = "erase" /\ it' = 1
  /\ sources' = sources \ {<<client, "readable">>}
  /\ UNCHANGED <<list0, list, alive, left, client, destroys>>

\* shutdown, and the sources are removed.
RemoveSources ==
  /\ stage = "sources" /\ stage' = "erase" /\ it' = 1
  /\ sources' = {s \in sources : s[1] # client}
  /\ UNCHANGED <<list0, list, alive, left, client, destroys>>

\* erase leaves the iterator at what followed the client.
Erase ==
  /\ stage = "erase" /\ it <= Len(list) /\ list[it] = client
  /\ list' = RemoveAt(list, it)
  /\ UNCHANGED <<list0, alive, sources, left, stage, client, it, destroys>>

PassOver ==
  /\ stage = "erase" /\ it <= Len(list) /\ list[it] # client
  /\ it' = it + 1
  /\ UNCHANGED <<list0, list, alive, sources, left, stage, client, destroys>>

\* The buffer is freed, the descriptor closed, the object deleted.
Delete ==
  /\ stage = "erase" /\ it > Len(list)
  /\ alive' = alive \ {client} /\ it' = 1
  /\ stage' = IF destroys THEN "while" ELSE "event_loop"
  /\ UNCHANGED <<list0, list, sources, left, client, destroys>>

Step == DisconnectLast \/ NoneLeft \/ RemoveSources \/ Erase \/ PassOver \/ Delete

Next == HandlerGivesUp \/ HandleDisplayDestroy \/ Step

\* A loop that has been entered runs: it is one call of the event loop.
Spec == Init /\ [][Next]_vars /\ WF_vars(Step)

(***************************************************************************)
(* No step of either loop is for an object that has been deleted, whether  *)
(* by the same loop or by a handler before, and none is left with a source *)
(* whose callback would get it; in the end, or between two callbacks, the  *)
(* objects that are left are the ones in the list, each once and in the    *)
(* order of before: after the teardown, none.                              *)
(***************************************************************************)
Released ==
  /\ stage \in {"sources", "erase"} => client \in alive
  /\ \A s \in sources : s[1] \in alive
  /\ stage \in {"event_loop", "while"} => Listed(list) = alive
  /\ stage = "event_loop" => list = SelectSeq(list0, LAMBDA c : c \notin left)
  /\ stage = "closed" => list = <<>> /\ alive = {} /\ sources = {}

(***************************************************************************)
(* Termination: the teardown ends with every client let go, although the   *)
(* list it goes by is changed only inside of what it calls.                *)
(***************************************************************************)
TeardownEnds == destroys ~> stage = "closed" /\ alive = {}
================================================================================
