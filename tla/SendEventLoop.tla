----------------------------- MODULE SendEventLoop -----------------------------
(***************************************************************************)
(* The loop of i3_ipc_server::send_event, iteration by iteration.  It walks *)
(* the client list by index while send_reply, when it fails, erases the    *)
(* current client from that list; the index is then stepped back, so that  *)
(* the next iteration looks at the client that has moved into its place.   *)
(* Module IpcServer takes the whole loop as one step (SendEvent), which is *)
(* right if the loop computes, for every list, what SendEvent says: here   *)
(* that is Outcome.                                                        *)
(***************************************************************************)
EXTENDS Integers, Sequences

CONSTANTS
  Clients,
  MaxList   \* bound: the length of the client list

ASSUME LoopAssumption == MaxList \in Nat

VARIABLES
  list0,    \* ipc_client_list when send_event is called
  subs,     \* the clients whose mask holds the event
  failing,  \* the clients for which send_reply fails
  list,     \* ipc_client_list
  i,        \* the index, from 0
  got       \* how often the event has been queued for a client

vars == <<list0, subs, failing, list, i, got>>

\* The lists of clients: handle_connection pushes a client once.
Lists == {l \in UNION {[1..n -> Clients] : n \in 0..MaxList} :
            \A a, b \in DOMAIN l : l[a] = l[b] => a = b}

Init ==
  /\ list0 \in Lists
  /\ subs \in SUBSET Clients
  /\ failing \in SUBSET Clients
  /\ list = list0
  /\ i = 0
  /\ got = [c \in Clients |-> 0]

\* erase in client_disconnect: the list holds a client once.
Without(l, c) ==
  LET k == CHOOSE k \in DOMAIN l : l[k] = c
  IN [n \in 1..(Len(l) - 1) |-> l[IF n < k THEN n ELSE n + 1]]

More == i < Len(list)
Current == list[i + 1]

\* continue: the client is not subscribed.
Skip ==
  /\ More /\ Current \notin subs
  /\ i' = i + 1
  /\ UNCHANGED <<list0, subs, failing, list, got>>

\* send_reply succeeds.
Queue ==
  /\ More /\ Current \in subs \ failing
  /\ got' = [got EXCEPT ![Current] = @ + 1]
  /\ i' = i + 1
  /\ UNCHANGED <<list0, subs, failing, list>>

\* Broken form of Lose: the index is not stepped back.
Lose_NoStepBack ==
  /\ More /\ Current \in subs \cap failing
  /\ list' = Without(list, Current)
  /\ i' = i + 1
  /\ UNCHANGED <<list0, subs, failing, got>>

\* send_reply fails: i-- in the loop's body, i++ in its head.
Lose ==
  /\ More /\ Current \in subs \cap failing
  /\ list' = Without(list, Current)
  /\ i' = (i - 1) + 1
  /\ UNCHANGED <<list0, subs, failing, got>>

Next == Skip \/ Queue \/ Lose

Spec == Init /\ [][Next]_vars /\ WF_vars(Next)

Members(l) == {l[k] : k \in DOMAIN l}

\* Outcome: when the loop ends, each subscriber in the list either has the
\* event exactly once or, if it could not get it, is gone from the list; the
\* other clients got nothing and are still there, in the same order.
Outcome ==
  ~More =>
    /\ Members(list) = Members(list0) \ (subs \cap failing)
    /\ \A a, b \in DOMAIN list, p, q \in DOMAIN list0 :
         list[a] = list0[p] /\ list[b] = list0[q] => (a < b <=> p < q)
    /\ \A c \in Clients :
         got[c] = IF c \in (subs \ failing) \cap Members(list0) THEN 1 ELSE 0

\* Termination: however often it is called, the loop ends although its index does not always advance.
Ends == []<>(~More)
================================================================================
