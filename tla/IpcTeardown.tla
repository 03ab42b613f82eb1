------------------------------ MODULE IpcTeardown ------------------------------
(***************************************************************************)
(* The two loops that walk the client list while client_disconnect erases  *)
(* from it, one after the other on the same list: send_event, for the      *)
(* signals of the compositor (modules IpcSignals and SendEventLoop), and,  *)
(* once the plugin has been unloaded, handle_display_destroy (module       *)
(* TeardownLoop), which starts with the clients the signals have left.     *)
(***************************************************************************)
EXTENDS IpcSignals

VARIABLES
  first,  \* the client list when the plugin's last instance had gone
  alive, sources, left, stage, client, it, destroys  \* as in TeardownLoop

T == INSTANCE TeardownLoop WITH list0 <- first

teardown == <<first, alive, sources, left, stage, client, it, destroys>>

TeardownInit ==
  /\ SignalsInit
  /\ first = <<>> /\ alive = {} /\ sources = {} /\ left = {}
  /\ stage = "signals" /\ client = (CHOOSE c \in Clients : TRUE) /\ it = 1 /\ destroys = FALSE

\* No instance is left to send events: from here on the clients only leave.
LastFini ==
  /\ stage = "signals" /\ Idle /\ ~loaded
  /\ stage' = "event_loop"
  /\ first' = list /\ alive' = T!Listed(list)
  /\ \E w \in SUBSET T!Listed(list) :
       sources' = {<<c, "readable">> : c \in T!Listed(list)} \cup {<<c, "writable">> : c \in w}
  /\ UNCHANGED <<allVars, left, client, it, destroys>>

\* Between two calls of send_event its variables follow the list, as in
\* ClientsChange.
AtRest ==
  /\ list0' = list' /\ i' = Len(list')
  /\ subs' = {} /\ failing' = {} /\ got' = Nobody
  /\ UNCHANGED <<scene, pending>>

TeardownNext ==
  \/ stage = "signals" /\ SignalsNext /\ UNCHANGED teardown
  \/ LastFini
  \/ T!Next /\ AtRest

\* Each of the two loops is the body of a function: once called, it runs.
TeardownSpec ==
  /\ TeardownInit /\ [][TeardownNext]_<<allVars, teardown>>
  /\ WF_<<allVars, teardown>>(Next /\ UNCHANGED <<scene, pending, teardown>>)
  /\ WF_<<allVars, teardown>>(T!Step /\ AtRest)

(***************************************************************************)
(* What client_disconnect lets go of, over the whole life of the list, and *)
(* what it leaves: see Released in TeardownLoop.                           *)
(***************************************************************************)
Released == T!Released

(***************************************************************************)
(* Termination: however often send_event is called its loop ends, although *)
(* its index does not always advance, and so does the teardown, with every *)
(* client let go, although the list it goes by is changed only inside of   *)
(* what it calls.                                                          *)
(***************************************************************************)
LoopsEnd == Ends /\ T!TeardownEnds
================================================================================
