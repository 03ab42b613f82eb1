------------------------------- MODULE IpcPlugin -------------------------------
(***************************************************************************)
(* The life of the IPC plugin (src/ipc/ipc.cpp:20-75) around the server.   *)
(* The compositor makes one instance of the plugin per output; each calls  *)
(* serve() when it is initialised and, when it is finished, registers for  *)
(* the end of the display and starts a timer, either of which tears the    *)
(* server down.  All of this goes through variables that exist once: the   *)
(* event source of the socket, the event source of the timer, and two      *)
(* wl_listeners, which are nodes of the display's circular list of         *)
(* listeners.  The list is modelled as the C code sees it, by the pointers *)
(* of its nodes, because inserting or removing a node twice is an error    *)
(* the library does not detect.                                            *)
(***************************************************************************)
EXTENDS Integers, FiniteSets

CONSTANTS
  Outputs,  \* an instance of the plugin is made for each
  Clients,  \* the peers of the server, each connects at most once
  MaxInits  \* bound: how often an instance is made

ASSUME PluginAssumption == MaxInits \in Nat

VARIABLES
  display,    \* "running" | "ending" | "destroyed"
  instances,  \* the outputs that have an instance
  ninit,      \* how many instances have been made
  links,      \* the nodes of the display's list of destroy listeners
  source,     \* ipc_event_source: "null", "live", or a pointer to a "removed" source
  timer,      \* fini_event_source: the number of a timer, 0 for nullptr
  armed,      \* the timers that are going to fire
  removed,    \* the timers whose event source has been removed
  listed,     \* ipc_client_list
  served,     \* the clients whose connection is open
  fresh,      \* the peers that have not connected yet
  undefined   \* has the program done something whose effect is undefined?

clientVars == <<listed, served, fresh>>
vars == <<display, instances, ninit, links, source, timer, armed, removed,
          listed, served, fresh, undefined>>

-----------------------------------------------------------------------------
(* wl_list: "head" is the display's list, "server" is                      *)
(* ipc_display_destroy.link, "plugin" is display_destroy.link.             *)

Nil == "nil"
Nodes == {"head", "server", "plugin"}
Links == [next : [Nodes -> Nodes \cup {Nil}], prev : [Nodes -> Nodes \cup {Nil}]]

\* wl_list_insert(head.prev, e), assignment by assignment
Inserted(l, e) ==
  LET at == l.prev["head"]
      next == [l.next EXCEPT ![e] = @]
      prev == [l.prev EXCEPT ![e] = at]
      next1 == [next EXCEPT ![e] = next[at]]
      next2 == [next1 EXCEPT ![at] = e]
  IN [next |-> next2, prev |-> [prev EXCEPT ![next2[e]] = e]]

\* wl_list_insert writes to the node after the last, wl_list_remove to both
\* neighbours of its node: a nil pointer there is the end of the program.
Insertable(l, e) == l.prev["head"] = e \/ l.next[l.prev["head"]] # Nil
Linked(l, e) == l.next[e] # Nil /\ l.prev[e] # Nil

Unlinked(l, e) ==
  LET next == [l.next EXCEPT ![l.prev[e]] = l.next[e]]
      prev == [l.prev EXCEPT ![next[e]] = l.prev[e]]
  IN [next |-> [next EXCEPT ![e] = Nil], prev |-> [prev EXCEPT ![e] = Nil]]

\* wl_list_init
SelfLinked(l, e) == [next |-> [l.next EXCEPT ![e] = e], prev |-> [l.prev EXCEPT ![e] = e]]

Empty ==
  LET alone == [n \in Nodes |-> IF n = "head" THEN n ELSE Nil]
  IN [next |-> alone, prev |-> alone]

-----------------------------------------------------------------------------
Init ==
  /\ display = "running"
  /\ instances = {} /\ ninit = 0
  /\ links = Empty
  /\ source = "null"
  /\ timer = 0 /\ armed = {} /\ removed = {}
  /\ listed = {} /\ served = {} /\ fresh = Clients
  /\ undefined = FALSE

\* Broken forms: the clients are forgotten but not disconnected; the listener
\* is not removed from its list.
ServerDestroy_KeepsClients(l) ==
  /\ source' = "removed"
  /\ listed' = {}
  /\ links' = Unlinked(l, "server")
  /\ UNCHANGED <<served, undefined>>
ServerDestroy_KeepsLink(l) ==
  /\ source' = "removed"
  /\ served' = served \ listed
  /\ listed' = {}
  /\ links' = l
  /\ UNCHANGED undefined

\* i3_ipc_server::handle_display_destroy, the list being l.
ServerDestroy(l) ==
  IF source # "removed" /\ Linked(l, "server")
    THEN /\ source' = IF source = "live" THEN "removed" ELSE source
         /\ served' = served \ listed
         /\ listed' = {}
         /\ links' = Unlinked(l, "server")
         /\ UNCHANGED undefined
    ELSE /\ undefined' = TRUE
         /\ links' = l
         /\ UNCHANGED <<source, served, listed>>

\* ipc_t::handle_display_destroy, the list being l; fired has just fired.
PluginDestroy(l, fired) ==
  IF timer \notin removed /\ Linked(l, "plugin")
    THEN /\ removed' = removed \cup ({timer} \ {0})
         /\ armed' = armed \ (fired \cup {timer})
         /\ ServerDestroy(Unlinked(l, "plugin"))
    ELSE /\ undefined' = TRUE
         /\ UNCHANGED <<removed, armed, source, served, listed, links>>

Running == ~undefined /\ display = "running"

\* init: serve() forgets the sources and the list of an earlier call.
InitInstance(o) ==
  /\ Running /\ o \notin instances /\ ninit < MaxInits
  /\ instances' = instances \cup {o}
  /\ ninit' = ninit + 1
  /\ source' = "live"
  /\ listed' = {}
  /\ links' = Inserted(links, "server")
  /\ undefined' = ~Insertable(links, "server")
  /\ UNCHANGED <<display, timer, armed, removed, served, fresh>>

\* The number of the next timer.
NextTimer == ninit - Cardinality(instances) + 1

\* Broken forms: fini of what was never initialised; no timer; the timer of
\* an earlier fini set again.
FiniInstance_NotLoaded(o) ==
  /\ Running
  /\ instances' = instances \ {o}
  /\ links' = Inserted(links, "plugin")
  /\ timer' = NextTimer
  /\ armed' = armed \cup {NextTimer}
  /\ UNCHANGED <<display, ninit, source, removed, clientVars, undefined>>
FiniInstance_NoTimer(o) ==
  /\ Running /\ o \in instances
  /\ instances' = instances \ {o}
  /\ links' = Inserted(links, "plugin")
  /\ undefined' = ~Insertable(links, "plugin")
  /\ UNCHANGED <<display, ninit, timer, armed, source, removed, clientVars>>
FiniInstance_TimerKept(o) ==
  /\ Running /\ o \in instances
  /\ instances' = instances \ {o}
  /\ links' = Inserted(links, "plugin")
  /\ timer' = IF timer = 0 THEN NextTimer ELSE timer
  /\ armed' = armed \cup {timer'}
  /\ undefined' = ~Insertable(links, "plugin")
  /\ UNCHANGED <<display, ninit, source, removed, clientVars>>

\* fini: the SHUTDOWN event has been sent to its subscribers.
FiniInstance(o) ==
  /\ Running /\ o \in instances
  /\ instances' = instances \ {o}
  /\ links' = Inserted(links, "plugin")
  /\ timer' = NextTimer
  /\ armed' = armed \cup {NextTimer}
  /\ undefined' = ~Insertable(links, "plugin")
  /\ UNCHANGED <<display, ninit, source, removed, clientVars>>

\* handle_fini_timeout, 100 ms later
FiniTimeout(t) ==
  /\ Running /\ t \in armed
  /\ PluginDestroy(links, {t})
  /\ UNCHANGED <<display, instances, ninit, timer, fresh>>

\* wl_display_destroy: the display's listeners are called from the head of
\* the list, each removed from it and re-initialised before.
DisplayEnds ==
  /\ Running
  /\ display' = "ending"
  /\ UNCHANGED <<instances, ninit, links, source, timer, armed, removed,
                 clientVars, undefined>>

EmitNext ==
  LET pos == links.next["head"]
      l == SelfLinked(Unlinked(links, pos), pos)
  IN /\ ~undefined /\ display = "ending"
     /\ \/ /\ pos = "head"
           /\ display' = "destroyed"
           /\ UNCHANGED <<source, served, listed, links, removed, armed, undefined>>
        \/ /\ pos # "head" /\ ~Linked(links, pos)
           /\ undefined' = TRUE
           /\ UNCHANGED <<display, source, served, listed, links, removed, armed>>
        \/ /\ pos = "server" /\ Linked(links, pos)
           /\ ServerDestroy(l)
           /\ UNCHANGED <<display, removed, armed>>
        \/ /\ pos = "plugin" /\ Linked(links, pos)
           /\ PluginDestroy(l, {})
           /\ UNCHANGED display
     /\ UNCHANGED <<instances, ninit, timer, fresh>>

\* handle_connection, and the end of a connection
ClientConnects(c) ==
  /\ Running /\ c \in fresh /\ source = "live"
  /\ fresh' = fresh \ {c}
  /\ served' = served \cup {c}
  /\ listed' = listed \cup {c}
  /\ UNCHANGED <<display, instances, ninit, links, source, timer, armed, removed, undefined>>

ClientLeaves(c) ==
  /\ Running /\ c \in served
  /\ served' = served \ {c}
  /\ listed' = listed \ {c}
  /\ UNCHANGED <<display, instances, ninit, links, source, timer, armed, removed,
                 fresh, undefined>>

Next ==
  \/ DisplayEnds \/ EmitNext
  \/ \E o \in Outputs : InitInstance(o) \/ FiniInstance(o)
  \/ \E t \in 1..MaxInits : FiniTimeout(t)
  \/ \E c \in Clients : ClientConnects(c) \/ ClientLeaves(c)

Spec == Init /\ [][Next]_vars

\* The event loop fires timers, and the destruction of the display goes on.
FairSpec ==
  /\ Spec /\ WF_vars(EmitNext)
  /\ \A t \in 1..MaxInits : WF_vars(FiniTimeout(t))

-----------------------------------------------------------------------------
\* The state of ipc_t and of the server's globals.
TypeOK ==
  /\ display \in {"running", "ending", "destroyed"}
  /\ instances \subseteq Outputs /\ ninit \in 0..MaxInits
  /\ links \in Links
  /\ source \in {"null", "live", "removed"}
  /\ timer \in 0..MaxInits /\ armed \subseteq 1..MaxInits /\ removed \subseteq 1..MaxInits
  /\ listed \subseteq Clients /\ served \subseteq Clients /\ fresh \subseteq Clients
  /\ undefined \in BOOLEAN

(***************************************************************************)
(* The display's list of listeners is a list, and holds the listener of    *)
(* the server while its socket is watched and that of the plugin while a   *)
(* timer of fini runs.                                                     *)
(***************************************************************************)
ListenersMatch ==
  /\ \A n \in Nodes : Linked(links, n) =>
       links.prev[links.next[n]] = n /\ links.next[links.prev[n]] = n
  /\ Linked(links, "server") <=> source = "live"
  /\ Linked(links, "plugin") <=> armed # {}

(***************************************************************************)
(* Whatever outputs come and go, whichever timers of fini run and whenever *)
(* the display ends, one step only can break the list: an init that makes  *)
(* serve() insert its listener while it still is in the list, which is     *)
(* when another output has an instance or a timer of fini runs.            *)
(***************************************************************************)
ListenersKept ==
  [][ListenersMatch /\ ~ListenersMatch' =>
       Linked(links, "server") /\ \E o \in Outputs : InitInstance(o)]_vars

(***************************************************************************)
(* handle_fini_timeout, ipc_t::handle_display_destroy and the server's own *)
(* listener all tear the server down.  The first of them to run on a whole *)
(* list does nothing undefined; only a second one does, which finds the    *)
(* event source of the socket removed.                                     *)
(***************************************************************************)
FirstTeardownSafe ==
  [][undefined' # undefined => source = "removed" \/ ~ListenersMatch]_vars

(***************************************************************************)
(* As long as the list is whole, the clients with an open connection are   *)
(* those in ipc_client_list, so that they get the events they subscribed   *)
(* to and are disconnected by handle_display_destroy.                      *)
(***************************************************************************)
WholeListsServed == ListenersMatch => served = listed

(***************************************************************************)
(* fini leaves the disconnection to its timer: clients that are listed     *)
(* when the plugin has no instance any more are disconnected after 100 ms  *)
(* or by the end of the display, unless an output appears before.          *)
(***************************************************************************)
ClientsLetGo ==
  (instances = {} /\ served # {} /\ served = listed)
    ~> (served = {} \/ instances # {} \/ undefined)

(***************************************************************************)
(* What the comment of fini says (ipc.cpp:62-63): its timer disconnects    *)
(* the clients when 100 ms have passed.  That makes one teardown for one   *)
(* fini, and with one output nothing undefined; but the display may end    *)
(* before.                                                                 *)
(***************************************************************************)
TornDownOnce == ~undefined
================================================================================
