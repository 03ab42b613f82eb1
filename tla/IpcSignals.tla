------------------------------ MODULE IpcSignals ------------------------------
(***************************************************************************)
(* How the IPC plugin (src/ipc/ipc.cpp) turns signals of the compositor    *)
(* into events.  Every output has an instance of the plugin, and every     *)
(* instance connects its handlers to the core, to all outputs and to all   *)
(* views, keeps these connections up while outputs and views come and go,  *)
(* and calls send_event for each signal it gets; a call is the loop of     *)
(* module SendEventLoop.                                                   *)
(*                                                                         *)
(* The handlers bind_output_events connects to an output are connected and *)
(* disconnected together, so one number says how often an instance is      *)
(* connected to an object.  Connecting again adds a connection,            *)
(* disconnecting removes all of them.                                      *)
(***************************************************************************)
EXTENDS SendEventLoop, FiniteSetsExt

CONSTANTS
  Outputs,
  Views,
  Core,      \* the core and its output layout
  NoOutput   \* the output of a view that has none

ASSUME SignalsAssumption ==
  Outputs \cap Views = {} /\ Core \notin Outputs \cup Views /\ NoOutput \notin Outputs

Objects == Outputs \cup Views \cup {Core}

VARIABLES
  present,   \* the outputs in the output layout
  loaded,    \* is the plugin loaded?
  views,     \* the views get_all_views returns
  mapped,    \* those of them that are mapped
  at,        \* the output a mapped view is on
  hooks,     \* how often an instance, named by its output, is connected
  pending    \* how many calls of send_event the last signal still causes

scene == <<present, loaded, views, mapped, at, hooks>>
loop == <<list0, subs, failing, list, i, got>>
allVars == <<scene, pending, loop>>

Instances == IF loaded THEN present ELSE {}
Nobody == [c \in Clients |-> 0]

SignalsInit ==
  /\ present \in SUBSET Outputs /\ loaded = FALSE
  /\ views = {} /\ mapped = {} /\ at = [v \in Views |-> NoOutput]
  /\ hooks = [o \in Outputs |-> [x \in Objects |-> 0]]
  /\ pending = 0
  /\ list0 = <<>> /\ list = <<>> /\ i = 0
  /\ subs = {} /\ failing = {} /\ got = Nobody

-----------------------------------------------------------------------------
\* Nothing is being handled, and the next signal causes n calls.
Idle == pending = 0 /\ ~More
Causes(n) == Idle /\ pending' = n /\ UNCHANGED loop

\* All connections to x: how often its handler is called when x emits.
Connections(x) == MapThenSumSet(LAMBDA o : hooks[o][x], Outputs)

\* What get_outputs and get_all_views return, and the core.
Known == present \cup views \cup {Core}

\* bind_events and unbind_events, of an instance connected as h says.
BindEvents(h, known) == [x \in Objects |-> IF x \in known THEN h[x] + 1 ELSE h[x]]
UnbindEvents(h, known) == [x \in Objects |-> IF x \in known THEN 0 ELSE h[x]]

\* The plugin is loaded: init of an instance for each output.
Load ==
  /\ Causes(0) /\ ~loaded
  /\ loaded' = TRUE
  /\ hooks' = [o \in Outputs |-> IF o \in present THEN BindEvents(hooks[o], Known) ELSE hooks[o]]
  /\ UNCHANGED <<present, views, mapped, at>>

\* It is unloaded: fini of each instance, which publishes that it exits.
Unload ==
  /\ Causes(Cardinality(present)) /\ loaded
  /\ loaded' = FALSE
  /\ hooks' = [o \in Outputs |->
                 IF o \in present THEN UnbindEvents(hooks[o], Known) ELSE hooks[o]]
  /\ UNCHANGED <<present, views, mapped, at>>

\* Broken form: the new output is announced and not bound.
OutputAdded_NotBound(o) ==
  /\ o \in Outputs \ present
  /\ Causes(Connections(Core))
  /\ present' = present \cup {o}
  /\ hooks' = IF loaded THEN [hooks EXCEPT ![o] = BindEvents(@, Known \cup {o})] ELSE hooks
  /\ UNCHANGED <<loaded, views, mapped, at>>

\* on_output_added of every instance, and init of the instance of the new
\* output, which may connect to the signal soon enough to get it, too.
OutputAdded(o) ==
  /\ o \in Outputs \ present
  /\ \E self \in IF loaded THEN {0, 1} ELSE {0} :
       /\ Causes(Connections(Core) + self)
       /\ hooks' = [j \in Outputs |->
            IF j = o /\ loaded
              THEN [BindEvents(hooks[o], Known \cup {o}) EXCEPT ![o] = @ + self]
              ELSE [hooks[j] EXCEPT ![o] = @ + hooks[j][Core]]]
  /\ present' = present \cup {o}
  /\ UNCHANGED <<loaded, views, mapped, at>>

\* fini of the instance of an output that is going to be removed, then
\* on_output_removed of the others.  The views move to another output.
OutputRemoved(o) ==
  /\ o \in present
  /\ LET left == [hooks EXCEPT ![o] = UnbindEvents(@, Known)]
     IN /\ Causes((IF loaded THEN 1 ELSE 0)
                    + MapThenSumSet(LAMBDA j : left[j][Core], Outputs))
        /\ hooks' = [j \in Outputs |->
             IF left[j][Core] > 0 THEN [left[j] EXCEPT ![o] = 0] ELSE left[j]]
  /\ present' = present \ {o}
  /\ \E p \in IF present = {o} THEN {NoOutput} ELSE present \ {o} :
       at' = [v \in Views |-> IF at[v] = o THEN p ELSE at[v]]
  /\ UNCHANGED <<loaded, views, mapped>>

-----------------------------------------------------------------------------
(* Views. *)

\* A view is made or destroyed, and moves: no handler is called.
ViewCreated(v) ==
  /\ v \notin views /\ Causes(0) /\ views' = views \cup {v}
  /\ UNCHANGED <<present, loaded, mapped, at, hooks>>
ViewDestroyed(v) ==
  /\ v \in views \ mapped /\ Causes(0) /\ views' = views \ {v}
  /\ hooks' = [o \in Outputs |-> [hooks[o] EXCEPT ![v] = 0]]
  /\ UNCHANGED <<present, loaded, mapped, at>>
ViewMoved(v) ==
  /\ v \in mapped /\ Causes(0)
  /\ \E o \in present : at' = [at EXCEPT ![v] = o]
  /\ UNCHANGED <<present, loaded, views, mapped, hooks>>

\* on_view_mapped: bind_view_events, and the event.
OnViewMapped(v) ==
  /\ v \in views \ mapped
  /\ \E o \in IF present = {} THEN {NoOutput} ELSE present :
       /\ at' = [at EXCEPT ![v] = o]
       /\ IF o = NoOutput THEN Causes(0) /\ UNCHANGED hooks
          ELSE /\ Causes(Connections(o))
               /\ hooks' = [j \in Outputs |-> [hooks[j] EXCEPT ![v] = @ + hooks[j][o]]]
  /\ mapped' = mapped \cup {v}
  /\ UNCHANGED <<present, loaded, views>>

\* on_view_unmapped: unbind_view_events, and the event.
OnViewUnmapped(v) ==
  /\ v \in mapped
  /\ IF at[v] = NoOutput THEN Causes(0) /\ UNCHANGED hooks
     ELSE /\ Causes(Connections(at[v]))
          /\ hooks' = [j \in Outputs |->
               IF hooks[j][at[v]] > 0 THEN [hooks[j] EXCEPT ![v] = 0] ELSE hooks[j]]
  /\ mapped' = mapped \ {v} /\ at' = [at EXCEPT ![v] = NoOutput]
  /\ UNCHANGED <<present, loaded, views>>

\* on_view_title_changed and view_activated, connected to views.
OnViewChange(v) == v \in views /\ Causes(Connections(v)) /\ UNCHANGED scene

\* on_view_geometry_changed, connected to views and to outputs.
OnViewGeometryChanged(v) ==
  /\ v \in mapped
  /\ Causes(Connections(v) + IF at[v] = NoOutput THEN 0 ELSE Connections(at[v]))
  /\ UNCHANGED scene

\* on_view_minimized, on_view_change_workspace and on_wm_actions_above_changed,
\* connected to outputs.
OnViewStateChange(o) == o \in present /\ Causes(Connections(o)) /\ UNCHANGED scene

\* on_workspace_changed and on_workspace_grid_changed, connected to outputs.
OnWorkspaceChange(o) == o \in present /\ Causes(Connections(o)) /\ UNCHANGED scene

\* on_view_fullscreened: only if the state is not the one the view is in.
OnViewFullscreened(v) ==
  /\ v \in mapped /\ at[v] # NoOutput
  /\ \E n \in {0, Connections(at[v])} : Causes(n)
  /\ UNCHANGED scene

\* on_view_hints_changed, on_input_device_added and _removed, connected to the
\* core, and on_output_layout_configuration_changed.
OnViewHintsChanged == Causes(Connections(Core)) /\ UNCHANGED scene
OnInputDeviceChange == Causes(Connections(Core)) /\ UNCHANGED scene
OnLayoutChange == Causes(Connections(Core)) /\ UNCHANGED scene

\* on_keyboard_modifiers: two events, if the device is the seat's keyboard.
OnKeyboardModifiers ==
  /\ \E n \in {0, 2 * Connections(Core)} : Causes(n)
  /\ UNCHANGED scene

-----------------------------------------------------------------------------
\* signal_event calls send_event, for an event some clients are subscribed to
\* and that cannot be queued for some of them.
SignalEvent ==
  /\ pending > 0 /\ ~More
  /\ pending' = pending - 1
  /\ list0' = list /\ i' = 0 /\ got' = Nobody
  /\ \E s \in SUBSET {list[k] : k \in DOMAIN list} :
       subs' = s /\ failing' \in SUBSET s
  /\ UNCHANGED <<list, scene>>

\* Between two signals clients connect and leave.
ClientsChange ==
  /\ Idle
  /\ list' \in Lists /\ list0' = list' /\ i' = Len(list')
  /\ subs' = {} /\ failing' = {} /\ got' = Nobody
  /\ UNCHANGED <<scene, pending>>

SignalsNext ==
  \/ Load \/ Unload
  \/ \E o \in Outputs :
       OutputAdded(o) \/ OutputRemoved(o) \/ OnViewStateChange(o) \/ OnWorkspaceChange(o)
  \/ \E v \in Views :
       \/ ViewCreated(v) \/ ViewDestroyed(v) \/ ViewMoved(v)
       \/ OnViewMapped(v) \/ OnViewUnmapped(v) \/ OnViewChange(v)
       \/ OnViewGeometryChanged(v) \/ OnViewFullscreened(v)
  \/ OnViewHintsChanged \/ OnInputDeviceChange \/ OnLayoutChange \/ OnKeyboardModifiers
  \/ SignalEvent \/ ClientsChange
  \/ Next /\ UNCHANGED <<scene, pending>>

\* The loop is the body of a function: once called, it runs.
SignalsSpec ==
  SignalsInit /\ [][SignalsNext]_allVars /\ WF_allVars(Next /\ UNCHANGED <<scene, pending>>)

-----------------------------------------------------------------------------
(***************************************************************************)
(* No signal is missed: after any history of outputs and views that come,  *)
(* move and go, every instance is connected to the core, to every output   *)
(* and to every mapped view, and to nothing that has gone; and an instance *)
(* that has been finished, whose memory is freed, is connected to nothing. *)
(***************************************************************************)
NoSignalMissed ==
  \A o \in Outputs :
    IF o \in Instances
      THEN /\ hooks[o][Core] = 1
           /\ \A x \in present \cup mapped : hooks[o][x] > 0
           /\ \A x \in Objects \ Known : hooks[o][x] = 0
      ELSE \A x \in Objects : hooks[o][x] = 0
===============================================================================
