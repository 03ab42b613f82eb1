--------------------------------- MODULE Power ---------------------------------
(***************************************************************************)
(* Display power management (src/plugins/power.cpp): a timer that is set   *)
(* again by every activity of the seat puts the outputs to sleep, the next *)
(* activity wakes them up, idle inhibitors suspend both, and the command   *)
(* "output <name> power on|off" (src/ipc/commands/output/power.cpp)        *)
(* overrides it.  The timer and the idle flag exist once (wayfire_power);  *)
(* every output has an instance of the plugin, which owns an inhibitor for *)
(* full screen views and listens for inhibitors of any origin coming and   *)
(* going.  Callbacks run one at a time on the event loop.                  *)
(***************************************************************************)
EXTENDS Integers, FiniteSets

CONSTANTS Outputs

ASSUME OutputsAssumption == IsFiniteSet(Outputs)

VARIABLES
  power,      \* the object wayfire_power and the outputs it controls, see Type
  hotkey,     \* hotkey_inhibitor has a value
  instances,  \* the outputs that have an instance of the plugin
  avoid,      \* the option disable_on_fullscreen
  full,       \* the instances whose has_fullscreen is set
  inhibitors, \* the instances whose fullscreen_inhibitor has a value
  others,     \* is there an inhibitor of another origin?
  crashed     \* has a null pointer been used?

vars == <<power, hotkey, instances, avoid, full, inhibitors, others, crashed>>

(***************************************************************************)
(* "none" is a disabled output, "absent" one that is not there.            *)
(* Connecting a callback that is connected makes it be called once more; 2 *)
(* stands for several.  The last two fields only remember what happened.   *)
(***************************************************************************)
PowerRec ==
  [enabled : BOOLEAN,       \* power_timeout > 0
   idle : BOOLEAN,          \* is_idle
   armed : BOOLEAN,         \* timeout_power.is_connected()
   seat : 0..2,             \* how often on_seat_activity is connected
   source : [Outputs -> {"self", "dpms", "none", "absent"}],
   woken : BOOLEAN,         \* was the last call of create_power_timeout one that woke up?
   left : SUBSET Outputs]   \* outputs asleep by command, or by an earlier wayfire_power

AtMost2(n) == IF n > 2 THEN 2 ELSE n

-----------------------------------------------------------------------------
\* Broken form: every output gets the new state.
SetState_All(w, from, to) == [o \in Outputs |-> to]

\* set_state
SetState(w, from, to) ==
  [o \in Outputs |-> IF w.source[o] = from THEN to ELSE w.source[o]]

\* Broken form: the outputs that sleep are not woken up.
Create_NoWake(w) ==
  IF w.enabled /\ ~w.armed /\ w.idle
    THEN [w EXCEPT !.idle = FALSE, !.woken = TRUE, !.left = {}]
    ELSE [w EXCEPT !.armed = w.enabled, !.woken = @ /\ ~w.enabled]

\* create_power_timeout
Create(w) ==
  IF w.enabled /\ ~w.armed /\ w.idle
    THEN [w EXCEPT !.idle = FALSE, !.source = SetState(w, "dpms", "self"),
                   !.woken = TRUE, !.left = {}]
    ELSE [w EXCEPT !.armed = w.enabled, !.woken = @ /\ ~w.enabled]

\* Called n times; more than two calls do what two do.
CreateTimes(w, n) ==
  CASE n = 0 -> w [] n = 1 -> Create(w) [] OTHER -> Create(Create(w))

Asleep(w) == {o \in Outputs : w.source[o] = "dpms"}

\* The constructor, on the outputs and the option as they are.
Constructed(w) ==
  [Create([w EXCEPT !.idle = FALSE, !.armed = FALSE, !.left = Asleep(w)]) EXCEPT !.seat = 1]

Destroyed(w) ==
  [w EXCEPT !.idle = FALSE, !.armed = FALSE, !.seat = 0, !.woken = FALSE, !.left = Asleep(w)]

Inhibits(h, f, x) == h \/ f # {} \/ x
Inhibited == Inhibits(hotkey, inhibitors, others)

\* Broken forms: the timer goes on; activity is not watched again; the
\* timer is not set again.
Signal_KeepsTimer(w, inhibit, n) ==
  IF n = 0 THEN w
  ELSE IF inhibit THEN [w EXCEPT !.seat = 0]
  ELSE CreateTimes([w EXCEPT !.seat = AtMost2(@ + n)], n)
Signal_NotWatched(w, inhibit, n) ==
  IF n = 0 THEN w
  ELSE IF inhibit THEN [w EXCEPT !.seat = 0, !.armed = FALSE]
  ELSE CreateTimes(w, n)
Signal_NotArmed(w, inhibit, n) ==
  IF n = 0 THEN w
  ELSE IF inhibit THEN [w EXCEPT !.seat = 0, !.armed = FALSE]
  ELSE [w EXCEPT !.seat = AtMost2(@ + n)]

\* inhibit_changed of n instances: an inhibitor has come or gone, after which
\* there is one or there is none.
Signal(w, inhibit, n) ==
  IF n = 0 THEN w
  ELSE IF inhibit THEN [w EXCEPT !.seat = 0, !.armed = FALSE]
  ELSE CreateTimes([w EXCEPT !.seat = AtMost2(@ + n)], n)

\* The signals of k inhibitors that come or go one after the other.
Signals(w, k, inhibit, n) ==
  IF k = 0 THEN w
  ELSE IF k = 1 \/ inhibit THEN Signal(w, inhibit, n)
  ELSE Signal(Signal(w, TRUE, n), FALSE, n)

-----------------------------------------------------------------------------
Init ==
  /\ instances = {} /\ hotkey = FALSE /\ full = {} /\ inhibitors = {}
  /\ avoid \in BOOLEAN /\ others \in BOOLEAN /\ crashed = FALSE
  /\ \E e \in BOOLEAN, s \in [Outputs -> {"self", "none", "absent"}] :
       power = [enabled |-> e, idle |-> FALSE, armed |-> FALSE, seat |-> 0,
                source |-> s, woken |-> FALSE, left |-> {}]

Size == Cardinality(instances)

(***************************************************************************)
(* init, because the plugin is loaded or the output has just come.  d is   *)
(* the option disable_initially, fs whether a full screen view is active.  *)
(* The instance listens for inhibitors only at the end.                    *)
(***************************************************************************)
InitInstance(o, s, d, fs) ==
  LET first == instances = {}
      here == [power EXCEPT !.source[o] = s]
      made == IF first THEN Constructed(here) ELSE here
      emptied == IF d /\ hotkey  \* emplace destroys an earlier inhibitor
                   THEN Signal(made, Inhibits(FALSE, inhibitors, others), Size) ELSE made
      emplaced == IF d THEN Signal(emptied, TRUE, Size) ELSE emptied
      ready == IF avoid /\ fs THEN Signal(emplaced, TRUE, Size) ELSE emplaced
  IN /\ o \notin instances /\ s \in {"self", power.source[o]} \cap {"self", "dpms"}
     /\ instances' = instances \cup {o}
     /\ hotkey' = (hotkey \/ d)
     /\ full' = IF fs THEN full \cup {o} ELSE full
     /\ inhibitors' = IF avoid /\ fs THEN inhibitors \cup {o} ELSE inhibitors
     /\ power' = ready
     /\ UNCHANGED <<avoid, others, crashed>>

\* fini, because the plugin is unloaded or the output goes, and destructors;
\* the last instance takes wayfire_power with it.
FiniInstance(o, s) ==
  LET there == [power EXCEPT !.source[o] = s]
      rest == instances \ {o}
  IN /\ o \in instances /\ s \in {"none", "absent", power.source[o]}
     /\ instances' = rest
     /\ full' = full \ {o}
     /\ inhibitors' = inhibitors \ {o}
     /\ hotkey' = (hotkey /\ rest # {})
     /\ power' =
          IF rest = {} THEN Destroyed(there)
          ELSE Signals(there, Cardinality(inhibitors \cap {o}),
                       Inhibits(hotkey, inhibitors', others), Cardinality(rest))
     /\ UNCHANGED <<avoid, others, crashed>>

\* on_seat_activity
Activity ==
  /\ power' = CreateTimes(power, power.seat)
  /\ UNCHANGED <<hotkey, instances, avoid, full, inhibitors, others, crashed>>

\* The timer, after power_timeout seconds without activity.
TimeoutPower ==
  /\ power.armed
  /\ power' = [power EXCEPT !.armed = FALSE, !.idle = TRUE,
                            !.source = SetState(power, "self", "dpms")]
  /\ UNCHANGED <<hotkey, instances, avoid, full, inhibitors, others, crashed>>

\* The callback of the option power_timeout.
ChangeTimeout(e) ==
  /\ instances # {}
  /\ power' = Create([power EXCEPT !.enabled = e])
  /\ UNCHANGED <<hotkey, instances, avoid, full, inhibitors, others, crashed>>

\* The activator "toggle" of any output.
Toggle ==
  /\ instances # {}
  /\ hotkey' = ~hotkey
  /\ power' = Signal(power, Inhibits(hotkey', inhibitors, others), Size)
  /\ UNCHANGED <<instances, avoid, full, inhibitors, others, crashed>>

\* update_fullscreen of the instances is.
UpdateFullscreen(is) ==
  LET changed == {o \in is : (avoid' /\ o \in full') # (o \in inhibitors)}
  IN /\ inhibitors' = (inhibitors \ changed) \cup (changed \ inhibitors)
     /\ power' = Signals(power, Cardinality(changed),
                         Inhibits(hotkey, inhibitors', others), Size)

\* Broken form: the inhibitor is not updated.
FullscreenFocused_Stale(o, promoted) ==
  /\ o \in instances
  /\ full' = IF promoted THEN full \cup {o} ELSE full \ {o}
  /\ UNCHANGED <<power, hotkey, instances, avoid, inhibitors, others, crashed>>

\* fullscreen_state_changed
FullscreenFocused(o, promoted) ==
  /\ o \in instances
  /\ full' = IF promoted THEN full \cup {o} ELSE full \ {o}
  /\ UNCHANGED avoid /\ UpdateFullscreen({o})
  /\ UNCHANGED <<hotkey, instances, others, crashed>>

\* disable_on_fullscreen_changed of every instance
ChangeAvoid ==
  /\ avoid' = ~avoid
  /\ UNCHANGED full /\ UpdateFullscreen(instances)
  /\ UNCHANGED <<hotkey, instances, others, crashed>>

\* An inhibitor of another plugin or of a client comes or goes.
OtherInhibitor ==
  /\ others' = ~others
  /\ power' = Signal(power, Inhibits(hotkey, inhibitors, others'), Size)
  /\ UNCHANGED <<hotkey, instances, avoid, full, inhibitors, crashed>>

Disabled(w) == {o \in Outputs : w.source[o] = "none"}

\* What a command makes of the outputs it is for.
Switched(targets, to) ==
  [power EXCEPT !.source = [o \in Outputs |-> IF o \in targets THEN to ELSE @[o]],
                !.left = IF to = "dpms" THEN @ \cup targets ELSE @ \ targets]

(***************************************************************************)
(* on_power_command of the instance of the active output, for all outputs  *)
(* of the configuration or for the one that is named, if there is one.     *)
(* Looking for the one among all, set_state_on and set_state_off take the  *)
(* id of each, which for a disabled one is that of a null pointer.         *)
(***************************************************************************)
PowerCommandAll(to) ==
  /\ instances # {}
  /\ power' = Switched({o \in Outputs : power.source[o] # "absent"}, to)
  /\ UNCHANGED <<hotkey, instances, avoid, full, inhibitors, others, crashed>>
PowerCommandOne(o, to) ==
  /\ instances # {} /\ power.source[o] \in {"self", "dpms"}
  /\ IF Disabled(power) = {}
       THEN power' = Switched({o}, to) /\ UNCHANGED crashed
       ELSE crashed' = TRUE /\ UNCHANGED power
  /\ UNCHANGED <<hotkey, instances, avoid, full, inhibitors, others>>

Next ==
  /\ ~crashed
  /\ \/ Activity \/ TimeoutPower \/ Toggle \/ ChangeAvoid \/ OtherInhibitor
     \/ \E e \in BOOLEAN : ChangeTimeout(e)
     \/ \E o \in Outputs :
          \/ \E s \in {"self", "dpms"}, d, fs \in BOOLEAN : InitInstance(o, s, d, fs)
          \/ \E s \in {"self", "dpms", "none", "absent"} : FiniInstance(o, s)
          \/ \E p \in BOOLEAN : FullscreenFocused(o, p)
          \/ \E to \in {"self", "dpms"} : PowerCommandOne(o, to)
     \/ \E to \in {"self", "dpms"} : PowerCommandAll(to)

Spec == Init /\ [][Next]_vars

\* The event loop fires the timer.
FairSpec == Spec /\ WF_vars(~crashed /\ TimeoutPower)

-----------------------------------------------------------------------------
\* The members of wayfire_power and of the instances of the plugin.
TypeOK ==
  /\ power \in PowerRec
  /\ instances \subseteq Outputs /\ full \subseteq instances /\ inhibitors \subseteq full
  /\ {hotkey, avoid, others, crashed} \subseteq BOOLEAN

(***************************************************************************)
(* Outputs that the timer has put to sleep wake up again.  The next        *)
(* activity does it; while idling is inhibited or power saving is disabled *)
(* activity does not, but then the end of the last inhibitor and the       *)
(* change of the option do, in whatever order they come.                   *)
(***************************************************************************)
Resumes == (Inhibited /\ ~Inhibited') \/ (~power.enabled /\ power'.enabled)
WakeStep ==
  /\ ~(Asleep(power) \subseteq power.left)
  /\ instances # {} /\ instances' # {} /\ power'.enabled /\ ~Inhibited'
  /\ Activity \/ Resumes
  => Asleep(power') = {}
SleepersWake == [][WakeStep]_vars

(***************************************************************************)
(* However late an instance began to listen: an inhibitor that comes, or   *)
(* goes while another is left, of whatever origin and on whatever output,  *)
(* stops the timer and the watch of activity.  They then stay so as long   *)
(* as there is an inhibitor, unless power_timeout is changed.              *)
(***************************************************************************)
Suspended(w) == ~w.armed /\ w.seat = 0
StopStep ==
  instances # {} /\ instances' # {} /\ Inhibited' =>
    \/ Suspended(power')
    \/ /\ UNCHANGED <<hotkey, inhibitors, others>>
       /\ ~Suspended(power) \/ \E e \in BOOLEAN : ChangeTimeout(e)
InhibitorsStop == [][StopStep]_vars

(***************************************************************************)
(* When the last inhibitor has gone, in whatever order inhibitors,         *)
(* instances and outputs came and went, activity is watched again.         *)
(***************************************************************************)
WatchesWhenFree == instances # {} /\ ~Inhibited => power.seat > 0

(***************************************************************************)
(* And the timer is right.  It is set again: inactivity is being measured  *)
(* whenever power saving is enabled and not inhibited, except between the  *)
(* activity that wakes the outputs up, which does not set the timer, and   *)
(* the next.  It does not run while the outputs sleep, because             *)
(* create_power_timeout takes a timer that runs for a sign that there is   *)
(* nothing to wake up.                                                     *)
(***************************************************************************)
TimerRunsOrWoken ==
  /\ instances # {} /\ ~Inhibited /\ power.enabled =>
       power.armed \/ power.idle \/ power.woken
  /\ power.idle => ~power.armed

(***************************************************************************)
(* Falling asleep and waking up leave disabled outputs disabled: set_state *)
(* changes those of one source only.                                       *)
(***************************************************************************)
IdleSparesDisabled ==
  [][power'.idle # power.idle /\ instances' = instances
       => Disabled(power') = Disabled(power)]_vars

(***************************************************************************)
(* What the descriptions of the options and the manual say.                *)
(* power_timeout: power saving mode is entered after the specified seconds *)
(* of inactivity, and -1 disables power saving (power.xml:16).             *)
(* disable_initially: the timeout is disabled as if toggled once           *)
(* (power.xml:28).  disable_on_fullscreen: full screen disables idle       *)
(* (power.xml:22).  RUN_COMMAND: every command that was parsed has a       *)
(* result (wayfire-ipc.7.scd:89).  None of them need hold throughout: a    *)
(* behaviour for which SomeClaimHolds is false refutes all five.           *)
(***************************************************************************)
TimerRuns ==
  instances # {} /\ ~Inhibited /\ power.enabled => power.armed \/ power.idle
DisabledSavesNothing == instances # {} /\ ~power.enabled => Asleep(power) \subseteq power.left
ToggledDisables == hotkey => ~power.armed
FullscreenDisables == inhibitors # {} => ~power.armed
CommandsReturn == ~crashed
SomeClaimHolds ==
  \/ []TimerRuns \/ []DisabledSavesNothing \/ []ToggledDisables
  \/ []FullscreenDisables \/ []CommandsReturn
================================================================================
