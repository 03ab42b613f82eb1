------------------------------- MODULE PowerProofs -------------------------------
(***************************************************************************)
(* Theorems about module Power, for every finite set of outputs.           *)
(***************************************************************************)
EXTENDS Power, FiniteSetTheorems, TLAPS

(***************************************************************************)
(* What holds of wayfire_power at any time.  The operators that make up    *)
(* the actions preserve it, so that it is proved once for each of them.    *)
(***************************************************************************)
Sound(w) ==
  /\ w \in PowerRec
  /\ w.idle => ~w.armed
  /\ ~w.idle => Asleep(w) \subseteq w.left

\* What holds while there is no inhibitor.
Free(w) == w.seat > 0 /\ (w.enabled => w.armed \/ w.idle \/ w.woken)

IInv ==
  /\ TypeOK /\ Sound(power)
  /\ instances # {} /\ ~Inhibited => Free(power)

-----------------------------------------------------------------------------
(* The operators on wayfire_power.                                         *)

LEMMA CreateSound ==
  ASSUME NEW w, Sound(w)
  PROVE  Sound(Create(w)) /\ Create(w).seat = w.seat /\ Create(w).enabled = w.enabled
BY DEF Sound, Create, PowerRec, SetState, Asleep

\* If the timer has put the outputs to sleep, or none sleeps, then none does
\* when create_power_timeout has returned.
Wakeable(w) == w.idle \/ Asleep(w) = {}

LEMMA CreateWakes ==
  ASSUME NEW w, Sound(w), Wakeable(w)
  PROVE  Wakeable(Create(w)) /\ (w.enabled => Asleep(Create(w)) = {})
BY DEF Sound, Create, PowerRec, SetState, Asleep, Wakeable

\* create_power_timeout sets the timer, wakes the outputs up, or does nothing
\* because the timer is not to be used.
Timed(w) == w.enabled => w.armed \/ w.idle \/ w.woken

LEMMA CreateTimed ==
  ASSUME NEW w, Sound(w)
  PROVE  Timed(Create(w))
BY DEF Sound, Create, PowerRec, Timed

LEMMA CreateFree ==
  ASSUME NEW w, Sound(w), w.seat > 0
  PROVE  Free(Create(w))
BY CreateSound, CreateTimed DEF Timed, Free

LEMMA CreateTimesSound ==
  ASSUME NEW w, Sound(w), NEW n \in Nat
  PROVE  /\ Sound(CreateTimes(w, n))
         /\ CreateTimes(w, n).seat = w.seat /\ CreateTimes(w, n).enabled = w.enabled
         /\ n # 0 /\ w.seat > 0 => Free(CreateTimes(w, n))
<1>1. CASE n = 0
  BY <1>1 DEF CreateTimes
<1>2. CASE n = 1
  BY <1>2, CreateSound, CreateFree DEF CreateTimes
<1>3. CASE n # 0 /\ n # 1
  <2>1. /\ Sound(Create(w)) /\ Create(w).seat = w.seat
        /\ Create(w).enabled = w.enabled
    BY CreateSound
  <2>2. CreateTimes(w, n) = Create(Create(w))
    BY <1>3 DEF CreateTimes
  <2>3. QED BY <2>1, <2>2, CreateSound, CreateFree
<1>4. QED BY <1>1, <1>2, <1>3

LEMMA CreateTimesWakes ==
  ASSUME NEW w, Sound(w), Wakeable(w), NEW n \in Nat \ {0}
  PROVE  w.enabled => Asleep(CreateTimes(w, n)) = {}
<1>1. CASE n = 1
  BY <1>1, CreateWakes DEF CreateTimes
<1>2. CASE n # 1
  <2>1. Sound(Create(w)) /\ Wakeable(Create(w)) /\ Create(w).enabled = w.enabled
    BY CreateSound, CreateWakes
  <2>2. CreateTimes(w, n) = Create(Create(w))
    BY <1>2 DEF CreateTimes
  <2>3. QED BY <2>1, <2>2, CreateWakes
<1>3. QED BY <1>1, <1>2

\* A signal leaves things as they should be whatever they were before.
LEMMA SignalSound ==
  ASSUME NEW w, Sound(w), NEW inhibit \in BOOLEAN, NEW n \in Nat
  PROVE  /\ Sound(Signal(w, inhibit, n))
         /\ n = 0 => Signal(w, inhibit, n) = w
         /\ Signal(w, inhibit, n).enabled = w.enabled
         /\ n # 0 => IF inhibit THEN Suspended(Signal(w, inhibit, n))
                                ELSE Free(Signal(w, inhibit, n))
         /\ Wakeable(w) /\ n # 0 =>
              IF inhibit THEN Wakeable(Signal(w, inhibit, n))
              ELSE w.enabled => Asleep(Signal(w, inhibit, n)) = {}
<1>1. CASE n = 0
  <2>1. Signal(w, inhibit, n) = w
    BY <1>1, Zenon DEF Signal
  <2>2. QED BY <1>1, <2>1
<1>2. CASE n # 0 /\ inhibit
  <2> DEFINE v == [w EXCEPT !.seat = 0, !.armed = FALSE]
  <2>1. Signal(w, inhibit, n) = v
    BY <1>2, Zenon DEF Signal
  <2>2. /\ v \in PowerRec /\ v.seat = 0 /\ ~v.armed /\ v.enabled = w.enabled
        /\ v.idle = w.idle /\ v.source = w.source /\ v.left = w.left
    <3>1. \A a \in BOOLEAN, n1 \in 0..2 : [w EXCEPT !.seat = n1, !.armed = a] \in PowerRec
      BY DEF Sound, PowerRec
    <3>2. FALSE \in BOOLEAN /\ 0 \in 0..2
      OBVIOUS
    <3>3. v \in PowerRec
      BY <3>1, <3>2, Zenon
    <3>4. QED BY <3>3 DEF Sound, PowerRec
  <2> HIDE DEF v
  <2>3. Asleep(v) = Asleep(w)
    BY <2>2 DEF Asleep
  <2>4. Sound(v) /\ Suspended(v) /\ (Wakeable(w) => Wakeable(v))
    BY <2>2, <2>3 DEF Sound, Suspended, Wakeable
  <2>5. QED BY <1>2, <2>1, <2>2, <2>4
<1>3. CASE n # 0 /\ ~inhibit
  <2> DEFINE v == [w EXCEPT !.seat = AtMost2(@ + n)]
  <2>1. AtMost2(w.seat + n) \in 1..2
    BY <1>3 DEF Sound, PowerRec, AtMost2
  <2>2. /\ v \in PowerRec /\ v.seat > 0 /\ v.enabled = w.enabled
        /\ v.idle = w.idle /\ v.armed = w.armed
        /\ v.source = w.source /\ v.left = w.left
    BY <2>1 DEF Sound, PowerRec
  <2>3. Signal(w, inhibit, n) = CreateTimes(v, n)
    BY <1>3, Zenon DEF Signal
  <2> HIDE DEF v
  <2>4. Asleep(v) = Asleep(w)
    BY <2>2 DEF Asleep
  <2>5. Sound(v) /\ (Wakeable(w) => Wakeable(v))
    BY <2>2, <2>4 DEF Sound, Wakeable
  <2>6. /\ Sound(CreateTimes(v, n)) /\ CreateTimes(v, n).enabled = v.enabled
        /\ Free(CreateTimes(v, n))
    BY <1>3, <2>2, <2>5, CreateTimesSound
  <2>7. Wakeable(w) /\ v.enabled => Asleep(CreateTimes(v, n)) = {}
    BY <1>3, <2>5, CreateTimesWakes
  <2>8. QED BY <1>3, <2>2, <2>3, <2>6, <2>7
<1>4. QED BY <1>1, <1>2, <1>3

LEMMA SignalsSound ==
  ASSUME NEW w, Sound(w), NEW k \in Nat, NEW inhibit \in BOOLEAN, NEW n \in Nat \ {0}
  PROVE  /\ Sound(Signals(w, k, inhibit, n))
         /\ k = 0 => Signals(w, k, inhibit, n) = w
         /\ Signals(w, k, inhibit, n).enabled = w.enabled
         /\ k # 0 => IF inhibit THEN Suspended(Signals(w, k, inhibit, n))
                                ELSE Free(Signals(w, k, inhibit, n))
         /\ Wakeable(w) /\ k # 0 /\ ~inhibit /\ w.enabled =>
              Asleep(Signals(w, k, inhibit, n)) = {}
<1>1. CASE k = 0
  <2>1. Signals(w, k, inhibit, n) = w
    BY <1>1, Zenon DEF Signals
  <2>2. QED BY <1>1, <2>1
<1>2. CASE k # 0 /\ (k = 1 \/ inhibit)
  <2>1. Signals(w, k, inhibit, n) = Signal(w, inhibit, n)
    BY <1>2, Zenon DEF Signals
  <2>2. QED BY <1>2, <2>1, SignalSound
<1>3. CASE k # 0 /\ k # 1 /\ ~inhibit
  <2> DEFINE v == Signal(w, TRUE, n)
  <2>1. TRUE \in BOOLEAN /\ FALSE \in BOOLEAN /\ n \in Nat /\ n # 0
    OBVIOUS
  <2>2. Signals(w, k, inhibit, n) = Signal(v, FALSE, n)
    BY <1>3, Zenon DEF Signals
  <2>3. Sound(v) /\ v.enabled = w.enabled /\ (Wakeable(w) => Wakeable(v))
    BY <2>1, SignalSound
  <2> HIDE DEF v
  <2>4. /\ Sound(Signal(v, FALSE, n)) /\ Free(Signal(v, FALSE, n))
        /\ Signal(v, FALSE, n).enabled = v.enabled
        /\ Wakeable(v) /\ v.enabled => Asleep(Signal(v, FALSE, n)) = {}
    BY <2>1, <2>3, SignalSound
  <2>5. QED BY <1>3, <2>2, <2>3, <2>4
<1>4. QED BY <1>1, <1>2, <1>3

LEMMA ConstructedSound ==
  ASSUME NEW w \in PowerRec
  PROVE  Sound(Constructed(w)) /\ Free(Constructed(w))
<1> DEFINE v == [w EXCEPT !.idle = FALSE, !.armed = FALSE, !.left = Asleep(w)]
<1> DEFINE c == [Create(v) EXCEPT !.seat = 1]
<1>1. v \in PowerRec
  <2>1. \A i, a \in BOOLEAN, t \in SUBSET Outputs :
          [w EXCEPT !.idle = i, !.armed = a, !.left = t] \in PowerRec
    BY DEF PowerRec
  <2>2. FALSE \in BOOLEAN /\ Asleep(w) \in SUBSET Outputs
    BY DEF Asleep
  <2>3. QED BY <2>1, <2>2, Zenon
<1>2. Sound(v)
  <2>1. v.left = Asleep(w) /\ v.source = w.source /\ v.armed = FALSE
    BY DEF PowerRec
  <2>2. Asleep(v) = Asleep(w)
    BY <2>1 DEF Asleep
  <2>3. QED BY <1>1, <2>1, <2>2 DEF Sound
<1> HIDE DEF v
<1>3. Sound(Create(v)) /\ Timed(Create(v))
  BY <1>2, CreateSound, CreateTimed
<1>4. /\ c \in PowerRec /\ c.seat = 1 /\ c.source = Create(v).source
      /\ c.left = Create(v).left
  BY <1>3 DEF Sound, PowerRec
<1>5. /\ c.idle = Create(v).idle /\ c.armed = Create(v).armed
      /\ c.enabled = Create(v).enabled /\ c.woken = Create(v).woken
  BY <1>3 DEF Sound, PowerRec
<1>6. Constructed(w) = c
  BY DEF Constructed, v
<1> HIDE DEF c
<1>7. Asleep(c) = Asleep(Create(v))
  BY <1>4 DEF Asleep
<1>8. QED BY <1>3, <1>4, <1>5, <1>6, <1>7 DEF Sound, Free, Timed

LEMMA DestroyedSound ==
  ASSUME NEW w \in PowerRec
  PROVE  Sound(Destroyed(w))
<1> DEFINE v == Destroyed(w)
<1>1. v \in PowerRec
  <2> DEFINE a == [w EXCEPT !.idle = FALSE, !.armed = FALSE, !.seat = 0]
             b == [a EXCEPT !.woken = FALSE, !.left = Asleep(w)]
  <2>1. a \in PowerRec
    <3>1. \A i, l \in BOOLEAN, s \in 0..2 :
            [w EXCEPT !.idle = i, !.armed = l, !.seat = s] \in PowerRec
      BY DEF PowerRec
    <3>2. FALSE \in BOOLEAN /\ 0 \in 0..2
      OBVIOUS
    <3>3. QED BY <3>1, <3>2, Zenon
  <2>2. v = b
    BY Zenon DEF Destroyed
  <2> HIDE DEF a, v
  <2>3. Asleep(w) \in SUBSET Outputs
    BY DEF Asleep
  <2>4. b \in PowerRec
    BY <2>1, <2>3 DEF PowerRec
  <2>5. QED BY <2>2, <2>4
<1>2. v.left = Asleep(w) /\ v.source = w.source /\ v.armed = FALSE
  BY DEF PowerRec, Destroyed
<1> HIDE DEF v
<1>3. Asleep(v) = Asleep(w)
  BY <1>2 DEF Asleep
<1>4. Sound(v)
  BY <1>1, <1>2, <1>3 DEF Sound
<1>5. QED BY <1>4 DEF v

\* An output comes awake or disabled, or goes.
LEMMA SourceReplaced ==
  ASSUME NEW w, Sound(w), NEW o \in Outputs,
         NEW s \in {"self", "dpms", "none", "absent"}, s # "dpms" \/ s = w.source[o],
         NEW v, v = [w EXCEPT !.source[o] = s]
  PROVE  /\ Sound(v) /\ v.seat = w.seat /\ v.armed = w.armed
         /\ v.enabled = w.enabled /\ v.idle = w.idle /\ v.woken = w.woken
         /\ Wakeable(w) => Wakeable(v)
<1>1. /\ v.seat = w.seat /\ v.armed = w.armed
      /\ v.enabled = w.enabled /\ v.idle = w.idle /\ v.woken = w.woken
      /\ v.left = w.left /\ v.source = [w.source EXCEPT ![o] = s]
  BY DEF Sound, PowerRec
<1>2. v \in PowerRec
  BY DEF Sound, PowerRec
<1>3. Asleep(v) \subseteq Asleep(w)
  BY <1>1 DEF Sound, PowerRec, Asleep
<1>4. QED BY <1>1, <1>2, <1>3 DEF Sound, Wakeable

-----------------------------------------------------------------------------
(* The actions.                                                            *)

LEMMA SizeCounts ==
  ASSUME NEW S, S \subseteq Outputs
  PROVE  Cardinality(S) \in Nat /\ (Cardinality(S) = 0 <=> S = {})
BY OutputsAssumption, FS_Subset, FS_CardinalityType, FS_EmptySet

\* What is proved of every step.
Step == IInv' /\ StopStep /\ WakeStep

\* Outputs asleep that activity or the end of an inhibition is to wake up.
LEMMA Sleeping ==
  ASSUME IInv, ~(Asleep(power) \subseteq power.left)
  PROVE  Wakeable(power)
BY DEF IInv, Sound, Wakeable

LEMMA ActivityKeeps == IInv /\ Activity => Step
<1> SUFFICES ASSUME IInv, Activity PROVE Step
  OBVIOUS
<1>1. /\ power.seat \in Nat /\ power' = CreateTimes(power, power.seat)
      /\ UNCHANGED <<hotkey, instances, avoid, full, inhibitors, others, crashed>>
  BY DEF IInv, Activity, Sound, PowerRec
<1>2. Sound(power) /\ TypeOK /\ Inhibited' = Inhibited
  BY <1>1 DEF IInv, Inhibited
<1>3. /\ Sound(power') /\ power'.enabled = power.enabled /\ power'.seat = power.seat
      /\ power.seat > 0 => Free(power')
  BY <1>1, <1>2, CreateTimesSound
<1>4. TypeOK'
  BY <1>1, <1>2, <1>3 DEF Sound, TypeOK
<1>5. (instances # {} /\ ~Inhibited => Free(power))'
  BY <1>1, <1>2, <1>3 DEF IInv, Free
<1>6. StopStep
  <2>1. power.seat = 0 => power' = power
    BY <1>1 DEF CreateTimes
  <2>2. QED BY <1>1, <2>1 DEF StopStep, Suspended
<1>7. WakeStep
  <2> SUFFICES ASSUME ~(Asleep(power) \subseteq power.left), instances # {},
                      power'.enabled, ~Inhibited'
               PROVE  Asleep(power') = {}
    BY DEF WakeStep
  <2>1. power.seat \in Nat \ {0}
    BY <1>1, <1>2 DEF IInv, Free
  <2>2. QED BY <1>1, <1>2, <1>3, <2>1, Sleeping, CreateTimesWakes
<1>8. QED BY <1>3, <1>4, <1>5, <1>6, <1>7 DEF IInv, Step

\* A step that leaves alone the inhibitors and what they act on.
LEMMA Calm ==
  ASSUME IInv, UNCHANGED <<hotkey, inhibitors, others>>,
         power'.armed = power.armed, power'.seat = power.seat,
         power'.enabled = power.enabled
  PROVE  StopStep /\ WakeStep
<1>1. Inhibited' = Inhibited /\ ~Resumes
  BY DEF Inhibited, Resumes
<1>2. Suspended(power) => Suspended(power')
  BY DEF Suspended
<1>3. Activity => WakeStep
  BY ActivityKeeps DEF Step
<1>4. QED BY <1>1, <1>2, <1>3 DEF StopStep, WakeStep

LEMMA TimeoutPowerKeeps == IInv /\ TimeoutPower => Step
<1> SUFFICES ASSUME IInv, TimeoutPower PROVE Step
  OBVIOUS
<1>1. /\ Sound(power) /\ TypeOK /\ power.armed
      /\ UNCHANGED <<hotkey, instances, avoid, full, inhibitors, others, crashed>>
  BY DEF IInv, TimeoutPower
<1>2. /\ power' \in PowerRec /\ power'.idle = TRUE /\ power'.armed = FALSE
      /\ power'.seat = power.seat /\ power'.enabled = power.enabled
  <2>1. SetState(power, "self", "dpms") \in [Outputs -> {"self", "dpms", "none", "absent"}]
    BY <1>1 DEF SetState, Sound, PowerRec
  <2>2. PICK src \in [Outputs -> {"self", "dpms", "none", "absent"}] :
          power' = [power EXCEPT !.armed = FALSE, !.idle = TRUE, !.source = src]
    BY <2>1, Zenon DEF TimeoutPower
  <2>3. QED BY <1>1, <2>2 DEF Sound, PowerRec
<1>3. Sound(power') /\ TypeOK'
  BY <1>1, <1>2 DEF Sound, TypeOK
<1>4. Inhibited' = Inhibited
  BY <1>1 DEF Inhibited
<1>5. (instances # {} /\ ~Inhibited => Free(power))'
  BY <1>1, <1>2, <1>4 DEF IInv, Free
<1>6. ~Suspended(power) /\ Asleep(power) \subseteq power.left
  BY <1>1 DEF Sound, Suspended
<1>7. QED BY <1>1, <1>3, <1>5, <1>6 DEF IInv, Step, StopStep, WakeStep

LEMMA ChangeTimeoutKeeps ==
  ASSUME NEW e \in BOOLEAN
  PROVE  IInv /\ ChangeTimeout(e) => Step
<1> SUFFICES ASSUME IInv, ChangeTimeout(e) PROVE Step
  OBVIOUS
<1> DEFINE v == [power EXCEPT !.enabled = e]
<1>1. /\ Sound(power) /\ TypeOK /\ power' = Create(v)
      /\ UNCHANGED <<hotkey, instances, avoid, full, inhibitors, others, crashed>>
  BY DEF IInv, ChangeTimeout
<1>2. /\ v \in PowerRec /\ v.source = power.source /\ v.left = power.left
      /\ v.idle = power.idle /\ v.armed = power.armed /\ v.seat = power.seat
      /\ v.enabled = e
  BY <1>1 DEF Sound, PowerRec
<1> HIDE DEF v
<1>3. Sound(v) /\ Asleep(v) = Asleep(power)
  <2>1. Asleep(v) = Asleep(power)
    BY <1>2 DEF Asleep
  <2>2. QED BY <1>1, <1>2, <2>1 DEF Sound
<1>4. /\ Sound(power') /\ Timed(power') /\ power'.seat = power.seat
      /\ power'.enabled = e
  BY <1>1, <1>2, <1>3, CreateSound, CreateTimed
<1>5. TypeOK'
  BY <1>1, <1>4 DEF TypeOK, Sound
<1>6. (instances # {} /\ ~Inhibited => Free(power))'
  BY <1>1, <1>4 DEF IInv, Inhibited, Free, Timed
<1>7. StopStep
  BY <1>1 DEF StopStep
<1>8. WakeStep
  <2> SUFFICES ASSUME ~(Asleep(power) \subseteq power.left), power'.enabled
               PROVE  Asleep(power') = {}
    BY DEF WakeStep
  <2>1. Wakeable(v)
    BY <1>2, <1>3, Sleeping DEF Wakeable
  <2>2. QED BY <1>1, <1>2, <1>3, <1>4, <2>1, CreateWakes
<1>9. QED BY <1>4, <1>5, <1>6, <1>7, <1>8 DEF IInv, Step

(***************************************************************************)
(* k inhibitors come or go and n instances are told of each.  w is         *)
(* wayfire_power before, which an output may just have left.               *)
(***************************************************************************)
LEMMA Told ==
  ASSUME IInv, instances # {}, NEW w, Sound(w), w.enabled = power.enabled,
         Wakeable(power) => Wakeable(w), Suspended(power) => Suspended(w),
         ~Inhibited => Free(w), NEW k \in Nat, NEW n \in Nat \ {0},
         k = 0 => UNCHANGED <<hotkey, inhibitors, others>>,
         Inhibited' \in BOOLEAN, power' = Signals(w, k, Inhibited', n)
  PROVE  Sound(power') /\ (~Inhibited' => Free(power')) /\ StopStep /\ WakeStep
<1>1. PICK inhibit \in BOOLEAN : inhibit = Inhibited' /\ power' = Signals(w, k, inhibit, n)
  OBVIOUS
<1>2. CASE k = 0
  <2>1. power' = w /\ UNCHANGED <<hotkey, inhibitors, others>>
    BY <1>1, <1>2, SignalsSound
  <2>2. Inhibited' = Inhibited
    BY <2>1 DEF Inhibited
  <2>3. ~Resumes /\ (Suspended(power) => Suspended(power'))
    BY <2>1, <2>2 DEF Resumes
  <2>4. Activity => WakeStep
    BY ActivityKeeps DEF Step
  <2>5. QED BY <2>1, <2>2, <2>3, <2>4 DEF StopStep, WakeStep
<1>3. CASE k # 0
  <2>1. /\ Sound(power') /\ power'.enabled = w.enabled
        /\ IF inhibit THEN Suspended(power') ELSE Free(power')
        /\ Wakeable(w) /\ ~inhibit /\ w.enabled => Asleep(power') = {}
    BY <1>1, <1>3, SignalsSound
  <2>2. StopStep
    BY <1>1, <2>1 DEF StopStep
  <2>3. WakeStep
    BY <1>1, <2>1, Sleeping DEF WakeStep
  <2>4. QED BY <1>1, <2>1, <2>2, <2>3
<1>4. QED BY <1>2, <1>3

\* An inhibitor comes or goes, of which every instance is told.
LEMMA SignalKeeps ==
  ASSUME IInv, Inhibited' \in BOOLEAN, power' = Signal(power, Inhibited', Size),
         instances' = instances
  PROVE  /\ Sound(power') /\ (instances # {} /\ ~Inhibited => Free(power))'
         /\ StopStep /\ WakeStep
<1>1. Sound(power) /\ Size \in Nat /\ (Size = 0 <=> instances = {})
  BY SizeCounts DEF IInv, TypeOK, Size
<1>2. CASE instances = {}
  BY <1>1, <1>2, SignalSound DEF StopStep, WakeStep
<1>3. CASE instances # {}
  <2>1. power' = Signals(power, 1, Inhibited', Size)
    BY DEF Signals
  <2>2. ~Inhibited => Free(power)
    BY <1>3 DEF IInv
  <2>3. Sound(power') /\ (~Inhibited' => Free(power')) /\ StopStep /\ WakeStep
    BY <1>1, <1>3, <2>1, <2>2, Told
  <2>4. QED BY <2>3
<1>4. QED BY <1>2, <1>3

LEMMA ToggleKeeps == IInv /\ Toggle => Step
<1> SUFFICES ASSUME IInv, Toggle PROVE Step
  OBVIOUS
<1>1. /\ hotkey' \in BOOLEAN /\ Inhibited' \in BOOLEAN
      /\ Inhibited' = Inhibits(hotkey', inhibitors, others)
  BY DEF IInv, TypeOK, Toggle, Inhibited, Inhibits
<1>2. power' = Signal(power, Inhibited', Size) /\ instances' = instances
  BY <1>1, Zenon DEF Toggle
<1>3. /\ Sound(power') /\ (instances # {} /\ ~Inhibited => Free(power))'
      /\ StopStep /\ WakeStep
  BY <1>1, <1>2, SignalKeeps
<1>4. TypeOK'
  BY <1>1, <1>3 DEF IInv, TypeOK, Toggle, Sound
<1>5. QED BY <1>3, <1>4 DEF IInv, Step

LEMMA OtherInhibitorKeeps == IInv /\ OtherInhibitor => Step
<1> SUFFICES ASSUME IInv, OtherInhibitor PROVE Step
  OBVIOUS
<1>1. /\ others' \in BOOLEAN /\ Inhibited' \in BOOLEAN
      /\ Inhibited' = Inhibits(hotkey, inhibitors, others')
  BY DEF IInv, TypeOK, OtherInhibitor, Inhibited, Inhibits
<1>2. power' = Signal(power, Inhibited', Size) /\ instances' = instances
  BY <1>1, Zenon DEF OtherInhibitor
<1>3. /\ Sound(power') /\ (instances # {} /\ ~Inhibited => Free(power))'
      /\ StopStep /\ WakeStep
  BY <1>1, <1>2, SignalKeeps
<1>4. TypeOK'
  BY <1>1, <1>3 DEF IInv, TypeOK, OtherInhibitor, Sound
<1>5. QED BY <1>3, <1>4 DEF IInv, Step

LEMMA UpdateKeeps ==
  ASSUME IInv, NEW is \in SUBSET instances, UpdateFullscreen(is),
         avoid' \in BOOLEAN, hotkey' = hotkey, others' = others, instances' = instances
  PROVE  /\ Sound(power') /\ (instances # {} /\ ~Inhibited => Free(power))'
         /\ StopStep /\ WakeStep
         /\ inhibitors' \subseteq (inhibitors \cup full')
<1> DEFINE changed == {o \in is : (avoid' /\ o \in full') # (o \in inhibitors)}
<1> DEFINE k == Cardinality(changed)
<1>1. /\ inhibitors' = (inhibitors \ changed) \cup (changed \ inhibitors)
      /\ power' = Signals(power, k, Inhibits(hotkey, inhibitors', others), Size)
  BY Zenon DEF UpdateFullscreen
<1>2. inhibitors' \subseteq (inhibitors \cup full')
  BY <1>1
<1>3. Inhibited' = Inhibits(hotkey, inhibitors', others) /\ Inhibited' \in BOOLEAN
  BY DEF IInv, TypeOK, Inhibited, Inhibits
<1>4. k \in Nat /\ (k = 0 <=> changed = {})
  BY SizeCounts DEF IInv, TypeOK
<1>5. Sound(power) /\ Size \in Nat /\ (Size = 0 <=> instances = {})
  BY SizeCounts DEF IInv, TypeOK, Size
<1>6. changed \subseteq instances
  OBVIOUS
<1> HIDE DEF changed
<1>7. changed = {} => inhibitors' = inhibitors
  BY <1>1
<1> HIDE DEF k
<1>8. CASE instances = {}
  <2>1. power' = power
    BY <1>1, <1>4, <1>6, <1>8, Zenon DEF Signals
  <2>2. QED BY <1>2, <1>5, <1>8, <2>1 DEF StopStep, WakeStep
<1>9. CASE instances # {}
  <2>1. k = 0 => UNCHANGED <<hotkey, inhibitors, others>>
    BY <1>4, <1>7
  <2>2. power' = Signals(power, k, Inhibited', Size)
    BY <1>1, <1>3, Zenon
  <2>3. ~Inhibited => Free(power)
    BY <1>9 DEF IInv
  <2>4. Size \in Nat \ {0}
    BY <1>5, <1>9
  <2>5. Sound(power') /\ (~Inhibited' => Free(power')) /\ StopStep /\ WakeStep
    BY <1>3, <1>4, <1>5, <1>9, <2>1, <2>2, <2>3, <2>4, Told
  <2>6. QED BY <1>2, <2>5
<1>10. QED BY <1>8, <1>9

LEMMA FullscreenFocusedKeeps ==
  ASSUME NEW o \in Outputs, NEW p \in BOOLEAN
  PROVE  IInv /\ FullscreenFocused(o, p) => Step
<1> SUFFICES ASSUME IInv, FullscreenFocused(o, p) PROVE Step
  OBVIOUS
<1>1. /\ UpdateFullscreen({o}) /\ {o} \in SUBSET instances
      /\ avoid' \in BOOLEAN /\ avoid' = avoid /\ hotkey' = hotkey
      /\ others' = others /\ instances' = instances /\ crashed' = crashed
  BY DEF FullscreenFocused, IInv, TypeOK
<1>2. /\ Sound(power') /\ inhibitors' \subseteq (inhibitors \cup full')
      /\ (instances # {} /\ ~Inhibited => Free(power))'
      /\ StopStep /\ WakeStep
  BY <1>1, UpdateKeeps
<1>3. full' \subseteq instances /\ inhibitors' \subseteq full'
  <2>1. full' = IF p THEN full \cup {o} ELSE full \ {o}
    BY DEF FullscreenFocused
  <2>2. o \notin full' => o \notin inhibitors'
    BY <1>1 DEF UpdateFullscreen
  <2>3. QED BY <1>1, <1>2, <2>1, <2>2 DEF IInv, TypeOK
<1>4. TypeOK'
  BY <1>1, <1>2, <1>3 DEF IInv, TypeOK, Sound
<1>5. QED BY <1>2, <1>4 DEF IInv, Step

LEMMA ChangeAvoidKeeps == IInv /\ ChangeAvoid => Step
<1> SUFFICES ASSUME IInv, ChangeAvoid PROVE Step
  OBVIOUS
<1>1. /\ UpdateFullscreen(instances) /\ instances \in SUBSET instances
      /\ avoid' \in BOOLEAN /\ full' = full /\ hotkey' = hotkey
      /\ others' = others /\ instances' = instances /\ crashed' = crashed
  BY DEF ChangeAvoid, IInv, TypeOK
<1>2. /\ Sound(power') /\ inhibitors' \subseteq (inhibitors \cup full')
      /\ (instances # {} /\ ~Inhibited => Free(power))'
      /\ StopStep /\ WakeStep
  BY <1>1, UpdateKeeps
<1>3. TypeOK'
  BY <1>1, <1>2 DEF IInv, TypeOK, Sound
<1>4. QED BY <1>2, <1>3 DEF IInv, Step

LEMMA SwitchedSound ==
  ASSUME Sound(power), NEW targets \in SUBSET Outputs, NEW to \in {"self", "dpms"},
         NEW v, v = Switched(targets, to)
  PROVE  /\ Sound(v) /\ v.idle = power.idle /\ v.armed = power.armed
         /\ v.seat = power.seat /\ v.enabled = power.enabled /\ v.woken = power.woken
<1> DEFINE source == [o \in Outputs |-> IF o \in targets THEN to ELSE power.source[o]]
<1> DEFINE left == IF to = "dpms" THEN power.left \cup targets ELSE power.left \ targets
<1>1. /\ source \in [Outputs -> {"self", "dpms", "none", "absent"}]
      /\ left \in SUBSET Outputs
      /\ v = [power EXCEPT !.source = source, !.left = left]
  BY DEF Sound, PowerRec, Switched
<1>2. ~power.idle => {o \in Outputs : source[o] = "dpms"} \subseteq left
  BY DEF Sound, Asleep
<1> HIDE DEF source, left
<1>3. /\ v \in PowerRec /\ v.source = source /\ v.left = left
      /\ v.idle = power.idle /\ v.armed = power.armed /\ v.seat = power.seat
      /\ v.enabled = power.enabled /\ v.woken = power.woken
  BY <1>1 DEF Sound, PowerRec
<1>4. QED BY <1>2, <1>3 DEF Sound, Asleep

LEMMA PowerCommandKeeps ==
  ASSUME NEW to \in {"self", "dpms"},
         PowerCommandAll(to) \/ \E o \in Outputs : PowerCommandOne(o, to)
  PROVE  IInv => Step
<1> SUFFICES ASSUME IInv PROVE Step
  OBVIOUS
<1>1. /\ UNCHANGED <<hotkey, instances, avoid, full, inhibitors, others>>
      /\ crashed' \in BOOLEAN
      /\ power' = power \/ \E targets \in SUBSET Outputs : power' = Switched(targets, to)
  <2>1. {o \in Outputs : power.source[o] # "absent"} \in SUBSET Outputs
    OBVIOUS
  <2>2. CASE PowerCommandAll(to)
    BY <2>1, <2>2 DEF PowerCommandAll, IInv, TypeOK
  <2>3. ASSUME NEW o \in Outputs, PowerCommandOne(o, to)
        PROVE  /\ UNCHANGED <<hotkey, instances, avoid, full, inhibitors, others>>
               /\ crashed' \in {TRUE, crashed}
               /\ power' \in {power, Switched({o}, to)}
    BY <2>3, Zenon DEF PowerCommandOne
  <2>4. crashed \in BOOLEAN /\ \A o \in Outputs : {o} \in SUBSET Outputs
    BY DEF IInv, TypeOK
  <2>5. QED BY <2>2, <2>3, <2>4
<1>2. Sound(power) /\ TypeOK
  BY DEF IInv
<1>3. /\ Sound(power') /\ power'.idle = power.idle /\ power'.armed = power.armed
      /\ power'.seat = power.seat /\ power'.enabled = power.enabled
      /\ power'.woken = power.woken
  BY <1>1, <1>2, SwitchedSound
<1>4. TypeOK'
  BY <1>1, <1>2, <1>3 DEF Sound, TypeOK
<1>5. (instances # {} /\ ~Inhibited => Free(power))'
  BY <1>1, <1>3 DEF IInv, Inhibited, Free
<1>6. StopStep /\ WakeStep
  BY <1>1, <1>3, Calm
<1>7. QED BY <1>3, <1>4, <1>5, <1>6 DEF IInv, Step

LEMMA InitInstanceKeeps ==
  ASSUME NEW o \in Outputs, NEW s \in {"self", "dpms"}, NEW d \in BOOLEAN, NEW fs \in BOOLEAN
  PROVE  IInv /\ InitInstance(o, s, d, fs) => Step
<1> SUFFICES ASSUME IInv, InitInstance(o, s, d, fs) PROVE Step
  OBVIOUS
<1> DEFINE here == [power EXCEPT !.source[o] = s]
<1> DEFINE made == IF instances = {} THEN Constructed(here) ELSE here
<1> DEFINE emptied == IF d /\ hotkey
                       THEN Signal(made, Inhibits(FALSE, inhibitors, others), Size) ELSE made
<1> DEFINE emplaced == IF d THEN Signal(emptied, TRUE, Size) ELSE emptied
<1> DEFINE ready == IF avoid /\ fs THEN Signal(emplaced, TRUE, Size) ELSE emplaced
<1>1. power' = ready
  BY Zenon DEF InitInstance
<1>2. /\ s \in {"self", power.source[o]} /\ instances' = instances \cup {o}
      /\ hotkey' = (hotkey \/ d) /\ UNCHANGED <<avoid, others, crashed>>
      /\ full' = (IF fs THEN full \cup {o} ELSE full)
      /\ inhibitors' = (IF avoid /\ fs THEN inhibitors \cup {o} ELSE inhibitors)
  BY DEF InitInstance
<1>3. Sound(power) /\ TypeOK
  BY DEF IInv
<1>4. /\ Sound(here) /\ here.seat = power.seat /\ here.armed = power.armed
      /\ here.enabled = power.enabled /\ here.idle = power.idle
      /\ here.woken = power.woken
  BY <1>2, <1>3, SourceReplaced
<1>5. Size \in Nat /\ (Size = 0 <=> instances = {})
  BY <1>3, SizeCounts DEF TypeOK, Size
<1>6. Inhibits(FALSE, inhibitors, others) \in BOOLEAN
  BY <1>3 DEF TypeOK, Inhibits
<1>7. Inhibited => Inhibited'
  BY <1>2, <1>3 DEF Inhibited, Inhibits, TypeOK
<1>8. instances # {} /\ ~Inhibited' => ~d /\ ~(avoid /\ fs)
  BY <1>2, <1>3 DEF Inhibited, Inhibits, TypeOK
<1>9. Sound(made) /\ (instances = {} => Free(made))
  BY <1>4, ConstructedSound DEF Sound
<1>10. made = here \/ instances = {}
  OBVIOUS
<1> HIDE DEF here, made
<1>11. Sound(emptied) /\ (~d \/ instances = {} => emptied = made)
  BY <1>5, <1>6, <1>9, SignalSound
<1> HIDE DEF emptied
<1>12. /\ Sound(emplaced) /\ (~d \/ instances = {} => emplaced = made)
       /\ d /\ instances # {} => Suspended(emplaced)
  BY <1>5, <1>11, SignalSound
<1> HIDE DEF emplaced
<1>13. /\ Sound(ready)
       /\ ~(avoid /\ fs) \/ instances = {} => ready = emplaced
       /\ avoid /\ fs /\ instances # {} => Suspended(ready)
  BY <1>5, <1>12, SignalSound
<1> HIDE DEF ready
<1>14. instances # {} /\ ~d /\ ~(avoid /\ fs) => power' = here
  BY <1>1, <1>10, <1>12, <1>13
<1>15. ~Inhibited' => Free(power')
  <2>1. CASE instances = {}
    BY <1>1, <1>9, <1>12, <1>13, <2>1
  <2>2. CASE instances # {}
    BY <1>4, <1>7, <1>8, <1>14, <2>2 DEF IInv, Free
  <2>3. QED BY <2>1, <2>2
<1>16. StopStep
  <2>1. CASE instances # {} /\ ~d /\ ~(avoid /\ fs)
    BY <1>2, <1>3, <1>4, <1>14, <2>1 DEF StopStep, Suspended, TypeOK
  <2>2. CASE instances # {} /\ (d \/ (avoid /\ fs))
    BY <1>1, <1>12, <1>13, <2>2 DEF StopStep
  <2>3. QED BY <2>1, <2>2 DEF StopStep
<1>17. WakeStep
  <2>1. instances # {} /\ ~Inhibited' => ~Resumes
    BY <1>4, <1>7, <1>8, <1>14 DEF Resumes
  <2>2. Activity => WakeStep
    BY ActivityKeeps DEF Step
  <2>3. QED BY <2>1, <2>2 DEF WakeStep
<1>18. TypeOK'
  BY <1>1, <1>2, <1>3, <1>13 DEF TypeOK, Sound
<1>19. QED BY <1>1, <1>13, <1>15, <1>16, <1>17, <1>18 DEF IInv, Step

LEMMA FiniInstanceKeeps ==
  ASSUME NEW o \in Outputs, NEW s \in {"self", "dpms", "none", "absent"}
  PROVE  IInv /\ FiniInstance(o, s) => Step
<1> SUFFICES ASSUME IInv, FiniInstance(o, s) PROVE Step
  OBVIOUS
<1> DEFINE there == [power EXCEPT !.source[o] = s]
<1> DEFINE rest == instances \ {o}
<1> DEFINE k == Cardinality(inhibitors \cap {o})
<1>1. power' = IF rest = {} THEN Destroyed(there)
               ELSE Signals(there, k, Inhibits(hotkey, inhibitors', others), Cardinality(rest))
  BY Zenon DEF FiniInstance
<1>2. /\ o \in instances /\ s \in {"none", "absent", power.source[o]}
      /\ instances' = rest /\ UNCHANGED <<avoid, others, crashed>>
      /\ hotkey' = (hotkey /\ rest # {})
      /\ full' = full \ {o} /\ inhibitors' = inhibitors \ {o}
  BY DEF FiniInstance
<1>3. Sound(power) /\ TypeOK /\ rest \subseteq Outputs
  BY DEF IInv, TypeOK
<1>4. /\ Sound(there) /\ there.seat = power.seat /\ there.armed = power.armed
      /\ there.enabled = power.enabled /\ there.idle = power.idle
      /\ there.woken = power.woken /\ (Wakeable(power) => Wakeable(there))
  BY <1>2, <1>3, SourceReplaced
<1>5. k \in Nat /\ (k = 0 <=> o \notin inhibitors)
  <2>1. inhibitors \cap {o} \subseteq Outputs
    OBVIOUS
  <2>2. QED BY <2>1, SizeCounts
<1>6. Cardinality(rest) \in Nat /\ (Cardinality(rest) = 0 <=> rest = {})
  BY <1>3, SizeCounts
<1>7. hotkey \in BOOLEAN /\ others \in BOOLEAN
  BY <1>3 DEF TypeOK
<1> HIDE DEF there, rest, k
<1>8. CASE rest = {}
  <2>1. Sound(power')
    BY <1>1, <1>4, <1>8, DestroyedSound DEF Sound
  <2>2. TypeOK'
    BY <1>2, <1>3, <1>7, <1>8, <2>1 DEF TypeOK, Sound, rest
  <2>3. StopStep /\ WakeStep
    BY <1>2, <1>8 DEF StopStep, WakeStep
  <2>4. QED BY <1>2, <1>8, <2>1, <2>2, <2>3 DEF IInv, Step
<1>9. CASE rest # {}
  <2>1. Inhibited' \in BOOLEAN /\ Inhibited' = Inhibits(hotkey, inhibitors', others)
    BY <1>2, <1>7, <1>9 DEF Inhibited, Inhibits
  <2>2. k = 0 => UNCHANGED <<hotkey, inhibitors, others>>
    BY <1>2, <1>5, <1>7, <1>9
  <2>3. power' = Signals(there, k, Inhibited', Cardinality(rest))
    BY <1>1, <1>9, <2>1, Zenon
  <2>4. /\ instances # {} /\ (~Inhibited => Free(there))
        /\ Suspended(power) => Suspended(there)
    BY <1>2, <1>4 DEF IInv, Free, Suspended
  <2>5. Cardinality(rest) \in Nat \ {0}
    BY <1>6, <1>9
  <2>6. Sound(power') /\ (~Inhibited' => Free(power')) /\ StopStep /\ WakeStep
    BY <1>4, <1>5, <2>1, <2>2, <2>3, <2>4, <2>5, Told
  <2>7. TypeOK'
    BY <1>2, <1>3, <1>7, <1>9, <2>6 DEF TypeOK, Sound, rest
  <2>8. QED BY <2>6, <2>7 DEF IInv, Step
<1>10. QED BY <1>8, <1>9

-----------------------------------------------------------------------------
(* The specification.                                                      *)

LEMMA InitHolds == Init => IInv
<1> SUFFICES ASSUME Init PROVE IInv
  OBVIOUS
<1>1. PICK e \in BOOLEAN, src \in [Outputs -> {"self", "none", "absent"}] :
        power = [enabled |-> e, idle |-> FALSE, armed |-> FALSE, seat |-> 0,
                 source |-> src, woken |-> FALSE, left |-> {}]
  BY DEF Init
<1>2. Sound(power)
  BY <1>1 DEF Sound, PowerRec, Asleep
<1>3. TypeOK /\ instances = {}
  BY <1>2 DEF Init, TypeOK, Sound
<1>4. QED BY <1>2, <1>3 DEF IInv

LEMMA NextKeeps == IInv /\ [Next]_vars => IInv' /\ [StopStep /\ WakeStep]_vars
<1> SUFFICES ASSUME IInv, [Next]_vars PROVE IInv' /\ [StopStep /\ WakeStep]_vars
  OBVIOUS
<1>1. Activity \/ TimeoutPower => Step
  BY ActivityKeeps, TimeoutPowerKeeps
<1>2. Toggle \/ ChangeAvoid \/ OtherInhibitor => Step
  BY ToggleKeeps, ChangeAvoidKeeps, OtherInhibitorKeeps
<1>3. ASSUME NEW e \in BOOLEAN, ChangeTimeout(e) PROVE Step
  BY <1>3, ChangeTimeoutKeeps
<1>4. ASSUME NEW o \in Outputs, NEW s \in {"self", "dpms"}, NEW d \in BOOLEAN,
             NEW fs \in BOOLEAN, InitInstance(o, s, d, fs)
      PROVE  Step
  BY <1>4, InitInstanceKeeps
<1>5. ASSUME NEW o \in Outputs, NEW s \in {"self", "dpms", "none", "absent"},
             FiniInstance(o, s)
      PROVE  Step
  BY <1>5, FiniInstanceKeeps
<1>6. ASSUME NEW o \in Outputs, NEW p \in BOOLEAN, FullscreenFocused(o, p) PROVE Step
  BY <1>6, FullscreenFocusedKeeps
<1>7. ASSUME NEW to \in {"self", "dpms"},
             PowerCommandAll(to) \/ \E o \in Outputs : PowerCommandOne(o, to)
      PROVE  Step
  BY <1>7, PowerCommandKeeps
<1>8. CASE UNCHANGED vars
  <2>1. IInv'
    BY <1>8 DEF vars, IInv, TypeOK, Sound, Asleep, Inhibited, Free
  <2>2. QED BY <1>8, <2>1
<1>9. CASE Next
  <2>1. Step
    BY <1>1, <1>2, <1>3, <1>4, <1>5, <1>6, <1>7, <1>9 DEF Next
  <2>2. QED BY <2>1 DEF Step
<1>10. QED BY <1>8, <1>9

\* The strengthening from which the invariants follow.
LEMMA Inductive == Spec => []IInv
<1>1. Init => IInv
  BY InitHolds
<1>2. IInv /\ [Next]_vars => IInv'
  BY NextKeeps
<1>3. QED BY <1>1, <1>2, PTL DEF Spec

(***************************************************************************)
(* wayfire_power and the instances of the plugin have the values their     *)
(* declarations and the lifetimes of their inhibitors allow, however many  *)
(* outputs there are.                                                      *)
(***************************************************************************)
THEOREM TypeCorrect == Spec => []TypeOK
<1>1. IInv => TypeOK
  BY DEF IInv
<1>2. QED BY <1>1, Inductive, PTL

(***************************************************************************)
(* Among any number of outputs, those that the timer has put to sleep wake *)
(* up with the next activity or, where activity is not listened to, when   *)
(* the last inhibitor goes or the option enables power saving.             *)
(***************************************************************************)
THEOREM OutputsResume == Spec => SleepersWake
<1>1. IInv /\ [Next]_vars => [WakeStep]_vars
  BY NextKeeps
<1>2. QED BY <1>1, Inductive, PTL DEF Spec, SleepersWake

(***************************************************************************)
(* inhibit_changed disconnects the timer and the activity callback for     *)
(* every inhibitor that comes, and for every one that goes but the last,   *)
(* whoever holds it, however many there are and whatever instances missed  *)
(* before; nothing but the option connects them again under an inhibitor.  *)
(***************************************************************************)
THEOREM InhibitorsRespected == Spec => InhibitorsStop
<1>1. IInv /\ [Next]_vars => [StopStep]_vars
  BY NextKeeps
<1>2. QED BY <1>1, Inductive, PTL DEF Spec, InhibitorsStop

(***************************************************************************)
(* When the last inhibitor has gone, inhibit_changed has connected the     *)
(* activity callback, in whatever order outputs and inhibitors came and    *)
(* went.                                                                   *)
(***************************************************************************)
THEOREM ActivityWatched == Spec => []WatchesWhenFree
<1>1. IInv => WatchesWhenFree
  BY DEF IInv, Free, WatchesWhenFree
<1>2. QED BY <1>1, Inductive, PTL

(***************************************************************************)
(* And inactivity is measured, but between the activity that wakes the     *)
(* outputs up and the next one, and never while they sleep.                *)
(***************************************************************************)
THEOREM InactivityMeasured == Spec => []TimerRunsOrWoken
<1>1. IInv => TimerRunsOrWoken
  BY DEF IInv, Sound, Free, TimerRunsOrWoken
<1>2. QED BY <1>1, Inductive, PTL

-----------------------------------------------------------------------------
(* No operator on wayfire_power enables or disables an output.             *)

LEMMA DisabledBySource ==
  ASSUME NEW v, NEW w, v.source = w.source
  PROVE  Disabled(v) = Disabled(w)
BY DEF Disabled

LEMMA CreateSpares ==
  ASSUME NEW w, Sound(w)
  PROVE  Disabled(Create(w)) = Disabled(w)
BY DEF Sound, Create, PowerRec, SetState, Disabled

LEMMA CreateTimesSpares ==
  ASSUME NEW w, Sound(w), NEW n
  PROVE  Disabled(CreateTimes(w, n)) = Disabled(w)
<1>1. Sound(Create(w)) /\ Disabled(Create(w)) = Disabled(w)
  BY CreateSound, CreateSpares
<1>2. Disabled(Create(Create(w))) = Disabled(Create(w))
  BY <1>1, CreateSpares
<1>3. CreateTimes(w, n) \in {w, Create(w), Create(Create(w))}
  BY DEF CreateTimes
<1>4. QED BY <1>1, <1>2, <1>3

LEMMA SignalSpares ==
  ASSUME NEW w, Sound(w), NEW inhibit \in BOOLEAN, NEW n \in Nat
  PROVE  Disabled(Signal(w, inhibit, n)) = Disabled(w)
<1>1. CASE n = 0
  BY <1>1, SignalSound
<1>2. CASE n # 0 /\ inhibit
  <2> DEFINE v == [w EXCEPT !.seat = 0, !.armed = FALSE]
  <2>1. Signal(w, inhibit, n) = v
    BY <1>2, Zenon DEF Signal
  <2>2. v.source = w.source
    BY DEF Sound, PowerRec
  <2> HIDE DEF v
  <2>3. QED BY <2>1, <2>2, DisabledBySource
<1>3. CASE n # 0 /\ ~inhibit
  <2> DEFINE v == [w EXCEPT !.seat = AtMost2(@ + n)]
  <2>1. Signal(w, inhibit, n) = CreateTimes(v, n)
    BY <1>3, Zenon DEF Signal
  <2>2. v.idle = w.idle /\ v.armed = w.armed /\ v.source = w.source /\ v.left = w.left
    BY DEF Sound, PowerRec
  <2>3. v \in PowerRec
    BY DEF Sound, PowerRec, AtMost2
  <2> HIDE DEF v
  <2>4. Sound(v)
    BY <2>2, <2>3 DEF Sound, Asleep
  <2>5. Disabled(v) = Disabled(w)
    BY <2>2, DisabledBySource
  <2>6. QED BY <2>1, <2>4, <2>5, CreateTimesSpares
<1>4. QED BY <1>1, <1>2, <1>3

LEMMA SignalsSpares ==
  ASSUME NEW w, Sound(w), NEW k, NEW inhibit \in BOOLEAN, NEW n \in Nat
  PROVE  Disabled(Signals(w, k, inhibit, n)) = Disabled(w)
<1>1. CASE k = 0
  BY <1>1, Zenon DEF Signals
<1>2. CASE k # 0 /\ (k = 1 \/ inhibit)
  <2>1. Signals(w, k, inhibit, n) = Signal(w, inhibit, n)
    BY <1>2, Zenon DEF Signals
  <2>2. QED BY <2>1, SignalSpares
<1>3. CASE k # 0 /\ k # 1 /\ ~inhibit
  <2>1. TRUE \in BOOLEAN /\ FALSE \in BOOLEAN
    OBVIOUS
  <2>2. Signals(w, k, inhibit, n) = Signal(Signal(w, TRUE, n), FALSE, n)
    BY <1>3, Zenon DEF Signals
  <2>3. Sound(Signal(w, TRUE, n)) /\ Disabled(Signal(w, TRUE, n)) = Disabled(w)
    BY <2>1, SignalSound, SignalSpares, Zenon
  <2>4. PICK v : v = Signal(w, TRUE, n)
    OBVIOUS
  <2>5. Disabled(Signal(v, FALSE, n)) = Disabled(v)
    BY <2>1, <2>3, <2>4, SignalSpares, Zenon
  <2>6. QED BY <2>2, <2>3, <2>4, <2>5
<1>4. QED BY <1>1, <1>2, <1>3

LEMMA StepSpares ==
  ASSUME IInv, Next, instances' = instances, power'.idle # power.idle
  PROVE  Disabled(power') = Disabled(power)
<1>0. /\ Sound(power) /\ power \in PowerRec /\ power.seat \in Nat /\ Size \in Nat
      /\ TRUE \in BOOLEAN /\ FALSE \in BOOLEAN
  <2>1. Sound(power) /\ instances \subseteq Outputs
    BY DEF IInv, TypeOK
  <2>2. Size \in Nat
    BY <2>1, SizeCounts DEF Size
  <2>3. power.seat \in Nat /\ power \in PowerRec
    BY <2>1 DEF Sound, PowerRec
  <2>4. QED BY <2>1, <2>2, <2>3
<1>1. CASE Activity
  BY <1>0, <1>1, CreateTimesSpares DEF Activity
<1>2. CASE TimeoutPower
  BY <1>0, <1>2 DEF TimeoutPower, PowerRec, SetState, Disabled
<1>3. CASE Toggle
  <2>1. Inhibits(hotkey', inhibitors', others) \in BOOLEAN
    BY DEF Inhibits
  <2>2. QED BY <1>0, <1>3, <2>1, SignalSpares DEF Toggle
<1>4. CASE OtherInhibitor
  <2>1. Inhibits(hotkey, inhibitors, others') \in BOOLEAN
    BY DEF Inhibits
  <2>2. QED BY <1>0, <1>4, <2>1, SignalSpares DEF OtherInhibitor
<1>5. ASSUME NEW is, UpdateFullscreen(is)
      PROVE  Disabled(power') = Disabled(power)
  <2>1. PICK k : power' = Signals(power, k, Inhibits(hotkey, inhibitors', others), Size)
    BY <1>5 DEF UpdateFullscreen
  <2>2. Inhibits(hotkey, inhibitors', others) \in BOOLEAN
    BY DEF Inhibits
  <2>3. QED BY <1>0, <2>1, <2>2, SignalsSpares
<1>6. CASE ChangeAvoid \/ \E o \in Outputs : \E p \in BOOLEAN : FullscreenFocused(o, p)
  BY <1>5, <1>6 DEF ChangeAvoid, FullscreenFocused
<1>7. CASE \E e \in BOOLEAN : ChangeTimeout(e)
  <2>1. PICK e \in BOOLEAN : power' = Create([power EXCEPT !.enabled = e])
    BY <1>7 DEF ChangeTimeout
  <2>2. PICK v : v = [power EXCEPT !.enabled = e]
    OBVIOUS
  <2>3. Sound(v) /\ v.source = power.source
    BY <1>0, <2>2 DEF Sound, PowerRec, Asleep
  <2>4. QED BY <2>1, <2>2, <2>3, CreateSpares, DisabledBySource
<1>8. CASE \E o \in Outputs :
             \/ \E s \in {"self", "dpms"}, d, fs \in BOOLEAN : InitInstance(o, s, d, fs)
             \/ \E s \in {"self", "dpms", "none", "absent"} : FiniInstance(o, s)
  <2>1. ASSUME NEW o \in Outputs, NEW s, NEW d, NEW fs, InitInstance(o, s, d, fs)
        PROVE  instances' # instances
    BY <2>1, Zenon DEF InitInstance
  <2>2. ASSUME NEW o \in Outputs, NEW s, FiniInstance(o, s)
        PROVE  instances' # instances
    <3>1. o \in instances /\ instances' = instances \ {o}
      BY <2>2, Zenon DEF FiniInstance
    <3>2. QED BY <3>1
  <2>3. QED BY <1>8, <2>1, <2>2
<1>9. CASE \E to \in {"self", "dpms"} :
             PowerCommandAll(to) \/ \E o \in Outputs : PowerCommandOne(o, to)
  <2>1. power'.idle = power.idle
    BY <1>0, <1>9 DEF PowerCommandAll, PowerCommandOne, Switched, PowerRec
  <2>2. QED BY <2>1
<1>10. QED BY <1>1, <1>2, <1>3, <1>4, <1>6, <1>7, <1>8, <1>9 DEF Next

(***************************************************************************)
(* set_state changes the outputs of one source only, so that falling       *)
(* asleep and waking up never enable or disable an output, whatever woke   *)
(* them up: activity, the end of an inhibition or an option.               *)
(***************************************************************************)
THEOREM DisabledSpared == Spec => IdleSparesDisabled
<1>1. IInv /\ [Next]_vars => [power'.idle # power.idle /\ instances' = instances
                                => Disabled(power') = Disabled(power)]_vars
  BY StepSpares
<1>2. QED BY <1>1, Inductive, PTL DEF Spec, IdleSparesDisabled
================================================================================
