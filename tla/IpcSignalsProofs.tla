--------------------------- MODULE IpcSignalsProofs ---------------------------
(***************************************************************************)
(* Theorems about module IpcSignals, for any outputs, views and clients.   *)
(***************************************************************************)
EXTENDS IpcSignals, TLAPS

\* The types of the scene.  A mapped view is on an output that is present, or
\* on none.
SceneOK ==
  /\ present \subseteq Outputs /\ loaded \in BOOLEAN
  /\ mapped \subseteq views /\ views \subseteq Views
  /\ at \in [Views -> present \cup {NoOutput}]
  /\ hooks \in [Outputs -> [Objects -> Nat]]

IInv == SceneOK /\ NoSignalMissed

-----------------------------------------------------------------------------
LEMMA CoreIsNew == Core \notin Outputs /\ Core \notin Views /\ Core \in Objects
BY SignalsAssumption DEF Objects

LEMMA InitInv == SignalsInit => IInv
<1> SUFFICES ASSUME SignalsInit
             PROVE  IInv
  OBVIOUS
<1>1. SceneOK
  BY DEF SignalsInit, SceneOK
<1>2. \A o \in Outputs : \A x \in Objects : hooks[o][x] = 0
  BY DEF SignalsInit
<1>3. Instances = {}
  BY DEF SignalsInit, Instances
<1>4. QED BY <1>1, <1>2, <1>3 DEF IInv, NoSignalMissed

\* Signals that only cause calls, the calls, and clients that come and go.
LEMMA SceneStays ==
  ASSUME IInv, UNCHANGED scene
  PROVE  IInv'
BY DEF IInv, SceneOK, NoSignalMissed, Instances, Known, Objects, scene

LEMMA LoadInv ==
  ASSUME IInv, Load
  PROVE  IInv'
<1>1. hooks' \in [Outputs -> [Objects -> Nat]]
  BY DEF IInv, SceneOK, Load, BindEvents
<1>2. SceneOK'
  BY <1>1 DEF IInv, SceneOK, Load
<1>3. \A o \in Outputs : \A x \in Objects :
        hooks'[o][x] = IF o \in present /\ x \in Known THEN 1 ELSE 0
  BY DEF IInv, SceneOK, Load, BindEvents, NoSignalMissed, Instances
<1>4. Instances' = present /\ Known' = Known
  BY DEF Load, Instances, Known
<1>5. Core \in Known /\ present' \cup mapped' \subseteq Known /\ Known \subseteq Objects
  BY DEF IInv, SceneOK, Load, Known, Objects
<1>6. NoSignalMissed'
  BY <1>3, <1>4, <1>5 DEF NoSignalMissed
<1>7. QED BY <1>2, <1>6 DEF IInv

LEMMA UnloadInv ==
  ASSUME IInv, Unload
  PROVE  IInv'
<1>1. hooks' \in [Outputs -> [Objects -> Nat]]
  BY DEF IInv, SceneOK, Unload, UnbindEvents
<1>2. SceneOK'
  BY <1>1 DEF IInv, SceneOK, Unload
<1>3. \A o \in Outputs : \A x \in Objects : hooks'[o][x] = 0
  BY DEF IInv, SceneOK, Unload, UnbindEvents, NoSignalMissed, Instances
<1>4. NoSignalMissed'
  BY <1>3 DEF Unload, NoSignalMissed, Instances, Objects
<1>5. QED BY <1>2, <1>4 DEF IInv

LEMMA OutputAddedInv ==
  ASSUME IInv, NEW p \in Outputs, OutputAdded(p)
  PROVE  IInv'
<1>1. PICK self \in {0, 1} :
        hooks' = [j \in Outputs |->
            IF j = p /\ loaded
              THEN [BindEvents(hooks[p], Known \cup {p}) EXCEPT ![p] = @ + self]
              ELSE [hooks[j] EXCEPT ![p] = @ + hooks[j][Core]]]
  BY DEF OutputAdded
<1>2. hooks' \in [Outputs -> [Objects -> Nat]]
  BY <1>1, CoreIsNew DEF IInv, SceneOK, BindEvents, Objects
<1>3. SceneOK'
  BY <1>2 DEF IInv, SceneOK, OutputAdded
<1>4. ASSUME NEW o \in Outputs, loaded, o = p
      PROVE  \A x \in Objects : IF x \in Known \cup {p} THEN hooks'[o][x] > 0 /\ (x # p => hooks'[o][x] = 1)
                                ELSE hooks'[o][x] = 0
  BY <1>1, <1>4, CoreIsNew DEF IInv, SceneOK, OutputAdded, BindEvents, NoSignalMissed, Instances, Objects
<1>5. ASSUME NEW o \in Outputs, ~(loaded /\ o = p)
      PROVE  \A x \in Objects :
               hooks'[o][x] = IF x = p THEN hooks[o][p] + hooks[o][Core] ELSE hooks[o][x]
  BY <1>1, <1>5 DEF IInv, SceneOK, Objects
<1>6. NoSignalMissed'
  <2>1. ASSUME NEW o \in Outputs, o \in Instances', o = p
        PROVE  /\ hooks'[o][Core] = 1
               /\ \A x \in present' \cup mapped' : hooks'[o][x] > 0
               /\ \A x \in Objects \ Known' : hooks'[o][x] = 0
    BY <1>4, <2>1, CoreIsNew DEF OutputAdded, Instances, Known, Objects, IInv, SceneOK
  <2>2. ASSUME NEW o \in Outputs, o \in Instances', o # p
        PROVE  /\ hooks'[o][Core] = 1
               /\ \A x \in present' \cup mapped' : hooks'[o][x] > 0
               /\ \A x \in Objects \ Known' : hooks'[o][x] = 0
    BY <1>5, <2>2, CoreIsNew
       DEF OutputAdded, Instances, Known, Objects, IInv, SceneOK, NoSignalMissed
  <2>3. ASSUME NEW o \in Outputs, o \notin Instances'
        PROVE  \A x \in Objects : hooks'[o][x] = 0
    BY <1>5, <2>3, CoreIsNew
       DEF OutputAdded, Instances, Known, Objects, IInv, SceneOK, NoSignalMissed
  <2>4. QED BY <2>1, <2>2, <2>3 DEF NoSignalMissed
<1>7. QED BY <1>3, <1>6 DEF IInv

LEMMA OutputRemovedInv ==
  ASSUME IInv, NEW p \in Outputs, OutputRemoved(p)
  PROVE  IInv'
<1> DEFINE left == [hooks EXCEPT ![p] = UnbindEvents(@, Known)]
<1>1. hooks' = [j \in Outputs |->
            IF left[j][Core] > 0 THEN [left[j] EXCEPT ![p] = 0] ELSE left[j]]
  BY DEF OutputRemoved
<1>2. left \in [Outputs -> [Objects -> Nat]]
  BY DEF IInv, SceneOK, UnbindEvents
<1>3. hooks' \in [Outputs -> [Objects -> Nat]]
  BY <1>1, <1>2
<1>4. at' \in [Views -> present' \cup {NoOutput}]
  BY DEF IInv, SceneOK, OutputRemoved
<1>5. SceneOK'
  BY <1>3, <1>4 DEF IInv, SceneOK, OutputRemoved
<1>6. \A x \in Objects : left[p][x] = 0
  BY DEF IInv, SceneOK, OutputRemoved, UnbindEvents, NoSignalMissed, Instances
<1>7. \A x \in Objects : hooks'[p][x] = 0
  BY <1>1, <1>6, CoreIsNew
<1>8. ASSUME NEW o \in Outputs, o # p
      PROVE  \A x \in Objects :
               hooks'[o][x] = IF x = p /\ hooks[o][Core] > 0 THEN 0 ELSE hooks[o][x]
  <2>1. left[o] = hooks[o] /\ hooks[o] \in [Objects -> Nat]
    BY <1>8 DEF IInv, SceneOK
  <2>2. QED BY <1>1, <2>1
<1>9. NoSignalMissed'
  <2>1. ASSUME NEW o \in Outputs, o \in Instances'
        PROVE  /\ hooks'[o][Core] = 1
               /\ \A x \in present' \cup mapped' : hooks'[o][x] > 0
               /\ \A x \in Objects \ Known' : hooks'[o][x] = 0
    <3>1. o # p /\ o \in Instances
      BY <2>1 DEF OutputRemoved, Instances
    <3>2. hooks[o][Core] = 1
      BY <3>1 DEF IInv, NoSignalMissed
    <3>3. p \notin Views /\ p \in Objects
      BY SignalsAssumption DEF Objects
    <3>4. QED
      BY <1>8, <3>1, <3>2, <3>3, CoreIsNew
         DEF OutputRemoved, Known, Objects, IInv, SceneOK, NoSignalMissed
  <2>2. ASSUME NEW o \in Outputs, o \notin Instances'
        PROVE  \A x \in Objects : hooks'[o][x] = 0
    BY <1>7, <1>8, <2>2 DEF OutputRemoved, Instances, IInv, SceneOK, NoSignalMissed
  <2>3. QED BY <2>1, <2>2 DEF NoSignalMissed
<1>10. QED BY <1>5, <1>9 DEF IInv

LEMMA ViewCreatedInv ==
  ASSUME IInv, NEW v \in Views, ViewCreated(v)
  PROVE  IInv'
BY CoreIsNew DEF IInv, SceneOK, NoSignalMissed, Instances, Known, Objects, ViewCreated

LEMMA ViewDestroyedInv ==
  ASSUME IInv, NEW v \in Views, ViewDestroyed(v)
  PROVE  IInv'
<1>1. hooks' \in [Outputs -> [Objects -> Nat]]
  BY DEF IInv, SceneOK, ViewDestroyed
<1>2. SceneOK'
  BY <1>1 DEF IInv, SceneOK, ViewDestroyed
<1>3. \A o \in Outputs : \A x \in Objects :
        hooks'[o][x] = IF x = v THEN 0 ELSE hooks[o][x]
  BY DEF IInv, SceneOK, ViewDestroyed
<1>4. NoSignalMissed'
  BY <1>3, CoreIsNew, SignalsAssumption
     DEF IInv, SceneOK, ViewDestroyed, NoSignalMissed, Instances, Known, Objects
<1>5. QED BY <1>2, <1>4 DEF IInv

LEMMA ViewMovedInv ==
  ASSUME IInv, NEW v \in Views, ViewMoved(v)
  PROVE  IInv'
BY DEF IInv, SceneOK, NoSignalMissed, Instances, Known, Objects, ViewMoved

LEMMA OnViewMappedInv ==
  ASSUME IInv, NEW v \in Views, OnViewMapped(v)
  PROVE  IInv'
<1>1. PICK p \in present \cup {NoOutput} :
        /\ p = NoOutput => present = {}
        /\ at' = [at EXCEPT ![v] = p]
        /\ hooks' = IF p = NoOutput THEN hooks
                    ELSE [j \in Outputs |-> [hooks[j] EXCEPT ![v] = @ + hooks[j][p]]]
  <2>1. PICK p \in IF present = {} THEN {NoOutput} ELSE present :
          /\ at' = [at EXCEPT ![v] = p]
          /\ hooks' = IF p = NoOutput THEN hooks
                      ELSE [j \in Outputs |-> [hooks[j] EXCEPT ![v] = @ + hooks[j][p]]]
    BY DEF OnViewMapped
  <2>2. p = NoOutput => present = {}
    BY SignalsAssumption DEF IInv, SceneOK
  <2>3. QED BY <2>1, <2>2
<1>2. CASE p = NoOutput
  BY <1>1, <1>2 DEF IInv, SceneOK, NoSignalMissed, Instances, Known, Objects, OnViewMapped
<1>3. CASE p # NoOutput
  <2>1. p \in Outputs /\ p \in present /\ p \in Objects /\ v \in Objects
    BY <1>3 DEF IInv, SceneOK, Objects
  <2>2. hooks' \in [Outputs -> [Objects -> Nat]]
    BY <1>1, <1>3, <2>1 DEF IInv, SceneOK
  <2>3. SceneOK'
    BY <1>1, <2>2 DEF IInv, SceneOK, OnViewMapped
  <2>4. \A o \in Outputs : \A x \in Objects :
          hooks'[o][x] = IF x = v THEN hooks[o][v] + hooks[o][p] ELSE hooks[o][x]
    BY <1>1, <1>3 DEF IInv, SceneOK
  <2>5. \A o \in Outputs : hooks[o] \in [Objects -> Nat]
    BY DEF IInv, SceneOK
  <2>6. ASSUME NEW o \in Outputs, o \in Instances'
        PROVE  /\ hooks'[o][Core] = 1
               /\ \A x \in present' \cup mapped' : hooks'[o][x] > 0
               /\ \A x \in Objects \ Known' : hooks'[o][x] = 0
    <3>1. o \in Instances
      BY <2>6 DEF OnViewMapped, Instances
    <3>2. hooks[o][p] > 0
      BY <2>1, <3>1 DEF IInv, NoSignalMissed
    <3>3. QED
      BY <2>1, <2>4, <2>5, <3>1, <3>2, CoreIsNew
         DEF OnViewMapped, Known, Objects, IInv, SceneOK, NoSignalMissed
  <2>7. ASSUME NEW o \in Outputs, o \notin Instances'
        PROVE  \A x \in Objects : hooks'[o][x] = 0
    BY <2>1, <2>4, <2>7 DEF OnViewMapped, Instances, IInv, NoSignalMissed
  <2>8. QED BY <2>3, <2>6, <2>7 DEF IInv, NoSignalMissed
<1>4. QED BY <1>2, <1>3

LEMMA OnViewUnmappedInv ==
  ASSUME IInv, NEW v \in Views, OnViewUnmapped(v)
  PROVE  IInv'
<1>1. /\ at' = [at EXCEPT ![v] = NoOutput]
      /\ mapped' = mapped \ {v} /\ UNCHANGED <<present, loaded, views>>
  BY DEF OnViewUnmapped
<1>2. v \in Objects
  BY DEF Objects
<1>3. /\ hooks' \in [Outputs -> [Objects -> Nat]]
      /\ \A o \in Outputs : \A x \in Objects :
           hooks'[o][x] = hooks[o][x] \/ (x = v /\ hooks'[o][x] = 0)
  <2>1. CASE at[v] = NoOutput
    BY <2>1 DEF OnViewUnmapped, IInv, SceneOK
  <2>2. CASE at[v] # NoOutput
    <3>1. hooks' = [j \in Outputs |->
               IF hooks[j][at[v]] > 0 THEN [hooks[j] EXCEPT ![v] = 0] ELSE hooks[j]]
      BY <2>2 DEF OnViewUnmapped
    <3>2. QED BY <3>1, <1>2 DEF IInv, SceneOK
  <2>3. QED BY <2>1, <2>2
<1>4. SceneOK'
  BY <1>1, <1>3 DEF IInv, SceneOK
<1>5. NoSignalMissed'
  BY <1>1, <1>3, CoreIsNew, SignalsAssumption
     DEF IInv, SceneOK, NoSignalMissed, Instances, Known, Objects
<1>6. QED BY <1>4, <1>5 DEF IInv

LEMMA NextInv ==
  ASSUME IInv, [SignalsNext]_allVars
  PROVE  IInv'
<1>1. CASE UNCHANGED allVars
  BY <1>1, SceneStays DEF allVars
<1>2. CASE Load
  BY <1>2, LoadInv
<1>3. CASE Unload
  BY <1>3, UnloadInv
<1>4. ASSUME NEW o \in Outputs, OutputAdded(o)
      PROVE  IInv'
  BY <1>4, OutputAddedInv
<1>5. ASSUME NEW o \in Outputs, OutputRemoved(o)
      PROVE  IInv'
  BY <1>5, OutputRemovedInv
<1>6. ASSUME NEW o \in Outputs, OnViewStateChange(o) \/ OnWorkspaceChange(o)
      PROVE  IInv'
  BY <1>6, SceneStays DEF OnViewStateChange, OnWorkspaceChange
<1>7. ASSUME NEW v \in Views, ViewCreated(v) \/ ViewDestroyed(v) \/ ViewMoved(v)
      PROVE  IInv'
  BY <1>7, ViewCreatedInv, ViewDestroyedInv, ViewMovedInv
<1>8. ASSUME NEW v \in Views, OnViewMapped(v) \/ OnViewUnmapped(v)
      PROVE  IInv'
  BY <1>8, OnViewMappedInv, OnViewUnmappedInv
<1>9. ASSUME NEW v \in Views,
             OnViewChange(v) \/ OnViewGeometryChanged(v) \/ OnViewFullscreened(v)
      PROVE  IInv'
  BY <1>9, SceneStays DEF OnViewChange, OnViewGeometryChanged, OnViewFullscreened
<1>10. CASE OnViewHintsChanged \/ OnInputDeviceChange \/ OnLayoutChange \/ OnKeyboardModifiers
  BY <1>10, SceneStays
     DEF OnViewHintsChanged, OnInputDeviceChange, OnLayoutChange, OnKeyboardModifiers
<1>11. CASE SignalEvent \/ ClientsChange \/ (Next /\ UNCHANGED <<scene, pending>>)
  BY <1>11, SceneStays DEF SignalEvent, ClientsChange
<1>12. QED
  BY <1>1, <1>2, <1>3, <1>4, <1>5, <1>6, <1>7, <1>8, <1>9, <1>10, <1>11 DEF SignalsNext

THEOREM Invariant == SignalsSpec => []IInv
<1>1. SignalsInit => IInv
  BY InitInv
<1>2. IInv /\ [SignalsNext]_allVars => IInv'
  BY NextInv
<1>3. QED BY <1>1, <1>2, PTL DEF SignalsSpec

(***************************************************************************)
(* The handlers of an instance (bind_events, on_output_added and the other *)
(* four that connect or disconnect) keep it connected to all there is and  *)
(* to nothing else, however many outputs and views come and go.            *)
(***************************************************************************)
THEOREM NothingIsMissed == SignalsSpec => []NoSignalMissed
<1>1. IInv => NoSignalMissed
  BY DEF IInv
<1>2. QED BY <1>1, Invariant, PTL

-----------------------------------------------------------------------------
(***************************************************************************)
(* The loop of send_event.  Clients that were lost have moved the others   *)
(* forward by Gone places: behind the index the list is what it was there, *)
(* and before it are the clients dealt with that are not lost, in order.   *)
(***************************************************************************)
Gone == Len(list0) - Len(list)
Lost == subs \cap failing
Behind(k) == list[k] = list0[k + Gone]
InOrder ==
  \A a, b \in 1..i, p, q \in 1..(i + Gone) :
    list[a] = list0[p] /\ list[b] = list0[q] => (a < b <=> p < q)
Delivered(c) == c \in subs \ failing /\ \E p \in 1..(i + Gone) : list0[p] = c
Once(l) == \A a, b \in 1..Len(l) : l[a] = l[b] => a = b

LoopInv ==
  /\ list0 \in Seq(Clients) /\ list \in Seq(Clients) /\ Len(list) <= Len(list0)
  /\ i \in 0..Len(list) /\ got \in [Clients -> Nat]
  /\ Once(list0) /\ Once(list)
  /\ \A k \in (i + 1)..Len(list) : Behind(k)
  /\ \A k \in 1..i : \E p \in 1..(i + Gone) : list[k] = list0[p] /\ list0[p] \notin Lost
  /\ \A p \in 1..(i + Gone) : list0[p] \notin Lost => \E k \in 1..i : list[k] = list0[p]
  /\ InOrder
  /\ \A c \in Clients : got[c] = IF Delivered(c) THEN 1 ELSE 0

LEMMA Erased ==
  ASSUME NEW l \in Seq(Clients), Once(l), NEW k \in 1..Len(l)
  PROVE  /\ Without(l, l[k]) \in Seq(Clients)
         /\ Len(Without(l, l[k])) = Len(l) - 1
         /\ \A n \in 1..(Len(l) - 1) :
              Without(l, l[k])[n] = l[IF n < k THEN n ELSE n + 1]
<1> DEFINE w == [n \in 1..(Len(l) - 1) |-> l[IF n < k THEN n ELSE n + 1]]
<1>1. (CHOOSE j \in DOMAIN l : l[j] = l[k]) = k
  BY DEF Once
<1>2. Without(l, l[k]) = w
  BY <1>1, Zenon DEF Without
<1>3. Len(l) - 1 \in Nat /\ \A n \in 1..(Len(l) - 1) : l[IF n < k THEN n ELSE n + 1] \in Clients
  OBVIOUS
<1>4. w \in [1..(Len(l) - 1) -> Clients]
  BY <1>3
<1>5. w \in Seq(Clients) /\ Len(w) = Len(l) - 1
  BY <1>3, <1>4
<1>6. QED BY <1>2, <1>5

LEMMA Advances ==
  ASSUME LoopInv, More, Current \notin Lost,
         i' = i + 1, UNCHANGED <<list0, subs, failing, list>>,
         got' \in [Clients -> Nat],
         \A c \in Clients : got'[c] = IF c = Current /\ c \in subs THEN got[c] + 1 ELSE got[c]
  PROVE  LoopInv'
<1> DEFINE n == i + 1
<1> DEFINE m == i + 1 + Gone
<1>1. /\ n \in 1..Len(list) /\ m \in 1..Len(list0) /\ i \in Nat /\ Gone \in Nat
      /\ i' = n /\ Gone' = Gone /\ (i + Gone)' = m /\ Lost' = Lost
      /\ i + Gone \in Nat /\ m = (i + Gone) + 1
  BY DEF LoopInv, More, Gone, Lost
<1>2. list[n] = list0[m] /\ list[n] \notin Lost /\ Current = list[n]
  BY <1>1 DEF LoopInv, Behind, Current
<1>3. \A p \in 1..m : p \in 1..(i + Gone) \/ p = m
  BY <1>1
<1>4. \A k \in 1..n : k \in 1..i \/ k = n
  BY <1>1
<1>5. (\A k \in (i + 1)..Len(list) : Behind(k))'
  BY <1>1 DEF LoopInv, Behind
<1>6. (\A k \in 1..i : \E p \in 1..(i + Gone) : list[k] = list0[p] /\ list0[p] \notin Lost)'
  <2>1. \A k \in 1..n : \E p \in 1..m : list[k] = list0[p] /\ list0[p] \notin Lost
    <3>1. ASSUME NEW k \in 1..i
          PROVE  \E p \in 1..m : list[k] = list0[p] /\ list0[p] \notin Lost
      <4>1. PICK p \in 1..(i + Gone) : list[k] = list0[p] /\ list0[p] \notin Lost
        BY DEF LoopInv
      <4>2. p \in 1..m
        BY <1>1
      <4>3. QED BY <4>1, <4>2
    <3>2. m \in 1..m
      BY <1>1
    <3>3. QED BY <1>2, <1>4, <3>1, <3>2
  <2>2. QED BY <1>1, <2>1
<1>7. (\A p \in 1..(i + Gone) : list0[p] \notin Lost => \E k \in 1..i : list[k] = list0[p])'
  <2>1. \A p \in 1..m : list0[p] \notin Lost => \E k \in 1..n : list[k] = list0[p]
    <3>1. ASSUME NEW p \in 1..(i + Gone), list0[p] \notin Lost
          PROVE  \E k \in 1..n : list[k] = list0[p]
      <4>1. PICK k \in 1..i : list[k] = list0[p]
        BY <3>1 DEF LoopInv
      <4>2. k \in 1..n
        BY <1>1
      <4>3. QED BY <4>1, <4>2
    <3>2. n \in 1..n
      BY <1>1
    <3>3. QED BY <1>2, <1>3, <3>1, <3>2
  <2>2. QED BY <1>1, <2>1
<1>8. InOrder'
  <2>1. \A a, b \in 1..n, p, q \in 1..m :
          list[a] = list0[p] /\ list[b] = list0[q] => (a < b <=> p < q)
    <3> SUFFICES ASSUME NEW a \in 1..n, NEW b \in 1..n, NEW p \in 1..m, NEW q \in 1..m,
                        list[a] = list0[p], list[b] = list0[q]
                 PROVE  a < b <=> p < q
      OBVIOUS
    <3>1. /\ \A x, y \in 1..Len(list) : list[x] = list[y] => x = y
          /\ \A x, y \in 1..Len(list0) : list0[x] = list0[y] => x = y
      BY DEF LoopInv, Once
    <3>2. a = n <=> p = m
      BY <1>1, <1>2, <3>1
    <3>3. b = n <=> q = m
      BY <1>1, <1>2, <3>1
    <3>4. CASE a = n \/ b = n
      BY <1>1, <3>2, <3>3, <3>4
    <3>5. CASE a # n /\ b # n
      <4>1. a \in 1..i /\ b \in 1..i /\ p \in 1..(i + Gone) /\ q \in 1..(i + Gone)
        BY <1>3, <1>4, <3>2, <3>3, <3>5
      <4>2. QED BY <4>1 DEF LoopInv, InOrder
    <3>6. QED BY <3>4, <3>5
  <2>2. QED BY <1>1, <2>1 DEF InOrder
<1>9. (\A c \in Clients : got[c] = IF Delivered(c) THEN 1 ELSE 0)'
  <2>1. \A c \in Clients :
          Delivered(c)' <=> c \in subs \ failing /\ \E p \in 1..m : list0[p] = c
    BY <1>1 DEF Delivered
  <2>2. ASSUME NEW c \in Clients
        PROVE  got'[c] = IF Delivered(c)' THEN 1 ELSE 0
    <3>1. CASE c = Current
      <4>1. ~\E p \in 1..(i + Gone) : list0[p] = c
        <5>1. \A p \in 1..(i + Gone) : p \in 1..Len(list0) /\ p # m
          BY <1>1 DEF LoopInv
        <5>2. \A x, y \in 1..Len(list0) : list0[x] = list0[y] => x = y
          BY DEF LoopInv, Once
        <5>3. QED BY <1>1, <1>2, <3>1, <5>1, <5>2
      <4>2. got[c] = 0 /\ (c \in subs => c \in subs \ failing)
        BY <1>2, <3>1, <4>1 DEF LoopInv, Delivered, Lost
      <4>3. Delivered(c)' <=> c \in subs
        BY <1>1, <1>2, <2>1, <3>1, <4>2
      <4>4. QED BY <3>1, <4>2, <4>3
    <3>2. CASE c # Current
      <4>1. Delivered(c)' <=> Delivered(c)
        BY <1>1, <1>2, <1>3, <2>1, <3>2 DEF Delivered
      <4>2. QED BY <3>2, <4>1 DEF LoopInv
    <3>3. QED BY <3>1, <3>2
  <2>3. QED BY <2>2
<1>10. /\ list0' \in Seq(Clients) /\ list' \in Seq(Clients) /\ Len(list') <= Len(list0')
       /\ i' \in 0..Len(list') /\ Once(list0') /\ Once(list')
  BY <1>1 DEF LoopInv
<1>11. QED
  BY <1>5, <1>6, <1>7, <1>8, <1>9, <1>10 DEF LoopInv

LEMMA SkipKeeps ==
  ASSUME LoopInv, Skip
  PROVE  LoopInv'
<1>1. More /\ Current \notin subs /\ i' = i + 1 /\ UNCHANGED <<list0, subs, failing, list, got>>
  BY DEF Skip
<1>2. \A c \in Clients : got'[c] = IF c = Current /\ c \in subs THEN got[c] + 1 ELSE got[c]
  BY <1>1
<1>3. Current \notin Lost /\ got' \in [Clients -> Nat]
  BY <1>1 DEF Lost, LoopInv
<1>4. QED BY <1>1, <1>2, <1>3, Advances

LEMMA QueueKeeps ==
  ASSUME LoopInv, Queue
  PROVE  LoopInv'
<1>1. /\ More /\ Current \in subs /\ Current \notin failing
      /\ i' = i + 1 /\ UNCHANGED <<list0, subs, failing, list>>
      /\ got' = [got EXCEPT ![Current] = @ + 1]
  BY DEF Queue
<1>2. /\ \A c \in Clients : got'[c] = IF c = Current /\ c \in subs THEN got[c] + 1 ELSE got[c]
      /\ got' \in [Clients -> Nat]
  <2>1. got \in [Clients -> Nat] /\ Current \in Clients
    BY <1>1 DEF LoopInv, More, Current
  <2>2. QED BY <1>1, <2>1
<1>3. Current \notin Lost
  BY <1>1 DEF Lost
<1>4. QED BY <1>1, <1>2, <1>3, Advances

LEMMA LoseKeeps ==
  ASSUME LoopInv, Lose
  PROVE  LoopInv'
<1> DEFINE n == i + 1
<1> DEFINE m == i + 1 + Gone
<1>1. /\ n \in 1..Len(list) /\ m \in 1..Len(list0) /\ i \in Nat /\ Gone \in Nat
      /\ i' = i /\ Lost' = Lost /\ got' = got /\ list0' = list0 /\ subs' = subs
      /\ failing' = failing /\ list' = Without(list, list[n]) /\ Current = list[n]
      /\ i + Gone \in Nat /\ m = (i + Gone) + 1 /\ list[n] \in Lost
      /\ list \in Seq(Clients) /\ Once(list) /\ Once(list0)
  BY DEF LoopInv, More, Gone, Lost, Lose, Current
<1>2. /\ list' \in Seq(Clients) /\ Len(list') = Len(list) - 1
      /\ \A k \in 1..(Len(list) - 1) : list'[k] = list[IF k < n THEN k ELSE k + 1]
  BY <1>1, Erased
<1>3. /\ Gone' = Gone + 1 /\ (i + Gone)' = m /\ list[n] = list0[m]
      /\ Len(list') \in Nat /\ i \in 0..Len(list')
  BY <1>1, <1>2 DEF Gone, LoopInv, Behind
<1>4. \A k \in 1..i : list'[k] = list[k]
  <2>1. \A k \in 1..i : k \in 1..(Len(list) - 1) /\ k < n
    BY <1>1
  <2>2. QED BY <1>2, <2>1
<1>5. \A k \in 1..Len(list') : k >= n => list'[k] = list[k + 1]
  BY <1>1, <1>2
<1>6. \A p \in 1..m : p \in 1..(i + Gone) \/ p = m
  BY <1>1
<1>7. (\A k \in (i + 1)..Len(list) : Behind(k))'
  <2>1. ASSUME NEW k \in (i + 1)..Len(list')
        PROVE  list'[k] = list0[k + Gone + 1]
    <3>1. k + 1 \in (i + 1)..Len(list) /\ k \in 1..Len(list') /\ k >= n
      BY <1>1, <1>2, <2>1
    <3>2. list[k + 1] = list0[(k + 1) + Gone]
      BY <3>1 DEF LoopInv, Behind
    <3>3. (k + 1) + Gone = k + Gone + 1
      BY <1>1, <3>1
    <3>4. QED BY <1>5, <3>1, <3>2, <3>3
  <2>2. QED BY <1>1, <1>3, <2>1 DEF Behind
<1>8. (\A k \in 1..i : \E p \in 1..(i + Gone) : list[k] = list0[p] /\ list0[p] \notin Lost)'
  <2>1. \A k \in 1..i : \E p \in 1..m : list'[k] = list0[p] /\ list0[p] \notin Lost
    BY <1>1, <1>4 DEF LoopInv
  <2>2. QED BY <1>1, <1>3, <2>1
<1>9. (\A p \in 1..(i + Gone) : list0[p] \notin Lost => \E k \in 1..i : list[k] = list0[p])'
  <2>1. \A p \in 1..m : list0[p] \notin Lost => \E k \in 1..i : list'[k] = list0[p]
    BY <1>1, <1>3, <1>4, <1>6 DEF LoopInv
  <2>2. QED BY <1>1, <1>3, <2>1
<1>10. Once(list')
  <2>1. ASSUME NEW a \in 1..Len(list'), NEW b \in 1..Len(list'), list'[a] = list'[b]
        PROVE  a = b
    <3>1. \A x, y \in 1..Len(list) : list[x] = list[y] => x = y
      BY <1>1 DEF Once
    <3>2. /\ (IF a < n THEN a ELSE a + 1) \in 1..Len(list)
          /\ (IF b < n THEN b ELSE b + 1) \in 1..Len(list)
      BY <1>1, <1>2
    <3>3. list[IF a < n THEN a ELSE a + 1] = list[IF b < n THEN b ELSE b + 1]
      BY <1>1, <1>2, <2>1
    <3>4. (IF a < n THEN a ELSE a + 1) = (IF b < n THEN b ELSE b + 1)
      BY <3>1, <3>2, <3>3
    <3>5. QED BY <1>1, <3>4
  <2>2. QED BY <2>1 DEF Once
<1>11. InOrder'
  <2>1. \A a, b \in 1..i, p, q \in 1..m :
          list'[a] = list0[p] /\ list'[b] = list0[q] => (a < b <=> p < q)
    <3> SUFFICES ASSUME NEW a \in 1..i, NEW b \in 1..i, NEW p \in 1..m, NEW q \in 1..m,
                        list'[a] = list0[p], list'[b] = list0[q]
                 PROVE  a < b <=> p < q
      OBVIOUS
    <3>1. \A x \in 1..i : list'[x] # list0[m]
      BY <1>1, <1>3, <1>4 DEF Once
    <3>2. p \in 1..(i + Gone) /\ q \in 1..(i + Gone)
      BY <1>6, <3>1
    <3>3. QED BY <1>4, <3>2 DEF LoopInv, InOrder
  <2>2. QED BY <1>1, <1>3, <2>1 DEF InOrder
<1>12. (\A c \in Clients : got[c] = IF Delivered(c) THEN 1 ELSE 0)'
  <2>1. ASSUME NEW c \in Clients
        PROVE  Delivered(c)' <=> Delivered(c)
    <3>1. Delivered(c)' <=> c \in subs \ failing /\ \E p \in 1..m : list0[p] = c
      BY <1>1, <1>3 DEF Delivered
    <3>2. list0[m] \notin subs \ failing
      BY <1>1, <1>3 DEF Lost
    <3>3. QED BY <1>1, <1>6, <3>1, <3>2 DEF Delivered
  <2>2. QED BY <1>1, <2>1 DEF LoopInv
<1>13. QED
  BY <1>1, <1>2, <1>3, <1>7, <1>8, <1>9, <1>10, <1>11, <1>12 DEF LoopInv

\* A list on which the loop begins, or that it has not to look at.
LEMMA FreshList ==
  ASSUME list0' \in Seq(Clients), Once(list0'), list' = list0', got' = Nobody,
         \/ i' = 0
         \/ i' = Len(list') /\ subs' = {}
  PROVE  LoopInv'
<1>1. Gone' = 0 /\ Len(list') \in Nat /\ i' \in 0..Len(list') /\ got' \in [Clients -> Nat]
  BY DEF Gone, Nobody
<1>2. (\A k \in (i + 1)..Len(list) : Behind(k))'
  BY <1>1 DEF Behind
<1>3. CASE i' = 0
  <2>1. InOrder' /\ (i + Gone)' = 0
    BY <1>1, <1>3 DEF InOrder
  <2>2. QED BY <1>1, <1>2, <1>3, <2>1 DEF LoopInv, Delivered, Nobody
<1>4. CASE i' = Len(list') /\ subs' = {}
  <2>1. InOrder' /\ (\A c : c \notin Lost') /\ (i + Gone)' = Len(list')
    BY <1>1, <1>4 DEF InOrder, Once, Lost
  <2>2. QED BY <1>1, <1>2, <1>4, <2>1 DEF LoopInv, Delivered, Nobody
<1>5. QED BY <1>3, <1>4

LEMMA ListsOnce ==
  ASSUME NEW l \in Lists
  PROVE  l \in Seq(Clients) /\ Once(l)
<1>1. PICK n \in 0..MaxList : l \in [1..n -> Clients]
  BY DEF Lists
<1>2. n \in Nat
  BY <1>1, LoopAssumption
<1>3. l \in Seq(Clients) /\ Len(l) = n /\ DOMAIN l = 1..Len(l)
  BY <1>1, <1>2
<1>4. \A a, b \in DOMAIN l : l[a] = l[b] => a = b
  BY DEF Lists
<1>5. QED BY <1>3, <1>4 DEF Once

LEMMA LoopStep ==
  ASSUME LoopInv, Skip \/ Queue \/ Lose
  PROVE  LoopInv'
BY SkipKeeps, QueueKeeps, LoseKeeps

LEMMA LoopEnds == LoopInv => Outcome
<1> SUFFICES ASSUME LoopInv, ~More
             PROVE  /\ Members(list) = Members(list0) \ (subs \cap failing)
                    /\ \A a, b \in DOMAIN list, p, q \in DOMAIN list0 :
                         list[a] = list0[p] /\ list[b] = list0[q] => (a < b <=> p < q)
                    /\ \A c \in Clients :
                         got[c] = IF c \in (subs \ failing) \cap Members(list0) THEN 1 ELSE 0
  BY DEF Outcome
<1>1. i = Len(list) /\ i + Gone = Len(list0) /\ DOMAIN list = 1..i
      /\ DOMAIN list0 = 1..(i + Gone)
  <2>1. /\ list \in Seq(Clients) /\ list0 \in Seq(Clients)
        /\ Len(list) \in Nat /\ Len(list0) \in Nat /\ i \in 0..Len(list) /\ ~(i < Len(list))
    BY DEF LoopInv, More
  <2>2. i = Len(list) /\ i + Gone = Len(list0)
    BY <2>1 DEF Gone
  <2>3. QED BY <2>1, <2>2
<1>2. Members(list) = Members(list0) \ (subs \cap failing)
  <2>1. \A k \in 1..i : \E p \in 1..(i + Gone) : list[k] = list0[p] /\ list0[p] \notin Lost
    BY DEF LoopInv
  <2>2. \A p \in 1..(i + Gone) : list0[p] \notin Lost => \E k \in 1..i : list[k] = list0[p]
    BY DEF LoopInv
  <2>3. /\ Members(list) = {list[k] : k \in 1..i}
        /\ Members(list0) = {list0[p] : p \in 1..(i + Gone)}
    BY <1>1 DEF Members
  <2>4. QED BY <2>1, <2>2, <2>3 DEF Lost
<1>3. \A a, b \in DOMAIN list, p, q \in DOMAIN list0 :
        list[a] = list0[p] /\ list[b] = list0[q] => (a < b <=> p < q)
  BY <1>1 DEF LoopInv, InOrder
<1>4. ASSUME NEW c \in Clients
      PROVE  got[c] = IF c \in (subs \ failing) \cap Members(list0) THEN 1 ELSE 0
  <2>1. Delivered(c) <=> c \in (subs \ failing) \cap Members(list0)
    BY <1>1 DEF Delivered, Members
  <2>2. QED BY <2>1 DEF LoopInv
<1>5. QED BY <1>2, <1>3, <1>4

LEMMA SignalStep ==
  ASSUME LoopInv, [SignalsNext]_allVars
  PROVE  LoopInv'
<1>1. CASE UNCHANGED loop
  BY <1>1 DEF loop, LoopInv, Gone, Behind, Lost, InOrder, Delivered
<1>2. CASE SignalEvent
  <2>1. /\ list0' = list /\ i' = 0 /\ got' = Nobody /\ list' = list
        /\ list \in Seq(Clients) /\ Once(list)
    BY <1>2 DEF SignalEvent, LoopInv
  <2>2. QED BY <2>1, FreshList
<1>3. CASE ClientsChange
  <2>1. /\ list' \in Lists /\ list0' = list' /\ i' = Len(list')
        /\ subs' = {} /\ got' = Nobody
    BY <1>3 DEF ClientsChange
  <2>2. QED BY <2>1, ListsOnce, FreshList
<1>4. CASE Next
  BY <1>4, LoopStep DEF Next
<1>5. ASSUME NEW o \in Outputs,
             \/ OutputAdded(o) \/ OutputRemoved(o)
             \/ OnViewStateChange(o) \/ OnWorkspaceChange(o)
      PROVE  UNCHANGED loop
  BY <1>5 DEF OutputAdded, OutputRemoved, OnViewStateChange, OnWorkspaceChange, Causes
<1>6. ASSUME NEW v \in Views,
             \/ ViewCreated(v) \/ ViewDestroyed(v) \/ ViewMoved(v)
             \/ OnViewMapped(v) \/ OnViewUnmapped(v) \/ OnViewChange(v)
             \/ OnViewGeometryChanged(v) \/ OnViewFullscreened(v)
      PROVE  UNCHANGED loop
  BY <1>6
     DEF ViewCreated, ViewDestroyed, ViewMoved, OnViewMapped, OnViewUnmapped, OnViewChange,
         OnViewGeometryChanged, OnViewFullscreened, Causes
<1>7. CASE \/ Load \/ Unload
           \/ OnViewHintsChanged \/ OnInputDeviceChange \/ OnLayoutChange
           \/ OnKeyboardModifiers \/ UNCHANGED allVars
  <2>1. UNCHANGED loop
    BY <1>7
       DEF Load, Unload, OnViewHintsChanged, OnInputDeviceChange, OnLayoutChange,
           OnKeyboardModifiers, Causes, allVars
  <2>2. QED BY <1>1, <2>1
<1>8. QED
  BY <1>1, <1>2, <1>3, <1>4, <1>5, <1>6, <1>7 DEF SignalsNext

(***************************************************************************)
(* send_event walks over the client list by index while client_disconnect  *)
(* erases from it: nobody is passed over, nobody is served twice, and the  *)
(* list keeps its order, whoever is subscribed and whoever fails.          *)
(***************************************************************************)
THEOREM EveryCallTells == SignalsSpec => []Outcome
<1>1. SignalsInit => LoopInv
  BY DEF SignalsInit, LoopInv, Gone, Behind, InOrder, Delivered, Once, Nobody, Lost
<1>2. LoopInv /\ [SignalsNext]_allVars => LoopInv'
  BY SignalStep
<1>3. QED BY <1>1, <1>2, LoopEnds, PTL DEF SignalsSpec

\* The same of one call, from any list of clients.
THEOREM ACallTells == Spec => []Outcome
<1>1. Init => LoopInv
  <2> SUFFICES ASSUME Init PROVE LoopInv
    OBVIOUS
  <2>1. list0 \in Seq(Clients) /\ Once(list0) /\ list = list0 /\ i = 0 /\ got = Nobody
    BY ListsOnce DEF Init, Nobody
  <2>2. Gone = 0 /\ i + Gone = 0 /\ got \in [Clients -> Nat]
    BY <2>1 DEF Gone, Nobody
  <2>3. InOrder /\ \A k \in (i + 1)..Len(list) : Behind(k)
    BY <2>1, <2>2 DEF InOrder, Behind
  <2>4. QED BY <2>1, <2>2, <2>3 DEF LoopInv, Delivered, Nobody
<1>2. LoopInv /\ [Next]_vars => LoopInv'
  <2>1. CASE UNCHANGED vars
    BY <2>1 DEF vars, LoopInv, Gone, Behind, Lost, InOrder, Delivered
  <2>2. QED BY <2>1, LoopStep DEF Next
<1>3. QED BY <1>1, <1>2, LoopEnds, PTL DEF Spec
===============================================================================
