---------------------------- MODULE IpcPluginProofs ----------------------------
(***************************************************************************)
(* Theorems about module IpcPlugin, for any outputs, any clients and any   *)
(* number of times the plugin is loaded, whatever happens while a timer of *)
(* fini runs.                                                              *)
(***************************************************************************)
EXTENDS IpcPlugin, FiniteSetTheorems, TLAPS

-----------------------------------------------------------------------------
(* Types.  The ends of the display's list are never lost, however often a  *)
(* node is inserted or removed, and the timers are counted.                *)

HeadKept(l) == l \in Links /\ l.next["head"] # Nil /\ l.prev["head"] # Nil

Counted == IsFiniteSet(instances) /\ Cardinality(instances) <= ninit

TypeInv == TypeOK /\ HeadKept(links) /\ Counted

LEMMA NodesDiffer == Nil \notin Nodes /\ "head" \in Nodes /\ "server" \in Nodes /\ "plugin" \in Nodes
BY DEF Nil, Nodes

LEMMA InsertedKept ==
  ASSUME NEW l, HeadKept(l), NEW e \in Nodes \ {"head"}
  PROVE  HeadKept(Inserted(l, e))
<1> DEFINE at == l.prev["head"]
           next1 == [[l.next EXCEPT ![e] = @] EXCEPT ![e] = l.next[at]]
           next2 == [next1 EXCEPT ![at] = e]
           prev1 == [l.prev EXCEPT ![e] = at]
           prev2 == [prev1 EXCEPT ![next2[e]] = e]
<1>1. at \in Nodes /\ l.next \in [Nodes -> Nodes \cup {Nil}] /\ l.prev \in [Nodes -> Nodes \cup {Nil}]
  BY NodesDiffer DEF HeadKept, Links
<1>2. next2 \in [Nodes -> Nodes \cup {Nil}] /\ prev2 \in [Nodes -> Nodes \cup {Nil}]
  BY <1>1
<1>3. next2["head"] # Nil /\ prev2["head"] # Nil
  BY <1>1, NodesDiffer DEF HeadKept
<1>4. Inserted(l, e) = [next |-> next2, prev |-> prev2]
  BY <1>1 DEF Inserted
<1>5. QED BY <1>2, <1>3, <1>4 DEF HeadKept, Links

LEMMA UnlinkedKept ==
  ASSUME NEW l, HeadKept(l), NEW e \in Nodes \ {"head"}, Linked(l, e)
  PROVE  HeadKept(Unlinked(l, e))
<1> DEFINE next1 == [l.next EXCEPT ![l.prev[e]] = l.next[e]]
           prev1 == [l.prev EXCEPT ![next1[e]] = l.prev[e]]
<1>1. /\ l.next \in [Nodes -> Nodes \cup {Nil}] /\ l.prev \in [Nodes -> Nodes \cup {Nil}]
      /\ l.next[e] \in Nodes /\ l.prev[e] \in Nodes
  BY DEF HeadKept, Links, Linked
<1>2. next1 \in [Nodes -> Nodes \cup {Nil}] /\ prev1 \in [Nodes -> Nodes \cup {Nil}]
  BY <1>1
<1>3. next1["head"] # Nil /\ prev1["head"] # Nil
  BY <1>1, NodesDiffer DEF HeadKept
<1>4. Unlinked(l, e) = [next |-> [next1 EXCEPT ![e] = Nil], prev |-> [prev1 EXCEPT ![e] = Nil]]
  BY DEF Unlinked
<1>5. [next1 EXCEPT ![e] = Nil] \in [Nodes -> Nodes \cup {Nil}]
      /\ [prev1 EXCEPT ![e] = Nil] \in [Nodes -> Nodes \cup {Nil}]
      /\ [next1 EXCEPT ![e] = Nil]["head"] # Nil /\ [prev1 EXCEPT ![e] = Nil]["head"] # Nil
  <2> HIDE DEF next1, prev1
  <2>1. QED BY <1>2, <1>3, NodesDiffer
<1>6. QED BY <1>4, <1>5 DEF HeadKept, Links

LEMMA SelfLinkedKept ==
  ASSUME NEW l, HeadKept(l), NEW e \in Nodes
  PROVE  HeadKept(SelfLinked(l, e))
BY NodesDiffer DEF HeadKept, Links, SelfLinked

LEMMA ServerDestroyTyped ==
  ASSUME TypeInv, NEW l, HeadKept(l), ServerDestroy(l)
  PROVE  /\ HeadKept(links') /\ source' \in {"null", "live", "removed"}
         /\ listed' \subseteq Clients /\ served' \subseteq Clients /\ undefined' \in BOOLEAN
<1>1. CASE source # "removed" /\ Linked(l, "server")
  BY <1>1, UnlinkedKept, NodesDiffer DEF ServerDestroy, TypeInv, TypeOK
<1>2. CASE ~(source # "removed" /\ Linked(l, "server"))
  BY <1>2 DEF ServerDestroy, TypeInv, TypeOK
<1>3. QED BY <1>1, <1>2

LEMMA PluginDestroyTyped ==
  ASSUME TypeInv, NEW l, HeadKept(l), NEW fired, PluginDestroy(l, fired)
  PROVE  /\ HeadKept(links') /\ source' \in {"null", "live", "removed"}
         /\ listed' \subseteq Clients /\ served' \subseteq Clients /\ undefined' \in BOOLEAN
         /\ removed' \subseteq 1..MaxInits /\ armed' \subseteq 1..MaxInits
<1>1. CASE timer \notin removed /\ Linked(l, "plugin")
  <2>1. HeadKept(Unlinked(l, "plugin"))
    BY <1>1, UnlinkedKept, NodesDiffer
  <2>2. removed' = removed \cup ({timer} \ {0}) /\ armed' = armed \ (fired \cup {timer})
        /\ ServerDestroy(Unlinked(l, "plugin"))
    BY <1>1 DEF PluginDestroy
  <2>3. removed' \subseteq 1..MaxInits /\ armed' \subseteq 1..MaxInits
    <3>1. {timer} \ {0} \subseteq 1..MaxInits
      BY DEF TypeInv, TypeOK
    <3>2. QED BY <2>2, <3>1 DEF TypeInv, TypeOK
  <2>4. QED BY <2>1, <2>2, <2>3, ServerDestroyTyped
<1>2. CASE ~(timer \notin removed /\ Linked(l, "plugin"))
  BY <1>2 DEF PluginDestroy, TypeInv, TypeOK
<1>3. QED BY <1>1, <1>2

LEMMA TimerTyped ==
  ASSUME TypeInv, NEW o \in instances
  PROVE  /\ NextTimer \in 1..MaxInits
         /\ IsFiniteSet(instances \ {o})
         /\ Cardinality(instances \ {o}) = Cardinality(instances) - 1
         /\ Cardinality(instances \ {o}) \in Nat
<1>1. Cardinality(instances) \in Nat /\ IsFiniteSet(instances) /\ Cardinality(instances) <= ninit
  BY FS_CardinalityType DEF TypeInv, Counted
<1>2. /\ IsFiniteSet(instances \ {o})
      /\ Cardinality(instances \ {o}) = Cardinality(instances) - 1
  BY <1>1, FS_RemoveElement
<1>3. Cardinality(instances \ {o}) \in Nat
  BY <1>2, FS_CardinalityType
<1>4. NextTimer \in 1..MaxInits
  BY <1>1, <1>2, <1>3, PluginAssumption DEF NextTimer, TypeInv, TypeOK
<1>5. QED BY <1>2, <1>3, <1>4

LEMMA TypeStep ==
  ASSUME TypeInv, [Next]_vars
  PROVE  TypeInv'
<1> USE DEF TypeInv
<1>1. CASE UNCHANGED vars
  BY <1>1 DEF vars, TypeOK, Counted
<1>2. CASE DisplayEnds
  BY <1>2 DEF DisplayEnds, clientVars, TypeOK, Counted
<1>3. CASE EmitNext
  <2> DEFINE pos == links.next["head"]
             l == SelfLinked(Unlinked(links, pos), pos)
  <2>1. pos \in Nodes
    BY NodesDiffer DEF HeadKept, Links
  <2>2. ASSUME pos # "head", Linked(links, pos)
        PROVE  HeadKept(l)
    BY <2>1, <2>2, UnlinkedKept, SelfLinkedKept
  <2> HIDE DEF pos, l
  <2>3. CASE UNCHANGED <<source, served, listed, links, removed, armed>>
    <3>1. /\ display' \in {"running", "ending", "destroyed"} /\ undefined' \in BOOLEAN
          /\ UNCHANGED <<instances, ninit, timer, fresh>>
      BY <1>3 DEF EmitNext, TypeOK, ServerDestroy, PluginDestroy
    <3>2. QED BY <2>3, <3>1 DEF TypeOK, Counted
  <2>4. CASE pos = "server" /\ Linked(links, pos)
             /\ ServerDestroy(l) /\ UNCHANGED <<display, removed, armed>>
    <3>1. HeadKept(l)
      BY <2>2, <2>4
    <3>2. QED BY <1>3, <2>4, <3>1, ServerDestroyTyped DEF EmitNext, TypeOK, Counted, HeadKept
  <2>5. CASE pos = "plugin" /\ Linked(links, pos) /\ PluginDestroy(l, {}) /\ UNCHANGED display
    <3>1. HeadKept(l)
      BY <2>2, <2>5
    <3>2. QED BY <1>3, <2>5, <3>1, PluginDestroyTyped DEF EmitNext, TypeOK, Counted, HeadKept
  <2>6. QED BY <1>3, <2>3, <2>4, <2>5 DEF EmitNext, pos, l
<1>4. ASSUME NEW o \in Outputs, InitInstance(o)
      PROVE  TypeInv'
  <2>1. IsFiniteSet(instances') /\ Cardinality(instances') = Cardinality(instances) + 1
        /\ Cardinality(instances) \in Nat
    BY <1>4, FS_AddElement, FS_CardinalityType DEF InitInstance, Counted
  <2>2. Counted' /\ ninit' \in 0..MaxInits
    BY <1>4, <2>1, PluginAssumption DEF InitInstance, Counted, TypeOK
  <2>3. HeadKept(links')
    BY <1>4, InsertedKept, NodesDiffer DEF InitInstance
  <2>4. QED BY <1>4, <2>2, <2>3 DEF InitInstance, TypeOK, HeadKept
<1>5. ASSUME NEW o \in Outputs, FiniInstance(o)
      PROVE  TypeInv'
  <2>1. NextTimer \in 1..MaxInits /\ Counted'
    <3>1. o \in instances /\ instances' = instances \ {o} /\ ninit' = ninit
      BY <1>5 DEF FiniInstance
    <3>2. Cardinality(instances) \in Nat /\ Cardinality(instances) <= ninit /\ ninit \in Nat
      BY FS_CardinalityType DEF Counted, TypeOK
    <3>3. /\ NextTimer \in 1..MaxInits /\ IsFiniteSet(instances \ {o})
          /\ Cardinality(instances \ {o}) = Cardinality(instances) - 1
      BY <3>1, TimerTyped
    <3>4. QED BY <3>1, <3>2, <3>3 DEF Counted
  <2>2. HeadKept(links')
    BY <1>5, InsertedKept, NodesDiffer DEF FiniInstance
  <2>3. QED BY <1>5, <2>1, <2>2 DEF FiniInstance, clientVars, TypeOK, HeadKept
<1>6. ASSUME NEW t \in 1..MaxInits, FiniTimeout(t)
      PROVE  TypeInv'
  BY <1>6, PluginDestroyTyped DEF FiniTimeout, TypeOK, Counted, HeadKept
<1>7. ASSUME NEW c \in Clients, ClientConnects(c) \/ ClientLeaves(c)
      PROVE  TypeInv'
  BY <1>7 DEF ClientConnects, ClientLeaves, TypeOK, Counted
<1>8. QED BY <1>1, <1>2, <1>3, <1>4, <1>5, <1>6, <1>7 DEF Next

LEMMA InitTyped == Init => TypeInv
<1> SUFFICES ASSUME Init
             PROVE  TypeInv
  OBVIOUS
<1>1. HeadKept(Empty)
  BY DEF HeadKept, Empty, Links, Nodes, Nil
<1>2. Counted
  BY FS_EmptySet DEF Init, Counted
<1>3. 0 \in 0..MaxInits
  BY PluginAssumption
<1>4. TypeOK
  BY <1>1, <1>3 DEF Init, TypeOK, HeadKept
<1>5. QED BY <1>1, <1>2, <1>4 DEF Init, TypeInv

LEMMA TypeInvariant == Spec => []TypeInv
<1>1. QED BY InitTyped, TypeStep, PTL DEF Spec

\* Every variable of the plugin keeps its type, with any number of outputs
\* and whatever becomes of the list of listeners.
THEOREM TypeCorrect == Spec => []TypeOK
<1>1. TypeInv => TypeOK
  BY DEF TypeInv
<1>2. QED BY <1>1, TypeInvariant, PTL

-----------------------------------------------------------------------------
(* As long as no listener has been inserted twice (Whole) the server is    *)
(* not there (Idle), serves for one instance (Up), is about to be torn     *)
(* down by a timer (Grace), or has been torn down by the end of the        *)
(* display while a timer runs (Ended), which is where the second teardown  *)
(* is undefined (Twice).  A list in which the server was inserted twice    *)
(* begins with the server but does not lead back from it (Broken), and no  *)
(* insertion or removal repairs that.                                      *)

Ring1 ==
  LET other == [n \in Nodes |-> IF n = "head" THEN "server" ELSE IF n = "server" THEN "head" ELSE Nil]
  IN [next |-> other, prev |-> other]
Ring2 ==
  [next |-> [n \in Nodes |-> IF n = "head" THEN "server" ELSE IF n = "server" THEN "plugin" ELSE "head"],
   prev |-> [n \in Nodes |-> IF n = "head" THEN "plugin" ELSE IF n = "plugin" THEN "server" ELSE "head"]]
RingP ==
  LET other == [n \in Nodes |-> IF n = "head" THEN "plugin" ELSE IF n = "plugin" THEN "head" ELSE Nil]
  IN [next |-> other, prev |-> other]

Broken(l) ==
  /\ l.next["head"] = "server" /\ l.prev["head"] \in {"server", "plugin"}
  /\ l.prev["server"] # "head" /\ l.prev["plugin"] # "head"

Idle ==
  /\ links = Empty /\ source \in {"null", "removed"} /\ armed = {}
  /\ served = {} /\ listed = {}
  /\ display = "running" => instances = {}
Up ==
  /\ links = Ring1 /\ source = "live" /\ armed = {}
  /\ served = listed /\ \E o \in Outputs : instances = {o}
Grace ==
  /\ links = Ring2 /\ source = "live" /\ armed = {timer} /\ timer \notin removed
  /\ served = listed /\ instances = {}
Ended ==
  /\ links = RingP /\ source = "removed" /\ armed = {timer} /\ timer \notin removed
  /\ served = {} /\ listed = {} /\ display = "ending"

Finis == ninit - Cardinality(instances)
TimersPast == timer <= Finis /\ \A t \in removed : t <= Finis

Whole == undefined = FALSE /\ TimersPast /\ (Idle \/ Up \/ Grace \/ Ended)
Twice ==
  /\ undefined = TRUE /\ links = Empty /\ source = "removed" /\ armed = {}
  /\ served = listed

IInv == TypeInv /\ (Broken(links) \/ Whole \/ Twice)

\* The list through the lives of the plugin.
LEMMA Rings ==
  /\ Inserted(Empty, "server") = Ring1
  /\ Inserted(Ring1, "plugin") = Ring2
  /\ Unlinked(Ring2, "plugin") = Ring1
  /\ Unlinked(Ring2, "server") = RingP
  /\ Unlinked(Ring1, "server") = Empty
  /\ Unlinked(RingP, "plugin") = Empty
  /\ Unlinked(SelfLinked(Empty, "server"), "server") = Empty
  /\ Unlinked(SelfLinked(Empty, "plugin"), "plugin") = Empty
  /\ Unlinked(SelfLinked(RingP, "server"), "server") = RingP
BY DEF Inserted, Unlinked, SelfLinked, Empty, Ring1, Ring2, RingP, Nodes, Nil

LEMMA RingLinks ==
  /\ Linked(Ring1, "server") /\ ~Linked(Ring1, "plugin")
  /\ Linked(Ring2, "server") /\ Linked(Ring2, "plugin")
  /\ ~Linked(RingP, "server") /\ Linked(RingP, "plugin")
  /\ ~Linked(Empty, "server") /\ ~Linked(Empty, "plugin")
  /\ Linked(SelfLinked(Empty, "server"), "server")
  /\ Linked(SelfLinked(Empty, "plugin"), "plugin")
  /\ Linked(SelfLinked(RingP, "server"), "server")
  /\ Empty.next["head"] = "head" /\ Ring1.next["head"] = "server"
  /\ Ring2.next["head"] = "server" /\ RingP.next["head"] = "plugin"
BY DEF Linked, SelfLinked, Empty, Ring1, Ring2, RingP, Nodes, Nil

LEMMA RingsInsertable ==
  /\ Insertable(Empty, "server") /\ Insertable(Ring1, "server") /\ Insertable(Ring2, "server")
  /\ Insertable(Ring1, "plugin")
BY DEF Insertable, Empty, Ring1, Ring2, Nodes, Nil

\* A second insertion breaks the list, and nothing repairs it.
LEMMA InsertedTwice == Broken(Inserted(Ring1, "server")) /\ Broken(Inserted(Ring2, "server"))
BY DEF Inserted, Broken, Ring1, Ring2, Nodes, Nil

LEMMA BrokenInserted ==
  ASSUME NEW l, HeadKept(l), Broken(l), NEW e \in {"server", "plugin"}
  PROVE  Broken(Inserted(l, e))
<1> DEFINE at == l.prev["head"]
           next1 == [[l.next EXCEPT ![e] = @] EXCEPT ![e] = l.next[at]]
           next2 == [next1 EXCEPT ![at] = e]
           prev1 == [l.prev EXCEPT ![e] = at]
           prev2 == [prev1 EXCEPT ![next2[e]] = e]
<1>1. at \in {"server", "plugin"} /\ l.next \in [Nodes -> Nodes \cup {Nil}] /\ l.prev \in [Nodes -> Nodes \cup {Nil}]
  BY DEF HeadKept, Links, Broken
<1>2. next2["head"] = "server"
  BY <1>1 DEF Broken, Nodes
<1>3. /\ prev1["server"] # "head" /\ prev1["plugin"] # "head" /\ prev1["head"] \in {"server", "plugin"}
      /\ prev1 \in [Nodes -> Nodes \cup {Nil}]
  BY <1>1 DEF Broken, Nodes
<1>4. prev2["server"] # "head" /\ prev2["plugin"] # "head" /\ prev2["head"] \in {"server", "plugin"}
  <2> HIDE DEF prev1, next2
  <2>1. QED BY <1>3 DEF Nodes
<1>5. Inserted(l, e) = [next |-> next2, prev |-> prev2]
  BY <1>1 DEF Inserted
<1>6. QED BY <1>2, <1>4, <1>5 DEF Broken

LEMMA BrokenUnlinked ==
  ASSUME NEW l, HeadKept(l), Broken(l), NEW e \in {"server", "plugin"}, Linked(l, e)
  PROVE  Broken(Unlinked(l, e))
<1> DEFINE next1 == [l.next EXCEPT ![l.prev[e]] = l.next[e]]
           prev1 == [l.prev EXCEPT ![next1[e]] = l.prev[e]]
<1>1. /\ l.next \in [Nodes -> Nodes \cup {Nil}] /\ l.prev \in [Nodes -> Nodes \cup {Nil}]
      /\ l.next[e] \in Nodes /\ l.prev[e] \in {"server", "plugin"}
  BY DEF HeadKept, Links, Linked, Broken, Nodes
<1>2. next1["head"] = "server"
  BY <1>1 DEF Broken, Nodes
<1>3. prev1["server"] # "head" /\ prev1["plugin"] # "head" /\ prev1["head"] \in {"server", "plugin"}
      /\ prev1 \in [Nodes -> Nodes \cup {Nil}] /\ next1 \in [Nodes -> Nodes \cup {Nil}]
  <2>1. next1 \in [Nodes -> Nodes \cup {Nil}]
    BY <1>1 DEF Nodes
  <2> HIDE DEF next1
  <2>2. QED BY <1>1, <2>1 DEF Broken, Nodes
<1>4. Unlinked(l, e) = [next |-> [next1 EXCEPT ![e] = Nil], prev |-> [prev1 EXCEPT ![e] = Nil]]
  BY DEF Unlinked
<1>5. /\ [next1 EXCEPT ![e] = Nil]["head"] = "server"
      /\ [prev1 EXCEPT ![e] = Nil]["server"] # "head" /\ [prev1 EXCEPT ![e] = Nil]["plugin"] # "head"
      /\ [prev1 EXCEPT ![e] = Nil]["head"] \in {"server", "plugin"}
  <2> HIDE DEF next1, prev1
  <2>1. QED BY <1>2, <1>3 DEF Nodes, Nil
<1>6. QED BY <1>4, <1>5 DEF Broken

LEMMA BrokenSelfLinked ==
  ASSUME NEW l, HeadKept(l), Broken(l), NEW e \in {"server", "plugin"}
  PROVE  Broken(SelfLinked(l, e))
BY DEF HeadKept, Links, Broken, SelfLinked, Nodes

LEMMA BrokenServerDestroy ==
  ASSUME NEW l, HeadKept(l), Broken(l), ServerDestroy(l)
  PROVE  Broken(links')
BY BrokenUnlinked DEF ServerDestroy

LEMMA BrokenPluginDestroy ==
  ASSUME NEW l, HeadKept(l), Broken(l), NEW fired, PluginDestroy(l, fired), links = l \/ links' # links
  PROVE  Broken(links') \/ links' = links
<1>1. CASE timer \notin removed /\ Linked(l, "plugin")
  <2>1. HeadKept(Unlinked(l, "plugin")) /\ Broken(Unlinked(l, "plugin"))
    BY <1>1, UnlinkedKept, BrokenUnlinked, NodesDiffer
  <2>2. ServerDestroy(Unlinked(l, "plugin"))
    BY <1>1 DEF PluginDestroy
  <2>3. QED BY <2>1, <2>2, BrokenServerDestroy
<1>2. CASE ~(timer \notin removed /\ Linked(l, "plugin"))
  BY <1>2 DEF PluginDestroy
<1>3. QED BY <1>1, <1>2

\* A broken list stays broken.
LEMMA BrokenStep ==
  ASSUME TypeInv, Broken(links), [Next]_vars
  PROVE  Broken(links')
<1>0. HeadKept(links)
  BY DEF TypeInv
<1>1. CASE UNCHANGED links
  BY <1>1
<1>2. ASSUME NEW o \in Outputs, InitInstance(o) \/ FiniInstance(o)
      PROVE  Broken(links')
  BY <1>0, <1>2, BrokenInserted DEF InitInstance, FiniInstance
<1>3. ASSUME NEW t \in 1..MaxInits, FiniTimeout(t)
      PROVE  Broken(links')
  BY <1>0, <1>3, BrokenPluginDestroy DEF FiniTimeout
<1>4. CASE EmitNext
  <2> DEFINE l == SelfLinked(Unlinked(links, "server"), "server")
  <2>1. links.next["head"] = "server"
    BY DEF Broken
  <2>2. CASE ~Linked(links, "server")
    BY <1>1, <1>4, <2>1, <2>2 DEF EmitNext
  <2>3. CASE Linked(links, "server")
    <3>1. HeadKept(l) /\ Broken(l)
      BY <1>0, <2>3, UnlinkedKept, BrokenUnlinked, SelfLinkedKept, BrokenSelfLinked, NodesDiffer
    <3>2. ServerDestroy(l)
      BY <1>4, <2>1, <2>3 DEF EmitNext
    <3>3. QED BY <3>1, <3>2, BrokenServerDestroy
  <2>4. QED BY <2>2, <2>3
<1>5. CASE \E c \in Clients : ClientConnects(c) \/ ClientLeaves(c)
  BY <1>1, <1>5 DEF ClientConnects, ClientLeaves
<1>6. CASE DisplayEnds
  BY <1>1, <1>6 DEF DisplayEnds
<1>7. CASE UNCHANGED vars
  BY <1>1, <1>7 DEF vars
<1>8. QED BY <1>2, <1>3, <1>4, <1>5, <1>6, <1>7 DEF Next

LEMMA Numbers ==
  ASSUME TypeInv
  PROVE  /\ Finis \in Nat /\ ninit \in Nat /\ Cardinality(instances) \in Nat /\ timer \in Nat
         /\ removed \subseteq Nat /\ NextTimer = Finis + 1
<1>1. Cardinality(instances) \in Nat /\ Cardinality(instances) <= ninit /\ ninit \in Nat
  BY FS_CardinalityType DEF TypeInv, Counted, TypeOK
<1>2. QED BY <1>1 DEF Finis, NextTimer, TypeInv, TypeOK

\* While instances and their number stay, no later timer comes to matter.
LEMMA TimersStay ==
  ASSUME TypeInv, TimersPast, UNCHANGED <<instances, ninit, timer>>,
         removed' \subseteq removed \cup {timer}
  PROVE  TimersPast'
BY DEF TimersPast, Finis

LEMMA InitIInv == Init => IInv
<1> SUFFICES ASSUME Init
             PROVE  IInv
  OBVIOUS
<1>1. TypeInv
  BY InitTyped
<1>2. TimersPast
  BY <1>1, Numbers DEF Init, TimersPast
<1>3. QED BY <1>1, <1>2 DEF Init, IInv, Whole, Idle

\* serve() with its listener still in the list.
ServedTwice ==
  /\ Linked(links, "server") /\ \E o \in Outputs : InitInstance(o)
  /\ Broken(links') /\ undefined' = FALSE

LEMMA InitInstanceStep ==
  ASSUME TypeInv, Whole, TypeInv', NEW o \in Outputs, InitInstance(o)
  PROVE  Whole' \/ ServedTwice
<1>1. display = "running" /\ o \notin instances
  BY DEF InitInstance, Running
<1>2. CASE Idle
  <2>1. instances = {} /\ instances' = {o}
    BY <1>1, <1>2 DEF Idle, InitInstance
  <2>2. Up'
    BY <1>2, <2>1, Rings DEF Idle, Up, InitInstance
  <2>3. Finis' = Finis
    <3>1. Cardinality(instances') = Cardinality(instances) + 1
      BY <1>1, FS_AddElement DEF InitInstance, TypeInv, Counted
    <3>2. QED BY <3>1, Numbers DEF Finis, InitInstance
  <2>4. TimersPast'
    BY <2>3 DEF Whole, TimersPast, InitInstance
  <2>5. undefined' = FALSE
    BY <1>2, RingsInsertable DEF Idle, InitInstance
  <2>6. QED BY <2>2, <2>4, <2>5 DEF Whole
<1>3. CASE Up \/ Grace
  <2>1. links = Ring1 \/ links = Ring2
    BY <1>3 DEF Up, Grace
  <2>2. links' = Inserted(links, "server") /\ undefined' = ~Insertable(links, "server")
    BY DEF InitInstance
  <2>3. QED BY <2>1, <2>2, RingLinks, RingsInsertable, InsertedTwice DEF ServedTwice
<1>4. QED BY <1>1, <1>2, <1>3 DEF Whole, Ended

LEMMA FiniInstanceStep ==
  ASSUME TypeInv, Whole, TypeInv', NEW o \in Outputs, FiniInstance(o)
  PROVE  Whole'
<1>1. o \in instances /\ display = "running"
  BY DEF FiniInstance, Running
<1>2. Up
  BY <1>1 DEF Whole, Idle, Grace, Ended
<1>3. instances' = {}
  BY <1>1, <1>2 DEF FiniInstance, Up
<1>4. Finis' = Finis + 1 /\ NextTimer = Finis + 1 /\ Finis \in Nat
  <2>1. Cardinality(instances') = Cardinality(instances) - 1
    BY <1>1, FS_RemoveElement DEF FiniInstance, TypeInv, Counted
  <2>2. QED BY <2>1, Numbers DEF Finis, FiniInstance
<1>5. NextTimer \notin removed
  BY <1>4, Numbers DEF Whole, TimersPast
<1>6. TimersPast'
  BY <1>4, Numbers DEF Whole, TimersPast, FiniInstance
<1>7. Grace'
  BY <1>1, <1>2, <1>3, <1>5, Rings DEF Up, Grace, FiniInstance, clientVars
<1>8. undefined' = FALSE
  BY <1>2, RingsInsertable DEF Up, FiniInstance
<1>9. QED BY <1>6, <1>7, <1>8 DEF Whole

LEMMA FiniTimeoutStep ==
  ASSUME TypeInv, Whole, NEW t \in 1..MaxInits, FiniTimeout(t)
  PROVE  Whole'
<1>1. Grace
  BY DEF FiniTimeout, Running, Whole, Idle, Up, Ended
<1>2. t = timer /\ timer \notin removed /\ PluginDestroy(Ring2, {t})
  BY <1>1 DEF FiniTimeout, Grace
<1>3. /\ removed' = removed \cup ({timer} \ {0}) /\ armed' = armed \ ({t} \cup {timer})
      /\ ServerDestroy(Ring1)
  BY <1>2, Rings, RingLinks DEF PluginDestroy
<1>4. /\ source' = "removed" /\ served' = served \ listed /\ listed' = {}
      /\ links' = Empty /\ undefined' = undefined
  BY <1>1, <1>3, Rings, RingLinks DEF ServerDestroy, Grace
<1>5. TimersPast'
  BY <1>3, TimersStay DEF Whole, FiniTimeout
<1>6. Idle'
  BY <1>1, <1>3, <1>4 DEF Grace, Idle, FiniTimeout
<1>7. QED BY <1>4, <1>5, <1>6 DEF Whole

LEMMA EmitNextStep ==
  ASSUME TypeInv, Whole, EmitNext
  PROVE  Whole' \/ (Twice' /\ source = "removed")
<1>1. display = "ending"
  BY DEF EmitNext
<1>2. CASE Idle
  <2>1. links.next["head"] = "head"
    BY <1>2, RingLinks DEF Idle
  <2>2. /\ display' = "destroyed"
        /\ UNCHANGED <<source, served, listed, links, removed, armed, undefined>>
        /\ UNCHANGED <<instances, ninit, timer, fresh>>
    BY <2>1 DEF EmitNext
  <2>3. TimersPast'
    BY <2>2, TimersStay DEF Whole
  <2>4. Idle'
    BY <1>2, <2>2 DEF Idle
  <2>5. QED BY <2>2, <2>3, <2>4 DEF Whole
<1>3. CASE Up
  <2>1. links.next["head"] = "server" /\ Linked(links, "server") /\ links = Ring1
    BY <1>3, RingLinks DEF Up
  <2>2. /\ ServerDestroy(SelfLinked(Empty, "server"))
        /\ UNCHANGED <<display, removed, armed>> /\ UNCHANGED <<instances, ninit, timer, fresh>>
    BY <2>1, Rings DEF EmitNext
  <2>3. /\ source' = "removed" /\ served' = served \ listed /\ listed' = {}
        /\ links' = Empty /\ undefined' = undefined
    BY <1>3, <2>2, Rings, RingLinks DEF ServerDestroy, Up
  <2>4. TimersPast'
    BY <2>2, TimersStay DEF Whole
  <2>5. Idle'
    BY <1>1, <1>3, <2>2, <2>3 DEF Up, Idle
  <2>6. QED BY <2>3, <2>4, <2>5 DEF Whole
<1>4. CASE Grace
  <2>1. links.next["head"] = "server" /\ Linked(links, "server") /\ links = Ring2
    BY <1>4, RingLinks DEF Grace
  <2>2. /\ ServerDestroy(SelfLinked(RingP, "server"))
        /\ UNCHANGED <<display, removed, armed>> /\ UNCHANGED <<instances, ninit, timer, fresh>>
    BY <2>1, Rings DEF EmitNext
  <2>3. /\ source' = "removed" /\ served' = served \ listed /\ listed' = {}
        /\ links' = RingP /\ undefined' = undefined
    BY <1>4, <2>2, Rings, RingLinks DEF ServerDestroy, Grace
  <2>4. TimersPast'
    BY <2>2, TimersStay DEF Whole
  <2>5. Ended'
    BY <1>1, <1>4, <2>2, <2>3 DEF Grace, Ended
  <2>6. QED BY <2>3, <2>4, <2>5 DEF Whole
<1>5. CASE Ended
  <2>1. links.next["head"] = "plugin" /\ Linked(links, "plugin") /\ links = RingP
    BY <1>5, RingLinks DEF Ended
  <2>2. PluginDestroy(SelfLinked(Empty, "plugin"), {})
    BY <2>1, Rings DEF EmitNext
  <2>3. armed' = armed \ ({} \cup {timer}) /\ ServerDestroy(Empty)
    BY <1>5, <2>2, Rings, RingLinks DEF PluginDestroy, Ended
  <2>4. undefined' = TRUE /\ links' = Empty /\ UNCHANGED <<source, served, listed>>
    BY <1>5, <2>3, RingLinks DEF ServerDestroy, Ended
  <2>5. QED BY <1>5, <2>3, <2>4 DEF Ended, Twice
<1>6. QED BY <1>2, <1>3, <1>4, <1>5 DEF Whole

\* What becomes of a whole list in one step.
LEMMA WholeStep ==
  ASSUME TypeInv, Whole, TypeInv', [Next]_vars
  PROVE  Whole' \/ ServedTwice \/ (Twice' /\ source = "removed")
<1>1. CASE UNCHANGED vars
  BY <1>1 DEF vars, Whole, TimersPast, Finis, Idle, Up, Grace, Ended
<1>2. CASE DisplayEnds
  BY <1>2 DEF DisplayEnds, Running, clientVars, Whole, TimersPast, Finis, Idle, Up, Grace, Ended
<1>3. ASSUME NEW c \in Clients, ClientConnects(c) \/ ClientLeaves(c)
      PROVE  Whole'
  BY <1>3 DEF ClientConnects, ClientLeaves, Running, Whole, TimersPast, Finis, Idle, Up, Grace, Ended
<1>4. QED BY <1>1, <1>2, <1>3, EmitNextStep, InitInstanceStep, FiniInstanceStep, FiniTimeoutStep
          DEF Next

LEMMA TwiceStep ==
  ASSUME Twice, [Next]_vars
  PROVE  UNCHANGED vars
BY DEF Twice, Next, DisplayEnds, EmitNext, InitInstance, FiniInstance, FiniTimeout, ClientConnects,
       ClientLeaves, Running

LEMMA IStep ==
  ASSUME IInv, TypeInv', [Next]_vars
  PROVE  IInv'
<1>1. CASE Twice
  BY <1>1, TwiceStep DEF Twice, IInv, vars
<1>2. QED BY <1>1, BrokenStep, WholeStep DEF IInv, ServedTwice

LEMMA Invariant == Spec => []IInv
<1>1. IInv /\ TypeInv' /\ [Next]_vars => IInv'
  BY IStep
<1>2. QED BY <1>1, InitIInv, TypeInvariant, PTL DEF Spec

\* A whole list holds what it should, a broken one is none.
LEMMA WholeMatches ==
  ASSUME Whole \/ Twice
  PROVE  ListenersMatch /\ served = listed
<1>1. links \in {Empty, Ring1, Ring2, RingP}
  BY DEF Whole, Twice, Idle, Up, Grace, Ended
<1>2. \A n \in Nodes : Linked(links, n) =>
        links.prev[links.next[n]] = n /\ links.next[links.prev[n]] = n
  BY <1>1 DEF Empty, Ring1, Ring2, RingP, Linked, Nodes, Nil
<1>3. Linked(links, "server") <=> source = "live"
  BY RingLinks DEF Whole, Twice, Idle, Up, Grace, Ended
<1>4. Linked(links, "plugin") <=> armed # {}
  BY RingLinks DEF Whole, Twice, Idle, Up, Grace, Ended
<1>5. served = listed
  BY DEF Whole, Twice, Idle, Up, Grace, Ended
<1>6. QED BY <1>2, <1>3, <1>4, <1>5 DEF ListenersMatch

LEMMA WholeMatchesNext == (Whole \/ Twice)' => ListenersMatch'
<1>1. Whole \/ Twice => ListenersMatch
  BY WholeMatches
<1>2. QED BY <1>1, PTL

LEMMA MatchesWhole ==
  ASSUME IInv, ListenersMatch
  PROVE  Whole \/ Twice
<1>1. CASE Broken(links)
  <2>1. Linked(links, "head") /\ links.prev[links.next["head"]] # "head"
    BY <1>1, NodesDiffer DEF Broken, Linked, Nodes, Nil
  <2>2. QED BY <2>1, NodesDiffer DEF ListenersMatch
<1>2. QED BY <1>1 DEF IInv

\* Nothing but an init that calls serve() while its listener is in the
\* display's list breaks the list, with any number of outputs, whichever
\* timers run, and also when the display ends while one does.
THEOREM ListenersKeptHolds == Spec => ListenersKept
<1>1. ASSUME IInv, TypeInv', [Next]_vars
      PROVE  [ListenersMatch /\ ~ListenersMatch' =>
               Linked(links, "server") /\ \E o \in Outputs : InitInstance(o)]_vars
  <2> SUFFICES ASSUME ListenersMatch, ~ListenersMatch'
               PROVE  Linked(links, "server") /\ \E o \in Outputs : InitInstance(o)
    OBVIOUS
  <2>1. ~Twice' /\ ~Whole'
    BY WholeMatchesNext
  <2>2. ~Twice
    BY <1>1, <2>1, TwiceStep DEF Twice, vars
  <2>3. Whole
    BY <1>1, <2>2, MatchesWhole
  <2>4. QED BY <1>1, <2>1, <2>3, WholeStep DEF IInv, ServedTwice
<1>2. QED BY <1>1, Invariant, TypeInvariant, PTL DEF Spec, ListenersKept

\* The first teardown that finds the list whole does nothing undefined,
\* whoever causes it: only a second one does.
THEOREM FirstTeardownSafeHolds == Spec => FirstTeardownSafe
<1>1. ASSUME IInv, TypeInv', [Next]_vars
      PROVE  [undefined' # undefined => source = "removed" \/ ~ListenersMatch]_vars
  <2> SUFFICES ASSUME undefined' # undefined, ListenersMatch
               PROVE  source = "removed"
    OBVIOUS
  <2>1. Whole
    BY <1>1, MatchesWhole, TwiceStep DEF vars
  <2>2. QED BY <1>1, <2>1, WholeStep DEF IInv, Whole, ServedTwice
<1>2. QED BY <1>1, Invariant, TypeInvariant, PTL DEF Spec, FirstTeardownSafe

\* serve() clears the client list under connected clients only where it
\* breaks the list of listeners as well.
THEOREM WholeListsServedHolds == Spec => []WholeListsServed
<1>1. IInv => WholeListsServed
  BY MatchesWhole, WholeMatches DEF WholeListsServed
<1>2. QED BY <1>1, Invariant, PTL
================================================================================
