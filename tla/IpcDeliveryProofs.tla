--------------------------- MODULE IpcDeliveryProofs ---------------------------
(***************************************************************************)
(* What the messages of module IpcServer do, for every value of its        *)
(* constants: every event reaches its subscribers, nothing is sent but to  *)
(* who has asked for it, and the module implements module IpcDelivery:     *)
(* however messages are cut into pieces, each step of the server maps to   *)
(* one step of the specification without bytes, or to none.                *)
(***************************************************************************)
EXTENDS IpcStreamProofs, FiniteSetTheorems, FunctionTheorems

-----------------------------------------------------------------------------
(* Events.  What a step adds to a stream are the events that begin behind  *)
(* its end.                                                                *)

Added(s, out) == {i \in Heads(out, "event") : i > Len(s)}

\* The step that counts event m adds it, if the client is subscribed to it,
\* and no other one.
Gets(s, out, subscribed, m) ==
  IF subscribed THEN \E i \in DOMAIN out : Added(s, out) = {i} /\ out[i].msg = m
                ELSE Added(s, out) = {}

LEMMA GetsNothing ==
  ASSUME NEW s \in Seq(OutCell), NEW m
  PROVE  Gets(s, s, FALSE, m)
<1>1. DOMAIN s = 1..Len(s) /\ Len(s) \in Nat
  BY LenProperties
<1>2. Added(s, s) = {}
  BY <1>1 DEF Added, Heads
<1>3. QED BY <1>2 DEF Gets

LEMMA GetsEvent ==
  ASSUME NEW s \in Seq(OutCell), NEW u, NEW m \in Message, Sent(s, u, m), m.kind = "event"
  PROVE  Gets(s, u, TRUE, m) /\ u \in Seq(OutCell) /\ Len(s) <= Len(u)
<1>1. /\ u \in Seq(OutCell) /\ Len(u) > Len(s) /\ Len(s) \in Nat
      /\ u[Len(s) + 1].msg = m
      /\ Heads(u, "event") = Heads(s, "event") \cup
                               (IF m.kind = "event" THEN {Len(s) + 1} ELSE {})
  BY HeadsSent
<1>2. Heads(s, "event") \subseteq 1..Len(s) /\ DOMAIN u = 1..Len(u) /\ Len(u) \in Nat
  BY <1>1, LenProperties DEF Heads
<1>3. Heads(u, "event") = Heads(s, "event") \cup {Len(s) + 1}
  BY <1>1
<1>4. Len(s) + 1 > Len(s) /\ \A i \in Heads(s, "event") : ~(i > Len(s))
  BY <1>1, <1>2
<1>5. Added(s, u) = {Len(s) + 1}
  BY <1>3, <1>4 DEF Added
<1>6. Len(s) + 1 \in DOMAIN u /\ Len(s) <= Len(u)
  BY <1>1, <1>2
<1>7. QED BY <1>1, <1>5, <1>6 DEF Gets

LEMMA GetsAside ==
  ASSUME NEW s \in Seq(OutCell), NEW u \in Seq(OutCell), Len(s) <= Len(u),
         NEW v, NEW a \in Message, Sent(u, v, a), a.kind # "event",
         NEW subscribed \in BOOLEAN, NEW m, Gets(s, u, subscribed, m)
  PROVE  Gets(s, v, subscribed, m)
<1>1. /\ v \in Seq(OutCell) /\ Len(v) > Len(u) /\ Len(u) \in Nat
      /\ \A i \in 1..Len(u) : v[i] = u[i]
      /\ Heads(v, "event") = Heads(u, "event") \cup
                               (IF a.kind = "event" THEN {Len(u) + 1} ELSE {})
  BY HeadsSent
<1>2. Added(s, v) = Added(s, u)
  BY <1>1 DEF Added
<1>3. \A i \in DOMAIN u : i \in DOMAIN v /\ v[i] = u[i]
  <2>1. DOMAIN u = 1..Len(u) /\ DOMAIN v = 1..Len(v) /\ Len(v) \in Nat
    BY <1>1, LenProperties
  <2>2. QED BY <1>1, <2>1
<1>4. QED BY <1>2, <1>3 DEF Gets

\* An event is counted when the plugin signals it, and when a SEND_TICK is
\* handled that somebody listens to.
TickCounted(c) ==
  \E n \in Nat, payload \in PayloadLens :
    \E oom1 \in SUBSET MayFail, oom2 \in SUBSET MayFail, t \in RequestTypes \cup {"none"} :
      LET cs == [client EXCEPT ![c].pending = 0, ![c].ptype = t, ![c].hdr = n]
      IN /\ HasListeners(cs, "tick")
         /\ client' = [TickSent(cs, payload, oom1) EXCEPT
                         ![c] = SendStatus(@, "send_tick", TRUE, n, c \in oom2)]

LEMMA CountingStep ==
  ASSUME IInv, Next, nev' # nev
  PROVE  /\ nev' = nev + 1
         /\ \/ \E e \in PluginEvents : Publish(e)
            \/ \E c \in Clients : TickCounted(c) /\ client[c].life = "open"
         /\ \A d \in Clients : sock'[d].got = sock[d].got
<1>1. CASE Plugin
  <2>1. PICK e \in PluginEvents : Publish(e)
    BY <1>1 DEF Plugin, Serve, ServeFails, HandleDisplayDestroy, HandleConnection, CommandDone
  <2>2. QED BY <2>1 DEF Publish
<1>2. ASSUME NEW c \in Clients, ReadHeader(c) \/ ReadPayload(c)
      PROVE  /\ nev' = nev + 1 /\ TickCounted(c) /\ client[c].life = "open"
             /\ \A d \in Clients : ~ClientHandleWritable(d)
  <2>1. RequestHandled(c) /\ client[c].life = "open"
    BY <1>2, ReadCases DEF Disconnect, HeaderKept
  <2>2. PICK t \in RequestTypes \cup {"none"}, n \in Nat, len \in Nat :
          \E q : ClientHandleCommand(c, t, n, len, q)
    BY <2>1 DEF RequestHandled
  <2>3. PICK q : ClientHandleCommand(c, t, n, len, q)
    BY <2>2
  <2> DEFINE cs == [client EXCEPT ![c].pending = 0, ![c].ptype = t, ![c].hdr = n]
  <2>4. SendTick(cs, c, n)
    BY <2>3 DEF ClientHandleCommand, ExecuteCommand, AnswerQuery, Subscribe, Unsubscribe, Refuse
  <2>5. PICK payload \in PayloadLens, oom1 \in SUBSET MayFail, oom2 \in SUBSET MayFail :
          /\ client' = [TickSent(cs, payload, oom1) EXCEPT
                          ![c] = SendStatus(@, "send_tick", TRUE, n, c \in oom2)]
          /\ nev' = IF HasListeners(cs, "tick") THEN nev + 1 ELSE nev
    BY <2>4 DEF SendTick, ClientsBecome
  <2>6. HasListeners(cs, "tick") /\ nev' = nev + 1
    BY <2>5
  <2>7. \A d \in Clients : ~ClientHandleWritable(d)
    BY DEF ClientHandleWritable
  <2> HIDE DEF cs
  <2>8. TickCounted(c)
    BY <2>5, <2>6 DEF TickCounted, cs
  <2>9. QED BY <2>1, <2>6, <2>7, <2>8
<1>3. ASSUME NEW c \in Clients, HandleHangup(c) \/ SocketError(c)
                                \/ ClientHandleWritable(c) \/ Peer(c)
      PROVE  FALSE
  BY <1>3 DEF HandleHangup, SocketError, Disconnect, ClientHandleWritable, Peer,
              PeerConnect, PeerSend, Arrive, PeerHangup
<1>4. \A d \in Clients : sock'[d].got = sock[d].got
  BY <1>3, GotStays
<1>5. QED BY <1>1, <1>2, <1>3, <1>4 DEF Next, Handler

\* send_event towards one served client.
LEMMA EventGiven ==
  ASSUME NEW got \in Seq(OutCell), NEW k \in GoodRec, k.life = "open", NEW e \in Events,
         NEW n \in Nat, NEW payload \in Nat, NEW oom \in BOOLEAN, NEW k2, k2.life = "open",
         k2 = IF EventBit(e) \in k.subs THEN SendReply(k, Event(e, n), payload, oom) ELSE k
  PROVE  /\ Gets(got \o k.buf, got \o k2.buf, EventBit(e) \in k.subs, Event(e, n))
         /\ k2 \in GoodRec
         /\ got \o k.buf \in Seq(OutCell) /\ got \o k2.buf \in Seq(OutCell)
         /\ Len(got \o k.buf) <= Len(got \o k2.buf)
<1>1. PICK m, s, u : m = Event(e, n) /\ s = got \o k.buf /\ u = got \o k2.buf
  OBVIOUS
<1>2. m \in Message /\ m.kind = "event"
  BY <1>1, MessageTypes DEF Event
<1>3. s \in Seq(OutCell)
  <2>1. k.buf \in Seq(OutCell)
    BY DEF GoodRec, ClientRec
  <2>2. QED BY <1>1, <2>1, ConcatProperties
<1>4. CASE EventBit(e) \notin k.subs
  <2>1. k2 = k /\ u = s
    BY <1>1, <1>4
  <2>2. Gets(s, u, FALSE, m)
    BY <1>3, <2>1, GetsNothing
  <2>3. Len(s) <= Len(u) /\ (EventBit(e) \in k.subs) = FALSE
    BY <1>3, <1>4, <2>1, LenProperties
  <2>4. QED BY <1>1, <1>3, <2>1, <2>2, <2>3
<1>5. CASE EventBit(e) \in k.subs
  <2>1. k2 = SendReply(k, m, payload, oom)
    BY <1>1, <1>5
  <2>2. /\ k2 \in GoodRec
        /\ \/ k.life # "open" /\ k2.life = "touched" /\ k2.buf = k.buf
           \/ k.life = "open" /\ k2 = Fresh("gone") /\ k2.life = "gone" /\ k2.buf = <<>>
           \/ k.life = "open" /\ k2.life = "open" /\ Longer(k, k2, m, payload)
    BY <1>2, <2>1, SendReplyCases
  <2>3. Longer(k, k2, m, payload)
    BY <2>2
  <2>4. Sent(s, u, m)
    BY <1>1, <1>2, <2>3, LongerSent
  <2>5. Gets(s, u, TRUE, m) /\ u \in Seq(OutCell) /\ Len(s) <= Len(u)
    BY <1>2, <1>3, <2>4, GetsEvent
  <2>6. (EventBit(e) \in k.subs) = TRUE
    BY <1>5
  <2>7. QED BY <1>1, <1>3, <2>2, <2>5, <2>6
<1>6. QED BY <1>4, <1>5

\* The reply to SEND_TICK comes behind the tick.
LEMMA TickAnswered ==
  ASSUME NEW got \in Seq(OutCell), NEW k \in GoodRec, k.life = "open", NEW n \in Nat,
         NEW payload \in Nat, NEW oom1 \in BOOLEAN, NEW oom2 \in BOOLEAN, NEW h \in Nat,
         NEW k2, k2 = IF EventBit("tick") \in k.subs
                        THEN SendReply(k, Event("tick", n), payload, oom1) ELSE k,
         NEW k3, k3 = SendReply(k2, Reply("send_tick", TRUE, h), StatusLen, oom2),
         k3.life = "open"
  PROVE  Gets(got \o k.buf, got \o k3.buf, EventBit("tick") \in k.subs, Event("tick", n))
<1>1. PICK r, m, s, u, v :
        /\ r = Reply("send_tick", TRUE, h) /\ m = Event("tick", n)
        /\ s = got \o k.buf /\ u = got \o k2.buf /\ v = got \o k3.buf
  OBVIOUS
<1>2. /\ r \in Message /\ r.kind # "event" /\ m \in Message
      /\ StatusLen \in Nat /\ "tick" \in Events
  BY <1>1, MessageTypes, SizesNat DEF Reply, RequestTypes, Events, EventNo, Event
<1>3. /\ k2 = IF EventBit("tick") \in k.subs THEN SendReply(k, m, payload, oom1) ELSE k
      /\ k3 = SendReply(k2, r, StatusLen, oom2)
  BY <1>1
<1>4. k2 \in GoodRec
  <2>1. CASE EventBit("tick") \in k.subs
    <3>1. k2 = SendReply(k, m, payload, oom1)
      BY <1>3, <2>1
    <3>2. QED BY <1>2, <3>1, SendReplyCases
  <2>2. CASE EventBit("tick") \notin k.subs
    BY <1>3, <2>2
  <2>3. QED BY <2>1, <2>2
<1>5. k2.life = "open" /\ Longer(k2, k3, r, StatusLen)
  <2>1. \/ k2.life # "open" /\ k3.life = "touched" /\ k3.buf = k2.buf
        \/ k2.life = "open" /\ k3 = Fresh("gone") /\ k3.life = "gone" /\ k3.buf = <<>>
        \/ k2.life = "open" /\ k3.life = "open" /\ Longer(k2, k3, r, StatusLen)
    BY <1>2, <1>3, <1>4, SendReplyCases
  <2>2. QED BY <2>1
<1>6. /\ Gets(s, u, EventBit("tick") \in k.subs, m)
      /\ s \in Seq(OutCell) /\ u \in Seq(OutCell) /\ Len(s) <= Len(u)
  BY <1>1, <1>2, <1>5, EventGiven
<1>7. Sent(u, v, r)
  BY <1>1, <1>2, <1>4, <1>5, LongerSent
<1>8. CASE EventBit("tick") \in k.subs
  <2>1. Gets(s, u, TRUE, m)
    BY <1>6, <1>8 DEF Gets
  <2>2. Gets(s, v, TRUE, m)
    BY <1>2, <1>6, <1>7, <2>1, GetsAside
  <2>3. QED BY <1>1, <1>8, <2>2 DEF Gets
<1>9. CASE EventBit("tick") \notin k.subs
  <2>1. Gets(s, u, FALSE, m)
    BY <1>6, <1>9 DEF Gets
  <2>2. Gets(s, v, FALSE, m)
    BY <1>2, <1>6, <1>7, <2>1, GetsAside
  <2>3. QED BY <1>1, <1>9, <2>2 DEF Gets
<1>10. QED BY <1>8, <1>9

LEMMA EventCounted ==
  ASSUME IInv, LifeInv, ListedAreOpen, [Next]_vars
  PROVE  EventStep
<1> SUFFICES ASSUME nev' # nev, Next
             PROVE  EventStep
  BY DEF vars, EventStep
<1> DEFINE Told(e) == HasListeners(client, e) /\
                        \A d \in Clients : client'[d].life = "open" =>
                          Gets(Out(d), sock[d].got \o client'[d].buf,
                               EventBit(e) \in client[d].subs, Event(e, nev + 1))
<1>0. /\ client \in [Clients -> ClientRec] /\ client \in [Clients -> GoodRec]
      /\ nev + 1 \in Nat /\ listed \subseteq Clients
      /\ \A d \in Clients : sock[d].got \in Seq(OutCell) /\ client[d] \in ClientRec
      /\ \A d \in Clients : client[d].life = "open" <=> d \in listed
  <2>1. sock \in [Clients -> SockRec] /\ client \in [Clients -> ClientRec] /\ nev \in Nat
        /\ listed \subseteq Clients
    BY DEF IInv, TypeOK
  <2>2. QED BY <2>1 DEF IInv, SockRec, ListedAreOpen
<1>2. ASSUME NEW e \in PluginEvents, Publish(e)
      PROVE  e \in Events /\ Told(e)
  <2>1. e \in Events /\ HasListeners(client, e)
    BY <1>2 DEF PluginEvents, Events, EventNo, Publish
  <2>2. PICK payload \in PayloadLens, oom \in SUBSET MayFail :
          client' = SendEvent(client, Event(e, nev + 1), payload, oom)
    BY <1>2 DEF Publish, ClientsBecome
  <2> SUFFICES ASSUME NEW d \in Clients, client'[d].life = "open"
               PROVE  Gets(Out(d), sock[d].got \o client'[d].buf,
                           EventBit(e) \in client[d].subs, Event(e, nev + 1))
    BY <2>1
  <2>3. client'[d] = IF d \in listed /\ EventBit(e) \in client[d].subs
                       THEN SendReply(client[d], Event(e, nev + 1), payload, d \in oom)
                       ELSE client[d]
    BY <2>2 DEF SendEvent, Event
  <2>4. d \in listed /\ client[d].life = "open"
    BY <1>0, <2>3
  <2>5. payload \in Nat /\ (d \in oom) \in BOOLEAN
    BY SizesNat
  <2>6. client'[d] = IF EventBit(e) \in client[d].subs
                       THEN SendReply(client[d], Event(e, nev + 1), payload, d \in oom)
                       ELSE client[d]
    BY <2>3, <2>4
  <2>7. QED BY <1>0, <2>1, <2>4, <2>5, <2>6, EventGiven DEF Out
<1>3. ASSUME NEW c \in Clients, TickCounted(c), client[c].life = "open"
      PROVE  "tick" \in Events /\ Told("tick")
  <2>1. PICK n \in Nat, payload \in PayloadLens, oom1 \in SUBSET MayFail,
             oom2 \in SUBSET MayFail, t \in RequestTypes \cup {"none"} :
          LET cs == [client EXCEPT ![c].pending = 0, ![c].ptype = t, ![c].hdr = n]
          IN /\ HasListeners(cs, "tick")
             /\ client' = [TickSent(cs, payload, oom1) EXCEPT
                             ![c] = SendStatus(@, "send_tick", TRUE, n, c \in oom2)]
    BY <1>3 DEF TickCounted
  <2> DEFINE cs == [client EXCEPT ![c].pending = 0, ![c].ptype = t, ![c].hdr = n]
             m == Event("tick", nev + 1)
             told == SendEvent(cs, m, payload, oom1)
  <2>2. /\ \A d \in Clients : cs[d].subs = client[d].subs /\ cs[d].buf = client[d].buf
                              /\ cs[d].life = client[d].life
        /\ cs \in [Clients -> GoodRec]
        /\ \A d \in Clients \ {c} : cs[d] = client[d]
    <3>1. [client[c] EXCEPT !.pending = 0, !.ptype = t, !.hdr = n] \in GoodRec
      BY <1>0, GoodKept
    <3>2. cs = [client EXCEPT ![c] = [client[c] EXCEPT !.pending = 0, !.ptype = t, !.hdr = n]]
      BY <1>0
    <3>3. QED BY <1>0, <3>1, <3>2 DEF ClientRec
  <2>3. HasListeners(client, "tick") /\ "tick" \in Events
    BY <1>0, <2>1, <2>2 DEF HasListeners, Events, EventNo
  <2>4. client' = [told EXCEPT ![c] = SendStatus(@, "send_tick", TRUE, n, c \in oom2)]
    BY <2>1 DEF TickSent
  <2>5. \A d \in Clients :
          told[d] = IF d \in listed /\ EventBit("tick") \in cs[d].subs
                      THEN SendReply(cs[d], m, payload, d \in oom1) ELSE cs[d]
    BY DEF SendEvent, Event
  <2>6. DOMAIN told = Clients
    BY DEF SendEvent
  <2> HIDE DEF told, cs
  <2> SUFFICES ASSUME NEW d \in Clients, client'[d].life = "open"
               PROVE  Gets(Out(d), sock[d].got \o client'[d].buf,
                           EventBit("tick") \in client[d].subs, m)
    BY <2>3
  <2>7. client'[d] = IF d = c THEN SendReply(told[c], Reply("send_tick", TRUE, n), StatusLen, c \in oom2)
                     ELSE told[d]
    BY <2>4, <2>6 DEF SendStatus
  <2>8. cs[d].life = "open" /\ d \in listed
    <3>1. CASE d = c
      BY <1>0, <1>3, <2>2, <3>1
    <3>2. CASE d # c /\ d \notin listed
      BY <1>0, <2>2, <2>5, <2>7, <3>2
    <3>3. CASE d \in listed
      BY <1>0, <2>2, <3>3
    <3>4. QED BY <3>1, <3>2, <3>3
  <2>9. payload \in Nat /\ (d \in oom1) \in BOOLEAN /\ (d \in oom2) \in BOOLEAN
    BY SizesNat
  <2>10. PICK k, k2, k3, got :
           k = cs[d] /\ k2 = told[d] /\ k3 = client'[d] /\ got = sock[d].got
    OBVIOUS
  <2>11. /\ k2 = IF EventBit("tick") \in k.subs THEN SendReply(k, m, payload, d \in oom1) ELSE k
         /\ k \in GoodRec /\ k.life = "open" /\ k3.life = "open" /\ got \in Seq(OutCell)
         /\ k.subs = client[d].subs /\ k.buf = client[d].buf
    BY <1>0, <2>2, <2>5, <2>8, <2>10
  <2>12. Gets(got \o k.buf, got \o k3.buf, EventBit("tick") \in k.subs, m)
    <3>1. CASE d = c
      <4>1. k3 = SendReply(k2, Reply("send_tick", TRUE, n), StatusLen, d \in oom2)
        BY <2>7, <2>10, <3>1
      <4>2. QED BY <1>0, <2>9, <2>11, <4>1, TickAnswered
    <3>2. CASE d # c
      <4>1. k3 = k2
        BY <2>7, <2>10, <3>2
      <4>2. QED BY <1>0, <2>3, <2>9, <2>11, <4>1, EventGiven
    <3>3. QED BY <3>1, <3>2
  <2>13. QED BY <2>10, <2>11, <2>12 DEF Out
<1> HIDE DEF Told
<1>4. nev' = nev + 1 /\ \A d \in Clients : sock'[d].got = sock[d].got
  BY CountingStep
<1>5. PICK e \in Events : Told(e)
  BY <1>2, <1>3, CountingStep
<1>6. QED
  BY <1>4, <1>5 DEF Told, EventStep, Gets, Added

\* An event that is counted goes to every served client that is subscribed
\* to it, exactly once, and no event goes to another one, whoever is lost on
\* the way: send_event never skips a client.
THEOREM EventReachesSubscribersHolds ==
  ASSUME MaxServes <= 1
  PROVE  Spec => EventReachesSubscribers
<1>1. IInv /\ LifeInv /\ ListedAreOpen /\ [Next]_vars => [EventStep]_vars
  BY EventCounted
<1>2. QED BY <1>1, Invariant, LifeInvariant, ListedAreOpenHolds, PTL
          DEF Spec, EventReachesSubscribers

-----------------------------------------------------------------------------
(***************************************************************************)
(* Events come asked for.  What a client has been granted stands in its    *)
(* stream; a set of records with the mask S and the names W keeps together *)
(* what the stream of a client says of the names in W, that is W is wanted *)
(* of it, and its mask.                                                    *)
(***************************************************************************)
Says(asked, n, e) == \E x \in DOMAIN asked[n].arg : asked[n].arg[x] = e
Wanted(out, asked, e) == AskedFor(out, asked, Len(out) + 1, e)
AllAsked(out, asked) ==
  \A i \in Heads(out, "event") \cup Heads(out, "hello") : AskedFor(out, asked, i, out[i].msg.type)

Served(got, asked, S, W) ==
  {k \in GoodRec :
     /\ LivingRec(k) /\ AllAsked(got \o k.buf, asked)
     /\ k.life = "open" => k.subs = S /\ \A e \in W : Wanted(got \o k.buf, asked, e)}

\* The names a mask stands for.
NamesOf(S) == {e \in SubscribeNames : EventBit(e) \in S}

\* A message that is added changes nothing in what is said before it.
LEMMA GrantedBefore ==
  ASSUME NEW s \in Seq(OutCell), NEW u, NEW m \in Message, Sent(s, u, m), NEW asked,
         NEW i \in 1..Len(s) + 1, NEW t, NEW e
  PROVE  Granted(u, asked, i, t, e) = Granted(s, asked, i, t, e)
<1>1. /\ Len(s) \in Nat /\ \A j \in 1..Len(s) : u[j] = s[j]
      /\ Heads(u, "reply") = Heads(s, "reply") \cup
                               (IF m.kind = "reply" THEN {Len(s) + 1} ELSE {})
  BY HeadsSent
<1>2. Heads(s, "reply") \subseteq 1..Len(s)
  BY LenProperties DEF Heads
<1>3. ~(Len(s) + 1 < i)
  BY <1>1
<1>4. \A j : j \in Heads(u, "reply") /\ j < i <=> j \in Heads(s, "reply") /\ j < i
  BY <1>1, <1>3
<1>5. \A j \in Heads(s, "reply") : u[j] = s[j]
  BY <1>1, <1>2
<1>6. QED BY <1>4, <1>5 DEF Granted

\* What a message adds to what is said.
LEMMA GrantedNext ==
  ASSUME NEW s \in Seq(OutCell), NEW u, NEW m \in Message, Sent(s, u, m), NEW asked,
         NEW t, NEW e
  PROVE  Granted(u, asked, Len(u) + 1, t, e)
           = Granted(s, asked, Len(s) + 1, t, e) \cup
               (IF m.kind = "reply" /\ m.ok /\ m.type = t /\ Says(asked, m.n, e)
                  THEN {Len(s) + 1} ELSE {})
<1>1. /\ Len(s) \in Nat /\ \A j \in 1..Len(s) : u[j] = s[j]
      /\ Heads(u, "reply") = Heads(s, "reply") \cup
                               (IF m.kind = "reply" THEN {Len(s) + 1} ELSE {})
      /\ u \in Seq(OutCell) /\ Len(u) > Len(s) /\ u[Len(s) + 1].msg = m
  BY HeadsSent
<1>2. Heads(s, "reply") \subseteq 1..Len(s) /\ Len(u) \in Nat
  BY <1>1, LenProperties DEF Heads
<1>3. /\ Len(s) + 1 < Len(u) + 1
      /\ \A j \in Heads(s, "reply") : j < Len(s) + 1 /\ j < Len(u) + 1 /\ u[j] = s[j]
  BY <1>1, <1>2
<1> DEFINE New(j) == u[j].msg.ok /\ u[j].msg.type = t /\ Says(asked, u[j].msg.n, e)
           Old(j) == s[j].msg.ok /\ s[j].msg.type = t /\ Says(asked, s[j].msg.n, e)
<1>4. /\ Granted(u, asked, Len(u) + 1, t, e) = {j \in Heads(u, "reply") : New(j)}
      /\ Granted(s, asked, Len(s) + 1, t, e) = {j \in Heads(s, "reply") : Old(j)}
  <2>1. \A j \in Heads(u, "reply") : j < Len(u) + 1
    BY <1>1, <1>3
  <2>2. QED BY <1>3, <2>1 DEF Granted, Says
<1>5. /\ \A j \in Heads(s, "reply") : New(j) <=> Old(j)
      /\ New(Len(s) + 1) <=> m.ok /\ m.type = t /\ Says(asked, m.n, e)
  BY <1>1, <1>3
<1> HIDE DEF New, Old
<1>6. QED BY <1>1, <1>4, <1>5

\* A message that is asked for, or a reply, follows.
LEMMA AskedSent ==
  ASSUME NEW s \in Seq(OutCell), NEW u, NEW m \in Message, Sent(s, u, m), NEW asked,
         AllAsked(s, asked), m.kind # "reply" => Wanted(s, asked, m.type)
  PROVE  AllAsked(u, asked)
<1>1. /\ Len(s) \in Nat /\ \A j \in 1..Len(s) : u[j] = s[j]
      /\ u[Len(s) + 1].msg = m
      /\ \A kind : Heads(u, kind) = Heads(s, kind) \cup
                                      (IF m.kind = kind THEN {Len(s) + 1} ELSE {})
  BY HeadsSent
<1>2. \A kind : Heads(s, kind) \subseteq 1..Len(s)
  BY LenProperties DEF Heads
<1> SUFFICES ASSUME NEW i \in Heads(u, "event") \cup Heads(u, "hello")
             PROVE  AskedFor(u, asked, i, u[i].msg.type)
  BY DEF AllAsked
<1>3. i \in 1..Len(s) + 1
  BY <1>1, <1>2
<1>4. ASSUME NEW e
      PROVE  AskedFor(u, asked, i, e) = AskedFor(s, asked, i, e)
  BY <1>3, GrantedBefore DEF AskedFor
<1>5. CASE i \in Heads(s, "event") \cup Heads(s, "hello")
  <2>1. u[i] = s[i]
    BY <1>1, <1>2, <1>5
  <2>2. AskedFor(s, asked, i, s[i].msg.type)
    BY <1>5 DEF AllAsked
  <2>3. QED BY <1>4, <2>1, <2>2
<1>6. CASE i \notin Heads(s, "event") \cup Heads(s, "hello")
  <2>1. i = Len(s) + 1 /\ m.kind # "reply"
    BY <1>1, <1>6
  <2>2. AskedFor(s, asked, i, m.type)
    BY <2>1 DEF Wanted
  <2>3. QED BY <1>1, <1>4, <2>1, <2>2
<1>7. QED BY <1>5, <1>6

\* What is wanted behind a message: what its request was granted, and what
\* was wanted before and has not been given up.
LEMMA WantedSent ==
  ASSUME NEW s \in Seq(OutCell), NEW u, NEW m \in Message, Sent(s, u, m), NEW asked, NEW e,
         \/ /\ m.kind = "reply" /\ m.ok /\ m.type = "subscribe" /\ Says(asked, m.n, e)
         \/ /\ Wanted(s, asked, e)
            /\ ~(m.kind = "reply" /\ m.ok /\ m.type = "unsubscribe" /\ Says(asked, m.n, e))
  PROVE  Wanted(u, asked, e)
<1> DEFINE G(out, t) == Granted(out, asked, Len(out) + 1, t, e)
           adds(t) == m.kind = "reply" /\ m.ok /\ m.type = t /\ Says(asked, m.n, e)
<1>1. \A t : G(u, t) = G(s, t) \cup (IF adds(t) THEN {Len(s) + 1} ELSE {})
  BY GrantedNext
<1>2. \A t : \A j \in G(s, t) : j < Len(s) + 1
  BY DEF Granted
<1>3. ~adds("unsubscribe")
  OBVIOUS
<1>4. Wanted(u, asked, e) <=> \E j \in G(u, "subscribe") : \A x \in G(u, "unsubscribe") : x < j
  BY DEF Wanted, AskedFor
<1>5. CASE adds("subscribe")
  <2>1. Len(s) + 1 \in G(u, "subscribe")
    BY <1>1, <1>5
  <2>2. \A x \in G(u, "unsubscribe") : x < Len(s) + 1
    BY <1>1, <1>2, <1>3
  <2> HIDE DEF G, adds
  <2>3. QED BY <1>4, <2>1, <2>2
<1>6. CASE ~adds("subscribe")
  <2>1. \E j \in G(s, "subscribe") : \A x \in G(s, "unsubscribe") : x < j
    BY <1>6 DEF Wanted, AskedFor
  <2> HIDE DEF G, adds
  <2>2. QED BY <1>1, <1>3, <1>4, <2>1
<1>7. QED BY <1>5, <1>6

\* The beginning of such a stream is one.
LEMMA AskedCut ==
  ASSUME NEW s \in Seq(OutCell), NEW t \in Seq(OutCell), NEW asked, AllAsked(s \o t, asked)
  PROVE  AllAsked(s, asked)
<1>1. PICK u : u = s \o t
  OBVIOUS
<1>2. /\ Len(s) \in Nat /\ Len(t) \in Nat /\ Len(u) = Len(s) + Len(t)
      /\ \A i \in 1..Len(s) + Len(t) : u[i] = IF i <= Len(s) THEN s[i] ELSE t[i - Len(s)]
      /\ u \in Seq(OutCell)
  BY <1>1, ConcatProperties, LenProperties
<1>3. \A i \in 1..Len(s) : i \in 1..Len(u) /\ u[i] = s[i]
  BY <1>2
<1>4. DOMAIN s = 1..Len(s) /\ DOMAIN u = 1..Len(u)
  BY <1>2, LenProperties
<1>5. ASSUME NEW kind, NEW i \in 1..Len(s)
      PROVE  i \in Heads(u, kind) <=> i \in Heads(s, kind)
  BY <1>3, <1>4 DEF Heads
<1>6. ASSUME NEW i \in 1..Len(s), NEW x, NEW e
      PROVE  Granted(u, asked, i, x, e) = Granted(s, asked, i, x, e)
  <2>1. \A j : j \in Heads(u, "reply") /\ j < i <=> j \in Heads(s, "reply") /\ j < i
    <3>1. \A j \in 1..Len(u) : j < i => j \in 1..Len(s)
      BY <1>2
    <3>2. Heads(u, "reply") \subseteq 1..Len(u) /\ Heads(s, "reply") \subseteq 1..Len(s)
      BY <1>4 DEF Heads
    <3>3. QED BY <1>5, <3>1, <3>2
  <2>2. \A j \in Heads(s, "reply") : u[j] = s[j]
    BY <1>3, <1>4 DEF Heads
  <2>3. QED BY <2>1, <2>2 DEF Granted
<1>7. ASSUME NEW i \in Heads(s, "event") \cup Heads(s, "hello")
      PROVE  AskedFor(s, asked, i, s[i].msg.type)
  <2>1. i \in 1..Len(s)
    BY <1>4 DEF Heads
  <2>2. i \in Heads(u, "event") \cup Heads(u, "hello") /\ u[i] = s[i]
    BY <1>3, <1>5, <2>1
  <2>3. AskedFor(u, asked, i, u[i].msg.type)
    BY <1>1, <2>2 DEF AllAsked
  <2>4. QED BY <1>6, <2>1, <2>2, <2>3 DEF AskedFor
<1>8. QED BY <1>7 DEF AllAsked

\* One more request is made.
LEMMA AskedMore ==
  ASSUME NEW out, NEW asked \in Seq(Requests), NEW r \in Requests,
         NEW k \in 0..Len(asked), Replied(out, asked, k), NEW i, NEW e
  PROVE  AskedFor(out, Append(asked, r), i, e) = AskedFor(out, asked, i, e)
<1>1. Len(asked) \in Nat /\ \A n \in 1..k : Append(asked, r)[n] = asked[n]
  BY AppendProperties, LenProperties
<1>2. \A j \in Heads(out, "reply") : out[j].msg.n \in 1..k
  BY DEF Replied
<1>3. \A j \in Heads(out, "reply") : Append(asked, r)[out[j].msg.n] = asked[out[j].msg.n]
  BY <1>1, <1>2
<1>4. \A t : Granted(out, Append(asked, r), i, t, e) = Granted(out, asked, i, t, e)
  BY <1>3 DEF Granted
<1>5. QED BY <1>4 DEF AskedFor

LEMMA ServedGone ==
  ASSUME NEW got \in Seq(OutCell), NEW asked, NEW b \in Seq(OutCell), AllAsked(got \o b, asked),
         NEW S, NEW W
  PROVE  Fresh("gone") \in Served(got, asked, S, W)
<1>1. AllAsked(got, asked) /\ got \o <<>> = got
  BY AskedCut, ConcatEmptySeq
<1>2. Fresh("gone") \in GoodRec /\ Fresh("gone").life = "gone" /\ Fresh("gone").buf = <<>>
  BY GoodKept
<1>3. QED BY <1>1, <1>2 DEF Served, LivingRec

\* A client is told what is wanted of it, or a reply that makes W2 wanted.
LEMMA ServedTold ==
  ASSUME NEW got \in Seq(OutCell), NEW asked, NEW S, NEW W, NEW W2,
         NEW k \in Served(got, asked, S, W), NEW m \in Message, NEW payload \in Nat,
         NEW oom \in BOOLEAN, m.kind # "reply" => m.type \in W,
         \A e \in W2 :
           \/ m.kind = "reply" /\ m.ok /\ m.type = "subscribe" /\ Says(asked, m.n, e)
           \/ /\ e \in W
              /\ ~(m.kind = "reply" /\ m.ok /\ m.type = "unsubscribe" /\ Says(asked, m.n, e))
  PROVE  SendReply(k, m, payload, oom) \in Served(got, asked, S, W2)
<1>0. PICK k2 : k2 = SendReply(k, m, payload, oom)
  OBVIOUS
<1>1. /\ k \in GoodRec /\ LivingRec(k) /\ AllAsked(got \o k.buf, asked)
      /\ k.life = "open" => k.subs = S /\ \A e \in W : Wanted(got \o k.buf, asked, e)
  BY DEF Served
<1>2. /\ k2 \in GoodRec
      /\ \/ k.life # "open" /\ k2.life = "touched" /\ k2.buf = k.buf
         \/ k.life = "open" /\ k2 = Fresh("gone") /\ k2.life = "gone" /\ k2.buf = <<>>
         \/ k.life = "open" /\ k2.life = "open" /\ Longer(k, k2, m, payload)
  BY <1>0, <1>1, SendReplyCases
<1>3. CASE k.life # "open" /\ k2.life = "touched" /\ k2.buf = k.buf
  BY <1>0, <1>1, <1>2, <1>3 DEF Served, LivingRec
<1>4. CASE k.life = "open" /\ k2 = Fresh("gone")
  <2>1. k.buf \in Seq(OutCell)
    BY <1>1 DEF GoodRec, ClientRec
  <2>2. Fresh("gone") \in Served(got, asked, S, W2)
    BY <1>1, <2>1, ServedGone
  <2>3. QED BY <1>0, <1>4, <2>2
<1>5. CASE k.life = "open" /\ k2.life = "open" /\ Longer(k, k2, m, payload)
  <2>1. PICK s, u : s = got \o k.buf /\ u = got \o k2.buf
    OBVIOUS
  <2>2. Sent(s, u, m) /\ s \in Seq(OutCell)
    BY <1>1, <1>5, <2>1, LongerSent
  <2>3. AllAsked(s, asked) /\ k.subs = S /\ \A e \in W : Wanted(s, asked, e)
    BY <1>1, <1>5, <2>1
  <2>4. AllAsked(u, asked)
    BY <2>2, <2>3, AskedSent
  <2>5. \A e \in W2 : Wanted(u, asked, e)
    BY <2>2, <2>3, WantedSent
  <2>6. k2.subs = S
    BY <1>5, <2>3 DEF Longer
  <2>7. QED BY <1>0, <1>2, <1>5, <2>1, <2>4, <2>5, <2>6 DEF Served, LivingRec
<1>6. QED BY <1>2, <1>3, <1>4, <1>5

\* What is not a reply leaves the names wanted that are wanted.
LEMMA ServedAside ==
  ASSUME NEW got \in Seq(OutCell), NEW asked, NEW S, NEW W,
         NEW k \in Served(got, asked, S, W), NEW m \in Message, NEW payload \in Nat,
         NEW oom \in BOOLEAN, m.kind # "reply", m.type \in W
  PROVE  SendReply(k, m, payload, oom) \in Served(got, asked, S, W)
BY ServedTold

\* No two names SUBSCRIBE knows share a bit.
LEMMA BitsApart ==
  ASSUME NEW e \in SubscribeNames, NEW f \in SubscribeNames, EventBit(e) = EventBit(f)
  PROVE  e = f
<1>1. /\ EventBit("workspace") = 0 /\ EventBit("output") = 1 /\ EventBit("window") = 3
      /\ EventBit("shutdown") = 6 /\ EventBit("tick") = 7 /\ EventBit("input") = 5
  BY DEF EventBit, EventNo
<1>2. QED BY <1>1 DEF SubscribeNames

\* The names a request leaves: those it is granted, and those it does not
\* successfully give up.
LEMMA NamesLeft ==
  ASSUME NEW S, NEW t, NEW arg, NEW ok, SaysSo(t, arg, ok), NEW e \in NamesOf(MaskAfter(S, t, arg))
  PROVE  \/ ok /\ t = "subscribe" /\ \E i \in DOMAIN arg : arg[i] = e
         \/ /\ e \in NamesOf(S)
            /\ ~(ok /\ t = "unsubscribe" /\ \E i \in DOMAIN arg : arg[i] = e)
<1>0. e \in SubscribeNames /\ EventBit(e) \in MaskAfter(S, t, arg)
  BY DEF NamesOf
<1>n. \A f \in SubscribeNames : f # NotString /\ f \in UnsubscribeNames
  BY DEF SubscribeNames, UnsubscribeNames, NotString
<1>1. CASE t = "subscribe"
  <2>1. EventBit(e) \in IF arg = <<>> THEN S ELSE Subscribed(S, arg)
    BY <1>0, <1>1 DEF MaskAfter
  <2>2. CASE EventBit(e) \in S
    BY <1>0, <1>1, <2>2 DEF NamesOf
  <2>3. CASE EventBit(e) \notin S
    <3>1. arg # <<>> /\ Unsupported(arg, SubscribeNames) = {}
      BY <2>1, <2>3 DEF Subscribed
    <3>2. PICK i \in DOMAIN arg : arg[i] # NotString /\ EventBit(e) = EventBit(arg[i])
      BY <2>1, <2>3, <3>1 DEF Subscribed
    <3>3. arg[i] \in SubscribeNames
      BY <3>1, <3>2 DEF Unsupported
    <3>4. arg[i] = e
      BY <1>0, <3>2, <3>3, BitsApart
    <3>5. ok
      BY <1>1, <3>1 DEF SaysSo, Grants
    <3>6. QED BY <1>1, <3>4, <3>5
  <2>4. QED BY <2>2, <2>3
<1>2. CASE t = "unsubscribe"
  <2>1. EventBit(e) \in Unsubscribed(S, arg)
    BY <1>0, <1>2 DEF MaskAfter
  <2>2. e \in NamesOf(S)
    BY <1>0, <2>1 DEF NamesOf, Unsubscribed
  <2>3. ASSUME ok, NEW i \in DOMAIN arg, arg[i] = e PROVE FALSE
    <3>1. Unsupported(arg, UnsubscribeNames) = {}
      BY <1>2, <2>3 DEF SaysSo, Grants
    <3>2. arg[i] # NotString
      BY <1>0, <1>n, <2>3
    <3>3. EventBit(arg[i]) \notin Unsubscribed(S, arg)
      BY <3>1, <3>2 DEF Unsubscribed
    <3>4. QED BY <2>1, <2>3, <3>3
  <2>4. QED BY <1>2, <2>2, <2>3
<1>3. CASE t \notin {"subscribe", "unsubscribe"}
  BY <1>0, <1>3 DEF MaskAfter, NamesOf
<1>4. QED BY <1>1, <1>2, <1>3

AskedInv ==
  \A d \in Clients : client[d] \in Served(sock[d].got, sock[d].asked, client[d].subs,
                                          NamesOf(client[d].subs))

\* The n-th request is handled: between it and its reply the mask is the new
\* one, and what is wanted is the old.
LEMMA AskedHandled ==
  ASSUME IInv, NEW d \in Clients, client[d].life = "open",
         NEW n \in 1..Len(sock[d].asked), NEW q,
         ClientHandleCommand(d, sock[d].asked[n].type, n, sock[d].asked[n].len, q),
         sock[d].asked[n].len > 0 => q[1].n = n,
         client[d] \in Served(sock[d].got, sock[d].asked, client[d].subs, NamesOf(client[d].subs))
  PROVE  client'[d] \in Served(sock[d].got, sock[d].asked, client'[d].subs,
                               NamesOf(client'[d].subs))
<1>v. PICK asked, got, r, t, arg :
        /\ asked = sock[d].asked /\ got = sock[d].got /\ r = asked[n] /\ t = r.type
        /\ arg = IF r.len = 0 THEN <<>> ELSE sock[d].asked[q[1].n].arg
  OBVIOUS
<1>0. /\ client \in [Clients -> ClientRec] /\ client[d] \in GoodRec /\ client[d] \in ClientRec
      /\ asked \in Seq(Requests) /\ got \in Seq(OutCell) /\ nev + 1 \in Nat /\ n \in Nat
      /\ client[d].subs \in SUBSET Bits
  <2>1. /\ client \in [Clients -> ClientRec] /\ client \in [Clients -> GoodRec]
        /\ sock[d] \in SockRec /\ nev \in Nat /\ client[d] \in ClientRec
    BY DEF IInv, TypeOK
  <2>2. asked \in Seq(Requests) /\ got \in Seq(OutCell)
    BY <1>v, <2>1 DEF SockRec
  <2>3. QED BY <1>v, <2>1, <2>2, LenProperties DEF ClientRec
<1>1. t \in RequestTypes /\ t \in RequestTypes \cup {"none"} /\ arg = r.arg /\ r.len \in Nat
  <2>1. r \in Requests
    BY <1>v, <1>0, ElementOfSeq
  <2>2. r \in Request /\ (r.len = 0 => r.arg = <<>>)
    BY <2>1, RequestsAssumption
  <2>3. r.len \in Nat /\ t \in RequestTypes
    BY <1>v, <2>2 DEF Request
  <2>4. QED BY <1>v, <2>2, <2>3
<1>2. PICK cs : cs = [client EXCEPT ![d].pending = 0, ![d].ptype = t, ![d].hdr = n]
  OBVIOUS
<1>3. Handled(cs, d, t, n, arg)
  BY <1>v, <1>2 DEF ClientHandleCommand, Handled
<1>4. PICK S, S2 : S = client[d].subs /\ S2 = MaskAfter(S, t, arg)
  OBVIOUS
<1>5. S2 \in SUBSET Bits
  BY <1>0, <1>4, SubscribedType DEF MaskAfter
<1>6. PICK R0, R1 : /\ R0 = Served(got, asked, S2, NamesOf(S))
                    /\ R1 = Served(got, asked, S2, NamesOf(S2))
  OBVIOUS
<1>7. cs[d] = [client[d] EXCEPT !.pending = 0, !.ptype = t, !.hdr = n]
      /\ cs \in [Clients -> ClientRec]
  <2>1. [client[d] EXCEPT !.pending = 0, !.ptype = t, !.hdr = n] \in ClientRec
    BY <1>0, <1>1 DEF ClientRec
  <2>2. QED BY <1>0, <1>2, <2>1
<1>8. [cs[d] EXCEPT !.subs = MaskAfter(cs[d].subs, t, arg)] \in R0 /\ cs[d].subs = S
  <2>1. PICK k, k2, k3 : k = client[d] /\ k2 = [k EXCEPT !.pending = 0, !.ptype = t, !.hdr = n]
                         /\ k3 = [k2 EXCEPT !.subs = S2]
    OBVIOUS
  <2>2. k2 \in GoodRec
    <3>1. 0 \in Nat
      OBVIOUS
    <3>2. QED BY <1>0, <1>1, <2>1, <3>1, GoodKept, Zenon
  <2>3. k2.subs = k.subs /\ k2.buf = k.buf /\ k2.life = k.life
    BY <1>0, <2>1 DEF ClientRec
  <2>4. k3 \in GoodRec
    BY <1>5, <2>1, <2>2, GoodKept
  <2>5. k3.subs = S2 /\ k3.buf = k.buf /\ k3.life = k.life
    <3>1. k2 \in ClientRec
      BY <2>2 DEF GoodRec
    <3>2. QED BY <2>1, <2>3, <3>1 DEF ClientRec
  <2>6. k3 \in R0
    <3>1. k \in Served(got, asked, S, NamesOf(S)) /\ k.life = "open"
      BY <1>v, <1>4, <2>1
    <3>2. QED BY <1>6, <2>4, <2>5, <3>1 DEF Served, LivingRec
  <2>7. cs[d] = k2 /\ cs[d].subs = S
    BY <1>4, <1>7, <2>1, <2>3
  <2>8. QED BY <1>4, <2>1, <2>6, <2>7
<1>9. EventBit("tick") \in cs[d].subs =>
        \A k \in R0, payload \in Nat, oom \in BOOLEAN :
          SendReply(k, Event("tick", nev + 1), payload, oom) \in R0
  <2> SUFFICES ASSUME EventBit("tick") \in S, NEW k \in R0, NEW payload \in Nat, NEW oom \in BOOLEAN
               PROVE  SendReply(k, Event("tick", nev + 1), payload, oom) \in R0
    BY <1>8
  <2>1. PICK m : m = Event("tick", nev + 1)
    OBVIOUS
  <2>2. m \in Message /\ m.kind # "reply" /\ m.type = "tick"
    BY <1>0, <2>1, MessageTypes DEF Event, Events, EventNo
  <2>3. "tick" \in NamesOf(S)
    BY DEF NamesOf, SubscribeNames
  <2>4. SendReply(k, m, payload, oom) \in Served(got, asked, S2, NamesOf(S))
    BY <1>0, <1>6, <2>2, <2>3, ServedAside
  <2>5. QED BY <1>6, <2>1, <2>4
<1>10. \A k \in R0, ok \in BOOLEAN, payload \in Nat, oom \in BOOLEAN :
         SaysSo(t, arg, ok) => SendReply(k, Reply(t, ok, n), payload, oom) \in R1
  <2> SUFFICES ASSUME NEW k \in R0, NEW ok \in BOOLEAN, NEW payload \in Nat, NEW oom \in BOOLEAN,
                      SaysSo(t, arg, ok)
               PROVE  SendReply(k, Reply(t, ok, n), payload, oom) \in R1
    OBVIOUS
  <2>1. PICK m : m = Reply(t, ok, n)
    OBVIOUS
  <2>2. m \in Message /\ m.kind = "reply" /\ m.type = t /\ m.ok = ok /\ m.n = n
    BY <1>0, <1>1, <2>1, MessageTypes DEF Reply
  <2>3. \A e : Says(asked, n, e) <=> \E i \in DOMAIN arg : arg[i] = e
    BY <1>v, <1>1 DEF Says
  <2>4. ASSUME NEW e \in NamesOf(S2)
        PROVE  \/ m.kind = "reply" /\ m.ok /\ m.type = "subscribe" /\ Says(asked, m.n, e)
               \/ /\ e \in NamesOf(S)
                  /\ ~(m.kind = "reply" /\ m.ok /\ m.type = "unsubscribe" /\ Says(asked, m.n, e))
    <3>1. \/ ok /\ t = "subscribe" /\ \E i \in DOMAIN arg : arg[i] = e
          \/ /\ e \in NamesOf(S)
             /\ ~(ok /\ t = "unsubscribe" /\ \E i \in DOMAIN arg : arg[i] = e)
      BY <1>4, NamesLeft
    <3>2. QED BY <2>2, <2>3, <3>1
  <2>5. SendReply(k, m, payload, oom) \in Served(got, asked, S2, NamesOf(S2))
    BY <1>0, <1>6, <2>2, <2>4, ServedTold
  <2>6. QED BY <1>6, <2>1, <2>5
<1>11. Ticks(t, arg) =>
         \A k \in R1, payload \in Nat, oom \in BOOLEAN :
           SendReply(k, FirstTick(n), payload, oom) \in R1
  <2> SUFFICES ASSUME Ticks(t, arg), NEW k \in R1, NEW payload \in Nat, NEW oom \in BOOLEAN
               PROVE  SendReply(k, FirstTick(n), payload, oom) \in R1
    OBVIOUS
  <2>1. PICK m : m = FirstTick(n)
    OBVIOUS
  <2>2. m \in Message /\ m.kind # "reply" /\ m.type = "tick"
    BY <1>0, <2>1, MessageTypes DEF FirstTick
  <2>3. "tick" \in NamesOf(S2)
    <3>1. t = "subscribe" /\ arg # <<>> /\ Unsupported(arg, SubscribeNames) = {}
      BY DEF Ticks, Grants
    <3>2. S2 = S \cup {EventBit(arg[i]) : i \in {j \in DOMAIN arg : arg[j] # NotString}}
      BY <1>4, <3>1 DEF MaskAfter, Subscribed
    <3>3. PICK i \in DOMAIN arg : arg[i] = "tick"
      BY DEF Ticks
    <3>4. arg[i] # NotString /\ "tick" \in SubscribeNames
      BY <3>3 DEF NotString, SubscribeNames
    <3>5. EventBit("tick") \in S2
      BY <3>2, <3>3, <3>4
    <3>6. QED BY <3>4, <3>5 DEF NamesOf
  <2>4. SendReply(k, m, payload, oom) \in Served(got, asked, S2, NamesOf(S2))
    BY <1>0, <1>6, <2>2, <2>3, ServedAside
  <2>5. QED BY <1>6, <2>1, <2>4
<1>12. client'[d] \in IF t = "command" THEN R0 ELSE R1
  <2>1. [cs[d] EXCEPT !.subs = MaskAfter(cs[d].subs, t, arg)] \in R0
    BY <1>8
  <2>2. cs \in [Clients -> ClientRec] /\ n \in Nat /\ t \in RequestTypes \cup {"none"}
    BY <1>0, <1>1, <1>7
  <2>3. d \in Clients
    OBVIOUS
  <2>4. QED BY ONLY <1>3, <1>9, <1>10, <1>11, <2>1, <2>2, <2>3, HandledAnswers, ZenonT(30)
<1>13. client'[d] \in R1
  <2>1. t = "command" => S2 = S
    BY <1>4 DEF MaskAfter
  <2>2. QED BY <1>6, <1>12, <2>1
<1>14. CASE client'[d].life = "open"
  <2>1. client'[d].subs = S2
    BY <1>6, <1>13, <1>14 DEF Served
  <2>2. QED BY <1>v, <1>6, <1>13, <2>1
<1>15. CASE client'[d].life # "open"
  BY <1>v, <1>6, <1>13, <1>15 DEF Served
<1>16. QED BY <1>14, <1>15

LEMMA AskedRead ==
  ASSUME IInv, Next, NEW d \in Clients, SyncRec(client[d], sock[d]),
         ReadHeader(d) \/ ReadPayload(d),
         client[d] \in Served(sock[d].got, sock[d].asked, client[d].subs, NamesOf(client[d].subs))
  PROVE  client'[d] \in Served(sock[d].got, sock[d].asked, client'[d].subs,
                               NamesOf(client'[d].subs))
<1> DEFINE Good(k) == k \in Served(sock[d].got, sock[d].asked, k.subs, NamesOf(k.subs))
<1>0. /\ client \in [Clients -> ClientRec] /\ client[d] \in ClientRec /\ client[d] \in GoodRec
      /\ sock[d].asked \in Seq(Requests) /\ sock[d].got \in Seq(OutCell)
      /\ client[d].buf \in Seq(OutCell)
  <2>1. /\ client \in [Clients -> ClientRec] /\ client \in [Clients -> GoodRec]
        /\ sock[d] \in SockRec
    BY DEF IInv, TypeOK
  <2>2. QED BY <2>1 DEF SockRec, ClientRec
<1>1. client[d].life = "open"
  BY ReadCases
<1>2. CASE Disconnect(d)
  <2>1. client'[d] = Fresh("gone")
    BY <1>0, <1>2 DEF Disconnect, ClientsBecome, Disconnected
  <2>2. AllAsked(sock[d].got \o client[d].buf, sock[d].asked)
    BY DEF Served
  <2>3. QED BY <1>0, <2>1, <2>2, ServedGone
<1>3. ASSUME NEW n \in 1..Len(sock[d].asked), HeaderRead(d, n)
      PROVE  Good(client'[d])
  <2>0. PICK r, p, t : r = sock[d].asked[n] /\ p = r.len /\ t = r.type
    OBVIOUS
  <2>1. PICK k, k2 : /\ k = client[d] /\ k2 = client'[d]
                     /\ k2 = [k EXCEPT !.pending = p, !.ptype = t, !.hdr = n]
    <3>1. client'[d] = [client[d] EXCEPT !.pending = p, !.ptype = t, !.hdr = n]
      BY <1>0, <1>3, <2>0 DEF HeaderRead
    <3>2. QED BY <3>1
  <2>2. p \in Nat /\ t \in RequestTypes \cup {"none"} /\ n \in Nat
    <3>1. r \in Requests
      BY <1>0, <2>0, ElementOfSeq
    <3>2. QED BY <1>0, <2>0, <3>1, RequestsAssumption, LenProperties DEF Request
  <2>3. k \in GoodRec /\ k \in ClientRec /\ k.life = "open"
    BY <1>0, <1>1, <2>1
  <2>4. k2 \in GoodRec
    <3>1. ASSUME NEW a \in GoodRec PROVE [a EXCEPT !.pending = p, !.ptype = t, !.hdr = n] \in GoodRec
      BY <2>2, <3>1 DEF GoodRec, GoodClient, ClientRec
    <3>2. QED BY <2>1, <2>3, <3>1
  <2>5. k2.subs = k.subs /\ k2.buf = k.buf /\ k2.life = "open"
    BY <2>1, <2>3 DEF ClientRec
  <2>6. LivingRec(k2)
    BY <2>5 DEF LivingRec
  <2>7. Good(k)
    BY <2>1
  <2>8. Good(k2)
    BY <2>3, <2>4, <2>5, <2>6, <2>7 DEF Served
  <2>9. QED BY <2>1, <2>8
<1>4. ASSUME NEW n \in 1..Len(sock[d].asked), NEW q,
             ClientHandleCommand(d, sock[d].asked[n].type, n, sock[d].asked[n].len, q),
             sock[d].asked[n].len > 0 => q[1].n = n
      PROVE  Good(client'[d])
  BY <1>1, <1>4, AskedHandled
<1>5. \/ Disconnect(d)
      \/ \E n \in 1..Len(sock[d].asked) :
           \/ HeaderRead(d, n)
           \/ \E q : /\ ClientHandleCommand(d, sock[d].asked[n].type, n, sock[d].asked[n].len, q)
                     /\ sock[d].asked[n].len > 0 => q[1].n = n
  BY ReadsWhole
<1> HIDE DEF Good
<1>6. Disconnect(d) => Good(client'[d])
  BY <1>2 DEF Good
<1>7. Good(client'[d])
  BY <1>3, <1>4, <1>5, <1>6, Zenon
<1>8. QED BY <1>7 DEF Good

LEMMA AskedNothing ==
  ASSUME NEW asked, NEW life \in {"new", "queued", "open", "gone"}
  PROVE  Fresh(life) \in Served(<<>>, asked, Fresh(life).subs, NamesOf(Fresh(life).subs))
<1>1. Fresh(life).subs = {} /\ Fresh(life).buf = <<>> /\ Fresh(life).life = life
      /\ <<>> \o <<>> = <<>>
  BY DEF Fresh
<1>2. Fresh(life) \in GoodRec
  BY FreshGood DEF Lives
<1>3. AllAsked(<<>>, asked)
  BY DEF AllAsked, Heads
<1>4. NamesOf({}) = {}
  BY DEF NamesOf
<1>5. QED BY <1>1, <1>2, <1>3, <1>4 DEF Served, LivingRec

LEMMA AskedInit == Init => AskedInv
<1> SUFFICES ASSUME Init, NEW d \in Clients
             PROVE  client[d] \in Served(sock[d].got, sock[d].asked, client[d].subs,
                                         NamesOf(client[d].subs))
  BY DEF AskedInv
<1>1. client[d] = Fresh("new") /\ sock[d].got = <<>>
  BY DEF Init
<1>2. QED BY <1>1, AskedNothing

LEMMA AskedStep ==
  ASSUME IInv, LifeInv, SyncInv, RepliesInv, AskedInv, [Next]_vars
  PROVE  AskedInv'
<1>0. /\ client \in [Clients -> ClientRec] /\ client \in [Clients -> GoodRec]
      /\ sock \in [Clients -> SockRec] /\ nev + 1 \in Nat
      /\ \A d \in Clients : /\ client[d] \in ClientRec /\ client[d] \in GoodRec
                            /\ sock[d].asked \in Seq(Requests) /\ sock[d].got \in Seq(OutCell)
                            /\ client[d].buf \in Seq(OutCell) /\ client[d].hdr \in Nat
  <2>1. /\ client \in [Clients -> ClientRec] /\ client \in [Clients -> GoodRec]
        /\ sock \in [Clients -> SockRec] /\ nev \in Nat
    BY DEF IInv, TypeOK
  <2>2. QED BY <2>1 DEF SockRec, ClientRec
<1>1. CASE UNCHANGED vars
  BY <1>1 DEF vars, AskedInv
<1>2. CASE Next
  <2> DEFINE Good(got, asked, k) == k \in Served(got, asked, k.subs, NamesOf(k.subs))
  <2> SUFFICES ASSUME NEW d \in Clients PROVE Good(sock'[d].got, sock'[d].asked, client'[d])
    BY DEF AskedInv
  <2>0. Good(sock[d].got, sock[d].asked, client[d])
    BY DEF AskedInv
  <2>g. Fresh("gone") \in Served(sock[d].got, sock[d].asked, Fresh("gone").subs,
                                 NamesOf(Fresh("gone").subs))
    <3>1. AllAsked(sock[d].got \o client[d].buf, sock[d].asked)
      BY <2>0 DEF Served
    <3>2. QED BY <1>0, <3>1, ServedGone
  <2>1. CASE ~ClientHandleWritable(d) /\ PeerSend(d)
    <3>1. PICK r \in Requests :
            sock' = [sock EXCEPT ![d].asked = Append(@, r),
                                 ![d].wire = Bytes(Len(sock[d].asked) + 1, r)]
      BY <2>1 DEF PeerSend
    <3>2. PICK asked, a2, got, k :
            asked = sock[d].asked /\ a2 = Append(asked, r) /\ got = sock[d].got /\ k = client[d]
      OBVIOUS
    <3>3. client'[d] = k /\ sock'[d].asked = a2 /\ sock'[d].got = got /\ asked \in Seq(Requests)
      <4>1. asked \in Seq(Requests)
        BY <1>0, <3>2 DEF SockRec
      <4>2. client'[d] = k
        BY <2>1, <3>2 DEF PeerSend
      <4>3. sock'[d].asked = a2
        BY <1>0, <3>1, <3>2 DEF SockRec
      <4>4. sock'[d].got = got
        BY <1>0, <3>1, <3>2 DEF SockRec
      <4>5. QED BY <4>1, <4>2, <4>3, <4>4
    <3>4. PICK m \in 0..Len(asked) : Replied(got \o k.buf, asked, m)
      BY <3>2 DEF RepliesInv, RepliesOf
    <3>5. \A i, e : AskedFor(got \o k.buf, a2, i, e) = AskedFor(got \o k.buf, asked, i, e)
      BY <3>2, <3>3, <3>4, AskedMore
    <3>6. Good(got, asked, k)
      BY <2>0, <3>2
    <3>7. Good(got, a2, k)
      BY <3>5, <3>6 DEF Served, AllAsked, Wanted
    <3>8. QED BY <3>3, <3>7
  <2>2. CASE ~ClientHandleWritable(d) /\ ~PeerSend(d) /\ client[d].life \in {"new", "queued"}
    <3>1. sock'[d].got = <<>> /\ client[d] = Fresh(client[d].life)
      BY <1>2, <2>2, PendingStep DEF LifeInv, LivingRec
    <3>2. client'[d] = client[d] \/ client'[d] \in {Fresh("queued"), Fresh("open"), Fresh("gone")}
      BY <1>2, <2>2, PendingStep
    <3>3. client'[d] \in {Fresh("new"), Fresh("queued"), Fresh("open"), Fresh("gone")}
      BY <2>2, <3>1, <3>2
    <3>4. QED BY <3>1, <3>3, AskedNothing
  <2>3. CASE ClientHandleWritable(d)
    <3>1. /\ sock'[d].asked = sock[d].asked /\ client[d].life = "open"
          /\ client'[d].life = "open" /\ client'[d].subs = client[d].subs
          /\ sock'[d].got \o client'[d].buf = sock[d].got \o client[d].buf
      BY <2>3, WriteStep DEF Out
    <3>2. client'[d] \in GoodRec
      <4>1. IInv'
        BY <1>2, StepGood
      <4>2. QED BY <4>1 DEF IInv
    <3>3. QED BY <2>0, <3>1, <3>2 DEF Served, LivingRec
  <2>4. CASE ~ClientHandleWritable(d) /\ ~PeerSend(d) /\ (ReadHeader(d) \/ ReadPayload(d))
    <3>1. sock'[d].asked = sock[d].asked /\ sock'[d].got = sock[d].got
      BY <1>2, <2>4, AskedStays, GotStays
    <3>2. SyncRec(client[d], sock[d])
      BY <2>4, ReadCases DEF SyncInv
    <3>3. QED BY <1>2, <2>0, <2>4, <3>1, <3>2, AskedRead
  <2>5. CASE /\ ~ClientHandleWritable(d) /\ ~PeerSend(d) /\ ~ReadHeader(d) /\ ~ReadPayload(d)
             /\ client[d].life \notin {"new", "queued"}
    <3>1. PICK asked, got, k, k2, S, W :
            /\ asked = sock[d].asked /\ got = sock[d].got /\ k = client[d] /\ k2 = client'[d]
            /\ S = k.subs /\ W = NamesOf(S)
      OBVIOUS
    <3>2. sock'[d].asked = asked /\ sock'[d].got = got
      BY <1>2, <2>5, <3>1, AskedStays, GotStays
    <3>3. k \in Served(got, asked, S, W) /\ got \in Seq(OutCell)
      BY <1>0, <2>0, <3>1
    <3>4. k2 \in Served(got, asked, S, W) \/ k2 = Fresh("gone")
      <4>1. CASE CommandDone /\ executing = d
        <5>1. PICK payload \in PayloadLens, oom \in SUBSET MayFail :
                client' = [client EXCEPT
                  ![executing] = SendReply(@, Reply("command", TRUE, @.hdr), payload,
                                           executing \in oom)]
          BY <4>1 DEF CommandDone, ClientsBecome
        <5>2. PICK m, b : m = Reply("command", TRUE, k.hdr) /\ b = (d \in oom)
          OBVIOUS
        <5>3. k2 = SendReply(k, m, payload, b)
          BY <1>0, <3>1, <4>1, <5>1, <5>2
        <5>4. payload \in Nat /\ b \in BOOLEAN
          BY <5>2, SizesNat
        <5>5. m \in Message /\ m.kind = "reply" /\ m.type = "command"
          BY <1>0, <3>1, <5>2, MessageTypes DEF Reply, RequestTypes
        <5>6. SendReply(k, m, payload, b) \in Served(got, asked, S, W)
          BY <3>3, <5>4, <5>5, ServedTold
        <5>7. QED BY <5>3, <5>6
      <4>2. CASE k2 = k
        BY <3>3, <4>2
      <4>3. CASE EventSent(d)
        <5>1. PICK e \in Events, payload \in Nat, oom \in BOOLEAN :
                /\ e \in SubscribeNames /\ EventBit(e) \in S
                /\ k2 = SendReply(k, Event(e, nev + 1), payload, oom)
          BY <3>1, <4>3 DEF EventSent
        <5>2. PICK m : m = Event(e, nev + 1)
          OBVIOUS
        <5>3. m \in Message /\ m.kind # "reply" /\ m.type = e
          BY <1>0, <5>2, MessageTypes DEF Event
        <5>4. e \in W
          BY <3>1, <5>1 DEF NamesOf
        <5>5. SendReply(k, m, payload, oom) \in Served(got, asked, S, W)
          BY <3>3, <5>3, <5>4, ServedAside
        <5>6. QED BY <5>1, <5>2, <5>5
      <4>4. QED BY <1>2, <2>5, <3>1, <4>1, <4>2, <4>3, QuietStep
    <3>5. CASE k2 = Fresh("gone")
      BY <2>g, <3>1, <3>2, <3>5
    <3>6. CASE k2 \in Served(got, asked, S, W) /\ k2.life = "open"
      <4>1. k2.subs = S
        BY <3>6 DEF Served
      <4>2. QED BY <3>1, <3>2, <3>6, <4>1
    <3>7. CASE k2 \in Served(got, asked, S, W) /\ k2.life # "open"
      BY <3>1, <3>2, <3>7 DEF Served
    <3>8. QED BY <3>4, <3>5, <3>6, <3>7
  <2>6. QED BY <2>1, <2>2, <2>3, <2>4, <2>5
<1>3. QED BY <1>1, <1>2

\* Whatever is refused, repeated, given up or cut off, in whatever order the
\* events come: an event, or a first tick, is sent only to who has asked for
\* it by name, was told so, and has not been told that it has given it up.
THEOREM EventsAskedForHolds == Spec => []EventsAskedFor
<1>1. IInv /\ LifeInv /\ SyncInv /\ RepliesInv /\ AskedInv /\ [Next]_vars => AskedInv'
  BY AskedStep
<1>2. AskedInv => EventsAskedFor
  BY DEF AskedInv, Served, AllAsked, EventsAskedFor, Out
<1>3. QED BY <1>1, <1>2, AskedInit, Invariant, LifeInvariant, SyncInvariant,
             RepliesInvariant, PTL DEF Spec

-----------------------------------------------------------------------------
(* The replies in the log of a client are as many as begin in its stream,  *)
(* and a client that is not served is subscribed to nothing.               *)

RepliesIn(w) == {i \in DOMAIN w : w[i].kind = "reply"}
Tallied(s) == Cardinality(RepliesIn(Whole(s))) = Cardinality(Heads(s, "reply"))

LEMMA HeadsFinite ==
  ASSUME NEW s \in Seq(OutCell), NEW kind
  PROVE  IsFiniteSet(Heads(s, kind)) /\ Heads(s, kind) \subseteq 1..Len(s)
<1>1. Heads(s, kind) \subseteq 1..Len(s) /\ Len(s) \in Nat
  BY LenProperties DEF Heads
<1>2. IsFiniteSet(1..Len(s))
  BY <1>1, FS_Interval
<1>3. QED BY <1>1, <1>2, FS_Subset

LEMMA RepliesInFinite ==
  ASSUME NEW w \in Seq(Message)
  PROVE  IsFiniteSet(RepliesIn(w)) /\ RepliesIn(w) \subseteq 1..Len(w)
<1>1. RepliesIn(w) \subseteq 1..Len(w) /\ Len(w) \in Nat
  BY LenProperties DEF RepliesIn
<1>2. IsFiniteSet(1..Len(w))
  BY <1>1, FS_Interval
<1>3. QED BY <1>1, <1>2, FS_Subset

LEMMA RepliesAppended ==
  ASSUME NEW w \in Seq(Message), NEW m \in Message, NEW v, v = Append(w, m)
  PROVE  RepliesIn(v) = RepliesIn(w) \cup (IF m.kind = "reply" THEN {Len(w) + 1} ELSE {})
<1>1. /\ DOMAIN w = 1..Len(w) /\ DOMAIN v = 1..Len(w) + 1 /\ Len(w) \in Nat
      /\ v[Len(w) + 1] = m /\ \A i \in 1..Len(w) : v[i] = w[i]
  BY AppendProperties, LenProperties
<1>2. QED BY <1>1 DEF RepliesIn

LEMMA TalliedSent ==
  ASSUME NEW s \in Seq(OutCell), NEW u, NEW m \in Message, Sent(s, u, m), Tallied(s)
  PROVE  Tallied(u)
<1>1. PICK w, v : w = Whole(s) /\ v = Whole(u)
  OBVIOUS
<1>2. w \in Seq(Message) /\ Len(w) \in Nat /\ v = Append(w, m)
  BY <1>1, WholeType, WholeSent
<1>3. RepliesIn(v) = RepliesIn(w) \cup (IF m.kind = "reply" THEN {Len(w) + 1} ELSE {})
  BY <1>2, RepliesAppended
<1>4. Heads(u, "reply") = Heads(s, "reply") \cup
                            (IF m.kind = "reply" THEN {Len(s) + 1} ELSE {})
  BY HeadsSent
<1>5. /\ IsFiniteSet(RepliesIn(w)) /\ Len(w) + 1 \notin RepliesIn(w)
      /\ IsFiniteSet(Heads(s, "reply")) /\ Len(s) + 1 \notin Heads(s, "reply")
  <2>1. Len(s) \in Nat
    BY LenProperties
  <2>2. Len(s) + 1 \notin 1..Len(s) /\ Len(w) + 1 \notin 1..Len(w)
    BY <1>2, <2>1
  <2>3. QED BY <1>2, <2>2, RepliesInFinite, HeadsFinite
<1>6. CASE m.kind = "reply"
  <2>1. Cardinality(RepliesIn(v)) = Cardinality(RepliesIn(w)) + 1
    BY <1>3, <1>5, <1>6, FS_AddElement
  <2>2. Cardinality(Heads(u, "reply")) = Cardinality(Heads(s, "reply")) + 1
    BY <1>4, <1>5, <1>6, FS_AddElement
  <2>3. QED BY <1>1, <2>1, <2>2 DEF Tallied
<1>7. CASE m.kind # "reply"
  <2>1. RepliesIn(v) = RepliesIn(w) /\ Heads(u, "reply") = Heads(s, "reply")
    BY <1>3, <1>4, <1>7
  <2>2. QED BY <1>1, <2>1 DEF Tallied
<1>8. QED BY <1>6, <1>7

LEMMA TalliedEmpty == Tallied(<<>>)
<1>1. RepliesIn(<<>>) = {} /\ Heads(<<>>, "reply") = {}
  BY DEF RepliesIn, Heads
<1>2. QED BY <1>1, WholeEmpty DEF Tallied

\* The first n requests having been answered, there are n replies.
LEMMA TalliedReplies ==
  ASSUME NEW s \in Seq(OutCell), Tallied(s), NEW asked, NEW n \in Nat, Replied(s, asked, n)
  PROVE  Cardinality(RepliesIn(Whole(s))) = n
<1> DEFINE H == Heads(s, "reply")
           number == [i \in H |-> s[i].msg.n]
<1>1. H \subseteq 1..Len(s) /\ IsFiniteSet(H) /\ Len(s) \in Nat
  BY HeadsFinite, LenProperties
<1>2. number \in [H -> 1..n]
  BY DEF Replied
<1>3. \A i, j \in H : i # j => number[i] # number[j]
  <2>1. \A i \in H : s[i].msg.n \in Int
    BY DEF Replied
  <2>2. QED BY <1>1, <2>1 DEF Replied
<1>4. \A x \in 1..n : \E i \in H : number[i] = x
  BY DEF Replied
<1>5. number \in Bijection(H, 1..n)
  BY <1>2, <1>3, <1>4, Fun_IsBij
<1>6. ExistsBijection(H, 1..n)
  BY <1>5 DEF ExistsBijection
<1>7. Cardinality(1..n) = Cardinality(H)
  BY <1>1, <1>6, FS_Bijection
<1>8. Cardinality(1..n) = n
  BY FS_Interval
<1>9. QED BY <1>7, <1>8 DEF Tallied

\* What is known of a client to which got has been written.
Logged(got) ==
  {k \in GoodRec : /\ k.life # "open" => k.subs = {}
                   /\ k.life = "open" => Tallied(got \o k.buf)}
LogInv == \A c \in Clients : client[c] \in Logged(sock[c].got)

LEMMA LoggedKept ==
  ASSUME NEW got \in Seq(OutCell), NEW R, R = Logged(got)
  PROVE  Fresh("gone") \in R /\ KeptWhenTold(R) /\ KeptWhenRead(R) /\ KeptWhenMasked(R)
<1>1. Fresh("gone") \in R
  BY GoodKept DEF Logged, Fresh
<1>2. KeptWhenTold(R)
  <2> SUFFICES ASSUME NEW k \in R, NEW m \in Message, NEW payload \in Nat, NEW oom \in BOOLEAN
               PROVE  SendReply(k, m, payload, oom) \in R
    BY DEF KeptWhenTold
  <2>1. PICK k2 : k2 = SendReply(k, m, payload, oom)
    OBVIOUS
  <2>2. k \in GoodRec
    BY DEF Logged
  <2>3. /\ k2 \in GoodRec
        /\ \/ k.life # "open" /\ k2.life = "touched" /\ k2.buf = k.buf
           \/ k.life = "open" /\ k2 = Fresh("gone") /\ k2.life = "gone" /\ k2.buf = <<>>
           \/ k.life = "open" /\ k2.life = "open" /\ Longer(k, k2, m, payload)
    BY <2>1, <2>2, SendReplyCases
  <2>4. CASE k.life # "open"
    <3>1. k2.subs = k.subs
      BY <2>1, <2>2, <2>4 DEF SendReply, GoodRec, ClientRec
    <3>2. QED BY <2>1, <2>3, <2>4, <3>1 DEF Logged
  <2>5. CASE k2 = Fresh("gone")
    BY <1>1, <2>1, <2>5
  <2>6. CASE k.life = "open" /\ k2.life = "open" /\ Longer(k, k2, m, payload)
    <3>1. PICK s, u : s = got \o k.buf /\ u = got \o k2.buf
      OBVIOUS
    <3>2. Sent(s, u, m) /\ s \in Seq(OutCell) /\ Tallied(s)
      BY <2>2, <2>6, <3>1, LongerSent DEF Logged
    <3>3. Tallied(u)
      BY <3>2, TalliedSent
    <3>4. QED BY <2>1, <2>3, <2>6, <3>1, <3>3 DEF Logged
  <2>7. QED BY <2>3, <2>4, <2>5, <2>6
<1>3. KeptWhenRead(R)
  <2> SUFFICES ASSUME NEW k \in R, NEW p \in Nat, NEW t \in RequestTypes \cup {"none"},
                      NEW n \in Nat, k.life = "open"
               PROVE  [k EXCEPT !.pending = p, !.ptype = t, !.hdr = n] \in R
    BY DEF KeptWhenRead
  <2>1. PICK k2 : k2 = [k EXCEPT !.pending = p, !.ptype = t, !.hdr = n]
    OBVIOUS
  <2>2. k \in GoodRec /\ k \in ClientRec
    BY DEF Logged, GoodRec
  <2>3. k2 \in GoodRec /\ k2.life = k.life /\ k2.buf = k.buf
    BY <2>1, <2>2, GoodKept DEF ClientRec
  <2>4. QED BY <2>1, <2>3 DEF Logged
<1>4. KeptWhenMasked(R)
  <2> SUFFICES ASSUME NEW k \in R, NEW subs \in SUBSET Bits, k.life = "open"
               PROVE  [k EXCEPT !.subs = subs] \in R
    BY DEF KeptWhenMasked
  <2>1. PICK k2 : k2 = [k EXCEPT !.subs = subs]
    OBVIOUS
  <2>2. k \in GoodRec /\ k \in ClientRec
    BY DEF Logged, GoodRec
  <2>3. k2 \in GoodRec /\ k2.life = k.life /\ k2.buf = k.buf
    BY <2>1, <2>2, GoodKept DEF ClientRec
  <2>4. QED BY <2>1, <2>3 DEF Logged
<1>5. QED BY <1>1, <1>2, <1>3, <1>4

LEMMA LogInit == Init => LogInv
<1> SUFFICES ASSUME Init, NEW c \in Clients
             PROVE  client[c] \in Logged(sock[c].got)
  BY DEF LogInv
<1>1. client[c] = Fresh("new") /\ sock[c].got = <<>>
  BY DEF Init
<1>2. Fresh("new") \in GoodRec
  BY FreshGood DEF Lives
<1>3. Fresh("new").life = "new" /\ Fresh("new").subs = {}
  BY DEF Fresh
<1>4. QED BY <1>1, <1>2, <1>3 DEF Logged

LEMMA LogStep ==
  ASSUME IInv, LifeInv, LogInv, [Next]_vars
  PROVE  LogInv'
<1>1. CASE UNCHANGED vars
  BY <1>1 DEF vars, LogInv
<1>2. CASE Next
  <2> SUFFICES ASSUME NEW d \in Clients PROVE client'[d] \in Logged(sock'[d].got)
    BY DEF LogInv
  <2>0. /\ client[d] \in Logged(sock[d].got) /\ sock[d].got \in Seq(OutCell)
        /\ IInv' /\ client'[d] \in GoodRec
    <3>1. IInv' /\ sock \in [Clients -> SockRec]
      BY <1>2, StepGood DEF IInv, TypeOK
    <3>2. QED BY <3>1 DEF LogInv, IInv, SockRec
  <2>1. CASE ClientHandleWritable(d)
    BY <2>0, <2>1, WriteStep DEF Logged, Out
  <2>2. CASE ~ClientHandleWritable(d) /\ client[d].life \in {"new", "queued"}
    <3>1. /\ sock'[d].got = <<>> /\ client[d].buf = <<>> /\ <<>> \o <<>> = <<>>
          /\ client[d] = Fresh(client[d].life)
      BY <1>2, <2>2, PendingStep DEF LifeInv, LivingRec
    <3>2. client'[d] = client[d] \/ client'[d] \in {Fresh("queued"), Fresh("open"), Fresh("gone")}
      BY <1>2, <2>2, PendingStep
    <3>3. client'[d].buf = <<>> /\ client'[d].subs = {}
      BY <3>1, <3>2 DEF Fresh
    <3>4. QED BY <2>0, <3>1, <3>3, TalliedEmpty DEF Logged
  <2>3. CASE ~ClientHandleWritable(d) /\ client[d].life \notin {"new", "queued"}
    <3>1. sock'[d].got = sock[d].got
      BY <1>2, <2>3, GotStays
    <3>2. PICK R : R = Logged(sock[d].got)
      OBVIOUS
    <3>3. /\ client[d] \in R /\ Fresh("gone") \in R
          /\ KeptWhenTold(R) /\ KeptWhenRead(R) /\ KeptWhenMasked(R)
      BY <2>0, <3>2, LoggedKept
    <3>4. client'[d] \in R
      BY <1>2, <2>3, <3>3, ServedStep
    <3>5. QED BY <3>1, <3>2, <3>4
  <2>4. QED BY <2>1, <2>2, <2>3
<1>3. QED BY <1>1, <1>2

LEMMA LogInvariant == Spec => []LogInv
<1>1. QED BY LogInit, LogStep, Invariant, LifeInvariant, PTL DEF Spec

-----------------------------------------------------------------------------
(* What a step of the server is for the abstract delivery: a client stays  *)
(* as it is, is cut off, or gets an event and an answer.                   *)

StillThere(d) ==
  /\ Conn'[d] = Conn[d] /\ Masks'[d] = Masks[d]
  /\ Log'[d] = Log[d] /\ Seen'[d] = Seen[d]
CutOff(d) ==
  /\ Conn'[d] = "cut" /\ Masks'[d] = {}
  /\ Log'[d] = SubSeq(Log[d], 1, Seen[d]) /\ Seen'[d] = Seen[d]
Given(d, e, ms) ==
  /\ Conn'[d] = "on" /\ Seen'[d] = Seen[d]
  /\ Log'[d] = Log[d] \o Delivery!EventFor(d, e) \o ms

EventSets == {{x} : x \in Events} \cup {{}}
ServedSets == {{c} : c \in Clients} \cup {{}}
Answers(served) ==
  IF served = {} THEN {<<>>} ELSE UNION {Delivery!AnswersFor(c) : c \in served}

LEMMA ViewFunctions ==
  /\ Conn = [c \in Clients |-> Conn[c]] /\ Masks = [c \in Clients |-> Masks[c]]
  /\ Log = [c \in Clients |-> Log[c]] /\ Seen = [c \in Clients |-> Seen[c]]
BY DEF Conn, Masks, Log, Seen

LEMMA ViewFunctionsNext ==
  /\ Conn' = [c \in Clients |-> Conn'[c]] /\ Masks' = [c \in Clients |-> Masks'[c]]
  /\ Log' = [c \in Clients |-> Log'[c]] /\ Seen' = [c \in Clients |-> Seen'[c]]
BY DEF Conn, Masks, Log, Seen

LEMMA SendMaps ==
  ASSUME NEW e \in EventSets, NEW served \in ServedSets, NEW cut \in SUBSET Clients,
         NEW answer \in Answers(served),
         nev' = nev + (IF e = {} THEN 0 ELSE 1),
         Masks' \in [Clients -> SUBSET Bits],
         \A d \in cut : CutOff(d),
         \A d \in Clients \ cut : Conn[d] # "on" => StillThere(d),
         \A d \in Clients \ cut : Conn[d] = "on" =>
           /\ Given(d, e, IF d \in served THEN answer ELSE <<>>)
           /\ d \notin served => Masks'[d] = Masks[d]
  PROVE  Delivery!Send(e, served, cut)
<1>1. Conn' = [c \in Clients |-> IF c \in cut THEN "cut" ELSE Conn[c]]
  <2>1. \A c \in Clients : Conn'[c] = IF c \in cut THEN "cut" ELSE Conn[c]
    BY DEF CutOff, StillThere, Given
  <2>2. QED BY <2>1, ViewFunctionsNext
<1>2. Seen' = Seen
  <2>1. \A c \in Clients : Seen'[c] = Seen[c]
    BY DEF CutOff, StillThere, Given
  <2>2. QED BY <2>1, ViewFunctions, ViewFunctionsNext
<1>3. Log' = [c \in Clients |->
                IF c \in cut THEN SubSeq(Log[c], 1, Seen[c])
                ELSE IF Conn[c] # "on" THEN Log[c]
                ELSE Log[c] \o Delivery!EventFor(c, e)
                       \o (IF c \in served THEN answer ELSE <<>>)]
  <2>1. \A c \in Clients : Log'[c] =
          IF c \in cut THEN SubSeq(Log[c], 1, Seen[c])
          ELSE IF Conn[c] # "on" THEN Log[c]
          ELSE Log[c] \o Delivery!EventFor(c, e)
                 \o (IF c \in served THEN answer ELSE <<>>)
    BY DEF CutOff, StillThere, Given
  <2>2. QED BY <2>1, ViewFunctionsNext
<1>4. \A c \in Clients :
        /\ c \in cut => Masks'[c] = {}
        /\ c \notin cut \cup served => Masks'[c] = Masks[c]
  BY DEF CutOff, StillThere
<1>5. answer \in IF served = {} THEN {<<>>}
                 ELSE UNION {Delivery!AnswersFor(c) : c \in served}
  BY DEF Answers
<1>6. QED BY <1>1, <1>2, <1>3, <1>4, <1>5 DEF Delivery!Send

LEMMA Views ==
  ASSUME NEW d \in Clients, client[d].life \in Lives
  PROVE  /\ client[d].life \in {"new", "queued"} => Conn[d] = "off"
         /\ client[d].life = "open" => Conn[d] = "on"
         /\ client[d].life \in {"gone", "touched"} => Conn[d] = "cut"
         /\ Masks[d] = client[d].subs
         /\ Log[d] = Whole(sock[d].got \o client[d].buf)
         /\ Seen[d] = Len(Whole(sock[d].got))
BY DEF Conn, Masks, Log, Seen, Out, Lives

LEMMA ViewsNext ==
  ASSUME NEW d \in Clients, client'[d].life \in Lives
  PROVE  /\ client'[d].life \in {"new", "queued"} => Conn'[d] = "off"
         /\ client'[d].life = "open" => Conn'[d] = "on"
         /\ client'[d].life \in {"gone", "touched"} => Conn'[d] = "cut"
         /\ Masks'[d] = client'[d].subs
         /\ Log'[d] = Whole(sock'[d].got \o client'[d].buf)
         /\ Seen'[d] = Len(Whole(sock'[d].got))
BY DEF Conn, Masks, Log, Seen, Out, Lives

\* The invariants the refinement rests on, and what a step makes of them.
AllInv == IInv /\ LifeInv /\ SyncInv /\ RepliesInv /\ LogInv

LEMMA AllStep ==
  ASSUME AllInv, Next, NEW d \in Clients
  PROVE  /\ AllInv'
         /\ client[d] \in GoodRec /\ client'[d] \in GoodRec
         /\ client[d].life \in Lives /\ client'[d].life \in Lives
         /\ client[d].buf \in Seq(OutCell) /\ client'[d].buf \in Seq(OutCell)
         /\ sock[d].got \in Seq(OutCell) /\ sock'[d].got \in Seq(OutCell)
         /\ sock[d].asked \in Seq(Requests)
         /\ LivingRec(client[d]) /\ LivingRec(client'[d])
         /\ client[d].life # "open" => client[d].subs = {}
         /\ client'[d].life # "open" => client'[d].subs = {}
<1>1. AllInv'
  BY StepGood, LifeStep, SyncStep, RepliesStep, LogStep DEF AllInv
<1>2. client \in [Clients -> GoodRec] /\ client' \in [Clients -> GoodRec]
      /\ sock \in [Clients -> SockRec] /\ sock' \in [Clients -> SockRec]
  BY <1>1 DEF AllInv, IInv, TypeOK
<1>3. client[d] \in GoodRec /\ client'[d] \in GoodRec
      /\ sock[d] \in SockRec /\ sock'[d] \in SockRec
  BY <1>2
<1>4. /\ client[d].life \in Lives /\ client'[d].life \in Lives
      /\ client[d].buf \in Seq(OutCell) /\ client'[d].buf \in Seq(OutCell)
  BY <1>3 DEF GoodRec, ClientRec
<1>5. sock[d].got \in Seq(OutCell) /\ sock'[d].got \in Seq(OutCell)
      /\ sock[d].asked \in Seq(Requests)
  BY <1>3 DEF SockRec
<1>6. LivingRec(client[d]) /\ LivingRec(client'[d])
  BY <1>1 DEF AllInv, LifeInv
<1>7. client[d] \in Logged(sock[d].got) /\ client'[d] \in Logged(sock'[d].got)
  BY <1>1 DEF AllInv, LogInv
<1>8. /\ client[d].life # "open" => client[d].subs = {}
      /\ client'[d].life # "open" => client'[d].subs = {}
  BY <1>7 DEF Logged
<1>9. QED BY <1>1, <1>3, <1>4, <1>5, <1>6, <1>8

\* A client that is not served any more: its log ends with what it has seen.
LEMMA LostView ==
  ASSUME AllInv, Next, NEW d \in Clients, client[d].life \notin {"gone", "touched"},
         client'[d].life \in {"gone", "touched"}
  PROVE  CutOff(d)
<1>1. ~ClientHandleWritable(d)
  BY WriteStep DEF AllInv
<1>2. sock'[d].got = sock[d].got
  BY <1>1, GotStays DEF AllInv
<1>3. PICK g, b : g = sock[d].got /\ b = client[d].buf
  OBVIOUS
<1>4. g \in Seq(OutCell) /\ b \in Seq(OutCell) /\ client'[d].buf = <<>> /\ client'[d].subs = {}
      /\ client[d].life \in Lives /\ client'[d].life \in Lives
  BY <1>3, AllStep DEF LivingRec
<1>5. PICK u : u = g \o b
  OBVIOUS
<1>6. SubSeq(Whole(u), 1, Len(Whole(g))) = Whole(g)
  BY <1>4, <1>5, WholeCut
<1>7. g \o <<>> = g
  BY <1>4
<1>8. Log[d] = Whole(u) /\ Seen[d] = Len(Whole(g))
  BY <1>3, <1>4, <1>5, Views
<1>9. Log'[d] = Whole(g) /\ Seen'[d] = Len(Whole(g)) /\ Masks'[d] = {} /\ Conn'[d] = "cut"
  BY <1>2, <1>3, <1>4, <1>7, ViewsNext
<1>10. QED BY <1>6, <1>8, <1>9 DEF CutOff

\* A client that was not served and is not yet, or will never be again.
LEMMA AsideView ==
  ASSUME AllInv, Next, NEW d \in Clients, client[d].life # "open", client'[d].life # "open",
         client[d].life \in {"gone", "touched"} \/ client'[d].life \notin {"gone", "touched"}
  PROVE  StillThere(d)
<1>1. ~ClientHandleWritable(d)
  BY WriteStep DEF AllInv
<1>2. sock'[d].got = sock[d].got
  BY <1>1, GotStays DEF AllInv
<1>3. /\ client[d].buf = <<>> /\ client'[d].buf = <<>>
      /\ client[d].subs = {} /\ client'[d].subs = {}
      /\ client[d].life \in Lives /\ client'[d].life \in Lives
  BY AllStep DEF LivingRec
<1>4. client[d].life \in {"gone", "touched"} => client'[d].life \in {"gone", "touched"}
  BY GoneStays DEF AllInv
<1>5. Conn'[d] = Conn[d]
  BY <1>3, <1>4, Views, ViewsNext DEF Lives
<1>6. Masks'[d] = Masks[d]
  BY <1>3, Views, ViewsNext
<1>7. Log'[d] = Log[d]
  BY <1>2, <1>3, Views, ViewsNext
<1>8. Seen'[d] = Seen[d]
  BY <1>2, <1>3, Views, ViewsNext
<1>9. QED BY <1>5, <1>6, <1>7, <1>8 DEF StillThere

\* A step of the server that accepts nobody and writes nothing.
LEMMA ServerMaps ==
  ASSUME AllInv, Next,
         NEW e \in EventSets, NEW served \in ServedSets, NEW answer \in Answers(served),
         nev' = nev + (IF e = {} THEN 0 ELSE 1),
         \A d \in Clients : client'[d].life = "open" =>
           /\ client[d].life = "open"
           /\ Given(d, e, IF d \in served THEN answer ELSE <<>>)
           /\ d \notin served => Masks'[d] = Masks[d]
  PROVE  Delivery!Next
<1> DEFINE cut == {d \in Clients : /\ client[d].life \notin {"gone", "touched"}
                                   /\ client'[d].life \in {"gone", "touched"}}
<1>1. Masks' \in [Clients -> SUBSET Bits]
  <2>1. \A d \in Clients : Masks'[d] \in SUBSET Bits
    <3> SUFFICES ASSUME NEW d \in Clients PROVE Masks'[d] \in SUBSET Bits
      OBVIOUS
    <3>1. client'[d] \in ClientRec /\ client'[d].life \in Lives
      BY AllStep DEF GoodRec
    <3>2. QED BY <3>1, ViewsNext DEF ClientRec
  <2>2. QED BY <2>1, ViewFunctionsNext
<1>2. \A d \in cut : CutOff(d)
  BY LostView
<1>3. ASSUME NEW d \in Clients \ cut, Conn[d] # "on"
      PROVE  StillThere(d)
  <2>1. client[d].life # "open"
    BY <1>3, AllStep, Views
  <2>2. client'[d].life # "open"
    BY <2>1
  <2>3. QED BY <2>1, <2>2, AsideView
<1>4. ASSUME NEW d \in Clients \ cut, Conn[d] = "on"
      PROVE  /\ Given(d, e, IF d \in served THEN answer ELSE <<>>)
             /\ d \notin served => Masks'[d] = Masks[d]
  <2>1. client[d].life = "open"
    BY <1>4, AllStep, Views DEF Lives
  <2>2. client'[d].life \notin {"new", "queued"}
    <3>1. ASSUME client'[d].life \in {"new", "queued"} PROVE FALSE
      BY <2>1, <3>1, ServedStays DEF AllInv
    <3>2. QED BY <3>1
  <2>3. client'[d].life = "open"
    BY <2>1, <2>2, AllStep DEF Lives
  <2>4. QED BY <2>3
<1>5. cut \in SUBSET Clients
  OBVIOUS
<1> HIDE DEF cut
<1>6. Delivery!Send(e, served, cut)
  BY <1>1, <1>2, <1>3, <1>4, <1>5, SendMaps
<1>7. QED BY <1>5, <1>6 DEF Delivery!Next, EventSets, ServedSets

\* What a log gains when the record of its client becomes another.
Gained(got, k, k2, ms) == Whole(got \o k2.buf) = Whole(got \o k.buf) \o ms

LEMMA GainedNothing ==
  ASSUME NEW got \in Seq(OutCell), NEW k \in GoodRec, NEW k2, k2.buf = k.buf
  PROVE  Gained(got, k, k2, <<>>)
<1>1. PICK s : s = got \o k.buf
  OBVIOUS
<1>2. k.buf \in Seq(OutCell)
  BY DEF GoodRec, ClientRec
<1>3. s \in Seq(OutCell)
  BY <1>1, <1>2
<1>4. PICK w : w = Whole(s)
  OBVIOUS
<1>5. w \in Seq(Message)
  BY <1>3, <1>4, WholeType
<1>6. w \o <<>> = w
  BY <1>5
<1>7. QED BY <1>1, <1>4, <1>6 DEF Gained

LEMMA GainedMessage ==
  ASSUME NEW got \in Seq(OutCell), NEW k \in GoodRec, k.life = "open", NEW m \in Message,
         NEW payload \in Nat, NEW oom \in BOOLEAN,
         NEW k2, k2 = SendReply(k, m, payload, oom), k2.life = "open"
  PROVE  Gained(got, k, k2, <<m>>) /\ k2 \in GoodRec /\ k2.subs = k.subs
<1>1. k2 \in GoodRec /\ Longer(k, k2, m, payload)
  BY SendReplyCases
<1>2. PICK s, u : s = got \o k.buf /\ u = got \o k2.buf
  OBVIOUS
<1>3. Sent(s, u, m) /\ s \in Seq(OutCell)
  BY <1>1, <1>2, LongerSent
<1>4. PICK w, v : w = Whole(s) /\ v = Whole(u)
  OBVIOUS
<1>5. v = Append(w, m) /\ w \in Seq(Message)
  BY <1>3, <1>4, WholeSent, WholeType
<1>6. Append(w, m) = w \o <<m>>
  <2>1. <<m>> \in Seq(Message) /\ Len(<<m>>) = 1 /\ <<m>>[1] = m
    OBVIOUS
  <2>2. PICK a, b : a = Append(w, m) /\ b = w \o <<m>>
    OBVIOUS
  <2>3. /\ a \in Seq(Message) /\ Len(a) = Len(w) + 1 /\ a[Len(w) + 1] = m
        /\ \A i \in 1..Len(w) : a[i] = w[i]
    BY <1>5, <2>2, AppendProperties
  <2>4. /\ b \in Seq(Message) /\ Len(b) = Len(w) + 1
        /\ \A i \in 1..Len(w) + 1 : b[i] = IF i <= Len(w) THEN w[i] ELSE <<m>>[i - Len(w)]
    BY <1>5, <2>1, <2>2, ConcatProperties
  <2>5. Len(w) \in Nat
    BY <1>5, LenProperties
  <2>6. ASSUME NEW i \in 1..Len(w) + 1 PROVE a[i] = b[i]
    <3>1. CASE i \in 1..Len(w)
      BY <2>3, <2>4, <2>5, <3>1
    <3>2. CASE i = Len(w) + 1
      <4>1. ~(i <= Len(w)) /\ i - Len(w) = 1
        BY <2>5, <3>2
      <4>2. QED BY <2>1, <2>3, <2>4, <3>2, <4>1
    <3>3. QED BY <2>5, <3>1, <3>2
  <2>7. a = b
    BY <2>3, <2>4, <2>6, SeqEqual
  <2>8. QED BY <2>2, <2>7
<1>7. Gained(got, k, k2, <<m>>)
  BY <1>2, <1>4, <1>5, <1>6 DEF Gained
<1>8. QED BY <1>1, <1>7 DEF Longer

LEMMA GainedReply ==
  ASSUME NEW got \in Seq(OutCell), NEW k \in GoodRec, k.life = "open", NEW m \in Message,
         NEW payload \in Nat, NEW oom \in BOOLEAN,
         SendReply(k, m, payload, oom).life = "open"
  PROVE  Gained(got, k, SendReply(k, m, payload, oom), <<m>>)
<1>1. PICK k2 : k2 = SendReply(k, m, payload, oom)
  OBVIOUS
<1>2. Gained(got, k, k2, <<m>>)
  BY <1>1, GainedMessage
<1>3. QED BY <1>1, <1>2

\* What a client subscribed to subs gets when the n-th event is sent.
EventFor(e, subs, n) ==
  IF \E x \in e : EventBit(x) \in subs THEN <<Event(CHOOSE x \in e : TRUE, n)>> ELSE <<>>

LEMMA EventForMaps ==
  ASSUME NEW d \in Clients, client[d].life \in Lives, NEW e
  PROVE  Delivery!EventFor(d, e) = EventFor(e, client[d].subs, nev + 1)
BY Views DEF Delivery!EventFor, Delivery!Event, EventFor, Event

LEMMA ChosenEvent ==
  ASSUME NEW e \in EventSets, NEW x \in e
  PROVE  x \in Events /\ e = {x} /\ (CHOOSE y \in e : TRUE) = x
BY DEF EventSets

LEMMA EventGained ==
  ASSUME NEW got \in Seq(OutCell), NEW k \in GoodRec, k.life = "open", NEW e \in EventSets,
         NEW n \in Nat, NEW k2, k2.life = "open",
         IF \E x \in e : EventBit(x) \in k.subs
           THEN \E x \in e, payload \in Nat, oom \in BOOLEAN :
                  k2 = SendReply(k, Event(x, n), payload, oom)
           ELSE k2 = k
  PROVE  Gained(got, k, k2, EventFor(e, k.subs, n)) /\ k2 \in GoodRec /\ k2.subs = k.subs
<1>1. CASE \E x \in e : EventBit(x) \in k.subs
  <2>1. PICK x \in e, payload \in Nat, oom \in BOOLEAN :
               k2 = SendReply(k, Event(x, n), payload, oom)
    BY <1>1
  <2>2. x \in Events /\ (CHOOSE y \in e : TRUE) = x
    BY ChosenEvent
  <2>3. PICK m : m = Event(x, n)
    OBVIOUS
  <2>4. m \in Message
    BY <2>2, <2>3, MessageTypes
  <2>5. Gained(got, k, k2, <<m>>) /\ k2 \in GoodRec /\ k2.subs = k.subs
    BY <2>1, <2>3, <2>4, GainedMessage
  <2>6. EventFor(e, k.subs, n) = <<m>>
    BY <1>1, <2>2, <2>3 DEF EventFor
  <2>7. QED BY <2>5, <2>6
<1>2. CASE ~\E x \in e : EventBit(x) \in k.subs
  <2>1. k2 = k /\ EventFor(e, k.subs, n) = <<>>
    BY <1>2 DEF EventFor
  <2>2. Gained(got, k, k2, <<>>)
    BY <2>1, GainedNothing
  <2>3. QED BY <2>1, <2>2
<1>3. QED BY <1>1, <1>2

LEMMA GivenView ==
  ASSUME AllInv, Next, NEW d \in Clients, client'[d].life = "open",
         sock'[d].got = sock[d].got, NEW e, NEW ms, NEW k2,
         Gained(sock[d].got, client[d], k2, EventFor(e, client[d].subs, nev + 1)),
         Gained(sock[d].got, k2, client'[d], ms)
  PROVE  Given(d, e, ms)
<1>1. client[d].life \in Lives /\ client'[d].life \in Lives
  BY AllStep
<1>2. PICK g, b, b2, b3, ev :
        /\ g = sock[d].got /\ b = client[d].buf /\ b2 = k2.buf /\ b3 = client'[d].buf
        /\ ev = EventFor(e, client[d].subs, nev + 1)
  OBVIOUS
<1>3. Whole(g \o b2) = Whole(g \o b) \o ev /\ Whole(g \o b3) = Whole(g \o b2) \o ms
  BY <1>2 DEF Gained
<1>4. Log[d] = Whole(g \o b) /\ Seen[d] = Len(Whole(g)) /\ Delivery!EventFor(d, e) = ev
  BY <1>1, <1>2, Views, EventForMaps
<1>5. Log'[d] = Whole(g \o b3) /\ Seen'[d] = Len(Whole(g)) /\ Conn'[d] = "on"
  BY <1>1, <1>2, ViewsNext
<1>6. QED BY <1>3, <1>4, <1>5 DEF Given

\* A step that sends nothing.
LEMMA QuietMaps ==
  ASSUME AllInv, Next, nev' = nev,
         \A d \in Clients : sock'[d].got = sock[d].got,
         \A d \in Clients : client'[d].life = "open" =>
           /\ client[d].life = "open"
           /\ client'[d].buf = client[d].buf /\ client'[d].subs = client[d].subs
  PROVE  Delivery!Next
<1>1. {} \in EventSets /\ {} \in ServedSets /\ <<>> \in Answers({})
  BY DEF EventSets, ServedSets, Answers
<1>2. nev' = nev + (IF {} = {} THEN 0 ELSE 1)
  BY DEF AllInv, IInv, TypeOK
<1>3. ASSUME NEW d \in Clients, client'[d].life = "open"
      PROVE  /\ client[d].life = "open"
             /\ Given(d, {}, IF d \in {} THEN <<>> ELSE <<>>)
             /\ Masks'[d] = Masks[d]
  <2>1. /\ client[d] \in GoodRec /\ client'[d] \in GoodRec /\ sock[d].got \in Seq(OutCell)
        /\ client[d].life \in Lives /\ client'[d].life \in Lives
    BY AllStep
  <2>2. Gained(sock[d].got, client[d], client[d], EventFor({}, client[d].subs, nev + 1))
    <3>1. EventFor({}, client[d].subs, nev + 1) = <<>>
      BY DEF EventFor
    <3>2. Gained(sock[d].got, client[d], client[d], <<>>)
      BY <2>1, GainedNothing
    <3>3. QED BY <3>1, <3>2
  <2>3. Gained(sock[d].got, client[d], client'[d], <<>>)
    BY <1>3, <2>1, GainedNothing
  <2>4. Given(d, {}, <<>>)
    BY <1>3, <2>2, <2>3, GivenView
  <2>5. QED BY <1>3, <2>1, <2>4, Views, ViewsNext
<1>4. QED BY <1>1, <1>2, <1>3, ServerMaps

\* client_handle_writable: some messages are seen, or none is whole yet.
LEMMA WriteMaps ==
  ASSUME AllInv, Next, NEW c \in Clients, ClientHandleWritable(c)
  PROVE  Delivery!Next \/ UNCHANGED Delivery!vars
<1>1. /\ client[c].life = "open" /\ client'[c].life = "open"
      /\ client'[c].subs = client[c].subs
      /\ sock'[c].got \o client'[c].buf = sock[c].got \o client[c].buf
  BY WriteStep DEF AllInv, Out
<1>2. PICK t \in Seq(OutCell) : sock'[c].got = sock[c].got \o t
  BY WriteStep DEF AllInv
<1>3. \A d \in Clients \ {c} : client'[d] = client[d] /\ sock'[d] = sock[d]
  <2>1. client \in [Clients -> ClientRec] /\ sock \in [Clients -> SockRec]
    BY DEF AllInv, IInv, TypeOK
  <2>2. QED BY <2>1 DEF ClientHandleWritable, Written
<1>4. nev' = nev
  BY DEF ClientHandleWritable
<1>5. PICK g, g2, b2, u : /\ g = sock[c].got /\ g2 = sock'[c].got
                          /\ b2 = client'[c].buf /\ u = g2 \o b2
  OBVIOUS
<1>6. g \in Seq(OutCell) /\ g2 \in Seq(OutCell) /\ b2 \in Seq(OutCell) /\ g2 = g \o t
  BY <1>2, <1>5, AllStep
<1>7. PICK k : k = Len(Whole(g2))
  OBVIOUS
<1>8. Len(Whole(g)) <= k /\ k <= Len(Whole(u)) /\ k \in Nat /\ Len(Whole(g)) \in Nat
      /\ Len(Whole(u)) \in Nat
  <2>1. u \in Seq(OutCell)
    BY <1>5, <1>6
  <2>2. Len(Whole(g)) <= Len(Whole(g2)) /\ Len(Whole(g2)) <= Len(Whole(u))
    BY <1>5, <1>6, WholeCut
  <2>3. QED BY <1>6, <1>7, <2>1, <2>2, WholeType
<1>9. /\ Conn[c] = "on" /\ Conn'[c] = "on" /\ Masks'[c] = Masks[c]
      /\ Log[c] = Whole(u) /\ Log'[c] = Whole(u)
      /\ Seen[c] = Len(Whole(g)) /\ Seen'[c] = k
  <2>1. client[c].life \in Lives /\ client'[c].life \in Lives
    BY AllStep
  <2>2. QED BY <1>1, <1>5, <1>7, <2>1, Views, ViewsNext
<1>10. ASSUME NEW d \in Clients \ {c}
       PROVE  StillThere(d)
  <2>1. client[d].life \in Lives /\ client'[d].life \in Lives
    BY AllStep
  <2>2. QED BY <1>3, <2>1, Views, ViewsNext DEF StillThere, Lives
<1>11. Conn' = Conn /\ Masks' = Masks /\ Log' = Log
  <2>1. \A d \in Clients : Conn'[d] = Conn[d] /\ Masks'[d] = Masks[d] /\ Log'[d] = Log[d]
    BY <1>9, <1>10 DEF StillThere
  <2>2. QED BY <2>1, ViewFunctions, ViewFunctionsNext
<1>12. Seen' = [Seen EXCEPT ![c] = k]
  <2>1. \A d \in Clients : Seen'[d] = IF d = c THEN k ELSE Seen[d]
    BY <1>9, <1>10 DEF StillThere
  <2>2. QED BY <2>1, ViewFunctions, ViewFunctionsNext
<1>13. CASE k = Len(Whole(g))
  <2>1. Seen' = Seen
    BY <1>9, <1>12, <1>13, ViewFunctions
  <2>2. QED BY <1>4, <1>11, <2>1 DEF Delivery!vars
<1>14. CASE k # Len(Whole(g))
  <2>1. k \in 1..Len(Log[c]) /\ k > Seen[c]
    BY <1>8, <1>9, <1>14
  <2>2. Delivery!Deliver(c)
    BY <1>4, <1>9, <1>11, <1>12, <2>1 DEF Delivery!Deliver
  <2>3. QED BY <2>2 DEF Delivery!Next
<1>15. QED BY <1>13, <1>14

\* handle_connection: the client is connected, or lost before it was served.
LEMMA AcceptMaps ==
  ASSUME AllInv, HandleConnection, Next
  PROVE  Delivery!Next
<1>0. /\ client \in [Clients -> ClientRec] /\ queue \in Seq(Clients) /\ queue # <<>>
      /\ nev' = nev /\ sock' = sock
  BY DEF AllInv, IInv, TypeOK, HandleConnection
<1>1. PICK c \in Clients : c = Head(queue)
  BY <1>0
<1>2. client[c].life = "queued"
  <2>1. 1 \in DOMAIN queue /\ queue[1] = c
    BY <1>0, <1>1
  <2>2. QED BY <2>1 DEF AllInv, LifeInv
<1>3. CASE client' = [client EXCEPT ![c] = Fresh("open")]
  <2>1. ASSUME NEW d \in Clients \ {c} PROVE StillThere(d)
    <3>1. client'[d] = client[d] /\ sock'[d] = sock[d]
      BY <1>0, <1>3
    <3>2. client[d].life \in Lives /\ client'[d].life \in Lives
      BY AllStep
    <3>3. QED BY <3>1, <3>2, Views, ViewsNext DEF StillThere, Lives
  <2>2. /\ Conn[c] = "off" /\ Conn'[c] = "on" /\ Masks'[c] = Masks[c]
        /\ Log'[c] = Log[c] /\ Seen'[c] = Seen[c]
    <3>1. client[c].life \in Lives /\ client'[c].life \in Lives
          /\ client[c].life # "open" /\ client[c].subs = {} /\ client[c].buf = <<>>
      BY <1>2, AllStep DEF LivingRec
    <3>2. client'[c] = Fresh("open")
      BY <1>0, <1>3
    <3>3. client'[c].life = "open" /\ client'[c].buf = <<>> /\ client'[c].subs = {}
      BY <3>2 DEF Fresh
    <3>4. PICK g : g = sock[c].got
      OBVIOUS
    <3>5. Conn[c] = "off" /\ Masks[c] = {} /\ Log[c] = Whole(g \o <<>>)
          /\ Seen[c] = Len(Whole(g))
      BY <1>2, <3>1, <3>4, Views
    <3>6. Conn'[c] = "on" /\ Masks'[c] = {} /\ Log'[c] = Whole(g \o <<>>)
          /\ Seen'[c] = Len(Whole(g))
      <4>1. sock'[c].got = g
        BY <1>0, <3>4
      <4>2. QED BY <3>1, <3>3, <4>1, ViewsNext
    <3>7. QED BY <3>5, <3>6
  <2>3. Masks' = Masks /\ Log' = Log /\ Seen' = Seen
    <3>1. \A d \in Clients : Masks'[d] = Masks[d] /\ Log'[d] = Log[d] /\ Seen'[d] = Seen[d]
      BY <2>1, <2>2 DEF StillThere
    <3>2. QED BY <3>1, ViewFunctions, ViewFunctionsNext
  <2>4. Conn' = [Conn EXCEPT ![c] = "on"]
    <3>1. \A d \in Clients : Conn'[d] = IF d = c THEN "on" ELSE Conn[d]
      BY <2>1, <2>2 DEF StillThere
    <3>2. QED BY <3>1, ViewFunctions, ViewFunctionsNext
  <2>5. Delivery!Connect(c)
    BY <1>0, <2>2, <2>3, <2>4 DEF Delivery!Connect
  <2>6. QED BY <2>5 DEF Delivery!Next
<1>4. CASE client' = [client EXCEPT ![c] = Fresh("gone")]
  <2>1. ASSUME NEW d \in Clients, client'[d].life = "open"
        PROVE  client'[d] = client[d]
    BY <1>0, <1>4, <2>1 DEF Fresh
  <2>2. QED BY <1>0, <2>1, QuietMaps
<1>5. QED BY <1>1, <1>3, <1>4 DEF HandleConnection

\* What is told to whom when an event is sent to the clients.
Spread(d, e) ==
  client'[d].life = "open" =>
    /\ client[d].life = "open" /\ client'[d].subs = client[d].subs
    /\ Gained(sock[d].got, client[d], client'[d], EventFor(e, client[d].subs, nev + 1))

LEMMA SpreadNothing ==
  ASSUME AllInv, Next, NEW d \in Clients, client'[d] = client[d]
  PROVE  Spread(d, {})
<1>1. client[d] \in GoodRec /\ sock[d].got \in Seq(OutCell)
  BY AllStep
<1>2. EventFor({}, client[d].subs, nev + 1) = <<>>
  BY DEF EventFor
<1>3. Gained(sock[d].got, client[d], client'[d], <<>>)
  BY <1>1, GainedNothing
<1>4. QED BY <1>2, <1>3 DEF Spread

\* Publish: the event, and no answer.
LEMMA SpreadMaps ==
  ASSUME AllInv, Next, NEW e \in EventSets, nev' = nev + (IF e = {} THEN 0 ELSE 1),
         \A d \in Clients : sock'[d].got = sock[d].got /\ Spread(d, e)
  PROVE  Delivery!Next
<1>1. {} \in ServedSets /\ <<>> \in Answers({})
  BY DEF ServedSets, Answers
<1>2. ASSUME NEW d \in Clients, client'[d].life = "open"
      PROVE  /\ client[d].life = "open" /\ Given(d, e, IF d \in {} THEN <<>> ELSE <<>>)
             /\ Masks'[d] = Masks[d]
  <2>1. /\ client'[d] \in GoodRec /\ sock[d].got \in Seq(OutCell)
        /\ client[d].life \in Lives /\ client'[d].life \in Lives
    BY AllStep
  <2>2. /\ client[d].life = "open" /\ client'[d].subs = client[d].subs
        /\ Gained(sock[d].got, client[d], client'[d], EventFor(e, client[d].subs, nev + 1))
    BY <1>2 DEF Spread
  <2>3. Gained(sock[d].got, client'[d], client'[d], <<>>)
    BY <2>1, GainedNothing
  <2>4. Given(d, e, <<>>)
    BY <1>2, <2>2, <2>3, GivenView
  <2>5. QED BY <2>1, <2>2, <2>4, Views, ViewsNext
<1>3. QED BY <1>1, <1>2, ServerMaps

\* A handler of a request of c: perhaps an event, then the answer.
LEMMA AnswerMaps ==
  ASSUME AllInv, Next, NEW e \in EventSets, nev' = nev + (IF e = {} THEN 0 ELSE 1),
         \A d \in Clients : sock'[d].got = sock[d].got,
         NEW c \in Clients, client[c].life = "open",
         \A d \in Clients \ {c} : Spread(d, e),
         NEW answer \in Delivery!AnswersFor(c), NEW k2,
         Gained(sock[c].got, client[c], k2, EventFor(e, client[c].subs, nev + 1)),
         client'[c].life = "open" => Gained(sock[c].got, k2, client'[c], answer)
  PROVE  Delivery!Next
<1>1. {c} \in ServedSets /\ answer \in Answers({c})
  BY DEF ServedSets, Answers
<1>2. ASSUME NEW d \in Clients, client'[d].life = "open"
      PROVE  /\ client[d].life = "open" /\ Given(d, e, IF d \in {c} THEN answer ELSE <<>>)
             /\ d \notin {c} => Masks'[d] = Masks[d]
  <2>1. /\ client'[d] \in GoodRec /\ sock[d].got \in Seq(OutCell)
        /\ client[d].life \in Lives /\ client'[d].life \in Lives
    BY AllStep
  <2>2. CASE d = c
    <3>1. Given(d, e, answer)
      BY <1>2, <2>2, GivenView
    <3>2. QED BY <2>2, <3>1
  <2>3. CASE d # c
    <3>1. /\ client[d].life = "open" /\ client'[d].subs = client[d].subs
          /\ Gained(sock[d].got, client[d], client'[d], EventFor(e, client[d].subs, nev + 1))
      BY <1>2, <2>3 DEF Spread
    <3>2. Gained(sock[d].got, client'[d], client'[d], <<>>)
      BY <2>1, GainedNothing
    <3>3. Given(d, e, <<>>)
      BY <1>2, <3>1, <3>2, GivenView
    <3>4. QED BY <2>1, <2>3, <3>1, <3>3, Views, ViewsNext
  <2>4. QED BY <2>2, <2>3
<1>3. QED BY <1>1, <1>2, ServerMaps

\* The answers to the next request of a client, by its number.
LEMMA AnsweredCount ==
  ASSUME AllInv, NEW d \in Clients, client[d].life = "open", NEW n \in Nat,
         Replied(sock[d].got \o client[d].buf, sock[d].asked, n)
  PROVE  /\ Delivery!Answered(d) = n
         /\ \A t \in RequestTypes, ok \in BOOLEAN :
              <<Reply(t, ok, n + 1)>> \in Delivery!AnswersFor(d)
         /\ \A t \in RequestTypes :
              <<Reply(t, TRUE, n + 1), FirstTick(n + 1)>> \in Delivery!AnswersFor(d)
<1>1. /\ client[d] \in GoodRec /\ client[d] \in Logged(sock[d].got)
      /\ sock[d].got \in Seq(OutCell) /\ client[d].buf \in Seq(OutCell)
      /\ client[d].life \in Lives
  <2>1. client \in [Clients -> GoodRec] /\ sock \in [Clients -> SockRec]
    BY DEF AllInv, IInv, TypeOK
  <2>2. client[d] \in GoodRec /\ sock[d] \in SockRec
    BY <2>1
  <2>3. QED BY <2>2 DEF AllInv, LogInv, SockRec, GoodRec, ClientRec
<1>2. PICK s : s = sock[d].got \o client[d].buf
  OBVIOUS
<1>3. s \in Seq(OutCell) /\ Tallied(s) /\ Replied(s, sock[d].asked, n)
  BY <1>1, <1>2 DEF Logged
<1>4. Cardinality(RepliesIn(Whole(s))) = n
  BY <1>3, TalliedReplies
<1>5. Log[d] = Whole(s)
  BY <1>1, <1>2, Views
<1>6. Delivery!Answered(d) = n
  <2>1. Delivery!Answered(d) = Cardinality(RepliesIn(Log[d]))
    <3>1. \A S : Delivery!Cardinality(S) = Cardinality(S)
      BY Zenon DEF Delivery!Cardinality, Cardinality
    <3>2. QED BY <3>1 DEF Delivery!Answered, RepliesIn
  <2>2. QED BY <1>4, <1>5, <2>1
<1>7. /\ \A t, ok : Delivery!Reply(n + 1, t, ok) = Reply(t, ok, n + 1)
      /\ Delivery!FirstTick(n + 1) = FirstTick(n + 1)
  BY DEF Delivery!Reply, Delivery!FirstTick, Reply, FirstTick
<1>8. /\ \A t \in RequestTypes, ok \in BOOLEAN :
           <<Delivery!Reply(Delivery!Answered(d) + 1, t, ok)>> \in Delivery!AnswersFor(d)
      /\ \A t \in RequestTypes :
           <<Delivery!Reply(Delivery!Answered(d) + 1, t, TRUE),
             Delivery!FirstTick(Delivery!Answered(d) + 1)>> \in Delivery!AnswersFor(d)
  <2>1. PICK x : x = Delivery!Answered(d) + 1
    OBVIOUS
  <2> DEFINE A == {<<Delivery!Reply(x, t, ok)>> : t \in RequestTypes, ok \in BOOLEAN}
             B == {<<Delivery!Reply(x, t, TRUE), Delivery!FirstTick(x)>> :
                     t \in RequestTypes}
  <2>3. Delivery!AnswersFor(d) = A \cup B
    BY <2>1 DEF Delivery!AnswersFor
  <2>4. \A t \in RequestTypes, ok \in BOOLEAN : <<Delivery!Reply(x, t, ok)>> \in A
    OBVIOUS
  <2>5. \A t \in RequestTypes : <<Delivery!Reply(x, t, TRUE), Delivery!FirstTick(x)>> \in B
    OBVIOUS
  <2> HIDE DEF A, B
  <2>6. QED BY <2>1, <2>3, <2>4, <2>5
<1>9. /\ \A t \in RequestTypes, ok \in BOOLEAN :
           <<Delivery!Reply(n + 1, t, ok)>> \in Delivery!AnswersFor(d)
      /\ \A t \in RequestTypes :
           <<Delivery!Reply(n + 1, t, TRUE), Delivery!FirstTick(n + 1)>>
             \in Delivery!AnswersFor(d)
  BY <1>6, <1>8
<1>10. /\ \A t \in RequestTypes, ok \in BOOLEAN :
            <<Reply(t, ok, n + 1)>> \in Delivery!AnswersFor(d)
       /\ \A t \in RequestTypes :
            <<Reply(t, TRUE, n + 1), FirstTick(n + 1)>> \in Delivery!AnswersFor(d)
  BY <1>7, <1>9
<1>11. QED BY <1>6, <1>10

LEMMA SpreadEvent ==
  ASSUME AllInv, Next, ListedAreOpen, NEW d \in Clients, NEW e \in Events,
         NEW payload \in Nat, NEW oom \in BOOLEAN,
         client'[d] = IF d \in listed /\ EventBit(e) \in client[d].subs
                        THEN SendReply(client[d], Event(e, nev + 1), payload, oom)
                        ELSE client[d]
  PROVE  Spread(d, {e})
<1>0. {e} \in EventSets /\ nev + 1 \in Nat
  BY DEF EventSets, AllInv, IInv, TypeOK
<1>1. /\ client[d] \in GoodRec /\ sock[d].got \in Seq(OutCell)
      /\ d \in listed <=> client[d].life = "open"
      /\ client[d].life # "open" => client[d].subs = {}
  BY AllStep DEF ListedAreOpen
<1> SUFFICES ASSUME client'[d].life = "open"
             PROVE  /\ client[d].life = "open" /\ client'[d].subs = client[d].subs
                    /\ Gained(sock[d].got, client[d], client'[d],
                              EventFor({e}, client[d].subs, nev + 1))
  BY DEF Spread
<1>2. client[d].life = "open"
  BY <1>1
<1>3. IF \E x \in {e} : EventBit(x) \in client[d].subs
        THEN \E x \in {e}, p \in Nat, o \in BOOLEAN :
               client'[d] = SendReply(client[d], Event(x, nev + 1), p, o)
        ELSE client'[d] = client[d]
  BY <1>1, <1>2
<1>4. QED BY <1>0, <1>1, <1>2, <1>3, EventGained

\* signal_event: the event is published.
LEMMA PublishMaps ==
  ASSUME AllInv, Next, ListedAreOpen, NEW e \in PluginEvents, Publish(e)
  PROVE  Delivery!Next
<1>1. PICK payload \in PayloadLens, oom \in SUBSET MayFail :
        ClientsBecome(SendEvent(client, Event(e, nev + 1), payload, oom))
  BY DEF Publish
<1>2. e \in Events /\ {e} \in EventSets /\ payload \in Nat /\ nev' = nev + 1
      /\ sock' = sock /\ nev \in Nat
  BY SizesNat DEF PluginEvents, Events, EventNo, EventSets, Publish, AllInv, IInv, TypeOK
<1>3. ASSUME NEW d \in Clients PROVE Spread(d, {e})
  <2>1. Event(e, nev + 1).type = e
    BY <1>2, MessageTypes
  <2>2. client'[d] = IF d \in listed /\ EventBit(e) \in client[d].subs
                       THEN SendReply(client[d], Event(e, nev + 1), payload, d \in oom)
                       ELSE client[d]
    BY <1>1, <2>1 DEF ClientsBecome, SendEvent
  <2>3. (d \in oom) \in BOOLEAN
    OBVIOUS
  <2>4. QED BY <1>2, <2>2, <2>3, SpreadEvent
<1>4. nev' = nev + (IF {e} = {} THEN 0 ELSE 1)
  BY <1>2
<1>5. \A d \in Clients : sock'[d].got = sock[d].got /\ Spread(d, {e})
  BY <1>2, <1>3
<1>6. QED BY <1>2, <1>4, <1>5, SpreadMaps

\* A handler that answers c and sends no event.
LEMMA ReplyMaps ==
  ASSUME AllInv, Next, nev' = nev, \A d \in Clients : sock'[d].got = sock[d].got,
         NEW c \in Clients, client[c].life = "open",
         \A d \in Clients \ {c} : client'[d] = client[d],
         NEW answer \in Delivery!AnswersFor(c),
         client'[c].life = "open" => Gained(sock[c].got, client[c], client'[c], answer)
  PROVE  Delivery!Next
<1>1. {} \in EventSets /\ nev' = nev + (IF {} = {} THEN 0 ELSE 1)
  BY DEF EventSets, AllInv, IInv, TypeOK
<1>2. \A d \in Clients \ {c} : Spread(d, {})
  BY SpreadNothing
<1>3. Gained(sock[c].got, client[c], client[c], EventFor({}, client[c].subs, nev + 1))
  <2>1. client[c] \in GoodRec /\ sock[c].got \in Seq(OutCell)
    BY AllStep
  <2>2. EventFor({}, client[c].subs, nev + 1) = <<>>
    BY DEF EventFor
  <2>3. Gained(sock[c].got, client[c], client[c], <<>>)
    BY <2>1, GainedNothing
  <2>4. QED BY <2>2, <2>3
<1>4. QED BY <1>1, <1>2, <1>3, AnswerMaps

\* The end of RUN_COMMAND.
LEMMA CommandDoneMaps ==
  ASSUME AllInv, Next, CommandDone
  PROVE  Delivery!Next
<1>0. /\ client \in [Clients -> GoodRec] /\ nev' = nev /\ sock' = sock
      /\ executing \in Clients \cup {NoClient} /\ executing # NoClient
  BY DEF AllInv, IInv, TypeOK, CommandDone
<1>1. PICK c \in Clients : c = executing
  BY <1>0
<1>2. PICK payload \in PayloadLens, oom \in SUBSET MayFail :
        client' = [client EXCEPT
          ![c] = SendReply(@, Reply("command", TRUE, @.hdr), payload, c \in oom)]
  BY <1>1 DEF CommandDone, ClientsBecome
<1>3. \A d \in Clients \ {c} : client'[d] = client[d]
  BY <1>0, <1>2
<1>4. client'[c] = SendReply(client[c], Reply("command", TRUE, client[c].hdr), payload, c \in oom)
  BY <1>0, <1>2
<1>5. client[c] \in GoodRec /\ sock[c].got \in Seq(OutCell) /\ payload \in Nat
      /\ (c \in oom) \in BOOLEAN
  BY AllStep, SizesNat
<1>6. CASE client'[c].life = "open"
  <2>1. client[c].life = "open"
    BY <1>4, <1>5, <1>6, SendReplyCases DEF SendReply, GoodRec, ClientRec
  <2>2. PICK n \in 0..Len(sock[c].asked) :
               RepliesOf(client[c], sock[c].got, sock[c].asked, executing = c, n)
    BY DEF AllInv, RepliesInv
  <2>3. n \in Nat /\ client[c].hdr = n + 1
        /\ Replied(sock[c].got \o client[c].buf, sock[c].asked, n)
    <3>1. Len(sock[c].asked) \in Nat
      BY AllStep, LenProperties
    <3>2. QED BY <1>1, <2>1, <2>2, <3>1 DEF RepliesOf
  <2>4. PICK m : m = Reply("command", TRUE, n + 1)
    OBVIOUS
  <2>5. m \in Message /\ "command" \in RequestTypes
    <3>1. "command" \in RequestTypes /\ n + 1 \in Nat
      BY <2>3 DEF RequestTypes
    <3>2. QED BY <2>4, <3>1, MessageTypes
  <2>6. <<m>> \in Delivery!AnswersFor(c)
    BY <2>1, <2>3, <2>4, <2>5, AnsweredCount
  <2>7. client'[c] = SendReply(client[c], m, payload, c \in oom)
    BY <1>4, <2>3, <2>4
  <2>8. Gained(sock[c].got, client[c], client'[c], <<m>>)
    <3>1. /\ sock[c].got \in Seq(OutCell) /\ client[c] \in GoodRec /\ client[c].life = "open"
          /\ m \in Message /\ payload \in Nat /\ (c \in oom) \in BOOLEAN
          /\ client'[c] = SendReply(client[c], m, payload, c \in oom)
          /\ client'[c].life = "open"
      BY <1>5, <1>6, <2>1, <2>5, <2>7
    <3>2. PICK g, k, o, k2 : g = sock[c].got /\ k = client[c] /\ o = (c \in oom) /\ k2 = client'[c]
      OBVIOUS
    <3>3. /\ g \in Seq(OutCell) /\ k \in GoodRec /\ k.life = "open" /\ m \in Message
          /\ payload \in Nat /\ o \in BOOLEAN /\ SendReply(k, m, payload, o).life = "open"
      BY ONLY <3>1, <3>2
    <3>4. Gained(g, k, SendReply(k, m, payload, o), <<m>>)
      BY ONLY ZenonT(30), <3>3, GainedReply
    <3>5. QED BY ONLY <3>1, <3>2, <3>4
  <2>9. QED BY <1>0, <1>3, <2>1, <2>6, <2>8, ReplyMaps
<1>7. CASE client'[c].life # "open"
  BY <1>0, <1>3, <1>7, QuietMaps
<1>8. QED BY <1>6, <1>7

-----------------------------------------------------------------------------
(* The handlers of the requests.                                           *)

\* cs is what is left of the clients once a request of c has been received.
Received(cs, c) ==
  /\ cs \in [Clients -> GoodRec]
  /\ \A d \in Clients \ {c} : cs[d] = client[d]
  /\ cs[c].life = "open" /\ client[c].life = "open"
  /\ cs[c].buf = client[c].buf /\ cs[c].subs = client[c].subs

LEMMA CommandMaps ==
  ASSUME AllInv, Next, \A d \in Clients : sock'[d].got = sock[d].got,
         NEW c \in Clients, NEW cs, Received(cs, c), ExecuteCommand(cs, c)
  PROVE  Delivery!Next
<1>1. client' = cs /\ nev' = nev
  BY DEF ExecuteCommand, ClientsBecome
<1>2. ASSUME NEW d \in Clients, client'[d].life = "open"
      PROVE  /\ client[d].life = "open"
             /\ client'[d].buf = client[d].buf /\ client'[d].subs = client[d].subs
  <2>1. CASE d = c
    BY <1>1, <1>2, <2>1 DEF Received
  <2>2. CASE d # c
    BY <1>1, <1>2, <2>2 DEF Received
  <2>3. QED BY <2>1, <2>2
<1>3. QED BY <1>1, <1>2, QuietMaps

\* One message to c, whose record has become k by the request.
LEMMA OneAnswerMaps ==
  ASSUME AllInv, Next, nev' = nev, \A d \in Clients : sock'[d].got = sock[d].got,
         NEW c \in Clients, NEW cs, Received(cs, c),
         NEW k \in GoodRec, k.life = "open", k.buf = client[c].buf,
         NEW m \in Message, <<m>> \in Delivery!AnswersFor(c),
         NEW payload \in Nat, NEW oom \in BOOLEAN,
         client' = [cs EXCEPT ![c] = SendReply(k, m, payload, oom)]
  PROVE  Delivery!Next
<1>1. client'[c] = SendReply(k, m, payload, oom)
  BY DEF Received
<1>2. \A d \in Clients \ {c} : client'[d] = client[d]
  BY DEF Received
<1>3. sock[c].got \in Seq(OutCell) /\ client[c].life = "open"
  BY AllStep DEF Received
<1>4. ASSUME client'[c].life = "open"
      PROVE  Gained(sock[c].got, client[c], client'[c], <<m>>)
  <2>1. Gained(sock[c].got, k, client'[c], <<m>>)
    BY <1>1, <1>3, <1>4, GainedMessage
  <2>2. QED BY <2>1 DEF Gained
<1>5. QED BY <1>2, <1>3, <1>4, ReplyMaps

LEMMA QueryMaps ==
  ASSUME AllInv, Next, \A d \in Clients : sock'[d].got = sock[d].got,
         NEW c \in Clients, NEW cs, Received(cs, c), NEW n \in Nat,
         \A t \in RequestTypes, ok \in BOOLEAN : <<Reply(t, ok, n)>> \in Delivery!AnswersFor(c),
         AnswerQuery(cs, c, n) \/ Refuse(cs, c, n)
  PROVE  Delivery!Next
<1>1. cs[c] \in GoodRec /\ cs[c].life = "open" /\ cs[c].buf = client[c].buf
  BY DEF Received
<1>2. "query" \in RequestTypes /\ "other" \in RequestTypes /\ StatusLen \in Nat
      /\ PayloadLens \subseteq Nat
  BY SizesNat DEF RequestTypes
<1>3. \E m \in Message, payload \in Nat, oom \in BOOLEAN :
        <<m>> \in Delivery!AnswersFor(c)
        /\ client' = [cs EXCEPT ![c] = SendReply(cs[c], m, payload, oom)]
  <2>1. CASE AnswerQuery(cs, c, n)
    <3>1. PICK payload \in PayloadLens, oom \in SUBSET MayFail :
            client' = [cs EXCEPT
                         ![c] = SendReply(@, Reply("query", TRUE, n), payload, c \in oom)]
      BY <2>1 DEF AnswerQuery, ClientsBecome
    <3>2. /\ Reply("query", TRUE, n) \in Message /\ (c \in oom) \in BOOLEAN /\ payload \in Nat
          /\ <<Reply("query", TRUE, n)>> \in Delivery!AnswersFor(c)
      <4>1. Reply("query", TRUE, n) \in Message
        BY <1>2, MessageTypes, Zenon
      <4>2. <<Reply("query", TRUE, n)>> \in Delivery!AnswersFor(c)
        BY <1>2, Zenon
      <4>3. (c \in oom) \in BOOLEAN /\ payload \in Nat
        BY <1>2
      <4>4. QED BY <4>1, <4>2, <4>3, Zenon
    <3>3. QED BY <3>1, <3>2
  <2>2. CASE Refuse(cs, c, n)
    <3>1. PICK oom \in SUBSET MayFail :
            client' = [cs EXCEPT
                         ![c] = SendReply(@, Reply("other", FALSE, n), StatusLen, c \in oom)]
      BY <2>2 DEF Refuse, ClientsBecome, SendStatus
    <3>2. /\ Reply("other", FALSE, n) \in Message /\ (c \in oom) \in BOOLEAN
          /\ <<Reply("other", FALSE, n)>> \in Delivery!AnswersFor(c)
      <4>1. Reply("other", FALSE, n) \in Message
        BY <1>2, MessageTypes, Zenon
      <4>2. <<Reply("other", FALSE, n)>> \in Delivery!AnswersFor(c)
        BY <1>2, Zenon
      <4>3. (c \in oom) \in BOOLEAN
        OBVIOUS
      <4>4. QED BY <4>1, <4>2, <4>3, Zenon
    <3>3. QED BY <1>2, <3>1, <3>2
  <2>3. QED BY <2>1, <2>2
<1>4. nev' = nev
  BY DEF AnswerQuery, Refuse
<1>5. PICK m \in Message, payload \in Nat, oom \in BOOLEAN :
        <<m>> \in Delivery!AnswersFor(c)
        /\ client' = [cs EXCEPT ![c] = SendReply(cs[c], m, payload, oom)]
  BY <1>3
<1>6. QED BY <1>1, <1>4, <1>5, OneAnswerMaps

LEMMA UnsubscribeMaps ==
  ASSUME AllInv, Next, \A d \in Clients : sock'[d].got = sock[d].got,
         NEW c \in Clients, NEW cs, Received(cs, c), NEW n \in Nat, NEW arg,
         \A t \in RequestTypes, ok \in BOOLEAN : <<Reply(t, ok, n)>> \in Delivery!AnswersFor(c),
         Unsubscribe(cs, c, n, arg)
  PROVE  Delivery!Next
<1> DEFINE ok == arg # <<>> /\ Unsupported(arg, UnsubscribeNames) = {}
           k == [cs[c] EXCEPT !.subs = Unsubscribed(@, arg)]
           m == Reply("unsubscribe", ok, n)
<1>1. PICK oom \in SUBSET MayFail :
        client' = [cs EXCEPT ![c] = SendReply(k, m, StatusLen, c \in oom)]
  BY DEF Unsubscribe, ClientsBecome, SendStatus
<1>2. cs[c] \in GoodRec /\ cs[c].life = "open" /\ cs[c].buf = client[c].buf
  BY DEF Received
<1>3. k \in GoodRec /\ k.life = "open" /\ k.buf = client[c].buf
  <2>1. cs[c] \in ClientRec /\ cs[c].subs \in SUBSET Bits
    BY <1>2 DEF GoodRec, ClientRec
  <2>2. Unsubscribed(cs[c].subs, arg) \in SUBSET Bits
    BY <2>1, SubscribedType
  <2>3. k \in GoodRec
    BY <1>2, <2>2, MaskGood
  <2>4. k.life = cs[c].life /\ k.buf = cs[c].buf
    BY <2>1 DEF ClientRec
  <2>5. QED BY <1>2, <2>3, <2>4
<1>4. m \in Message /\ <<m>> \in Delivery!AnswersFor(c)
  <2>1. "unsubscribe" \in RequestTypes /\ ok \in BOOLEAN
    BY DEF RequestTypes
  <2>2. QED BY <2>1, MessageTypes
<1>5. nev' = nev /\ StatusLen \in Nat /\ (c \in oom) \in BOOLEAN
  BY SizesNat DEF Unsubscribe
<1> HIDE DEF m, k, ok
<1>6. QED BY <1>1, <1>3, <1>4, <1>5, OneAnswerMaps

LEMMA GainedTwo ==
  ASSUME NEW got \in Seq(OutCell), NEW k \in GoodRec, NEW k2, NEW k3,
         NEW a \in Message, NEW b \in Message,
         Gained(got, k, k2, <<a>>), Gained(got, k2, k3, <<b>>)
  PROVE  Gained(got, k, k3, <<a, b>>)
<1>1. PICK s : s = got \o k.buf
  OBVIOUS
<1>2. k.buf \in Seq(OutCell)
  BY DEF GoodRec, ClientRec
<1>3. s \in Seq(OutCell)
  BY <1>1, <1>2
<1>4. PICK w, v, x : w = Whole(s) /\ v = Whole(got \o k2.buf) /\ x = Whole(got \o k3.buf)
  OBVIOUS
<1>5. w \in Seq(Message)
  BY <1>3, <1>4, WholeType
<1>6. v = w \o <<a>> /\ x = v \o <<b>>
  BY <1>1, <1>4 DEF Gained
<1>7. PICK p, q, r : p = <<a>> /\ q = <<b>> /\ r = <<a, b>>
  OBVIOUS
<1>8. /\ p \in Seq(Message) /\ q \in Seq(Message) /\ r \in Seq(Message)
      /\ Len(p) = 1 /\ Len(q) = 1 /\ Len(r) = 2
      /\ p[1] = a /\ q[1] = b /\ r[1] = a /\ r[2] = b
  BY <1>7
<1>9. p \o q = r
  <2>1. PICK z : z = p \o q
    OBVIOUS
  <2>2. /\ z \in Seq(Message) /\ Len(z) = Len(p) + Len(q)
        /\ \A i \in 1..Len(p) + Len(q) : z[i] = IF i <= Len(p) THEN p[i] ELSE q[i - Len(p)]
    BY <1>8, <2>1, ConcatProperties
  <2>3. Len(z) = Len(r) /\ \A i \in 1..Len(z) : z[i] = r[i]
    <3>1. Len(z) = 2 /\ z[1] = p[1] /\ z[2] = q[1] /\ 1..2 = {1, 2}
      BY <1>8, <2>2
    <3>2. QED BY <1>8, <3>1
  <2>4. z = r
    BY <1>8, <2>2, <2>3, SeqEqual
  <2>5. QED BY <2>1, <2>4
<1>10. x = w \o r
  <2>1. (w \o p) \o q = w \o (p \o q)
    <3>1. w \in Seq(Message) /\ p \in Seq(Message) /\ q \in Seq(Message)
      BY <1>5, <1>8
    <3>2. QED BY <3>1, Regroup
  <2>2. x = (w \o p) \o q
    BY <1>6, <1>7
  <2>3. QED BY <1>9, <2>1, <2>2
<1>11. QED BY <1>1, <1>4, <1>7, <1>10 DEF Gained

\* Only a served client is still served after a message.
LEMMA ToldOpen ==
  ASSUME NEW k \in GoodRec, NEW m, NEW payload, NEW oom,
         SendReply(k, m, payload, oom).life = "open"
  PROVE  k.life = "open"
<1>1. k \in ClientRec
  BY DEF GoodRec
<1>2. CASE k.life # "open"
  <2>1. SendReply(k, m, payload, oom) = [k EXCEPT !.life = "touched"]
    BY <1>2 DEF SendReply
  <2>2. [k EXCEPT !.life = "touched"].life = "touched"
    BY <1>1 DEF ClientRec
  <2>3. QED BY <2>1, <2>2
<1>3. QED BY <1>2

LEMMA SubscribeMaps ==
  ASSUME AllInv, Next, \A d \in Clients : sock'[d].got = sock[d].got,
         NEW c \in Clients, NEW cs, Received(cs, c), NEW n \in Nat, NEW arg,
         \A t \in RequestTypes, ok \in BOOLEAN : <<Reply(t, ok, n)>> \in Delivery!AnswersFor(c),
         \A t \in RequestTypes :
           <<Reply(t, TRUE, n), FirstTick(n)>> \in Delivery!AnswersFor(c),
         Subscribe(cs, c, n, arg)
  PROVE  Delivery!Next
<1> DEFINE ok == arg # <<>> /\ Unsupported(arg, SubscribeNames) = {}
           ticks == \E i \in DOMAIN arg : arg[i] = "tick"
           k == [cs[c] EXCEPT !.subs = IF arg = <<>> THEN @ ELSE Subscribed(@, arg)]
           m == Reply("subscribe", ok, n)
           told(oom) == SendReply(k, m, StatusLen, c \in oom)
<1>1. PICK payload \in PayloadLens, oom1 \in SUBSET MayFail, oom2 \in SUBSET MayFail :
        client' = [cs EXCEPT
          ![c] = IF ok /\ ticks
                   THEN SendReply(told(oom1), FirstTick(n), payload, c \in oom2)
                   ELSE told(oom1)]
  BY Zenon DEF Subscribe, ClientsBecome, SendStatus
<1>2. cs[c] \in GoodRec /\ cs[c].life = "open" /\ cs[c].buf = client[c].buf
  BY DEF Received
<1>3. k \in GoodRec /\ k.life = "open" /\ k.buf = client[c].buf
  <2>1. cs[c] \in ClientRec /\ cs[c].subs \in SUBSET Bits
    BY <1>2 DEF GoodRec, ClientRec
  <2>2. (IF arg = <<>> THEN cs[c].subs ELSE Subscribed(cs[c].subs, arg)) \in SUBSET Bits
    BY <2>1, SubscribedType
  <2>3. k \in GoodRec
    BY <1>2, <2>2, MaskGood
  <2>4. k.life = cs[c].life /\ k.buf = cs[c].buf
    BY <2>1 DEF ClientRec
  <2>5. QED BY <1>2, <2>3, <2>4
<1>4. m \in Message /\ <<m>> \in Delivery!AnswersFor(c)
  <2>1. "subscribe" \in RequestTypes /\ ok \in BOOLEAN
    BY DEF RequestTypes
  <2>2. QED BY <2>1, MessageTypes
<1>5. /\ nev' = nev /\ StatusLen \in Nat /\ payload \in Nat
      /\ (c \in oom1) \in BOOLEAN /\ (c \in oom2) \in BOOLEAN
  BY SizesNat DEF Subscribe
<1>6. ok => <<m, FirstTick(n)>> \in Delivery!AnswersFor(c)
  <2>1. "subscribe" \in RequestTypes
    BY DEF RequestTypes
  <2>2. <<Reply("subscribe", TRUE, n), FirstTick(n)>> \in Delivery!AnswersFor(c)
    BY <2>1, Zenon
  <2>3. ok => m = Reply("subscribe", TRUE, n)
    OBVIOUS
  <2> HIDE DEF ok, m
  <2>4. QED BY <2>2, <2>3
<1>7. PICK y : y = told(oom1)
  OBVIOUS
<1>8. y = SendReply(k, m, StatusLen, c \in oom1)
  BY <1>7
<1> HIDE DEF m, k, ok, ticks, told
<1>9. CASE ok /\ ticks
  <2>1. client' = [cs EXCEPT ![c] = SendReply(y, FirstTick(n), payload, c \in oom2)]
    BY <1>1, <1>7, <1>9
  <2>2. PICK f : f = FirstTick(n)
    OBVIOUS
  <2>3. f \in Message /\ sock[c].got \in Seq(OutCell) /\ client[c] \in GoodRec
        /\ client[c].life = "open"
    BY <2>2, MessageTypes, AllStep DEF Received
  <2>4. client'[c] = SendReply(y, f, payload, c \in oom2)
        /\ \A d \in Clients \ {c} : client'[d] = client[d]
    BY <2>1, <2>2 DEF Received
  <2>5. y \in GoodRec
    BY <1>3, <1>4, <1>5, <1>8, SendReplyCases
  <2>6. ASSUME client'[c].life = "open"
        PROVE  Gained(sock[c].got, client[c], client'[c], <<m, f>>)
    <3>1. y.life = "open"
      BY <2>4, <2>5, <2>6, ToldOpen
    <3>2. Gained(sock[c].got, k, y, <<m>>)
      BY <1>3, <1>4, <1>5, <1>8, <2>3, <3>1, GainedMessage
    <3>3. Gained(sock[c].got, y, client'[c], <<f>>)
      <4>1. payload \in Nat /\ (c \in oom2) \in BOOLEAN
        BY <1>5
      <4>2. PICK g, o, k2 : g = sock[c].got /\ o = (c \in oom2) /\ k2 = client'[c]
        OBVIOUS
      <4>3. /\ g \in Seq(OutCell) /\ y \in GoodRec /\ y.life = "open" /\ f \in Message
            /\ payload \in Nat /\ o \in BOOLEAN /\ SendReply(y, f, payload, o).life = "open"
        BY ONLY <2>3, <2>4, <2>5, <2>6, <3>1, <4>1, <4>2
      <4>4. Gained(g, y, SendReply(y, f, payload, o), <<f>>)
        BY ONLY ZenonT(30), <4>3, GainedReply
      <4>5. QED BY ONLY <2>4, <4>2, <4>4
    <3>4. Gained(sock[c].got, k, client'[c], <<m, f>>)
      BY <1>3, <1>4, <2>3, <3>2, <3>3, GainedTwo
    <3>5. QED BY <1>3, <3>4 DEF Gained
  <2>7. <<m, f>> \in Delivery!AnswersFor(c)
    BY <1>6, <1>9, <2>2
  <2>8. QED BY <1>5, <2>3, <2>4, <2>6, <2>7, ReplyMaps
<1>10. CASE ~(ok /\ ticks)
  <2>1. client' = [cs EXCEPT ![c] = SendReply(k, m, StatusLen, c \in oom1)]
    BY <1>1, <1>7, <1>8, <1>10
  <2>2. QED BY <1>3, <1>4, <1>5, <2>1, OneAnswerMaps
<1>11. QED BY <1>9, <1>10

LEMMA TickMaps ==
  ASSUME AllInv, Next, ListedAreOpen, \A d \in Clients : sock'[d].got = sock[d].got,
         NEW c \in Clients, NEW cs, Received(cs, c), NEW n \in Nat,
         \A t \in RequestTypes, ok \in BOOLEAN : <<Reply(t, ok, n)>> \in Delivery!AnswersFor(c),
         SendTick(cs, c, n)
  PROVE  Delivery!Next
<1> DEFINE told(p, o) == TickSent(cs, p, o)
           m == Reply("send_tick", TRUE, n)
<1>1. PICK payload \in PayloadLens, oom1 \in SUBSET MayFail, oom2 \in SUBSET MayFail :
        /\ client' = [told(payload, oom1) EXCEPT
                        ![c] = SendReply(@, m, StatusLen, c \in oom2)]
        /\ nev' = IF HasListeners(cs, "tick") THEN nev + 1 ELSE nev
  BY DEF SendTick, ClientsBecome, SendStatus
<1>2. /\ cs \in [Clients -> GoodRec] /\ cs[c] \in GoodRec /\ cs[c].life = "open"
      /\ cs[c].buf = client[c].buf /\ cs[c].subs = client[c].subs
      /\ client[c].life = "open"
  BY DEF Received
<1>3. m \in Message /\ <<m>> \in Delivery!AnswersFor(c)
  <2>1. "send_tick" \in RequestTypes
    BY DEF RequestTypes
  <2>2. QED BY <2>1, MessageTypes, Zenon
<1>4. /\ StatusLen \in Nat /\ payload \in Nat /\ nev \in Nat
      /\ (c \in oom1) \in BOOLEAN /\ (c \in oom2) \in BOOLEAN
  BY SizesNat DEF AllInv, IInv, TypeOK
<1> HIDE DEF m
<1>5. CASE HasListeners(cs, "tick")
  <2>1. PICK x : x = Event("tick", nev + 1)
    OBVIOUS
  <2>2. "tick" \in Events /\ {"tick"} \in EventSets
    BY DEF Events, EventNo, EventSets
  <2>3. x \in Message /\ x.type = "tick"
    BY <1>4, <2>1, <2>2, MessageTypes
  <2>4. told(payload, oom1) = SendEvent(cs, x, payload, oom1)
    BY <1>5, <2>1 DEF TickSent
  <2>5. PICK ts : ts = told(payload, oom1)
    OBVIOUS
  <2>6. ts = [d \in Clients |-> IF d \in listed /\ EventBit("tick") \in cs[d].subs
                                  THEN SendReply(cs[d], x, payload, d \in oom1) ELSE cs[d]]
    BY <2>3, <2>4, <2>5 DEF SendEvent
  <2>7. client' = [ts EXCEPT ![c] = SendReply(@, m, StatusLen, c \in oom2)]
    BY <1>1, <2>5
  <2>8. client'[c] = SendReply(ts[c], m, StatusLen, c \in oom2)
        /\ \A d \in Clients \ {c} : client'[d] = ts[d]
    BY <2>6, <2>7
  <2>9. ASSUME NEW d \in Clients \ {c} PROVE Spread(d, {"tick"})
    <3>1. cs[d] = client[d] /\ (d \in oom1) \in BOOLEAN
      BY DEF Received
    <3>2. client'[d] = IF d \in listed /\ EventBit("tick") \in client[d].subs
                         THEN SendReply(client[d], Event("tick", nev + 1), payload, d \in oom1)
                         ELSE client[d]
      BY <2>1, <2>6, <2>8, <3>1
    <3>3. QED BY <1>4, <2>2, <3>1, <3>2, SpreadEvent
  <2>10. nev' = nev + (IF {"tick"} = {} THEN 0 ELSE 1)
    BY <1>1, <1>5
  <2>11. c \in listed
    BY <1>2 DEF ListedAreOpen
  <2>12. ts[c] = IF EventBit("tick") \in cs[c].subs
                   THEN SendReply(cs[c], x, payload, c \in oom1) ELSE cs[c]
    BY <2>6, <2>11
  <2>13. ts[c] \in GoodRec
    <3>1. cs[c] \in GoodRec /\ x \in Message /\ payload \in Nat
      BY <1>2, <1>4, <2>3
    <3>2. (c \in oom1) \in BOOLEAN
      OBVIOUS
    <3>3. QED BY ONLY ZenonT(30), <2>12, <3>1, <3>2, SendReplyGood
  <2>14. sock[c].got \in Seq(OutCell)
    BY AllStep
  <2>15. CASE client'[c].life = "open"
    <3>1. ts[c].life = "open"
      BY <2>8, <2>13, <2>15, ToldOpen
    <3>2. IF \E z \in {"tick"} : EventBit(z) \in cs[c].subs
            THEN \E z \in {"tick"}, p \in Nat, o \in BOOLEAN :
                   ts[c] = SendReply(cs[c], Event(z, nev + 1), p, o)
            ELSE ts[c] = cs[c]
      BY <1>4, <2>1, <2>12
    <3>3. Gained(sock[c].got, cs[c], ts[c], EventFor({"tick"}, cs[c].subs, nev + 1))
      <4>1. nev + 1 \in Nat
        BY <1>4
      <4>2. QED BY <1>2, <2>2, <2>14, <3>1, <3>2, <4>1, EventGained
    <3>4. Gained(sock[c].got, client[c], ts[c], EventFor({"tick"}, client[c].subs, nev + 1))
      BY <1>2, <3>3 DEF Gained
    <3>5. Gained(sock[c].got, ts[c], client'[c], <<m>>)
      <4>1. m \in Message /\ StatusLen \in Nat /\ (c \in oom2) \in BOOLEAN
        BY <1>3, <1>4
      <4>2. PICK g, k, o, k2 : g = sock[c].got /\ k = ts[c] /\ o = (c \in oom2) /\ k2 = client'[c]
        OBVIOUS
      <4>3. /\ g \in Seq(OutCell) /\ k \in GoodRec /\ k.life = "open" /\ m \in Message
            /\ StatusLen \in Nat /\ o \in BOOLEAN
            /\ SendReply(k, m, StatusLen, o).life = "open"
        BY ONLY <2>8, <2>13, <2>14, <2>15, <3>1, <4>1, <4>2
      <4>4. Gained(g, k, SendReply(k, m, StatusLen, o), <<m>>)
        BY ONLY ZenonT(30), <4>3, GainedReply
      <4>5. QED BY ONLY <2>8, <4>2, <4>4
    <3>6. QED BY <1>2, <1>3, <2>2, <2>9, <2>10, <3>4, <3>5, AnswerMaps
  <2>16. CASE client'[c].life # "open"
    <3>1. Spread(c, {"tick"})
      BY <2>16 DEF Spread
    <3>2. \A d \in Clients : sock'[d].got = sock[d].got /\ Spread(d, {"tick"})
      BY <2>9, <3>1
    <3>3. QED BY <2>2, <2>10, <3>2, SpreadMaps
  <2>17. QED BY <2>15, <2>16
<1>6. CASE ~HasListeners(cs, "tick")
  <2>1. told(payload, oom1) = cs /\ nev' = nev
    BY <1>1, <1>6 DEF TickSent
  <2>2. client' = [cs EXCEPT ![c] = SendReply(cs[c], m, StatusLen, c \in oom2)]
    BY <1>1, <2>1
  <2>3. QED BY <1>2, <1>3, <1>4, <2>1, <2>2, OneAnswerMaps
<1>7. QED BY <1>5, <1>6

LEMMA RequestMaps ==
  ASSUME AllInv, Next, ListedAreOpen, \A d \in Clients : sock'[d].got = sock[d].got,
         NEW c \in Clients, ReadHeader(c) \/ ReadPayload(c)
  PROVE  Delivery!Next
<1>1. /\ client[c].life = "open" /\ executing = NoClient /\ executing # c
      /\ client \in [Clients -> GoodRec] /\ client[c] \in GoodRec
      /\ NoClient \notin Clients
  BY ClientsAssumption DEF ReadHeader, ReadPayload, Dispatchable, Idle, AllInv, IInv
<1>2. PICK m \in 0..Len(sock[c].asked) :
             RepliesOf(client[c], sock[c].got, sock[c].asked, executing = c, m)
  BY DEF AllInv, RepliesInv
<1>3. /\ m \in Nat /\ AtRequest(client[c]) = m + 1
      /\ Replied(sock[c].got \o client[c].buf, sock[c].asked, m)
  <2>1. Len(sock[c].asked) \in Nat /\ client[c].hdr \in Nat
    BY <1>1, AllStep, LenProperties DEF GoodRec, ClientRec
  <2>2. QED BY <1>1, <1>2, <2>1 DEF RepliesOf, AtRequest
<1>4. SyncRec(client[c], sock[c])
  BY <1>1 DEF AllInv, SyncInv
<1>5. CASE Disconnect(c)
  <2>1. client' = [client EXCEPT ![c] = Fresh("gone")] /\ nev' = nev
    BY <1>5 DEF Disconnect, ClientsBecome, Disconnected
  <2>2. ASSUME NEW d \in Clients, client'[d].life = "open"
        PROVE  client'[d] = client[d]
    BY <1>1, <2>1, <2>2 DEF Fresh
  <2>3. QED BY <2>1, <2>2, QuietMaps
<1>6. ASSUME NEW n, HeaderRead(c, n)
      PROVE  Delivery!Next
  <2>1. PICK r : client' = [client EXCEPT ![c].pending = r.len, ![c].ptype = r.type,
                                          ![c].hdr = n]
    BY <1>6 DEF HeaderRead
  <2>2. nev' = nev
    BY <1>6 DEF HeaderRead
  <2>3. ASSUME NEW d \in Clients, client'[d].life = "open"
        PROVE  /\ client[d].life = "open"
               /\ client'[d].buf = client[d].buf /\ client'[d].subs = client[d].subs
    <3>1. CASE d = c
      <4>1. client[c] \in ClientRec
        BY <1>1 DEF GoodRec
      <4>2. client'[c] = [client[c] EXCEPT !.pending = r.len, !.ptype = r.type, !.hdr = n]
        BY <1>1, <2>1
      <4>3. QED BY <1>1, <3>1, <4>1, <4>2 DEF ClientRec
    <3>2. CASE d # c
      <4>1. client'[d] = client[d]
        BY <1>1, <2>1, <3>2
      <4>2. QED BY <2>3, <4>1
    <3>3. QED BY <3>1, <3>2
  <2>4. QED BY <2>2, <2>3, QuietMaps
<1>7. ASSUME NEW t \in RequestTypes, NEW len, NEW q,
             ClientHandleCommand(c, t, m + 1, len, q)
      PROVE  Delivery!Next
  <2>1. PICK arg : arg = IF len = 0 THEN <<>> ELSE sock[c].asked[q[1].n].arg
    OBVIOUS
  <2>2. PICK n : n = m + 1
    OBVIOUS
  <2>3. PICK cs : cs = [client EXCEPT ![c].pending = 0, ![c].ptype = t, ![c].hdr = n]
    OBVIOUS
  <2>4. Handled(cs, c, t, n, arg)
    BY <1>7, <2>1, <2>2, <2>3 DEF ClientHandleCommand, Handled
  <2>5. n \in Nat
    BY <1>3, <2>2
  <2>6. Received(cs, c)
    <3>1. cs[c] = [client[c] EXCEPT !.pending = 0, !.ptype = t, !.hdr = n]
      BY <1>1, <2>3
    <3>2. \A d \in Clients \ {c} : cs[d] = client[d]
      BY <1>1, <2>3
    <3>3. cs[c] \in GoodRec
      <4>1. 0 \in Nat /\ t \in RequestTypes \cup {"none"}
        OBVIOUS
      <4>2. [client[c] EXCEPT !.pending = 0, !.ptype = t, !.hdr = n] \in GoodRec
        BY <1>1, <2>5, <4>1, GoodKept, Zenon
      <4>3. QED BY <3>1, <4>2
    <3>4. client[c] \in ClientRec
      BY <1>1 DEF GoodRec
    <3>5. cs[c].life = client[c].life /\ cs[c].buf = client[c].buf
          /\ cs[c].subs = client[c].subs
      BY <3>1, <3>4 DEF ClientRec
    <3>6. cs \in [Clients -> GoodRec]
      <4>1. DOMAIN cs = Clients /\ cs = [d \in Clients |-> cs[d]]
        BY <1>1, <2>3
      <4>2. \A d \in Clients : cs[d] \in GoodRec
        BY <1>1, <3>2, <3>3
      <4>3. QED BY <4>1, <4>2
    <3>7. QED BY <1>1, <3>2, <3>5, <3>6 DEF Received
  <2>7. /\ \A x \in RequestTypes, ok \in BOOLEAN :
             <<Reply(x, ok, n)>> \in Delivery!AnswersFor(c)
        /\ \A x \in RequestTypes :
             <<Reply(x, TRUE, n), FirstTick(n)>> \in Delivery!AnswersFor(c)
    BY <1>1, <1>3, <2>2, AnsweredCount
  <2>8. QED
    BY <2>4, <2>5, <2>6, <2>7, CommandMaps, TickMaps, QueryMaps, SubscribeMaps,
       UnsubscribeMaps DEF Handled
<1>8. QED
  <2>1. \A n \in 1..Len(sock[c].asked) : sock[c].asked[n].type \in RequestTypes
    <3>1. sock[c].asked \in Seq(Requests)
      BY AllStep
    <3>2. \A r \in Requests : r.type \in RequestTypes
      BY RequestsAssumption DEF Request
    <3>3. QED BY <3>1, <3>2, ElementOfSeq
  <2>2. \/ Disconnect(c)
        \/ \E n \in 1..Len(sock[c].asked) :
             /\ n = m + 1
             /\ \/ HeaderRead(c, n)
                \/ \E len \in Nat : \E q :
                     ClientHandleCommand(c, sock[c].asked[n].type, n, len, q)
    BY <1>3, <1>4, ReadsNext DEF AllInv
  <2>3. QED BY <1>5, <1>6, <1>7, <2>1, <2>2

-----------------------------------------------------------------------------
(* The server implements the delivery, step by step.                       *)

LEMMA DeliveryInit == Init => Delivery!Init
<1> SUFFICES ASSUME Init PROVE Delivery!Init
  OBVIOUS
<1>1. ASSUME NEW d \in Clients
      PROVE  Conn[d] = "off" /\ Masks[d] = {} /\ Log[d] = <<>> /\ Seen[d] = 0
  <2>1. client[d] = Fresh("new") /\ sock[d].got = <<>>
    BY DEF Init
  <2>2. client[d].life = "new" /\ client[d].subs = {} /\ client[d].buf = <<>>
    BY <2>1 DEF Fresh
  <2>3. <<>> \o <<>> = <<>> /\ Len(<<>>) = 0
    OBVIOUS
  <2>4. client[d].life \in Lives
    BY <2>2 DEF Lives
  <2>5. QED BY <2>1, <2>2, <2>3, <2>4, Views, WholeEmpty
<1>2. /\ Conn = [c \in Clients |-> "off"] /\ Masks = [c \in Clients |-> {}]
      /\ Log = [c \in Clients |-> <<>>] /\ Seen = [c \in Clients |-> 0]
  BY <1>1, ViewFunctions
<1>3. QED BY <1>2 DEF Init, Delivery!Init

LEMMA DeliveryStep ==
  ASSUME AllInv, ListedAreOpen, [Next]_vars
  PROVE  [Delivery!Next]_Delivery!vars
<1>1. CASE UNCHANGED vars
  <2>1. client' = client /\ sock' = sock /\ nev' = nev
    BY <1>1 DEF vars
  <2>2. Conn' = Conn /\ Masks' = Masks /\ Log' = Log /\ Seen' = Seen
    BY <2>1 DEF Conn, Masks, Log, Seen, Out
  <2>3. QED BY <2>1, <2>2 DEF Delivery!vars
<1>2. CASE Next /\ \E c \in Clients : ClientHandleWritable(c)
  BY <1>2, WriteMaps
<1>3. CASE Next /\ ~\E c \in Clients : ClientHandleWritable(c)
  <2>0. \A d \in Clients : sock'[d].got = sock[d].got
    BY <1>3, GotStays DEF AllInv
  <2>1. CASE HandleConnection
    BY <1>3, <2>1, AcceptMaps
  <2>2. CASE CommandDone
    BY <1>3, <2>2, CommandDoneMaps
  <2>3. CASE \E e \in PluginEvents : Publish(e)
    BY <1>3, <2>3, PublishMaps
  <2>4. CASE \E c \in Clients : ReadHeader(c) \/ ReadPayload(c)
    BY <1>3, <2>0, <2>4, RequestMaps
  <2>5. ASSUME nev' = nev,
               \A d \in Clients : client'[d].life = "open" => client'[d] = client[d]
        PROVE  Delivery!Next
    BY <1>3, <2>0, <2>5, QuietMaps
  <2>6. CASE Serve \/ ServeFails \/ HandleDisplayDestroy
    <3>1. Fresh("gone").life # "open"
      BY DEF Fresh
    <3>2. nev' = nev
      BY <2>6 DEF Serve, ServeFails, HandleDisplayDestroy
    <3>3. ASSUME NEW d \in Clients
          PROVE  client'[d] = client[d] \/ client'[d] = Fresh("gone")
      BY <2>6 DEF Serve, ServeFails, HandleDisplayDestroy, Disconnected
    <3>4. QED BY <2>5, <3>1, <3>2, <3>3
  <2>7. CASE \E c \in Clients : HandleHangup(c) \/ SocketError(c) \/ Peer(c)
    <3>1. PICK c \in Clients : HandleHangup(c) \/ SocketError(c) \/ Peer(c)
      BY <2>7
    <3>2. Fresh("gone").life # "open" /\ Fresh("queued").life # "open"
      BY DEF Fresh
    <3>3. /\ nev' = nev
          /\ \/ client' = client
             \/ client' = [client EXCEPT ![c] = Fresh("gone")]
             \/ client' = [client EXCEPT ![c] = Fresh("queued")]
      BY <3>1 DEF HandleHangup, SocketError, Disconnect, ClientsBecome, Disconnected, Peer,
                  PeerConnect, PeerSend, Arrive, PeerHangup
    <3>4. client \in [Clients -> GoodRec]
      BY DEF AllInv, IInv
    <3>5. \A d \in Clients : client'[d].life = "open" => client'[d] = client[d]
      BY <3>2, <3>3, <3>4
    <3>6. QED BY <2>5, <3>3, <3>5
  <2>8. QED BY <1>3, <2>1, <2>2, <2>3, <2>4, <2>6, <2>7 DEF Next, Plugin, Handler
<1>4. QED BY <1>1, <1>2, <1>3

(***************************************************************************)
(* The server, with its buffers, its partial reads and writes and its lost *)
(* clients, keeps the promise of IpcDelivery.  It is started once, as the  *)
(* plugin does it as long as it is not unloaded; module IpcPlugin is about *)
(* what happens to the list of the clients when it is.                     *)
(***************************************************************************)
THEOREM DeliveryHolds ==
  ASSUME MaxServes <= 1
  PROVE  Spec => DeliverySpec
<1>1. AllInv /\ ListedAreOpen /\ [Next]_vars => [Delivery!Next]_Delivery!vars
  BY DeliveryStep
<1>2. IInv /\ LifeInv /\ SyncInv /\ RepliesInv /\ LogInv => AllInv
  BY DEF AllInv
<1>3. Spec => []ListedAreOpen
  BY ListedAreOpenHolds
<1>4. QED
  BY <1>1, <1>2, <1>3, DeliveryInit, Invariant, LifeInvariant, SyncInvariant,
     RepliesInvariant, LogInvariant, PTL DEF Spec, DeliverySpec, Delivery!Spec
=================================================================================
