---------------------------- MODULE IpcServerProofs ----------------------------
(***************************************************************************)
(* Theorems about module IpcServer, for every value of its constants.      *)
(***************************************************************************)
EXTENDS IpcServerProps, SequenceTheorems, WellFoundedInduction, TLAPS

-----------------------------------------------------------------------------
(* A set of naturals has a least element: what CHOOSE picks in SendReply.  *)

Less == {ss \in Nat \X Nat : ss[1] < ss[2]}

LEMMA LeastNat ==
  ASSUME NEW S, S \subseteq Nat, S # {}
  PROVE  \E s \in S : \A t \in S : s <= t
<1>1. IsWellFoundedOn(Less, Nat)
  BY NatLessThanWellFounded, Zenon DEF OpToRel, Less
<1>2. PICK x \in S : \A y \in S : <<y, x>> \notin Less
  BY <1>1, WFMin, Zenon
<1>3. ASSUME NEW t \in S PROVE x <= t
  <2>1. x \in Nat /\ t \in Nat
    BY <1>2
  <2>2. <<t, x>> \in Less <=> t < x
    BY <2>1 DEF Less
  <2>3. QED BY <1>2, <2>1, <2>2
<1>4. QED BY <1>2, <1>3

-----------------------------------------------------------------------------
(* The strengthening that is inductive: the types, and for every client    *)
(* what the buffer, its size and the writable source say of each other.    *)

GoodClient(k) ==
  /\ k.life = "open" => (k.writable <=> k.buf # <<>>)
  /\ Len(k.buf) < k.size

GoodRec == {k \in ClientRec : GoodClient(k)}

\* The bytes on their way to the server are those of requests of the peer.
GoodSock(s) ==
  /\ \A i \in 1..Len(s.wire) : s.wire[i].n \in 1..Len(s.asked)
  /\ \A i \in 1..Len(s.inq) : s.inq[i].n \in 1..Len(s.asked)

GoodSockRec == {s \in SockRec : GoodSock(s)}

IInv ==
  /\ TypeOK
  /\ client \in [Clients -> GoodRec]
  /\ sock \in [Clients -> GoodSockRec]

LEMMA SizesNat ==
  /\ HeaderSize \in Nat /\ HeaderSize > 0 /\ StatusLen \in Nat
  /\ PayloadLens \subseteq Nat
BY SizesAssumption

LEMMA BufSizesNat == BufSizes \subseteq Nat /\ \A s \in BufSizes : s <= MaxBufSize
BY SizesAssumption DEF BufSizes

\* A new frame consists of cells and has at least one.
LEMMA FrameType ==
  ASSUME NEW m \in Message, NEW payload \in Nat
  PROVE  /\ Frame(m, payload) \in Seq(OutCell)
         /\ Len(Frame(m, payload)) = HeaderSize + payload
         /\ Frame(m, payload) # <<>>
<1>1. HeaderSize + payload \in Nat /\ HeaderSize + payload > 0
  BY SizesNat
<1>2. ASSUME NEW i \in 1..HeaderSize + payload
      PROVE  [msg |-> m, at |-> i, left |-> HeaderSize + payload - i] \in OutCell
  <2>1. i \in Nat /\ HeaderSize + payload - i \in Nat
    BY <1>1, SizesNat
  <2>2. QED BY <2>1 DEF OutCell
<1>3. Frame(m, payload) \in [1..HeaderSize + payload -> OutCell]
  BY <1>2 DEF Frame
<1>4. Frame(m, payload) \in Seq(OutCell)
  BY <1>1, <1>3
<1>5. QED
  BY <1>1, <1>3, <1>4

\* client_disconnect, and a client that has just been connected, are good.
LEMMA FreshGood ==
  ASSUME NEW life \in Lives
  PROVE  Fresh(life) \in GoodRec
<1>1. <<>> \in Seq(OutCell) /\ Len(<<>>) = 0
  BY EmptySeq
<1>2. InitBufSize \in BufSizes /\ 0 < InitBufSize
  BY SizesAssumption DEF BufSizes
<1>3. QED
  BY <1>1, <1>2 DEF Fresh, GoodRec, GoodClient, ClientRec

\* send_reply: the buffer has room for what is copied, and the writable
\* source is registered.
LEMMA SendReplyGood ==
  ASSUME NEW k \in GoodRec, NEW m \in Message, NEW payload \in Nat,
         NEW oom \in BOOLEAN
  PROVE  SendReply(k, m, payload, oom) \in GoodRec
<1>k. k \in ClientRec /\ GoodClient(k) /\ payload \in Nat
  BY DEF GoodRec
<1>1. CASE k.life # "open"
  <2>1. SendReply(k, m, payload, oom) = [k EXCEPT !.life = "touched"]
    BY <1>1 DEF SendReply
  <2>2. QED
    BY <1>k, <2>1 DEF GoodRec, GoodClient, ClientRec, Lives
<1>2. CASE k.life = "open" /\ (oom \/ RoomySizes(k, payload) = {})
  <2>1. SendReply(k, m, payload, oom) = Fresh("gone")
    BY <1>2 DEF SendReply, Disconnected
  <2>2. QED
    BY <2>1, FreshGood DEF Lives
<1>3. CASE k.life = "open" /\ ~oom /\ RoomySizes(k, payload) # {}
  <2> DEFINE S == RoomySizes(k, payload)
             size == CHOOSE s \in S : \A t \in S : s <= t
             buf == k.buf \o Frame(m, payload)
  <2>1. SendReply(k, m, payload, oom) =
          [k EXCEPT !.buf = buf, !.size = size, !.writable = TRUE]
    BY <1>3 DEF SendReply
  <2>2. S \subseteq Nat /\ S \subseteq BufSizes
    BY BufSizesNat DEF RoomySizes
  <2>3. size \in S
    BY <1>3, <2>2, LeastNat
  <2>4. k.buf \in Seq(OutCell) /\ Len(k.buf) \in Nat
    BY <1>k DEF ClientRec
  <2>5. /\ Frame(m, payload) \in Seq(OutCell)
        /\ Len(Frame(m, payload)) = HeaderSize + payload
        /\ Frame(m, payload) # <<>>
    BY FrameType
  <2>6. /\ buf \in Seq(OutCell)
        /\ Len(buf) = Len(k.buf) + (HeaderSize + payload)
        /\ buf # <<>>
    <3>1. buf \in Seq(OutCell) /\ Len(buf) = Len(k.buf) + Len(Frame(m, payload))
      BY <2>4, <2>5, ConcatProperties
    <3>2. buf # <<>>
      BY <3>1, <2>4, <2>5, SizesNat, EmptySeq
    <3>3. Len(buf) = Len(k.buf) + (HeaderSize + payload)
      BY <3>1, <2>5, Zenon
    <3>4. QED BY <3>1, <3>2, <3>3, Zenon
  <2>7. Len(buf) < size /\ size \in BufSizes
    <3> HIDE DEF size, buf
    <3>1. size \in BufSizes /\ Len(k.buf) + HeaderSize + payload < size
      BY <2>3 DEF RoomySizes
    <3>2. Len(k.buf) + HeaderSize + payload = Len(k.buf) + (HeaderSize + payload)
      <4>1. \A a, b, d \in Nat : a + b + d = a + (b + d)
        OBVIOUS
      <4>2. QED BY <4>1, <1>k, <2>4, SizesNat
    <3>3. QED BY <2>6, <3>1, <3>2, Zenon
  <2>8. QED
    BY <1>k, <1>3, <2>1, <2>6, <2>7 DEF GoodRec, GoodClient, ClientRec
<1>4. QED
  BY <1>1, <1>2, <1>3

\* The messages the server sends are messages.
LEMMA MessageTypes ==
  /\ \A t \in RequestTypes, ok \in BOOLEAN, n \in Nat : Reply(t, ok, n) \in Message
  /\ \A e \in Events, n \in Nat : Event(e, n) \in Message /\ Event(e, n).type = e
  /\ \A n \in Nat : FirstTick(n) \in Message
<1>1. "tick" \in Events
  BY DEF Events, EventNo
<1>2. QED
  BY <1>1 DEF Reply, Event, FirstTick, Message

\* send_event: every client it leaves is good.
LEMMA SendEventGood ==
  ASSUME NEW cs \in [Clients -> GoodRec], NEW m \in Message, NEW payload \in Nat,
         NEW oom \in SUBSET MayFail
  PROVE  SendEvent(cs, m, payload, oom) \in [Clients -> GoodRec]
<1>1. ASSUME NEW c \in Clients
      PROVE  SendReply(cs[c], m, payload, c \in oom) \in GoodRec
  <2>1. cs[c] \in GoodRec /\ (c \in oom) \in BOOLEAN
    OBVIOUS
  <2>2. QED BY <2>1, SendReplyGood, Zenon
<1>2. QED
  BY <1>1 DEF SendEvent

\* A handler leaves good clients, and a list of clients.
LEMMA BecomeGood ==
  ASSUME TypeOK, NEW cs \in [Clients -> GoodRec], ClientsBecome(cs)
  PROVE  client' \in [Clients -> GoodRec] /\ listed' \in SUBSET Clients
BY DEF ClientsBecome, StillListed, TypeOK

-----------------------------------------------------------------------------
(* The handlers of the requests. *)

LEMMA SubscribedType ==
  ASSUME NEW subs \in SUBSET Bits, NEW arg
  PROVE  Subscribed(subs, arg) \in SUBSET Bits /\ Unsubscribed(subs, arg) \in SUBSET Bits
<1>1. SubscribeNames \subseteq Events
  BY DEF SubscribeNames, Events, EventNo
<1>2. ASSUME Unsupported(arg, SubscribeNames) = {}, NEW i \in DOMAIN arg,
             arg[i] # NotString
      PROVE  EventBit(arg[i]) \in Bits
  BY <1>1, <1>2 DEF Unsupported, Bits
<1>3. Subscribed(subs, arg) \in SUBSET Bits
  BY <1>2 DEF Subscribed
<1>4. Unsubscribed(subs, arg) \in SUBSET Bits
  BY DEF Unsubscribed
<1>5. QED BY <1>3, <1>4

\* What every handler of a request establishes.
HandlerPost ==
  /\ client' \in [Clients -> GoodRec]
  /\ listed' \in SUBSET Clients
  /\ executing' \in Clients \cup {NoClient}
  /\ nev' \in Nat

LEMMA SendTickGood ==
  ASSUME IInv, NEW cs \in [Clients -> GoodRec], NEW c \in Clients, NEW n \in Nat,
         SendTick(cs, c, n)
  PROVE  HandlerPost
<1>0. TypeOK /\ nev \in Nat /\ nev + 1 \in Nat /\ executing \in Clients \cup {NoClient}
  BY DEF IInv, TypeOK
<1>1. PICK payload \in PayloadLens, oom1 \in SUBSET MayFail, oom2 \in SUBSET MayFail :
        LET told == TickSent(cs, payload, oom1)
        IN /\ ClientsBecome([told EXCEPT
                                ![c] = SendStatus(@, "send_tick", TRUE, n, c \in oom2)])
           /\ nev' = IF HasListeners(cs, "tick") THEN nev + 1 ELSE nev
           /\ UNCHANGED executing
  BY DEF SendTick
<1> DEFINE told == TickSent(cs, payload, oom1)
<1>2. Event("tick", nev + 1) \in Message /\ Reply("send_tick", TRUE, n) \in Message
  BY <1>0, MessageTypes DEF RequestTypes, Events, EventNo
<1>3. told \in [Clients -> GoodRec]
  BY <1>2, SendEventGood, SizesNat DEF TickSent
<1>4. SendStatus(told[c], "send_tick", TRUE, n, c \in oom2) \in GoodRec
  <2>1. told[c] \in GoodRec /\ (c \in oom2) \in BOOLEAN /\ StatusLen \in Nat
    <3> HIDE DEF told
    <3>1. QED BY <1>3, SizesNat
  <2>2. QED BY <1>2, <2>1, SendReplyGood, Zenon DEF SendStatus
<1>5. [told EXCEPT ![c] = SendStatus(@, "send_tick", TRUE, n, c \in oom2)]
        \in [Clients -> GoodRec]
  BY <1>3, <1>4
<1>6. client' \in [Clients -> GoodRec] /\ listed' \in SUBSET Clients
  BY <1>0, <1>1, <1>5, BecomeGood
<1>7. QED BY <1>0, <1>1, <1>6 DEF HandlerPost

LEMMA CommandGood ==
  ASSUME IInv, NEW cs \in [Clients -> GoodRec], NEW c \in Clients,
         ExecuteCommand(cs, c)
  PROVE  HandlerPost
BY BecomeGood DEF ExecuteCommand, HandlerPost, IInv, TypeOK

LEMMA AnswerQueryGood ==
  ASSUME IInv, NEW cs \in [Clients -> GoodRec], NEW c \in Clients, NEW n \in Nat,
         AnswerQuery(cs, c, n)
  PROVE  HandlerPost
<1>1. PICK payload \in PayloadLens, oom \in SUBSET MayFail :
        /\ ClientsBecome([cs EXCEPT
              ![c] = SendReply(@, Reply("query", TRUE, n), payload, c \in oom)])
        /\ UNCHANGED <<executing, nev>>
  BY DEF AnswerQuery
<1>2. Reply("query", TRUE, n) \in Message
  BY MessageTypes DEF RequestTypes
<1>3. cs[c] \in GoodRec /\ (c \in oom) \in BOOLEAN /\ payload \in Nat
  BY SizesNat
<1>4. SendReply(cs[c], Reply("query", TRUE, n), payload, c \in oom) \in GoodRec
  BY <1>2, <1>3, SendReplyGood, Zenon
<1>5. QED
  BY <1>1, <1>4, BecomeGood DEF HandlerPost, IInv, TypeOK

LEMMA RefuseGood ==
  ASSUME IInv, NEW cs \in [Clients -> GoodRec], NEW c \in Clients, NEW n \in Nat,
         Refuse(cs, c, n)
  PROVE  HandlerPost
<1>1. PICK oom \in SUBSET MayFail :
        /\ ClientsBecome([cs EXCEPT ![c] = SendStatus(@, "other", FALSE, n, c \in oom)])
        /\ UNCHANGED <<executing, nev>>
  BY DEF Refuse
<1>2. Reply("other", FALSE, n) \in Message
  BY MessageTypes DEF RequestTypes
<1>3. cs[c] \in GoodRec /\ (c \in oom) \in BOOLEAN /\ StatusLen \in Nat
  BY SizesNat
<1>4. SendStatus(cs[c], "other", FALSE, n, c \in oom) \in GoodRec
  BY <1>2, <1>3, SendReplyGood, Zenon DEF SendStatus
<1>5. QED
  BY <1>1, <1>4, BecomeGood DEF HandlerPost, IInv, TypeOK

\* Changing the mask of a good client leaves it good.
LEMMA MaskGood ==
  ASSUME NEW k \in GoodRec, NEW subs \in SUBSET Bits
  PROVE  [k EXCEPT !.subs = subs] \in GoodRec
BY DEF GoodRec, GoodClient, ClientRec

LEMMA UnsubscribeGood ==
  ASSUME IInv, NEW cs \in [Clients -> GoodRec], NEW c \in Clients, NEW n \in Nat,
         NEW arg, Unsubscribe(cs, c, n, arg)
  PROVE  HandlerPost
<1> DEFINE ok == arg # <<>> /\ Unsupported(arg, UnsubscribeNames) = {}
           k == [cs[c] EXCEPT !.subs = Unsubscribed(@, arg)]
<1>1. PICK oom \in SUBSET MayFail :
        /\ ClientsBecome([cs EXCEPT
              ![c] = SendStatus(k, "unsubscribe", ok, n, c \in oom)])
        /\ UNCHANGED <<executing, nev>>
  BY DEF Unsubscribe
<1>2. cs[c] \in GoodRec /\ cs[c].subs \in SUBSET Bits
  BY DEF GoodRec, ClientRec
<1>3. k \in GoodRec
  BY <1>2, SubscribedType, MaskGood
<1>4. ok \in BOOLEAN /\ (c \in oom) \in BOOLEAN /\ StatusLen \in Nat
  BY SizesNat
<1>5. Reply("unsubscribe", ok, n) \in Message
  BY <1>4, MessageTypes DEF RequestTypes
<1>6. SendStatus(k, "unsubscribe", ok, n, c \in oom) \in GoodRec
  <2> HIDE DEF k, ok
  <2>1. QED BY <1>3, <1>4, <1>5, SendReplyGood, Zenon DEF SendStatus
<1>7. QED
  <2> HIDE DEF k, ok
  <2>1. QED BY <1>1, <1>6, BecomeGood DEF HandlerPost, IInv, TypeOK

LEMMA SubscribeGood ==
  ASSUME IInv, NEW cs \in [Clients -> GoodRec], NEW c \in Clients, NEW n \in Nat,
         NEW arg, Subscribe(cs, c, n, arg)
  PROVE  HandlerPost
<1> DEFINE ok == arg # <<>> /\ Unsupported(arg, SubscribeNames) = {}
           k == [cs[c] EXCEPT !.subs = IF arg = <<>> THEN @ ELSE Subscribed(@, arg)]
           told(oom) == SendStatus(k, "subscribe", ok, n, c \in oom)
           tick == ok /\ \E i \in DOMAIN arg : arg[i] = "tick"
<1>1. PICK payload \in PayloadLens, oom1 \in SUBSET MayFail, oom2 \in SUBSET MayFail :
        /\ ClientsBecome([cs EXCEPT
             ![c] = IF tick THEN SendReply(told(oom1), FirstTick(n), payload, c \in oom2)
                    ELSE told(oom1)])
        /\ UNCHANGED <<executing, nev>>
  BY DEF Subscribe
<1>2. cs[c] \in GoodRec /\ cs[c].subs \in SUBSET Bits
  BY DEF GoodRec, ClientRec
<1>3. k \in GoodRec
  BY <1>2, SubscribedType, MaskGood
<1>4. /\ ok \in BOOLEAN /\ StatusLen \in Nat /\ payload \in Nat
      /\ (c \in oom1) \in BOOLEAN /\ (c \in oom2) \in BOOLEAN
  BY SizesNat
<1>5. Reply("subscribe", ok, n) \in Message /\ FirstTick(n) \in Message
  BY <1>4, MessageTypes DEF RequestTypes
<1>6. told(oom1) \in GoodRec
  <2> HIDE DEF k, ok
  <2>1. QED BY <1>3, <1>4, <1>5, SendReplyGood, Zenon DEF SendStatus
<1>7. SendReply(told(oom1), FirstTick(n), payload, c \in oom2) \in GoodRec
  <2> HIDE DEF told
  <2>1. QED BY <1>4, <1>5, <1>6, SendReplyGood, Zenon
<1>8. QED
  <2> HIDE DEF told, tick
  <2>1. QED BY <1>1, <1>6, <1>7, BecomeGood DEF HandlerPost, IInv, TypeOK

-----------------------------------------------------------------------------
(* The steps. *)

\* Cutting len cells off the front of a receive queue.
LEMMA CutQueue ==
  ASSUME NEW s \in GoodSockRec, NEW len \in Nat, NEW q \in Seq(InCell),
         \A i \in 1..Len(q) : q[i].n \in 1..Len(s.asked)
  PROVE  [s EXCEPT !.inq = SubSeq(q, len + 1, Len(q))] \in GoodSockRec
<1> DEFINE rest == SubSeq(q, len + 1, Len(q))
<1>1. Len(q) \in Nat /\ \A i \in len + 1..Len(q) : q[i] \in InCell
  BY LenProperties
<1>2. /\ rest \in Seq(InCell)
      /\ Len(rest) = IF len + 1 <= Len(q) THEN Len(q) - (len + 1) + 1 ELSE 0
      /\ \A i \in 1..Len(q) - (len + 1) + 1 : rest[i] = q[len + 1 + i - 1]
  <2>1. len + 1 \in Int /\ Len(q) \in Int
    BY <1>1
  <2>2. QED BY <1>1, <2>1, SubSeqProperties
<1>3. ASSUME NEW i \in 1..Len(rest) PROVE rest[i].n \in 1..Len(s.asked)
  <2>1. i \in 1..Len(q) - (len + 1) + 1 /\ len + 1 + i - 1 \in 1..Len(q)
    <3> HIDE DEF rest
    <3>1. QED BY <1>1, <1>2
  <2>2. QED BY <1>2, <2>1
<1>4. [s EXCEPT !.inq = rest] \in GoodSockRec
  <2> HIDE DEF rest
  <2>1. s \in SockRec /\ GoodSock(s)
    BY DEF GoodSockRec
  <2>2. [s EXCEPT !.inq = rest] \in SockRec
    BY <1>2, <2>1 DEF SockRec
  <2>3. GoodSock([s EXCEPT !.inq = rest])
    BY <1>3, <2>1 DEF GoodSock, SockRec
  <2>4. QED BY <2>2, <2>3 DEF GoodSockRec
<1>5. QED BY <1>4, Zenon

\* The invariant, part by part: what a step has to establish.
LEMMA Establish ==
  ASSUME client' \in [Clients -> GoodRec], sock' \in [Clients -> GoodSockRec],
         server' \in {"down", "listening", "closed", "exited"}, serves' \in Nat,
         queue' \in Seq(Clients), listed' \in SUBSET Clients,
         executing' \in Clients \cup {NoClient}, nev' \in Nat
  PROVE  IInv'
<1>1. client' \in [Clients -> ClientRec] /\ sock' \in [Clients -> SockRec]
  BY DEF GoodRec, GoodSockRec
<1>2. QED BY <1>1 DEF IInv, TypeOK

\* ipc_client_handle_command, with the header's type, number and length.
LEMMA ClientHandleCommandGood ==
  ASSUME IInv, NEW c \in Clients, NEW t \in RequestTypes \cup {"none"}, NEW n \in Nat,
         NEW len \in Nat, NEW q \in Seq(InCell),
         \A i \in 1..Len(q) : q[i].n \in 1..Len(sock[c].asked),
         ClientHandleCommand(c, t, n, len, q)
  PROVE  IInv'
<1> DEFINE cs == [client EXCEPT ![c].pending = 0, ![c].ptype = t, ![c].hdr = n]
           arg == IF len = 0 THEN <<>> ELSE sock[c].asked[q[1].n].arg
<1>1. cs \in [Clients -> GoodRec]
  <2>1. client[c] \in GoodRec /\ client \in [Clients -> GoodRec]
    BY DEF IInv
  <2>2. [client[c] EXCEPT !.pending = 0, !.ptype = t, !.hdr = n] \in GoodRec
    BY <2>1 DEF GoodRec, GoodClient, ClientRec
  <2>3. QED BY <2>1, <2>2
<1>2. HandlerPost
  <2>0. \/ t = "command" /\ ExecuteCommand(cs, c)
        \/ t = "send_tick" /\ SendTick(cs, c, n)
        \/ t = "query" /\ AnswerQuery(cs, c, n)
        \/ t = "subscribe" /\ Subscribe(cs, c, n, arg)
        \/ t = "unsubscribe" /\ Unsubscribe(cs, c, n, arg)
        \/ t = "other" /\ Refuse(cs, c, n)
    BY DEF ClientHandleCommand
  <2> HIDE DEF cs, arg
  <2>1. CASE ExecuteCommand(cs, c)
    BY <1>1, <2>1, CommandGood
  <2>2. CASE SendTick(cs, c, n)
    BY <1>1, <2>2, SendTickGood
  <2>3. CASE AnswerQuery(cs, c, n)
    BY <1>1, <2>3, AnswerQueryGood
  <2>4. CASE Subscribe(cs, c, n, arg)
    BY <1>1, <2>4, SubscribeGood
  <2>5. CASE Unsubscribe(cs, c, n, arg)
    BY <1>1, <2>5, UnsubscribeGood
  <2>6. CASE Refuse(cs, c, n)
    BY <1>1, <2>6, RefuseGood
  <2>7. QED BY <2>0, <2>1, <2>2, <2>3, <2>4, <2>5, <2>6
<1>3. sock' \in [Clients -> GoodSockRec]
  <2>1. sock \in [Clients -> GoodSockRec]
    BY DEF IInv
  <2>2. [sock[c] EXCEPT !.inq = SubSeq(q, len + 1, Len(q))] \in GoodSockRec
    BY <2>1, CutQueue
  <2>3. sock' = [sock EXCEPT ![c].inq = SubSeq(q, len + 1, Len(q))]
    BY DEF ClientHandleCommand
  <2>4. QED BY <2>1, <2>2, <2>3
<1>4. UNCHANGED <<server, serves, queue>>
  BY DEF ClientHandleCommand
<1>5. QED BY <1>2, <1>3, <1>4, Establish DEF HandlerPost, IInv, TypeOK

LEMMA DisconnectGood ==
  ASSUME IInv, NEW c \in Clients, Disconnect(c)
  PROVE  IInv'
<1>1. [client EXCEPT ![c] = Disconnected(@)] \in [Clients -> GoodRec]
  BY FreshGood DEF Disconnected, Lives, IInv
<1>2. client' \in [Clients -> GoodRec] /\ listed' \in SUBSET Clients
  BY <1>1, BecomeGood DEF Disconnect, IInv
<1>3. QED BY <1>2, Establish DEF Disconnect, IInv, TypeOK

LEMMA ReadHeaderGood ==
  ASSUME IInv, NEW c \in Clients, ReadHeader(c)
  PROVE  IInv'
<1> DEFINE s == sock[c]
           q == s.inq
           n == q[1].n
           r == s.asked[n]
           rest == SubSeq(q, HeaderSize + 1, Len(q))
<1>1. /\ s \in GoodSockRec /\ s \in SockRec /\ q \in Seq(InCell)
      /\ s.asked \in Seq(Requests)
      /\ \A i \in 1..Len(q) : q[i].n \in 1..Len(s.asked)
  BY DEF IInv, GoodSockRec, GoodSock, SockRec
<1>2. Len(q) \in Nat /\ Len(q) >= HeaderSize /\ HeaderSize \in Nat /\ HeaderSize > 0
  BY <1>1, SizesNat, LenProperties DEF ReadHeader
<1>3. n \in 1..Len(s.asked) /\ n \in Nat
  <2>1. 1 \in 1..Len(q)
    BY <1>2
  <2>2. n \in 1..Len(s.asked) /\ Len(s.asked) \in Nat
    BY <1>1, <2>1, LenProperties
  <2>3. QED BY <2>2
<1>4. r \in Requests
  BY <1>1, <1>3, ElementOfSeq
<1>5. r.type \in RequestTypes /\ r.len \in Nat
  BY <1>4, RequestsAssumption DEF Request
<1>6. [s EXCEPT !.inq = rest] \in GoodSockRec
  BY <1>1, <1>2, CutQueue
<1>7. /\ rest \in Seq(InCell)
      /\ \A i \in 1..Len(rest) : rest[i].n \in 1..Len(s.asked)
  <2> HIDE DEF rest
  <2>1. QED BY <1>1, <1>6 DEF GoodSockRec, GoodSock, SockRec
<1>8. CASE ~IsHeader(c)
  BY <1>8, DisconnectGood DEF ReadHeader
<1>9. CASE IsHeader(c) /\ Len(rest) >= r.len
  <2>1. ClientHandleCommand(c, r.type, n, r.len, rest)
    BY <1>9 DEF ReadHeader
  <2>2. QED
    <3> HIDE DEF rest, r, n
    <3>1. QED BY <1>3, <1>5, <1>7, <2>1, ClientHandleCommandGood
<1>10. CASE IsHeader(c) /\ ~(Len(rest) >= r.len)
  <2>1. /\ client' = [client EXCEPT ![c].pending = r.len, ![c].ptype = r.type,
                                    ![c].hdr = n]
        /\ sock' = [sock EXCEPT ![c].inq = rest]
        /\ UNCHANGED <<server, serves, queue, listed, executing, nev>>
    BY <1>10 DEF ReadHeader
  <2> HIDE DEF rest, r, n
  <2>2. client[c] \in GoodRec /\ client \in [Clients -> GoodRec]
    BY DEF IInv
  <2>3. [client[c] EXCEPT !.pending = r.len, !.ptype = r.type, !.hdr = n] \in GoodRec
    BY <1>3, <1>5, <2>2 DEF GoodRec, GoodClient, ClientRec
  <2>4. client' \in [Clients -> GoodRec]
    BY <2>1, <2>2, <2>3
  <2>5. sock' \in [Clients -> GoodSockRec]
    BY <1>6, <2>1 DEF IInv
  <2>6. QED BY <2>1, <2>4, <2>5, Establish DEF IInv, TypeOK
<1>11. QED BY <1>8, <1>9, <1>10

LEMMA ReadPayloadGood ==
  ASSUME IInv, NEW c \in Clients, ReadPayload(c)
  PROVE  IInv'
<1>1. client[c] \in GoodRec /\ sock[c] \in GoodSockRec
  BY DEF IInv
<1>2. /\ client[c].ptype \in RequestTypes \cup {"none"}
      /\ client[c].hdr \in Nat /\ client[c].pending \in Nat
  BY <1>1 DEF GoodRec, ClientRec
<1>3. /\ sock[c].inq \in Seq(InCell)
      /\ \A i \in 1..Len(sock[c].inq) : sock[c].inq[i].n \in 1..Len(sock[c].asked)
  BY <1>1 DEF GoodSockRec, GoodSock, SockRec
<1>4. ClientHandleCommand(c, client[c].ptype, client[c].hdr, client[c].pending,
                          sock[c].inq)
  BY DEF ReadPayload
<1>5. QED BY <1>2, <1>3, <1>4, ClientHandleCommandGood

\* A partial write: what is left is shorter, so it still fits, and the
\* source is kept exactly if something is left.
LEMMA ClientHandleWritableGood ==
  ASSUME IInv, NEW c \in Clients, ClientHandleWritable(c)
  PROVE  IInv'
<1> DEFINE k == client[c]
           rest(w) == SubSeq(k.buf, w + 1, Len(k.buf))
<1>1. PICK w \in 1..Len(k.buf) : Written(c, w, rest(w), rest(w) # <<>>)
  BY DEF ClientHandleWritable
<1>2. /\ k \in GoodRec /\ k \in ClientRec /\ GoodClient(k)
      /\ k.buf \in Seq(OutCell) /\ k.size \in Nat
  BY BufSizesNat DEF IInv, GoodRec, ClientRec
<1>3. /\ Len(k.buf) \in Nat /\ w \in Nat /\ w >= 1 /\ w <= Len(k.buf)
      /\ \A i \in 1..Len(k.buf) : k.buf[i] \in OutCell
  BY <1>2, LenProperties
<1>4. /\ rest(w) \in Seq(OutCell)
      /\ Len(rest(w)) = IF w + 1 <= Len(k.buf) THEN Len(k.buf) - (w + 1) + 1 ELSE 0
  <2>1. w + 1 \in Int /\ Len(k.buf) \in Int /\ \A i \in w + 1..Len(k.buf) : k.buf[i] \in OutCell
    BY <1>3
  <2>2. QED BY <2>1, SubSeqProperties
<1>5. SubSeq(k.buf, 1, w) \in Seq(OutCell)
  <2>1. w \in Int /\ \A i \in 1..w : k.buf[i] \in OutCell
    BY <1>3
  <2>2. QED BY <2>1, SubSeqProperties
<1>6. [k EXCEPT !.buf = rest(w), !.writable = rest(w) # <<>>] \in GoodRec
  <2>1. Len(rest(w)) < k.size
    <3> HIDE DEF rest, k
    <3>1. Len(k.buf) < k.size
      BY <1>2 DEF GoodClient
    <3>2. QED BY <1>2, <1>3, <1>4, <3>1
  <2> HIDE DEF rest
  <2>2. QED BY <1>2, <1>4, <2>1 DEF GoodRec, GoodClient, ClientRec
<1>7. client' \in [Clients -> GoodRec]
  <2>1. client' = [client EXCEPT ![c].buf = rest(w), ![c].writable = rest(w) # <<>>]
    BY <1>1 DEF Written
  <2> HIDE DEF rest
  <2>2. client \in [Clients -> GoodRec]
    BY DEF IInv
  <2>3. QED BY <1>6, <2>1, <2>2
<1>8. sock' \in [Clients -> GoodSockRec]
  <2>1. sock' = [sock EXCEPT ![c].got = @ \o SubSeq(client[c].buf, 1, w)]
    BY <1>1 DEF Written
  <2>2. sock[c] \in GoodSockRec /\ sock[c].got \in Seq(OutCell)
    BY DEF IInv, GoodSockRec, SockRec
  <2>3. sock[c].got \o SubSeq(client[c].buf, 1, w) \in Seq(OutCell)
    BY <1>5, <2>2, ConcatProperties
  <2>4. [sock[c] EXCEPT !.got = @ \o SubSeq(client[c].buf, 1, w)] \in GoodSockRec
    BY <2>2, <2>3 DEF GoodSockRec, GoodSock, SockRec
  <2>5. QED BY <2>1, <2>4 DEF IInv
<1>9. UNCHANGED <<server, serves, queue, listed, executing, nev>>
  BY DEF ClientHandleWritable
<1>10. QED BY <1>7, <1>8, <1>9, Establish DEF IInv, TypeOK

\* The oldest connection leaves the backlog.
LEMMA HandleConnectionGood ==
  ASSUME IInv, HandleConnection
  PROVE  IInv'
<1>1. queue \in Seq(Clients) /\ queue # <<>>
  BY DEF HandleConnection, IInv, TypeOK
<1>2. Head(queue) \in Clients /\ Tail(queue) \in Seq(Clients)
  BY <1>1, HeadTailProperties
<1>3. Fresh("open") \in GoodRec /\ Fresh("gone") \in GoodRec
  BY FreshGood DEF Lives
<1>4. client' \in [Clients -> GoodRec] /\ listed' \in SUBSET Clients
  BY <1>2, <1>3 DEF HandleConnection, IInv, TypeOK
<1>5. QED BY <1>2, <1>4, Establish DEF HandleConnection, IInv, TypeOK

\* serve(), also when it fails, and the destruction of the display.
LEMMA LifecycleGood ==
  ASSUME IInv, Serve \/ ServeFails \/ HandleDisplayDestroy
  PROVE  IInv'
<1>1. Fresh("gone") \in GoodRec
  BY FreshGood DEF Lives
<1>2. <<>> \in Seq(Clients)
  BY EmptySeq
<1>3. CASE Serve
  BY <1>2, <1>3, Establish DEF Serve, IInv, TypeOK
<1>4. CASE ServeFails
  BY <1>1, <1>2, <1>4, Establish DEF ServeFails, IInv, TypeOK
<1>5. CASE HandleDisplayDestroy
  BY <1>1, <1>2, <1>5, Establish DEF HandleDisplayDestroy, Disconnected, IInv, TypeOK
<1>6. QED BY <1>3, <1>4, <1>5

LEMMA PublishGood ==
  ASSUME IInv, NEW e \in PluginEvents, Publish(e)
  PROVE  IInv'
<1>0. TypeOK /\ nev + 1 \in Nat /\ client \in [Clients -> GoodRec]
  BY DEF IInv, TypeOK
<1>1. PICK payload \in PayloadLens, oom \in SUBSET MayFail :
        ClientsBecome(SendEvent(client, Event(e, nev + 1), payload, oom))
  BY DEF Publish
<1>2. e \in Events
  BY DEF PluginEvents, Events, EventNo
<1>3. Event(e, nev + 1) \in Message /\ payload \in Nat
  BY <1>0, <1>2, MessageTypes, SizesNat
<1>4. SendEvent(client, Event(e, nev + 1), payload, oom) \in [Clients -> GoodRec]
  BY <1>0, <1>3, SendEventGood
<1>5. client' \in [Clients -> GoodRec] /\ listed' \in SUBSET Clients
  BY <1>0, <1>1, <1>4, BecomeGood
<1>6. QED BY <1>0, <1>5, Establish DEF Publish, IInv, TypeOK

LEMMA CommandDoneGood ==
  ASSUME IInv, CommandDone
  PROVE  IInv'
<1>0. /\ TypeOK /\ client \in [Clients -> GoodRec] /\ executing \in Clients
      /\ client[executing] \in GoodRec /\ client[executing].hdr \in Nat
  BY DEF CommandDone, IInv, TypeOK, ClientRec
<1>1. PICK payload \in PayloadLens, oom \in SUBSET MayFail :
        ClientsBecome([client EXCEPT
          ![executing] = SendReply(@, Reply("command", TRUE, @.hdr), payload,
                                   executing \in oom)])
  BY DEF CommandDone
<1>2. /\ Reply("command", TRUE, client[executing].hdr) \in Message
      /\ payload \in Nat /\ (executing \in oom) \in BOOLEAN
  <2>1. "command" \in RequestTypes
    BY DEF RequestTypes
  <2>2. Reply("command", TRUE, client[executing].hdr) \in Message
    BY <1>0, <2>1, MessageTypes
  <2>3. payload \in Nat
    BY SizesNat
  <2>4. (executing \in oom) \in BOOLEAN
    OBVIOUS
  <2>5. QED BY <2>2, <2>3, <2>4, Zenon
<1>3. SendReply(client[executing], Reply("command", TRUE, client[executing].hdr),
                payload, executing \in oom) \in GoodRec
  BY <1>0, <1>2, SendReplyGood, Zenon
<1>4. client' \in [Clients -> GoodRec] /\ listed' \in SUBSET Clients
  BY <1>0, <1>1, <1>3, BecomeGood
<1>5. QED BY <1>4, Establish DEF CommandDone, IInv, TypeOK

-----------------------------------------------------------------------------
(* The steps of the peers and of the kernel. *)

LEMMA PeerConnectGood ==
  ASSUME IInv, NEW c \in Clients, PeerConnect(c)
  PROVE  IInv'
<1>1. Fresh("queued") \in GoodRec
  BY FreshGood DEF Lives
<1>2. Append(queue, c) \in Seq(Clients)
  BY AppendProperties DEF IInv, TypeOK
<1>3. QED BY <1>1, <1>2, Establish DEF PeerConnect, IInv, TypeOK

\* The bytes a peer begins to write belong to the request it adds.
LEMMA PeerSendGood ==
  ASSUME IInv, NEW c \in Clients, PeerSend(c)
  PROVE  IInv'
<1> DEFINE s == sock[c]
           n == Len(s.asked) + 1
<1>1. PICK r \in Requests :
        sock' = [sock EXCEPT ![c].asked = Append(@, r), ![c].wire = Bytes(n, r)]
  BY DEF PeerSend
<1>2. /\ s \in GoodSockRec /\ s \in SockRec /\ GoodSock(s)
      /\ s.asked \in Seq(Requests) /\ Len(s.asked) \in Nat
  BY LenProperties DEF IInv, GoodSockRec, SockRec
<1>3. Append(s.asked, r) \in Seq(Requests) /\ Len(Append(s.asked, r)) = n
  BY <1>2, AppendProperties
<1>4. /\ Bytes(n, r) \in Seq(InCell)
      /\ \A i \in 1..Len(Bytes(n, r)) : Bytes(n, r)[i].n = n
  <2>1. r.len \in Nat
    BY RequestsAssumption DEF Request
  <2>2. HeaderSize + r.len \in Nat /\ n \in Nat
    BY <1>2, <2>1, SizesNat
  <2> HIDE DEF n
  <2>3. Bytes(n, r) \in [1..HeaderSize + r.len -> InCell]
    BY <2>2 DEF Bytes, InCell
  <2>4. Bytes(n, r) \in Seq(InCell)
    BY <2>2, <2>3
  <2>5. Len(Bytes(n, r)) = HeaderSize + r.len
    BY <2>2, <2>3, <2>4
  <2>6. QED BY <2>4, <2>5 DEF Bytes
<1>5. [s EXCEPT !.asked = Append(@, r), !.wire = Bytes(n, r)] \in GoodSockRec
  <2> DEFINE u == [s EXCEPT !.asked = Append(@, r), !.wire = Bytes(n, r)]
  <2>1. u \in SockRec
    <3> HIDE DEF n
    <3>1. QED BY <1>2, <1>3, <1>4 DEF SockRec
  <2>2. u.asked = Append(s.asked, r) /\ u.wire = Bytes(n, r) /\ u.inq = s.inq
    BY <1>2 DEF SockRec
  <2>3. \A i \in 1..Len(u.wire) : u.wire[i].n \in 1..Len(u.asked)
    <3>1. n \in 1..n
      BY <1>2
    <3> HIDE DEF n, u
    <3>2. QED BY <1>3, <1>4, <2>2, <3>1
  <2>4. \A i \in 1..Len(u.inq) : u.inq[i].n \in 1..Len(u.asked)
    <3>1. \A j \in 1..Len(s.asked) : j \in 1..n
      BY <1>2
    <3>2. \A i \in 1..Len(s.inq) : s.inq[i].n \in 1..Len(s.asked)
      BY <1>2 DEF GoodSock
    <3> HIDE DEF n, u
    <3>3. QED BY <1>3, <2>2, <3>1, <3>2
  <2> HIDE DEF u
  <2>5. u \in GoodSockRec
    BY <2>1, <2>3, <2>4 DEF GoodSockRec, GoodSock
  <2>6. QED BY <2>5, Zenon DEF u
<1>6. sock' \in [Clients -> GoodSockRec]
  <2> HIDE DEF n
  <2>1. sock \in [Clients -> GoodSockRec]
    BY DEF IInv
  <2>2. QED BY <1>1, <1>5, <2>1
<1>7. QED BY <1>6, Establish DEF PeerSend, IInv, TypeOK

\* A sequence of cells of the peer's requests, its parts and its extensions.
LEMMA CellsParts ==
  ASSUME NEW s \in Seq(InCell), NEW t \in Seq(InCell), NEW last \in Nat,
         NEW k \in 1..Len(t),
         \A i \in 1..Len(s) : s[i].n \in 1..last,
         \A i \in 1..Len(t) : t[i].n \in 1..last
  PROVE  /\ s \o SubSeq(t, 1, k) \in Seq(InCell)
         /\ \A i \in 1..Len(s \o SubSeq(t, 1, k)) :
              (s \o SubSeq(t, 1, k))[i].n \in 1..last
         /\ SubSeq(t, k + 1, Len(t)) \in Seq(InCell)
         /\ \A i \in 1..Len(SubSeq(t, k + 1, Len(t))) :
              SubSeq(t, k + 1, Len(t))[i].n \in 1..last
<1> DEFINE head == SubSeq(t, 1, k)
           rest == SubSeq(t, k + 1, Len(t))
<1>1. /\ Len(t) \in Nat /\ Len(s) \in Nat /\ k \in Nat /\ k >= 1 /\ k <= Len(t)
      /\ \A i \in 1..Len(t) : t[i] \in InCell
  BY LenProperties
<1>2. /\ head \in Seq(InCell) /\ Len(head) = k
      /\ \A i \in 1..k : head[i] = t[i]
  <2>1. k \in Int /\ \A i \in 1..k : t[i] \in InCell
    BY <1>1
  <2>2. /\ head \in Seq(InCell)
        /\ Len(head) = IF 1 <= k THEN k - 1 + 1 ELSE 0
        /\ \A i \in 1..k - 1 + 1 : head[i] = t[1 + i - 1]
    BY <2>1, SubSeqProperties
  <2> HIDE DEF head
  <2>3. QED BY <1>1, <2>2
<1>3. /\ rest \in Seq(InCell) /\ Len(rest) = Len(t) - k
      /\ \A i \in 1..Len(t) - k : rest[i] = t[k + i]
  <2>1. k + 1 \in Int /\ Len(t) \in Int /\ \A i \in k + 1..Len(t) : t[i] \in InCell
    BY <1>1
  <2>2. /\ rest \in Seq(InCell)
        /\ Len(rest) = IF k + 1 <= Len(t) THEN Len(t) - (k + 1) + 1 ELSE 0
        /\ \A i \in 1..Len(t) - (k + 1) + 1 : rest[i] = t[k + 1 + i - 1]
    BY <2>1, SubSeqProperties
  <2> HIDE DEF rest
  <2>3. QED BY <1>1, <2>2
<1> HIDE DEF head, rest
<1>4. /\ s \o head \in Seq(InCell) /\ Len(s \o head) = Len(s) + k
      /\ \A i \in 1..Len(s) + k :
           (s \o head)[i] = IF i <= Len(s) THEN s[i] ELSE head[i - Len(s)]
  <2>1. /\ s \o head \in Seq(InCell) /\ Len(s \o head) = Len(s) + Len(head)
        /\ \A i \in 1..Len(s) + Len(head) :
             (s \o head)[i] = IF i <= Len(s) THEN s[i] ELSE head[i - Len(s)]
    BY <1>2, ConcatProperties
  <2>2. QED BY <1>2, <2>1, Zenon
<1>5. ASSUME NEW i \in 1..Len(s) + k PROVE (s \o head)[i].n \in 1..last
  <2>1. CASE i <= Len(s)
    BY <1>1, <1>4, <2>1
  <2>2. CASE ~(i <= Len(s))
    <3>1. i - Len(s) \in 1..k /\ i - Len(s) \in 1..Len(t)
      BY <1>1, <2>2
    <3>2. (s \o head)[i] = t[i - Len(s)]
      BY <1>2, <1>4, <2>2, <3>1
    <3>3. QED BY <3>1, <3>2
  <2>3. QED BY <2>1, <2>2
<1>6. ASSUME NEW i \in 1..Len(t) - k PROVE rest[i].n \in 1..last
  <2>1. k + i \in 1..Len(t)
    BY <1>1
  <2>2. QED BY <1>3, <2>1
<1>7. QED BY <1>3, <1>4, <1>5, <1>6 DEF head, rest

LEMMA ArriveGood ==
  ASSUME IInv, NEW c \in Clients, Arrive(c)
  PROVE  IInv'
<1> DEFINE s == sock[c]
<1>1. PICK k \in 1..Len(s.wire) :
        sock' = [sock EXCEPT ![c].inq = @ \o SubSeq(sock[c].wire, 1, k),
                             ![c].wire = SubSeq(@, k + 1, Len(@))]
  BY DEF Arrive
<1>2. /\ s \in GoodSockRec /\ s \in SockRec /\ GoodSock(s)
      /\ s.inq \in Seq(InCell) /\ s.wire \in Seq(InCell) /\ Len(s.asked) \in Nat
  BY LenProperties DEF IInv, GoodSockRec, SockRec
<1> DEFINE inq == s.inq \o SubSeq(s.wire, 1, k)
           wire == SubSeq(s.wire, k + 1, Len(s.wire))
<1>3. /\ inq \in Seq(InCell) /\ wire \in Seq(InCell)
      /\ \A i \in 1..Len(inq) : inq[i].n \in 1..Len(s.asked)
      /\ \A i \in 1..Len(wire) : wire[i].n \in 1..Len(s.asked)
  BY <1>2, CellsParts DEF GoodSock
<1>4. [s EXCEPT !.inq = inq, !.wire = wire] \in GoodSockRec
  <2> HIDE DEF inq, wire
  <2>1. [s EXCEPT !.inq = inq, !.wire = wire] \in SockRec
    BY <1>2, <1>3 DEF SockRec
  <2>2. GoodSock([s EXCEPT !.inq = inq, !.wire = wire])
    BY <1>2, <1>3 DEF GoodSock, SockRec
  <2>3. QED BY <2>1, <2>2 DEF GoodSockRec
<1>5. sock' \in [Clients -> GoodSockRec]
  <2>1. sock' = [sock EXCEPT ![c].inq = inq, ![c].wire = wire]
    BY <1>1
  <2> HIDE DEF inq, wire
  <2>2. sock \in [Clients -> GoodSockRec]
    BY DEF IInv
  <2>3. QED BY <1>4, <2>1, <2>2
<1>6. QED BY <1>5, Establish DEF Arrive, IInv, TypeOK

LEMMA PeerHangupGood ==
  ASSUME IInv, NEW c \in Clients, PeerHangup(c)
  PROVE  IInv'
<1>1. <<>> \in Seq(InCell) /\ Len(<<>>) = 0
  BY EmptySeq
<1>2. sock[c] \in GoodSockRec /\ sock \in [Clients -> GoodSockRec]
  BY DEF IInv
<1>3. [sock[c] EXCEPT !.hup = TRUE, !.wire = <<>>] \in GoodSockRec
  <2> DEFINE u == [sock[c] EXCEPT !.hup = TRUE, !.wire = <<>>]
  <2>1. sock[c] \in SockRec /\ GoodSock(sock[c])
    BY <1>2 DEF GoodSockRec
  <2>2. u \in SockRec
    BY <1>1, <2>1 DEF SockRec
  <2>3. u.wire = <<>> /\ u.inq = sock[c].inq /\ u.asked = sock[c].asked
    BY <2>1 DEF SockRec
  <2> HIDE DEF u
  <2>4. GoodSock(u)
    BY <1>1, <2>1, <2>3 DEF GoodSock
  <2>5. u \in GoodSockRec
    BY <2>2, <2>4 DEF GoodSockRec
  <2>6. QED BY <2>5, Zenon DEF u
<1>4. sock' \in [Clients -> GoodSockRec]
  BY <1>2, <1>3 DEF PeerHangup
<1>5. QED BY <1>4, Establish DEF PeerHangup, IInv, TypeOK

-----------------------------------------------------------------------------
LEMMA InitGood == Init => IInv
<1> SUFFICES ASSUME Init PROVE IInv
  OBVIOUS
<1>1. Fresh("new") \in GoodRec
  BY FreshGood DEF Lives
<1>2. /\ <<>> \in Seq(Clients) /\ <<>> \in Seq(Requests) /\ <<>> \in Seq(InCell)
      /\ <<>> \in Seq(OutCell) /\ Len(<<>>) = 0
  BY EmptySeq
<1>3. sock \in [Clients -> GoodSockRec]
  BY <1>2 DEF Init, GoodSockRec, SockRec, GoodSock
<1>4. client \in [Clients -> GoodRec]
  BY <1>1 DEF Init
<1>5. client \in [Clients -> ClientRec] /\ sock \in [Clients -> SockRec]
  BY <1>3, <1>4 DEF GoodRec, GoodSockRec
<1>6. QED BY <1>2, <1>3, <1>4, <1>5 DEF Init, IInv, TypeOK

\* Every step of the specification preserves the invariant.
LEMMA StepGood == IInv /\ [Next]_vars => IInv'
<1> SUFFICES ASSUME IInv, [Next]_vars PROVE IInv'
  OBVIOUS
<1>1. CASE Serve \/ ServeFails \/ HandleDisplayDestroy
  BY <1>1, LifecycleGood
<1>2. CASE HandleConnection
  BY <1>2, HandleConnectionGood
<1>3. CASE CommandDone
  BY <1>3, CommandDoneGood
<1>4. ASSUME NEW e \in PluginEvents, Publish(e) PROVE IInv'
  BY <1>4, PublishGood
<1>5. ASSUME NEW c \in Clients, Handler(c) PROVE IInv'
  <2>1. CASE ReadHeader(c)
    BY <2>1, ReadHeaderGood
  <2>2. CASE ReadPayload(c)
    BY <2>2, ReadPayloadGood
  <2>3. CASE ClientHandleWritable(c)
    BY <2>3, ClientHandleWritableGood
  <2>4. CASE HandleHangup(c) \/ SocketError(c)
    BY <2>4, DisconnectGood DEF HandleHangup, SocketError
  <2>5. QED BY <1>5, <2>1, <2>2, <2>3, <2>4 DEF Handler
<1>6. ASSUME NEW c \in Clients, Peer(c) PROVE IInv'
  BY <1>6, PeerConnectGood, PeerSendGood, ArriveGood, PeerHangupGood DEF Peer
<1>7. CASE UNCHANGED vars
  BY <1>7, Establish DEF vars, IInv, TypeOK
<1>8. QED BY <1>1, <1>2, <1>3, <1>4, <1>5, <1>6, <1>7 DEF Next, Plugin

\* The inductive invariant holds of every reachable state of the server.
THEOREM Invariant == Spec => []IInv
<1>1. QED BY InitGood, StepGood, PTL DEF Spec

\* Type correctness: whatever arrives in whatever pieces and whatever fails,
\* the state of every client and of its connection keeps its shape.
THEOREM TypeCorrect == Spec => []TypeOK
<1>1. IInv => TypeOK
  BY DEF IInv
<1>2. QED BY <1>1, Invariant, PTL

\* The writable source of a served client is registered exactly while its
\* write buffer holds something (send_reply and client_handle_writable).
THEOREM WriteInterestHolds == Spec => []WriteInterest
<1>1. IInv => WriteInterest
  BY DEF IInv, WriteInterest, GoodRec, GoodClient
<1>2. QED BY <1>1, Invariant, PTL

\* The write buffer always has room for what is copied into it, and never
\* grows past the limit (the doubling loop and the check in send_reply).
THEOREM BoundedBacklogHolds == Spec => []BoundedBacklog
<1>1. IInv => BoundedBacklog
  <2> SUFFICES ASSUME IInv, NEW c \in Clients
               PROVE  Len(client[c].buf) < client[c].size /\ client[c].size <= MaxBufSize
    BY DEF BoundedBacklog
  <2>1. client[c] \in GoodRec
    BY DEF IInv
  <2>2. QED BY <2>1, BufSizesNat DEF GoodRec, GoodClient, ClientRec
<1>2. QED BY <1>1, Invariant, PTL

-----------------------------------------------------------------------------
(* What a handler of a request does to the clients.  R0 and R1 stand for   *)
(* what is known of the client before and after the reply: an invariant of *)
(* client records uses one set for both.                                   *)

\* The part of ClientHandleCommand that is about the clients.
Handled(cs, c, t, n, arg) ==
  \/ t = "command" /\ ExecuteCommand(cs, c)
  \/ t = "send_tick" /\ SendTick(cs, c, n)
  \/ t = "query" /\ AnswerQuery(cs, c, n)
  \/ t = "subscribe" /\ Subscribe(cs, c, n, arg)
  \/ t = "unsubscribe" /\ Unsubscribe(cs, c, n, arg)
  \/ t = "other" /\ Refuse(cs, c, n)

\* What a request leaves of a mask.
MaskAfter(subs, t, arg) ==
  CASE t = "subscribe" -> (IF arg = <<>> THEN subs ELSE Subscribed(subs, arg))
    [] t = "unsubscribe" -> Unsubscribed(subs, arg)
    [] OTHER -> subs

\* Whether a SUBSCRIBE or UNSUBSCRIBE is granted, and whether the client gets
\* a first tick.
Grants(t, arg) ==
  CASE t = "subscribe" -> arg # <<>> /\ Unsupported(arg, SubscribeNames) = {}
    [] t = "unsubscribe" -> arg # <<>> /\ Unsupported(arg, UnsubscribeNames) = {}
    [] OTHER -> TRUE
SaysSo(t, arg, ok) == t \in {"subscribe", "unsubscribe"} => ok = Grants(t, arg)
Ticks(t, arg) == t = "subscribe" /\ Grants(t, arg) /\ \E i \in DOMAIN arg : arg[i] = "tick"

\* The handler's client, with the mask the request leaves, is in R0 until it
\* gets its reply, which says whether the request is granted, and then in R1.
LEMMA HandledAnswers ==
  ASSUME NEW c \in Clients, NEW t \in RequestTypes \cup {"none"}, NEW n \in Nat,
         NEW arg, NEW cs, cs \in [Clients -> ClientRec], Handled(cs, c, t, n, arg),
         NEW R0, NEW R1,
         [cs[c] EXCEPT !.subs = MaskAfter(cs[c].subs, t, arg)] \in R0,
         EventBit("tick") \in cs[c].subs =>
           \A k \in R0, payload \in Nat, oom \in BOOLEAN :
             SendReply(k, Event("tick", nev + 1), payload, oom) \in R0,
         \A k \in R0, ok \in BOOLEAN, payload \in Nat, oom \in BOOLEAN :
           SaysSo(t, arg, ok) => SendReply(k, Reply(t, ok, n), payload, oom) \in R1,
         Ticks(t, arg) =>
           \A k \in R1, payload \in Nat, oom \in BOOLEAN :
             SendReply(k, FirstTick(n), payload, oom) \in R1
  PROVE  client'[c] \in IF t = "command" THEN R0 ELSE R1
<1>0. cs[c] \in ClientRec /\ cs[c].subs \in SUBSET Bits /\ StatusLen \in Nat
      /\ PayloadLens \subseteq Nat
  BY SizesNat DEF ClientRec
<1>k. t \notin {"subscribe", "unsubscribe"} => cs[c] \in R0
  <2>1. [cs[c] EXCEPT !.subs = cs[c].subs] = cs[c]
    BY <1>0 DEF ClientRec
  <2>2. t \notin {"subscribe", "unsubscribe"} => MaskAfter(cs[c].subs, t, arg) = cs[c].subs
    BY DEF MaskAfter
  <2>3. QED BY <2>1, <2>2
<1>s. /\ t \notin {"subscribe", "unsubscribe"} => \A ok \in BOOLEAN : SaysSo(t, arg, ok)
      /\ Grants("subscribe", arg) = (arg # <<>> /\ Unsupported(arg, SubscribeNames) = {})
      /\ Grants("unsubscribe", arg) = (arg # <<>> /\ Unsupported(arg, UnsubscribeNames) = {})
  BY DEF SaysSo, Grants
<1>1. CASE t = "command" /\ ExecuteCommand(cs, c)
  BY <1>1, <1>k DEF ExecuteCommand, ClientsBecome
<1>2. CASE t = "send_tick" /\ SendTick(cs, c, n)
  <2>1. PICK payload \in PayloadLens, oom1 \in SUBSET MayFail, oom2 \in SUBSET MayFail :
          ClientsBecome([TickSent(cs, payload, oom1) EXCEPT
                           ![c] = SendStatus(@, "send_tick", TRUE, n, c \in oom2)])
    BY <1>2 DEF SendTick
  <2> DEFINE told == TickSent(cs, payload, oom1)
  <2>2. /\ \/ told[c] = cs[c]
           \/ /\ EventBit("tick") \in cs[c].subs
              /\ told[c] = SendReply(cs[c], Event("tick", nev + 1), payload, c \in oom1)
        /\ DOMAIN told = Clients
    BY DEF TickSent, SendEvent, Event
  <2>3. payload \in Nat /\ (c \in oom1) \in BOOLEAN /\ (c \in oom2) \in BOOLEAN
    BY <1>0
  <2>4. told[c] \in R0
    <3>1. cs[c] \in R0
      BY <1>2, <1>k
    <3> HIDE DEF told
    <3>2. QED BY <2>2, <2>3, <3>1, Zenon
  <2>5. client'[c] = SendReply(told[c], Reply("send_tick", TRUE, n), StatusLen, c \in oom2)
    <3> HIDE DEF told
    <3>1. client' = [told EXCEPT ![c] = SendStatus(@, "send_tick", TRUE, n, c \in oom2)]
      BY <2>1 DEF ClientsBecome, told
    <3>2. QED BY <2>2, <3>1 DEF SendStatus
  <2>6. client'[c] \in R1
    <3> HIDE DEF told
    <3>1. TRUE \in BOOLEAN
      OBVIOUS
    <3>2. SaysSo("send_tick", arg, TRUE)
      BY DEF SaysSo
    <3>3. SendReply(told[c], Reply("send_tick", TRUE, n), StatusLen, c \in oom2) \in R1
      BY <1>0, <1>2, <2>3, <2>4, <3>1, <3>2, Zenon
    <3>4. QED BY <2>5, <3>3, Zenon
  <2>7. QED BY <1>2, <2>6
<1>3. CASE t = "query" /\ AnswerQuery(cs, c, n)
  <2>1. PICK payload \in PayloadLens, oom \in SUBSET MayFail :
          ClientsBecome([cs EXCEPT
                           ![c] = SendReply(@, Reply("query", TRUE, n), payload, c \in oom)])
    BY <1>3 DEF AnswerQuery
  <2>2. client'[c] = SendReply(cs[c], Reply("query", TRUE, n), payload, c \in oom)
    BY <2>1 DEF ClientsBecome
  <2>3. payload \in Nat /\ (c \in oom) \in BOOLEAN /\ TRUE \in BOOLEAN
    BY <1>0
  <2>4. SendReply(cs[c], Reply("query", TRUE, n), payload, c \in oom) \in R1
    <3>1. cs[c] \in R0
      BY <1>3, <1>k
    <3>2. SaysSo("query", arg, TRUE)
      BY DEF SaysSo
    <3>3. QED BY <1>3, <2>3, <3>1, <3>2, Zenon
  <2>5. QED BY <1>3, <2>2, <2>4
<1>4. CASE t = "subscribe" /\ Subscribe(cs, c, n, arg)
  <2> DEFINE ok == arg # <<>> /\ Unsupported(arg, SubscribeNames) = {}
             k == [cs[c] EXCEPT !.subs = IF arg = <<>> THEN @ ELSE Subscribed(@, arg)]
             told(oom) == SendReply(k, Reply("subscribe", ok, n), StatusLen, c \in oom)
             tick == ok /\ \E i \in DOMAIN arg : arg[i] = "tick"
  <2>1. PICK payload \in PayloadLens, oom1 \in SUBSET MayFail, oom2 \in SUBSET MayFail :
          ClientsBecome([cs EXCEPT
             ![c] = IF tick THEN SendReply(told(oom1), FirstTick(n), payload, c \in oom2)
                    ELSE told(oom1)])
    BY <1>4 DEF Subscribe, SendStatus
  <2>2. client'[c] = IF tick THEN SendReply(told(oom1), FirstTick(n), payload, c \in oom2)
                     ELSE told(oom1)
    <3> HIDE DEF told, tick
    <3>1. QED BY <2>1 DEF ClientsBecome
  <2>3. payload \in Nat /\ (c \in oom1) \in BOOLEAN /\ (c \in oom2) \in BOOLEAN
        /\ ok \in BOOLEAN
    BY <1>0
  <2>4. k \in R0
    <3>1. MaskAfter(cs[c].subs, t, arg) = IF arg = <<>> THEN cs[c].subs ELSE Subscribed(cs[c].subs, arg)
      BY <1>4 DEF MaskAfter
    <3>2. QED BY <3>1
  <2>5. told(oom1) \in R1
    <3>1. SaysSo("subscribe", arg, ok)
      BY <1>s DEF SaysSo
    <3> HIDE DEF k, ok
    <3>2. QED BY <1>0, <1>4, <2>3, <2>4, <3>1, Zenon
  <2>6. ASSUME tick PROVE SendReply(told(oom1), FirstTick(n), payload, c \in oom2) \in R1
    <3>1. Ticks(t, arg)
      BY <1>4, <1>s, <2>6 DEF Ticks
    <3> HIDE DEF told, tick
    <3>2. QED BY <2>3, <2>5, <3>1, Zenon
  <2>7. client'[c] \in R1
    <3> HIDE DEF told, tick
    <3>1. QED BY <2>2, <2>5, <2>6
  <2>8. QED BY <1>4, <2>7
<1>5. CASE t = "unsubscribe" /\ Unsubscribe(cs, c, n, arg)
  <2> DEFINE ok == arg # <<>> /\ Unsupported(arg, UnsubscribeNames) = {}
             k == [cs[c] EXCEPT !.subs = Unsubscribed(@, arg)]
  <2>1. PICK oom \in SUBSET MayFail :
          ClientsBecome([cs EXCEPT
             ![c] = SendReply(k, Reply("unsubscribe", ok, n), StatusLen, c \in oom)])
    BY <1>5 DEF Unsubscribe, SendStatus
  <2>2. client'[c] = SendReply(k, Reply("unsubscribe", ok, n), StatusLen, c \in oom)
    <3> HIDE DEF k, ok
    <3>1. QED BY <2>1 DEF ClientsBecome
  <2>3. (c \in oom) \in BOOLEAN /\ ok \in BOOLEAN
    OBVIOUS
  <2>4. k \in R0
    <3>1. MaskAfter(cs[c].subs, t, arg) = Unsubscribed(cs[c].subs, arg)
      BY <1>5 DEF MaskAfter
    <3>2. QED BY <3>1
  <2>5. client'[c] \in R1
    <3>1. SaysSo("unsubscribe", arg, ok)
      BY <1>s DEF SaysSo
    <3> HIDE DEF k, ok
    <3>2. SendReply(k, Reply("unsubscribe", ok, n), StatusLen, c \in oom) \in R1
      BY <1>0, <1>5, <2>3, <2>4, <3>1, Zenon
    <3>3. QED BY <2>2, <3>2, Zenon
  <2>6. QED BY <1>5, <2>5
<1>6. CASE t = "other" /\ Refuse(cs, c, n)
  <2>1. PICK oom \in SUBSET MayFail :
          ClientsBecome([cs EXCEPT
             ![c] = SendReply(@, Reply("other", FALSE, n), StatusLen, c \in oom)])
    BY <1>6 DEF Refuse, SendStatus
  <2>2. client'[c] = SendReply(cs[c], Reply("other", FALSE, n), StatusLen, c \in oom)
    BY <2>1 DEF ClientsBecome
  <2>3. (c \in oom) \in BOOLEAN /\ FALSE \in BOOLEAN
    OBVIOUS
  <2>4. SendReply(cs[c], Reply("other", FALSE, n), StatusLen, c \in oom) \in R1
    <3>1. cs[c] \in R0
      BY <1>6, <1>k
    <3>2. SaysSo("other", arg, FALSE)
      BY DEF SaysSo
    <3>3. QED BY <1>0, <1>6, <2>3, <3>1, <3>2, Zenon
  <2>5. QED BY <1>6, <2>2, <2>4
<1>7. QED BY <1>1, <1>2, <1>3, <1>4, <1>5, <1>6 DEF Handled

\* The same, whatever the reply says.
LEMMA HandledMasks ==
  ASSUME NEW c \in Clients, NEW t \in RequestTypes \cup {"none"}, NEW n \in Nat,
         NEW arg, NEW cs, cs \in [Clients -> ClientRec], Handled(cs, c, t, n, arg),
         NEW R0, NEW R1,
         [cs[c] EXCEPT !.subs = MaskAfter(cs[c].subs, t, arg)] \in R0,
         EventBit("tick") \in cs[c].subs =>
           \A k \in R0, payload \in Nat, oom \in BOOLEAN :
             SendReply(k, Event("tick", nev + 1), payload, oom) \in R0,
         \A k \in R0, ok \in BOOLEAN, payload \in Nat, oom \in BOOLEAN :
           SendReply(k, Reply(t, ok, n), payload, oom) \in R1,
         \A k \in R1, payload \in Nat, oom \in BOOLEAN :
           SendReply(k, FirstTick(n), payload, oom) \in R1
  PROVE  client'[c] \in IF t = "command" THEN R0 ELSE R1
BY HandledAnswers, Zenon

LEMMA HandledTells ==
  ASSUME NEW c \in Clients, NEW t \in RequestTypes \cup {"none"}, NEW n \in Nat,
         NEW arg, NEW cs, cs \in [Clients -> ClientRec], Handled(cs, c, t, n, arg),
         NEW R0, NEW R1, cs[c] \in R0,
         \A k \in R0, payload \in Nat, oom \in BOOLEAN :
           SendReply(k, Event("tick", nev + 1), payload, oom) \in R0,
         \A subs \in SUBSET Bits : [cs[c] EXCEPT !.subs = subs] \in R0,
         \A k \in R0, ok \in BOOLEAN, payload \in Nat, oom \in BOOLEAN :
           SendReply(k, Reply(t, ok, n), payload, oom) \in R1,
         \A k \in R1, payload \in Nat, oom \in BOOLEAN :
           SendReply(k, FirstTick(n), payload, oom) \in R1
  PROVE  client'[c] \in IF t = "command" THEN R0 ELSE R1
<1>1. cs[c].subs \in SUBSET Bits
  BY DEF ClientRec
<1>2. MaskAfter(cs[c].subs, t, arg) \in SUBSET Bits
  BY <1>1, SubscribedType DEF MaskAfter
<1>3. [cs[c] EXCEPT !.subs = MaskAfter(cs[c].subs, t, arg)] \in R0
  BY <1>2
<1>4. QED BY <1>3, HandledMasks

\* Another client gets the tick, if it is sent and it listens, or nothing;
\* the list loses who is not served any more.
TickedOnly(d) ==
  \E payload \in Nat, oom \in BOOLEAN :
    /\ d \in listed /\ EventBit("tick") \in client[d].subs
    /\ client'[d] = SendReply(client[d], Event("tick", nev + 1), payload, oom)

LEMMA HandledOthers ==
  ASSUME NEW c \in Clients, NEW t, NEW n, NEW arg, NEW cs, DOMAIN cs = Clients,
         \A d \in Clients \ {c} : cs[d] = client[d],
         Handled(cs, c, t, n, arg)
  PROVE  /\ \A d \in Clients \ {c} : client'[d] = client[d] \/ TickedOnly(d)
         /\ listed' = {d \in listed : client'[d].life = "open"}
         /\ executing' = IF t = "command" THEN c ELSE executing
<1>1. CASE t = "send_tick" /\ SendTick(cs, c, n)
  <2>1. PICK payload \in PayloadLens, oom1 \in SUBSET MayFail, oom2 \in SUBSET MayFail :
          /\ ClientsBecome([TickSent(cs, payload, oom1) EXCEPT
                              ![c] = SendStatus(@, "send_tick", TRUE, n, c \in oom2)])
          /\ UNCHANGED executing
    BY <1>1 DEF SendTick
  <2>2. ASSUME NEW d \in Clients \ {c}
        PROVE  client'[d] = client[d] \/ TickedOnly(d)
    <3> DEFINE told == TickSent(cs, payload, oom1)
               m == Event("tick", nev + 1)
    <3>1. /\ DOMAIN told = Clients
          /\ \/ told[d] = client[d]
             \/ /\ d \in listed /\ EventBit("tick") \in client[d].subs
                /\ told[d] = SendReply(client[d], m, payload, d \in oom1)
      BY DEF TickSent, SendEvent, Event
    <3>2. client'[d] = told[d]
      <4> HIDE DEF told
      <4>1. client' = [told EXCEPT ![c] = SendStatus(@, "send_tick", TRUE, n, c \in oom2)]
        BY <2>1 DEF ClientsBecome, told
      <4>2. QED BY <3>1, <4>1
    <3>3. payload \in Nat /\ (d \in oom1) \in BOOLEAN
      BY SizesNat
    <3> HIDE DEF told, m
    <3>4. QED BY <3>1, <3>2, <3>3, Zenon DEF TickedOnly, m
  <2>3. QED BY <1>1, <2>1, <2>2 DEF ClientsBecome, StillListed
<1>2. CASE t = "command" /\ ExecuteCommand(cs, c)
  BY <1>2 DEF ExecuteCommand, ClientsBecome, StillListed
<1>3. CASE t = "query" /\ AnswerQuery(cs, c, n)
  BY <1>3 DEF AnswerQuery, ClientsBecome, StillListed
<1>4. CASE t = "unsubscribe" /\ Unsubscribe(cs, c, n, arg)
  BY <1>4 DEF Unsubscribe, ClientsBecome, StillListed
<1>5. CASE t = "other" /\ Refuse(cs, c, n)
  BY <1>5 DEF Refuse, ClientsBecome, StillListed
<1>6. CASE t = "subscribe" /\ Subscribe(cs, c, n, arg)
  <2>1. PICK k : ClientsBecome([cs EXCEPT ![c] = k]) /\ UNCHANGED executing
    BY <1>6 DEF Subscribe
  <2>2. QED BY <1>6, <2>1 DEF ClientsBecome, StillListed
<1>7. QED BY <1>1, <1>2, <1>3, <1>4, <1>5, <1>6 DEF Handled

\* send_event towards one client.
LEMMA EventTold ==
  ASSUME NEW e, Publish(e), NEW d \in Clients
  PROVE  /\ client'[d] = client[d] \/
            \E payload \in Nat, oom \in BOOLEAN :
              /\ d \in listed /\ EventBit(e) \in client[d].subs
              /\ client'[d] = SendReply(client[d], Event(e, nev + 1), payload, oom)
         /\ listed' = {x \in listed : client'[x].life = "open"}
<1>1. PICK payload \in PayloadLens, oom \in SUBSET MayFail :
        ClientsBecome(SendEvent(client, Event(e, nev + 1), payload, oom))
  BY DEF Publish
<1>2. \/ client'[d] = client[d]
      \/ /\ d \in listed /\ EventBit(e) \in client[d].subs
         /\ client'[d] = SendReply(client[d], Event(e, nev + 1), payload, d \in oom)
  BY <1>1 DEF ClientsBecome, SendEvent, Event
<1>3. payload \in Nat /\ (d \in oom) \in BOOLEAN
  BY SizesNat
<1>4. listed' = {x \in listed : client'[x].life = "open"}
  BY <1>1 DEF ClientsBecome, StillListed
<1>5. QED BY <1>2, <1>3, <1>4, Zenon


-----------------------------------------------------------------------------
(* The lives of the clients: who has not been accepted is as it was made,  *)
(* who is not served has nothing in its buffer, and the list, the backlog  *)
(* and the command being executed are of the right ones.                   *)

EmptySock(s) ==
  s.asked = <<>> /\ s.wire = <<>> /\ s.inq = <<>> /\ s.got = <<>> /\ ~s.hup

LivingRec(k) ==
  /\ k.life # "open" => k.buf = <<>>
  /\ k.life \in {"new", "queued"} => k = Fresh(k.life)

LifeInv ==
  /\ \A c \in Clients :
       /\ LivingRec(client[c])
       /\ client[c].life \in {"new", "queued"} => sock[c].got = <<>>
       /\ client[c].life = "new" => EmptySock(sock[c])
  /\ \A i \in DOMAIN queue : client[queue[i]].life = "queued"
  /\ \A i, j \in DOMAIN queue : queue[i] = queue[j] => i = j
  /\ \A c \in listed : client[c].life = "open"
  /\ executing # NoClient => client[executing].life \notin {"new", "queued"}

\* Reading a request: it is handled, or its header is remembered, or the
\* client is disconnected.
HeaderKept(c) ==
  /\ \E p \in Nat, t \in RequestTypes, n \in Nat :
       client' = [client EXCEPT ![c].pending = p, ![c].ptype = t, ![c].hdr = n]
  /\ \E q : sock' = [sock EXCEPT ![c].inq = q]
  /\ UNCHANGED <<server, serves, queue, listed, executing, nev>>
RequestHandled(c) ==
  \E t \in RequestTypes \cup {"none"}, n \in Nat, len \in Nat : \E q :
    ClientHandleCommand(c, t, n, len, q)

\* All that a handled request does to the sockets is to take its payload.
LEMMA RequestTaken ==
  ASSUME NEW c, RequestHandled(c)
  PROVE  \E q : sock' = [sock EXCEPT ![c].inq = q]
<1>1. PICK t, n, len, q : ClientHandleCommand(c, t, n, len, q)
  BY DEF RequestHandled
<1>2. PICK rest : rest = SubSeq(q, len + 1, Len(q))
  OBVIOUS
<1>3. sock' = [sock EXCEPT ![c].inq = rest]
  BY <1>1, <1>2 DEF ClientHandleCommand
<1>4. QED BY <1>3

LEMMA ReadCases ==
  ASSUME IInv, NEW c \in Clients, ReadHeader(c) \/ ReadPayload(c)
  PROVE  /\ client[c].life = "open"
         /\ Disconnect(c) \/ HeaderKept(c) \/ RequestHandled(c)
<1>1. client[c].life = "open"
  BY DEF ReadHeader, ReadPayload, Dispatchable
<1>2. client[c] \in ClientRec /\ sock[c] \in GoodSockRec
  BY DEF IInv, TypeOK
<1>3. CASE ReadPayload(c)
  <2>1. /\ client[c].ptype \in RequestTypes \cup {"none"} /\ client[c].hdr \in Nat
        /\ client[c].pending \in Nat
    BY <1>2 DEF ClientRec
  <2>2. ClientHandleCommand(c, client[c].ptype, client[c].hdr, client[c].pending,
                            sock[c].inq)
    BY <1>3 DEF ReadPayload
  <2>3. RequestHandled(c)
    BY <2>1, <2>2 DEF RequestHandled
  <2>4. QED BY <1>1, <2>3
<1>4. CASE ReadHeader(c)
  <2> DEFINE q == sock[c].inq
             n == q[1].n
             r == sock[c].asked[n]
             rest == SubSeq(q, HeaderSize + 1, Len(q))
  <2>1. /\ q \in Seq(InCell) /\ sock[c].asked \in Seq(Requests)
        /\ \A i \in 1..Len(q) : q[i].n \in 1..Len(sock[c].asked)
    BY <1>2 DEF GoodSockRec, GoodSock, SockRec
  <2>2. Len(q) \in Nat /\ Len(q) >= HeaderSize /\ HeaderSize \in Nat /\ HeaderSize > 0
    BY <1>4, <2>1, SizesNat, LenProperties DEF ReadHeader
  <2>3. n \in 1..Len(sock[c].asked) /\ n \in Nat
    <3>1. 1 \in 1..Len(q)
      BY <2>2
    <3>2. n \in 1..Len(sock[c].asked) /\ Len(sock[c].asked) \in Nat
      BY <2>1, <3>1, LenProperties
    <3>3. QED BY <3>2
  <2>4. r.type \in RequestTypes /\ r.len \in Nat
    <3>1. r \in Requests
      BY <2>1, <2>3, ElementOfSeq
    <3>2. QED BY <3>1, RequestsAssumption DEF Request
  <2> DEFINE Kept ==
    /\ client' = [client EXCEPT ![c].pending = r.len, ![c].ptype = r.type, ![c].hdr = n]
    /\ sock' = [sock EXCEPT ![c].inq = rest]
    /\ UNCHANGED <<server, serves, queue, listed, executing, nev>>
  <2>5. Disconnect(c) \/ ClientHandleCommand(c, r.type, n, r.len, rest) \/ Kept
    BY <1>4 DEF ReadHeader
  <2> HIDE DEF rest, r, n
  <2>6. CASE ClientHandleCommand(c, r.type, n, r.len, rest)
    BY <1>1, <2>3, <2>4, <2>6 DEF RequestHandled
  <2>7. CASE Kept
    BY <1>1, <2>3, <2>4, <2>7, Zenon DEF HeaderKept
  <2> HIDE DEF Kept
  <2>8. QED BY <1>1, <2>5, <2>6, <2>7
<1>5. QED BY <1>3, <1>4

\* What send_reply leaves: a client that was deleted before, one that is
\* deleted now, or one with one more message in its buffer.
Longer(k, k2, m, payload) ==
  /\ k2.buf = k.buf \o Frame(m, payload)
  /\ k2.subs = k.subs /\ k2.pending = k.pending /\ k2.ptype = k.ptype /\ k2.hdr = k.hdr

LEMMA SendReplyCases ==
  ASSUME NEW k \in GoodRec, NEW m \in Message, NEW payload \in Nat, NEW oom \in BOOLEAN,
         NEW k2, k2 = SendReply(k, m, payload, oom)
  PROVE  /\ k2 \in GoodRec
         /\ \/ k.life # "open" /\ k2.life = "touched" /\ k2.buf = k.buf
            \/ k.life = "open" /\ k2 = Fresh("gone") /\ k2.life = "gone" /\ k2.buf = <<>>
            \/ k.life = "open" /\ k2.life = "open" /\ Longer(k, k2, m, payload)
<1>1. k2 \in GoodRec
  BY SendReplyGood
<1>2. k \in ClientRec
  BY DEF GoodRec
<1>3. QED
  BY <1>1, <1>2 DEF SendReply, Disconnected, Fresh, ClientRec, Longer

\* A set of records is kept by what is sent, by reading a header and by a
\* change of the mask.
KeptWhenTold(R) ==
  \A k \in R, m \in Message, payload \in Nat, oom \in BOOLEAN :
    SendReply(k, m, payload, oom) \in R
KeptWhenRead(R) ==
  \A k \in R, p \in Nat, t \in RequestTypes \cup {"none"}, n \in Nat :
    k.life = "open" => [k EXCEPT !.pending = p, !.ptype = t, !.hdr = n] \in R
KeptWhenMasked(R) ==
  \A k \in R, subs \in SUBSET Bits : k.life = "open" => [k EXCEPT !.subs = subs] \in R

\* What happens to a client that has been accepted, but for the bytes that
\* are written to it: R stands for what is known of its record, through the
\* reading of a request too if it is this client that sent it.
LEMMA ServedStep ==
  ASSUME IInv, LifeInv, Next, NEW d \in Clients,
         client[d].life \notin {"new", "queued"}, ~ClientHandleWritable(d),
         NEW R, client[d] \in R, Fresh("gone") \in R,
         KeptWhenTold(R), KeptWhenMasked(R),
         ReadHeader(d) \/ ReadPayload(d) => KeptWhenRead(R)
  PROVE  client'[d] \in R
<1>0. /\ client \in [Clients -> ClientRec] /\ nev \in Nat /\ nev + 1 \in Nat
      /\ queue \in Seq(Clients)
  <2>1. nev \in Nat /\ client \in [Clients -> ClientRec] /\ queue \in Seq(Clients)
    BY DEF IInv, TypeOK
  <2>2. QED BY <2>1
<1>e. \A e \in Events, n \in Nat : Event(e, n) \in Message
  BY MessageTypes
<1>1. ASSUME NEW c \in Clients, Disconnect(c)
      PROVE  client'[d] \in R
  BY <1>0, <1>1 DEF Disconnect, ClientsBecome, Disconnected
<1>2. CASE Serve \/ ServeFails \/ HandleDisplayDestroy
  BY <1>0, <1>2 DEF Serve, ServeFails, HandleDisplayDestroy, Disconnected
<1>3. CASE HandleConnection
  <2>1. /\ \/ client' = [client EXCEPT ![Head(queue)] = Fresh("open")]
           \/ client' = [client EXCEPT ![Head(queue)] = Fresh("gone")]
        /\ queue # <<>>
    BY <1>3 DEF HandleConnection
  <2>2. Head(queue) = queue[1] /\ 1 \in DOMAIN queue
    BY <1>0, <2>1
  <2>3. Head(queue) # d
    BY <2>2 DEF LifeInv
  <2>4. QED BY <1>0, <2>1, <2>3
<1>4. CASE CommandDone
  <2>1. PICK payload \in PayloadLens, oom \in SUBSET MayFail :
          client' = [client EXCEPT
            ![executing] = SendReply(@, Reply("command", TRUE, @.hdr), payload,
                                     executing \in oom)]
    BY <1>4 DEF CommandDone, ClientsBecome
  <2>2. client[d].hdr \in Nat
    BY <1>0 DEF ClientRec
  <2>3. Reply("command", TRUE, client[d].hdr) \in Message
    BY <2>2, MessageTypes DEF RequestTypes
  <2>4. payload \in Nat /\ (d \in oom) \in BOOLEAN
    BY SizesNat
  <2>5. SendReply(client[d], Reply("command", TRUE, client[d].hdr), payload, d \in oom) \in R
    BY <2>3, <2>4, Zenon DEF KeptWhenTold
  <2>6. client'[d] = IF executing = d
                     THEN SendReply(client[d], Reply("command", TRUE, client[d].hdr), payload, d \in oom)
                     ELSE client[d]
    BY <1>0, <2>1
  <2>7. QED BY <2>5, <2>6
<1>5. ASSUME NEW e \in PluginEvents, Publish(e) PROVE client'[d] \in R
  <2>1. e \in Events
    BY DEF PluginEvents, Events, EventNo
  <2>2. Event(e, nev + 1) \in Message
    BY <1>0, <1>e, <2>1
  <2>3. QED BY <1>5, <2>2, EventTold DEF KeptWhenTold
<1>6. ASSUME NEW c \in Clients, ReadHeader(c) \/ ReadPayload(c) PROVE client'[d] \in R
  <2>1. CASE Disconnect(c)
    BY <1>1, <2>1
  <2>2. ASSUME NEW p \in Nat, NEW t \in RequestTypes, NEW n \in Nat,
               client' = [client EXCEPT ![c].pending = p, ![c].ptype = t, ![c].hdr = n]
        PROVE  client'[d] \in R
    <3>1. client[c].life = "open"
      BY <1>6, ReadCases
    <3>2. client'[d] = IF d = c THEN [client[d] EXCEPT !.pending = p, !.ptype = t, !.hdr = n]
                       ELSE client[d]
      BY <1>0, <2>2
    <3>3. t \in RequestTypes \cup {"none"}
      OBVIOUS
    <3>4. CASE d = c
      <4>1. [client[d] EXCEPT !.pending = p, !.ptype = t, !.hdr = n] \in R
        BY <1>6, <3>1, <3>3, <3>4, Zenon DEF KeptWhenRead
      <4>2. QED BY <3>2, <3>4, <4>1, Zenon
    <3>5. QED BY <3>2, <3>4, Zenon
  <2>3. ASSUME NEW t \in RequestTypes \cup {"none"}, NEW n \in Nat, NEW len \in Nat, NEW q,
               ClientHandleCommand(c, t, n, len, q)
        PROVE  client'[d] \in R
    <3> DEFINE cs == [client EXCEPT ![c].pending = 0, ![c].ptype = t, ![c].hdr = n]
               arg == IF len = 0 THEN <<>> ELSE sock[c].asked[q[1].n].arg
    <3>1. Handled(cs, c, t, n, arg)
      BY <2>3 DEF ClientHandleCommand, Handled
    <3>2. cs \in [Clients -> ClientRec] /\ \A x \in Clients \ {c} : cs[x] = client[x]
      <4>1. client[c] \in ClientRec
        BY <1>0
      <4>2. [client[c] EXCEPT !.pending = 0, !.ptype = t, !.hdr = n] \in ClientRec
        BY <4>1 DEF ClientRec
      <4>3. QED BY <1>0, <4>2
    <3>3. client[c].life = "open" /\ 0 \in Nat
      BY <1>6, ReadCases
    <3>4. cs[c] = [client[c] EXCEPT !.pending = 0, !.ptype = t, !.hdr = n]
          /\ cs[c].life = "open"
      BY <1>0, <3>3 DEF ClientRec
    <3>5. Event("tick", nev + 1) \in Message
      BY <1>0, <1>e DEF Events, EventNo
    <3> HIDE DEF cs, arg
    <3>6. CASE d = c
      <4>1. cs[c] \in R
        <5>1. [client[c] EXCEPT !.pending = 0, !.ptype = t, !.hdr = n] \in R
          BY <1>6, <3>3, <3>6, Zenon DEF KeptWhenRead
        <5>2. QED BY <3>4, <5>1, Zenon
      <4>2. \A subs \in SUBSET Bits : [cs[c] EXCEPT !.subs = subs] \in R
        BY <3>4, <4>1 DEF KeptWhenMasked
      <4>3. t = "none" \/ t \in RequestTypes
        OBVIOUS
      <4>4. t # "none"
        BY <3>1 DEF Handled
      <4>5. \A ok \in BOOLEAN : Reply(t, ok, n) \in Message
        BY <4>3, <4>4, MessageTypes
      <4>6. FirstTick(n) \in Message
        BY MessageTypes
      <4>7. client'[c] \in IF t = "command" THEN R ELSE R
        BY <3>1, <3>2, <3>5, <4>1, <4>2, <4>5, <4>6, HandledTells DEF KeptWhenTold
      <4>8. QED BY <3>6, <4>7
    <3>7. CASE d # c
      <4>1. client'[d] = client[d] \/ TickedOnly(d)
        BY <3>1, <3>2, <3>7, HandledOthers
      <4>2. QED BY <3>5, <4>1 DEF TickedOnly, KeptWhenTold
    <3>8. QED BY <3>6, <3>7
  <2>4. CASE HeaderKept(c)
    BY <2>2, <2>4, Zenon DEF HeaderKept
  <2>5. CASE RequestHandled(c)
    BY <2>3, <2>5, Zenon DEF RequestHandled
  <2>6. QED BY <1>6, <2>1, <2>4, <2>5, ReadCases
<1>7. ASSUME NEW c \in Clients, ClientHandleWritable(c) PROVE client'[d] \in R
  BY <1>0, <1>7 DEF ClientHandleWritable, Written
<1>8. ASSUME NEW c \in Clients, HandleHangup(c) \/ SocketError(c) PROVE client'[d] \in R
  BY <1>1, <1>8 DEF HandleHangup, SocketError
<1>9. ASSUME NEW c \in Clients, Peer(c) PROVE client'[d] \in R
  BY <1>0, <1>9 DEF Peer, PeerConnect, PeerSend, Arrive, PeerHangup
<1>10. QED
  BY <1>2, <1>3, <1>4, <1>5, <1>6, <1>7, <1>8, <1>9 DEF Next, Plugin, Handler

\* What happens to a client that has not been accepted.
LEMMA PendingStep ==
  ASSUME IInv, LifeInv, Next, NEW d \in Clients, client[d].life \in {"new", "queued"}
  PROVE  /\ \/ client'[d] = client[d]
            \/ client[d].life = "new" /\ PeerConnect(d) /\ client'[d] = Fresh("queued")
            \/ /\ client[d].life = "queued"
               /\ client'[d] \in {Fresh("open"), Fresh("gone")}
               /\ ServeFails \/ HandleDisplayDestroy \/ (HandleConnection /\ d = Head(queue))
         /\ sock'[d].got = sock[d].got
         /\ client[d].life = "new" => sock'[d] = sock[d]
<1>0. /\ client \in [Clients -> ClientRec] /\ sock \in [Clients -> SockRec]
      /\ queue \in Seq(Clients)
  BY DEF IInv, TypeOK
<1>1. client[d].life # "open" /\ d \notin listed /\ executing # d
  <2>1. d # NoClient
    BY ClientsAssumption
  <2>2. QED BY <2>1 DEF LifeInv
<1> DEFINE Untouched == client'[d] = client[d] /\ sock'[d] = sock[d]
<1>2. ASSUME NEW c \in Clients, Disconnect(c), client[c].life = "open" PROVE Untouched
  BY <1>0, <1>1, <1>2 DEF Disconnect, ClientsBecome
<1>3. CASE Serve
  BY <1>3 DEF Serve
<1>4. CASE ServeFails \/ HandleDisplayDestroy
  <2>1. sock' = sock /\ (client'[d] = client[d] \/ client'[d] = Fresh("gone"))
    BY <1>4 DEF ServeFails, HandleDisplayDestroy, Disconnected
  <2>2. (\E i \in DOMAIN queue : queue[i] = d) => client[d].life = "queued"
    BY DEF LifeInv
  <2>3. client[d].life = "new" => client'[d] = client[d]
    BY <1>1, <1>4, <2>2 DEF ServeFails, HandleDisplayDestroy
  <2>4. QED BY <1>4, <2>1, <2>3
<1>5. CASE HandleConnection
  <2>1. /\ \/ client' = [client EXCEPT ![Head(queue)] = Fresh("open")]
           \/ client' = [client EXCEPT ![Head(queue)] = Fresh("gone")]
        /\ queue # <<>> /\ sock' = sock
    BY <1>5 DEF HandleConnection
  <2>2. Head(queue) = queue[1] /\ 1 \in DOMAIN queue
    BY <1>0, <2>1
  <2>3. client[Head(queue)].life = "queued"
    BY <2>2 DEF LifeInv
  <2>4. QED BY <1>0, <1>5, <2>1, <2>3
<1>6. CASE CommandDone
  BY <1>0, <1>1, <1>6 DEF CommandDone, ClientsBecome
<1>7. ASSUME NEW e \in PluginEvents, Publish(e) PROVE Untouched
  <2>1. sock' = sock
    BY <1>7 DEF Publish
  <2>2. QED BY <1>1, <1>7, <2>1, EventTold
<1>8. ASSUME NEW c \in Clients, ReadHeader(c) \/ ReadPayload(c) PROVE Untouched
  <2>0. client[c].life = "open" /\ c # d
    BY <1>1, <1>8, ReadCases
  <2>1. CASE HeaderKept(c)
    BY <1>0, <2>0, <2>1 DEF HeaderKept
  <2>2. ASSUME NEW t \in RequestTypes \cup {"none"}, NEW n \in Nat, NEW len \in Nat, NEW q,
               ClientHandleCommand(c, t, n, len, q)
        PROVE  Untouched
    <3> DEFINE cs == [client EXCEPT ![c].pending = 0, ![c].ptype = t, ![c].hdr = n]
               arg == IF len = 0 THEN <<>> ELSE sock[c].asked[q[1].n].arg
    <3>1. Handled(cs, c, t, n, arg)
      BY <2>2 DEF ClientHandleCommand, Handled
    <3>2. DOMAIN cs = Clients /\ \A x \in Clients \ {c} : cs[x] = client[x]
      BY <1>0
    <3>3. sock'[d] = sock[d]
      BY <1>0, <2>0, <2>2 DEF ClientHandleCommand
    <3> HIDE DEF cs, arg
    <3>4. client'[d] = client[d] \/ TickedOnly(d)
      BY <2>0, <3>1, <3>2, HandledOthers
    <3>5. QED BY <1>1, <3>3, <3>4 DEF TickedOnly
  <2>3. CASE RequestHandled(c)
    BY <2>2, <2>3, Zenon DEF RequestHandled
  <2>4. QED BY <1>2, <1>8, <2>0, <2>1, <2>3, ReadCases
<1>9. ASSUME NEW c \in Clients, ClientHandleWritable(c) PROVE Untouched
  <2>1. c # d
    BY <1>1, <1>9 DEF ClientHandleWritable, Dispatchable
  <2>2. QED BY <1>0, <1>9, <2>1 DEF ClientHandleWritable, Written
<1>10. ASSUME NEW c \in Clients, HandleHangup(c) \/ SocketError(c) PROVE Untouched
  BY <1>2, <1>10 DEF HandleHangup, SocketError
<1>11. ASSUME NEW c \in Clients, PeerConnect(c)
       PROVE  Untouched \/ (c = d /\ client[d].life = "new" /\ client'[d] = Fresh("queued")
                            /\ sock' = sock)
  BY <1>0, <1>11 DEF PeerConnect
<1>12. ASSUME NEW c \in Clients, PeerSend(c) \/ Arrive(c) \/ PeerHangup(c)
       PROVE  /\ client' = client /\ sock'[d].got = sock[d].got
              /\ client[d].life = "new" => sock'[d] = sock[d]
  <2>1. client[c].life \in {"queued", "open"} /\ client' = client
    BY <1>12 DEF PeerSend, Arrive, PeerHangup, Connected
  <2>2. sock'[d].got = sock[d].got /\ (c # d => sock'[d] = sock[d])
    <3>1. CASE PeerSend(c)
      BY SMTT(30), <1>0, <3>1 DEF PeerSend, SockRec
    <3>2. CASE Arrive(c)
      BY SMTT(30), <1>0, <3>2 DEF Arrive, SockRec
    <3>3. CASE PeerHangup(c)
      BY <1>0, <3>3 DEF PeerHangup, SockRec
    <3>4. QED BY <1>12, <3>1, <3>2, <3>3
  <2>3. QED BY <2>1, <2>2
<1>13. QED
  <2>1. CASE Plugin
    BY <1>3, <1>4, <1>5, <1>6, <1>7, <2>1 DEF Plugin
  <2>2. ASSUME NEW c \in Clients, Handler(c) PROVE Untouched
    BY <1>8, <1>9, <1>10, <2>2 DEF Handler
  <2>3. ASSUME NEW c \in Clients, Peer(c)
        PROVE  Untouched \/ (c = d /\ PeerConnect(d)) \/ (client' = client
                 /\ sock'[d].got = sock[d].got
                 /\ (client[d].life = "new" => sock'[d] = sock[d]))
    BY <1>11, <1>12, <2>3 DEF Peer
  <2>4. CASE PeerConnect(d)
    BY <1>11, <2>4
  <2>5. QED BY <2>1, <2>2, <2>3, <2>4 DEF Next

\* GoodRec is kept.
LEMMA GoodKept ==
  /\ Fresh("gone") \in GoodRec /\ Fresh("gone").life = "gone" /\ Fresh("gone").buf = <<>>
  /\ \A k \in GoodRec, subs \in SUBSET Bits :
       [k EXCEPT !.subs = subs] \in GoodRec
  /\ \A k \in GoodRec, p \in Nat, t \in RequestTypes \cup {"none"}, n \in Nat :
       [k EXCEPT !.pending = p, !.ptype = t, !.hdr = n] \in GoodRec
<1>1. Fresh("gone") \in GoodRec
  BY FreshGood DEF Lives
<1>2. ASSUME NEW k \in GoodRec, NEW p \in Nat, NEW t \in RequestTypes \cup {"none"}, NEW n \in Nat
      PROVE  [k EXCEPT !.pending = p, !.ptype = t, !.hdr = n] \in GoodRec
  BY DEF GoodRec, GoodClient, ClientRec
<1>3. QED BY <1>1, <1>2, MaskGood DEF Fresh

\* What is known of the request a client is at is kept by what it is told.
HdrSet(p, t, n) ==
  {k \in GoodRec : k.life = "open" => k.pending = p /\ k.ptype = t /\ k.hdr = n}

LEMMA HdrKept ==
  ASSUME NEW p, NEW t, NEW n, NEW R, R = HdrSet(p, t, n)
  PROVE  Fresh("gone") \in R /\ KeptWhenTold(R) /\ KeptWhenMasked(R)
<1>1. Fresh("gone") \in R
  BY GoodKept DEF HdrSet
<1>2. KeptWhenTold(R)
  <2> SUFFICES ASSUME NEW k \in R, NEW m \in Message, NEW payload \in Nat, NEW oom \in BOOLEAN
               PROVE  SendReply(k, m, payload, oom) \in R
    BY Zenon DEF KeptWhenTold
  <2>0. k \in GoodRec /\ (k.life = "open" => k.pending = p /\ k.ptype = t /\ k.hdr = n)
        /\ \E k2 : k2 = SendReply(k, m, payload, oom)
    BY DEF HdrSet
  <2>1. PICK k2 : k2 = SendReply(k, m, payload, oom)
    BY <2>0
  <2>2. /\ k2 \in GoodRec
        /\ \/ k.life # "open" /\ k2.life = "touched" /\ k2.buf = k.buf
           \/ k.life = "open" /\ k2 = Fresh("gone") /\ k2.life = "gone" /\ k2.buf = <<>>
           \/ k.life = "open" /\ k2.life = "open" /\ Longer(k, k2, m, payload)
    <3>1. k \in GoodRec /\ m \in Message /\ payload \in Nat /\ oom \in BOOLEAN
      BY <2>0
    <3>2. QED BY ONLY SMTT(30), <3>1, <2>1, SendReplyCases
  <2>3. k2.life = "open" => k2.pending = p /\ k2.ptype = t /\ k2.hdr = n
    BY <2>0, <2>2 DEF Longer
  <2>4. QED BY <2>1, <2>2, <2>3 DEF HdrSet
<1>3. KeptWhenMasked(R)
  <2> SUFFICES ASSUME NEW k \in R, NEW subs \in SUBSET Bits, k.life = "open"
               PROVE  [k EXCEPT !.subs = subs] \in R
    BY DEF KeptWhenMasked
  <2>0. k \in GoodRec /\ k.pending = p /\ k.ptype = t /\ k.hdr = n
    BY DEF HdrSet
  <2>1. PICK k2 : k2 = [k EXCEPT !.subs = subs]
    OBVIOUS
  <2>2. k2 \in GoodRec /\ k2.pending = k.pending /\ k2.ptype = k.ptype /\ k2.hdr = k.hdr
    BY <2>0, <2>1, GoodKept DEF GoodRec, ClientRec
  <2>3. QED BY <2>0, <2>1, <2>2 DEF HdrSet
<1>4. QED BY <1>1, <1>2, <1>3

\* Who reads no request stays at the one it is at.
LEMMA HdrStays ==
  ASSUME IInv, LifeInv, Next, NEW d \in Clients,
         ~ReadHeader(d), ~ReadPayload(d), ~ClientHandleWritable(d),
         client[d].life \notin {"new", "queued"}, client'[d].life = "open"
  PROVE  /\ client'[d].pending = client[d].pending
         /\ client'[d].ptype = client[d].ptype /\ client'[d].hdr = client[d].hdr
<1>1. PICK R : R = HdrSet(client[d].pending, client[d].ptype, client[d].hdr)
  OBVIOUS
<1>2. client[d] \in R
  BY <1>1 DEF HdrSet, IInv
<1>3. Fresh("gone") \in R /\ KeptWhenTold(R) /\ KeptWhenMasked(R)
  BY <1>1, HdrKept
<1>4. client'[d] \in R
  BY <1>2, <1>3, ServedStep
<1>5. QED BY <1>1, <1>4 DEF HdrSet

\* A request that has been handled is no longer pending.
LEMMA HandledRec ==
  ASSUME IInv, NEW c \in Clients, client[c].life = "open",
         NEW t \in RequestTypes \cup {"none"}, NEW n \in Nat, NEW len \in Nat, NEW q,
         ClientHandleCommand(c, t, n, len, q), client'[c].life = "open"
  PROVE  client'[c].pending = 0 /\ client'[c].ptype = t /\ client'[c].hdr = n
<1> DEFINE cs == [client EXCEPT ![c].pending = 0, ![c].ptype = t, ![c].hdr = n]
           arg == IF len = 0 THEN <<>> ELSE sock[c].asked[q[1].n].arg
<1>0. client \in [Clients -> ClientRec] /\ client \in [Clients -> GoodRec] /\ nev + 1 \in Nat
  BY DEF IInv, TypeOK
<1>1. Handled(cs, c, t, n, arg)
  BY DEF ClientHandleCommand, Handled
<1>2. PICK R : R = HdrSet(0, t, n)
  OBVIOUS
<1>3. cs \in [Clients -> ClientRec]
  <2>1. [client[c] EXCEPT !.pending = 0, !.ptype = t, !.hdr = n] \in ClientRec
    <3>1. client[c] \in ClientRec
      BY <1>0
    <3>2. QED BY <3>1 DEF ClientRec
  <2>2. QED BY <1>0, <2>1
<1>4. cs[c] \in R /\ cs[c].life = "open"
  <2>1. PICK k : k = client[c]
    OBVIOUS
  <2>2. k \in GoodRec /\ k \in ClientRec /\ k.life = "open"
    BY <1>0, <2>1
  <2>3. PICK k2 : k2 = [k EXCEPT !.pending = 0, !.ptype = t, !.hdr = n]
    OBVIOUS
  <2>4. k2 \in GoodRec /\ k2.pending = 0 /\ k2.ptype = t /\ k2.hdr = n /\ k2.life = "open"
    BY <2>2, <2>3, GoodKept DEF ClientRec
  <2>5. cs[c] = k2
    BY <1>0, <2>1, <2>3
  <2> HIDE DEF cs
  <2>6. QED BY <1>2, <2>4, <2>5 DEF HdrSet
<1> HIDE DEF cs, arg
<1>5. KeptWhenTold(R) /\ KeptWhenMasked(R)
  BY <1>2, HdrKept
<1>6. \A subs \in SUBSET Bits : [cs[c] EXCEPT !.subs = subs] \in R
  BY <1>4, <1>5 DEF KeptWhenMasked
<1>7. t \in RequestTypes
  BY <1>1 DEF Handled, RequestTypes
<1>8. (\A ok \in BOOLEAN : Reply(t, ok, n) \in Message) /\ FirstTick(n) \in Message
      /\ Event("tick", nev + 1) \in Message
  BY <1>0, <1>7, MessageTypes DEF Events, EventNo
<1>9. client'[c] \in IF t = "command" THEN R ELSE R
  BY <1>1, <1>3, <1>4, <1>5, <1>6, <1>8, HandledTells DEF KeptWhenTold
<1>10. QED BY <1>2, <1>9 DEF HdrSet

\* Who has been accepted is never waiting again.
LEMMA ServedStays ==
  ASSUME IInv, LifeInv, Next, NEW d \in Clients, client[d].life \notin {"new", "queued"}
  PROVE  client'[d].life \notin {"new", "queued"} /\ LivingRec(client'[d])
<1> DEFINE R == {k \in GoodRec : k.life \notin {"new", "queued"} /\ LivingRec(k)}
<1>0. client \in [Clients -> GoodRec] /\ LivingRec(client[d])
  BY DEF IInv, LifeInv
<1>1. CASE ClientHandleWritable(d)
  BY <1>0, <1>1 DEF ClientHandleWritable, Written, Dispatchable, LivingRec, GoodRec, ClientRec
<1>2. CASE ~ClientHandleWritable(d)
  <2>1. Fresh("gone") \in R /\ client[d] \in R
    BY <1>0, GoodKept DEF LivingRec
  <2>2. KeptWhenRead(R)
    <3> SUFFICES ASSUME NEW k \in R, NEW p \in Nat, NEW t \in RequestTypes \cup {"none"},
                        NEW n \in Nat, k.life = "open"
                 PROVE  [k EXCEPT !.pending = p, !.ptype = t, !.hdr = n] \in R
      BY DEF KeptWhenRead
    <3>1. [k EXCEPT !.pending = p, !.ptype = t, !.hdr = n] \in GoodRec
      BY GoodKept
    <3>2. QED BY <3>1 DEF LivingRec, GoodRec, ClientRec
  <2>3. KeptWhenMasked(R)
    <3> SUFFICES ASSUME NEW k \in R, NEW subs \in SUBSET Bits, k.life = "open"
                 PROVE  [k EXCEPT !.subs = subs] \in R
      BY DEF KeptWhenMasked
    <3>1. [k EXCEPT !.subs = subs] \in GoodRec
      BY GoodKept
    <3>2. QED BY <3>1 DEF LivingRec, GoodRec, ClientRec
  <2>4. KeptWhenTold(R)
    <3> SUFFICES ASSUME NEW k \in R, NEW m \in Message, NEW payload \in Nat,
                        NEW oom \in BOOLEAN
                 PROVE  SendReply(k, m, payload, oom) \in R
      BY DEF KeptWhenTold
    <3> DEFINE k2 == SendReply(k, m, payload, oom)
    <3>1. /\ k2 \in GoodRec
          /\ \/ k.life # "open" /\ k2.life = "touched" /\ k2.buf = k.buf
             \/ k2.life = "gone" /\ k2.buf = <<>>
             \/ k2.life = "open"
      BY SendReplyCases
    <3> HIDE DEF k2
    <3>2. k2 \in R
      BY <3>1 DEF LivingRec
    <3>3. QED BY <3>2 DEF k2
  <2> HIDE DEF R
  <2>5. client'[d] \in R
    BY <1>2, <2>1, <2>2, <2>3, <2>4, ServedStep
  <2>6. QED BY <2>5 DEF R
<1>3. QED BY <1>1, <1>2

LEMMA LifeInit == Init => LifeInv
<1> SUFFICES ASSUME Init PROVE LifeInv
  OBVIOUS
<1>1. \A c \in Clients : client[c] = Fresh("new") /\ Fresh("new").life = "new"
                         /\ Fresh("new").buf = <<>>
  BY DEF Init, Fresh
<1>2. \A c \in Clients : EmptySock(sock[c])
  BY DEF Init, EmptySock
<1>3. DOMAIN queue = {} /\ listed = {} /\ executing = NoClient
  BY DEF Init
<1>4. QED BY <1>1, <1>2, <1>3 DEF LifeInv, LivingRec, EmptySock

\* What a step does to the bytes that have been written to a client: only
\* client_handle_writable adds to them.
LEMMA GotStays ==
  ASSUME IInv, Next, NEW d \in Clients, ~ClientHandleWritable(d)
  PROVE  sock'[d].got = sock[d].got
<1>0. sock \in [Clients -> SockRec] /\ sock[d] \in SockRec
  BY DEF IInv, TypeOK
<1>1. CASE Plugin
  BY <1>1 DEF Plugin, Serve, ServeFails, HandleDisplayDestroy, HandleConnection, CommandDone,
              Publish
<1>2. ASSUME NEW c \in Clients, ReadHeader(c) \/ ReadPayload(c)
      PROVE  sock'[d].got = sock[d].got
  <2>1. CASE Disconnect(c)
    BY <2>1 DEF Disconnect
  <2>2. ASSUME NEW q, sock' = [sock EXCEPT ![c].inq = q]
        PROVE  sock'[d].got = sock[d].got
    BY <1>0, <2>2 DEF SockRec
  <2>3. CASE HeaderKept(c)
    BY <2>2, <2>3 DEF HeaderKept
  <2>4. CASE RequestHandled(c)
    BY <2>2, <2>4, RequestTaken
  <2>5. QED BY <1>2, <2>1, <2>3, <2>4, ReadCases
<1>3. ASSUME NEW c \in Clients, HandleHangup(c) \/ SocketError(c)
      PROVE  sock'[d].got = sock[d].got
  BY <1>3 DEF HandleHangup, SocketError, Disconnect
<1>4. ASSUME NEW c \in Clients, ClientHandleWritable(c)
      PROVE  sock'[d].got = sock[d].got
  BY <1>0, <1>4 DEF ClientHandleWritable, Written
<1>5. ASSUME NEW c \in Clients, Peer(c)
      PROVE  sock'[d].got = sock[d].got
  <2>1. CASE PeerConnect(c)
    BY <2>1 DEF PeerConnect
  <2>2. CASE PeerSend(c)
    BY <1>0, <2>2 DEF PeerSend, SockRec
  <2>3. CASE Arrive(c)
    BY <1>0, <2>3 DEF Arrive, SockRec
  <2>4. CASE PeerHangup(c)
    BY <1>0, <2>4 DEF PeerHangup, SockRec
  <2>5. QED BY <1>5, <2>1, <2>2, <2>3, <2>4 DEF Peer
<1>6. QED BY <1>1, <1>2, <1>3, <1>4, <1>5 DEF Next, Handler

\* What a request that has been read does to the list and to the command
\* being executed.
LEMMA ReadLists ==
  ASSUME IInv, NEW c \in Clients, ReadHeader(c) \/ ReadPayload(c)
  PROVE  /\ \A d \in listed' : d \in listed /\
               (client'[d].life = "open" \/ client'[d].life = client[d].life)
         /\ executing' \in {executing, c}
         /\ queue' = queue
<1>0. client \in [Clients -> ClientRec] /\ listed \subseteq Clients
  BY DEF IInv, TypeOK
<1>1. CASE Disconnect(c)
  BY <1>1 DEF Disconnect, ClientsBecome, StillListed
<1>2. CASE HeaderKept(c)
  <2>1. PICK p \in Nat, t \in RequestTypes, n \in Nat :
          client' = [client EXCEPT ![c].pending = p, ![c].ptype = t, ![c].hdr = n]
    BY <1>2 DEF HeaderKept
  <2>2. \A d \in Clients : client'[d].life = client[d].life
    BY <1>0, <2>1 DEF ClientRec
  <2>3. QED BY <1>0, <1>2, <2>2 DEF HeaderKept
<1>3. ASSUME NEW t \in RequestTypes \cup {"none"}, NEW n \in Nat, NEW len \in Nat, NEW q,
             ClientHandleCommand(c, t, n, len, q)
      PROVE  /\ listed' = {d \in listed : client'[d].life = "open"}
             /\ executing' \in {executing, c}
             /\ queue' = queue
  <2> DEFINE cs == [client EXCEPT ![c].pending = 0, ![c].ptype = t, ![c].hdr = n]
             arg == IF len = 0 THEN <<>> ELSE sock[c].asked[q[1].n].arg
  <2>1. Handled(cs, c, t, n, arg)
    BY <1>3 DEF ClientHandleCommand, Handled
  <2>2. DOMAIN cs = Clients /\ \A x \in Clients \ {c} : cs[x] = client[x]
    BY <1>0
  <2>3. queue' = queue
    BY <1>3 DEF ClientHandleCommand
  <2> HIDE DEF cs, arg
  <2>4. QED BY <2>1, <2>2, <2>3, HandledOthers
<1>4. CASE RequestHandled(c)
  <2>1. /\ listed' = {d \in listed : client'[d].life = "open"}
        /\ executing' \in {executing, c}
        /\ queue' = queue
    BY <1>3, <1>4, Zenon DEF RequestHandled
  <2>2. QED BY <2>1
<1>5. QED BY <1>1, <1>2, <1>4, ReadCases

\* The backlog, when it is not given up and nobody is taken from it, keeps
\* its clients, and gets only one that was not in it.
LEMMA BacklogStep ==
  ASSUME IInv, LifeInv, Next,
         ~Serve, ~ServeFails, ~HandleDisplayDestroy, ~HandleConnection
  PROVE  /\ \A i \in DOMAIN queue' : client'[queue'[i]].life = "queued"
         /\ \A i, j \in DOMAIN queue' : queue'[i] = queue'[j] => i = j
<1>0. queue \in Seq(Clients)
  BY DEF IInv, TypeOK
<1>1. ASSUME NEW i \in DOMAIN queue
      PROVE  queue[i] \in Clients /\ client[queue[i]].life = "queued"
             /\ client'[queue[i]].life = "queued"
  <2>1. queue[i] \in Clients
    BY <1>0
  <2>2. client[queue[i]].life = "queued"
    BY DEF LifeInv
  <2>3. QED BY <2>1, <2>2, PendingStep
<1>2. CASE queue' = queue
  BY <1>1, <1>2 DEF LifeInv
<1>3. ASSUME NEW c \in Clients, PeerConnect(c)
      PROVE  /\ \A i \in DOMAIN queue' : client'[queue'[i]].life = "queued"
             /\ \A i, j \in DOMAIN queue' : queue'[i] = queue'[j] => i = j
  <2>1. queue' = Append(queue, c) /\ client[c].life = "new"
    BY <1>3 DEF PeerConnect
  <2>2. client'[c].life = "queued"
    <3>1. client' = [client EXCEPT ![c] = Fresh("queued")] /\ DOMAIN client = Clients
      BY <1>3 DEF PeerConnect, IInv, TypeOK
    <3>2. QED BY <3>1 DEF Fresh
  <2>3. /\ Len(queue) \in Nat /\ DOMAIN queue = 1..Len(queue)
        /\ queue' \in Seq(Clients) /\ Len(queue') = Len(queue) + 1
        /\ DOMAIN queue' = 1..Len(queue')
        /\ \A i \in 1..Len(queue) : queue'[i] = queue[i]
        /\ queue'[Len(queue) + 1] = c
    BY <1>0, <2>1, AppendProperties, LenProperties
  <2>4. \A i \in DOMAIN queue' : i \in DOMAIN queue \/ i = Len(queue) + 1
    BY <2>3
  <2>5. \A i \in DOMAIN queue : queue'[i] = queue[i] /\ queue'[i] # c
    BY <1>1, <2>1, <2>3
  <2>6. \A i \in DOMAIN queue' : client'[queue'[i]].life = "queued"
    BY <1>1, <2>2, <2>3, <2>4, <2>5
  <2>7. \A i, j \in DOMAIN queue : queue[i] = queue[j] => i = j
    BY DEF LifeInv
  <2> HIDE <1>3
  <2>8. QED BY <2>3, <2>4, <2>5, <2>6, <2>7
<1>4. queue' = queue \/ \E c \in Clients : PeerConnect(c)
  <2>1. CASE Plugin
    BY <2>1 DEF Plugin, CommandDone, Publish
  <2>2. ASSUME NEW c \in Clients, Handler(c) PROVE queue' = queue
    <3>1. CASE ReadHeader(c) \/ ReadPayload(c)
      BY <3>1, ReadLists
    <3>2. CASE ~(ReadHeader(c) \/ ReadPayload(c))
      BY <2>2, <3>2 DEF Handler, HandleHangup, SocketError, Disconnect, ClientHandleWritable
    <3>3. QED BY <3>1, <3>2
  <2>3. ASSUME NEW c \in Clients, Peer(c) PROVE queue' = queue \/ PeerConnect(c)
    BY <2>3 DEF Peer, PeerSend, Arrive, PeerHangup
  <2>4. QED BY <2>1, <2>2, <2>3 DEF Next
<1>5. QED BY <1>2, <1>3, <1>4

\* The connection that is accepted leaves the backlog.
LEMMA AcceptStep ==
  ASSUME IInv, LifeInv, HandleConnection
  PROVE  /\ \A i \in DOMAIN queue' : client'[queue'[i]].life = "queued"
         /\ \A i, j \in DOMAIN queue' : queue'[i] = queue'[j] => i = j
         /\ \A c \in listed' : client'[c].life = "open"
<1>0. /\ queue \in Seq(Clients) /\ queue # <<>> /\ queue' = Tail(queue)
      /\ client \in [Clients -> ClientRec] /\ listed \subseteq Clients
  BY DEF IInv, TypeOK, HandleConnection
<1>1. /\ Len(queue) \in Nat /\ DOMAIN queue = 1..Len(queue) /\ Len(queue) > 0
      /\ queue' \in Seq(Clients) /\ DOMAIN queue' = 1..Len(queue') /\ Len(queue') = Len(queue) - 1
      /\ \A i \in 1..Len(queue') : queue'[i] = queue[i + 1]
      /\ Head(queue) = queue[1] /\ Head(queue) \in Clients
  BY <1>0, HeadTailProperties, LenProperties, EmptySeq
<1>2. \A i \in DOMAIN queue' :
        /\ i + 1 \in DOMAIN queue /\ 1 \in DOMAIN queue /\ i + 1 # 1
        /\ queue'[i] = queue[i + 1]
  BY <1>1
<1>3. /\ \A i \in DOMAIN queue : client[queue[i]].life = "queued"
      /\ \A i, j \in DOMAIN queue : queue[i] = queue[j] => i = j
      /\ \A c \in listed : client[c].life = "open"
  BY DEF LifeInv
<1>4. /\ \/ /\ client' = [client EXCEPT ![Head(queue)] = Fresh("open")]
            /\ listed' = listed \cup {Head(queue)}
         \/ /\ client' = [client EXCEPT ![Head(queue)] = Fresh("gone")]
            /\ listed' = listed
  BY DEF HandleConnection
<1>5. \A c \in Clients : c # Head(queue) => client'[c] = client[c]
  BY <1>0, <1>4
<1>6. ASSUME NEW i \in DOMAIN queue' PROVE client'[queue'[i]].life = "queued"
  <2>1. queue'[i] # Head(queue) /\ queue'[i] \in Clients
    BY <1>1, <1>2, <1>3
  <2>2. QED BY <1>2, <1>3, <1>5, <2>1
<1>7. ASSUME NEW c \in listed' PROVE client'[c].life = "open"
  <2>1. Fresh("open").life = "open"
    BY DEF Fresh
  <2>2. client[Head(queue)].life = "queued"
    BY <1>1, <1>3
  <2>3. QED BY <1>0, <1>1, <1>3, <1>4, <2>1, <2>2
<1>8. ASSUME NEW i \in DOMAIN queue', NEW j \in DOMAIN queue', queue'[i] = queue'[j]
      PROVE  i = j
  <2>1. i + 1 = j + 1
    BY <1>2, <1>3, <1>8
  <2>2. QED BY <1>1, <2>1
<1>9. QED BY <1>6, <1>7, <1>8

\* Who is listed is served.
LEMMA ListStep ==
  ASSUME IInv, LifeInv, Next, ~HandleConnection
  PROVE  \A c \in listed' : client'[c].life = "open"
<1>0. /\ client \in [Clients -> ClientRec] /\ listed \subseteq Clients
      /\ \A c \in listed : client[c].life = "open"
  BY DEF IInv, TypeOK, LifeInv
<1>1. CASE Plugin
  BY <1>1 DEF Plugin, Serve, ServeFails, HandleDisplayDestroy, CommandDone, Publish,
              ClientsBecome, StillListed
<1>2. ASSUME NEW c \in Clients, Handler(c)
      PROVE  \A d \in listed' : client'[d].life = "open"
  <2>1. CASE ReadHeader(c) \/ ReadPayload(c)
    BY <1>0, <2>1, ReadLists
  <2>2. CASE HandleHangup(c) \/ SocketError(c)
    BY <2>2 DEF HandleHangup, SocketError, Disconnect, ClientsBecome, StillListed
  <2>3. CASE ClientHandleWritable(c)
    BY <1>0, <2>3 DEF ClientHandleWritable, Written, ClientRec
  <2>4. QED BY <1>2, <2>1, <2>2, <2>3 DEF Handler
<1>3. ASSUME NEW c \in Clients, Peer(c)
      PROVE  \A d \in listed' : client'[d].life = "open"
  BY <1>0, <1>3 DEF Peer, PeerConnect, PeerSend, Arrive, PeerHangup
<1>4. QED BY <1>1, <1>2, <1>3 DEF Next

LEMMA LifeStep ==
  ASSUME IInv, LifeInv, [Next]_vars
  PROVE  LifeInv'
<1>0. /\ client \in [Clients -> ClientRec] /\ sock \in [Clients -> SockRec]
      /\ queue \in Seq(Clients) /\ listed \subseteq Clients
      /\ executing \in Clients \cup {NoClient}
  BY DEF IInv, TypeOK
<1>1. CASE UNCHANGED vars
  BY <1>1 DEF vars, LifeInv
<1>2. CASE Next
  <2>1. ASSUME NEW d \in Clients
        PROVE  /\ LivingRec(client'[d])
               /\ client'[d].life \in {"new", "queued"} => sock'[d].got = <<>>
               /\ client'[d].life = "new" => EmptySock(sock'[d])
    <3>1. CASE client[d].life \notin {"new", "queued"}
      BY <1>2, <3>1, ServedStays
    <3>2. CASE client[d].life \in {"new", "queued"}
      <4>1. LivingRec(client[d]) /\ sock[d].got = <<>>
            /\ (client[d].life = "new" => EmptySock(sock[d]))
        BY <3>2 DEF LifeInv
      <4>2. \A life \in Lives : Fresh(life).life = life /\ LivingRec(Fresh(life))
        BY DEF Fresh, LivingRec
      <4>3. /\ client'[d] = client[d] \/ client'[d] \in {Fresh("open"), Fresh("gone"), Fresh("queued")}
            /\ sock'[d].got = sock[d].got
            /\ client[d].life = "new" => sock'[d] = sock[d]
        BY <1>2, <3>2, PendingStep
      <4>4. client'[d].life = "new" => client[d].life = "new"
        BY <4>2, <4>3 DEF Lives
      <4>5. LivingRec(client'[d])
        BY <4>1, <4>2, <4>3 DEF Lives
      <4>6. QED BY <4>1, <4>3, <4>4, <4>5
    <3>3. QED BY <3>1, <3>2
  <2>2. executing' # NoClient => client'[executing'].life \notin {"new", "queued"}
    <3>1. executing' \in {executing, NoClient} \/
            \E c \in Clients : executing' = c /\ client[c].life = "open"
      <4>1. ASSUME NEW c \in Clients, ReadHeader(c) \/ ReadPayload(c)
            PROVE  executing' = executing \/ (executing' = c /\ client[c].life = "open")
        BY <4>1, ReadLists, ReadCases
      <4>2. CASE Plugin
        BY <4>2 DEF Plugin, Serve, ServeFails, HandleDisplayDestroy, HandleConnection,
                    CommandDone, Publish
      <4>3. ASSUME NEW c \in Clients, HandleHangup(c) \/ SocketError(c)
                                      \/ ClientHandleWritable(c) \/ Peer(c)
            PROVE  executing' = executing
        BY <4>3 DEF HandleHangup, SocketError, Disconnect, ClientHandleWritable, Peer,
                    PeerConnect, PeerSend, Arrive, PeerHangup
      <4>4. QED BY <1>2, <4>1, <4>2, <4>3 DEF Next, Handler
    <3>2. \A c \in Clients : client[c].life \notin {"new", "queued"} =>
                             client'[c].life \notin {"new", "queued"}
      BY <1>2, ServedStays
    <3>3. QED BY <1>0, <3>1, <3>2 DEF LifeInv
  <2>3. /\ \A i \in DOMAIN queue' : client'[queue'[i]].life = "queued"
        /\ \A i, j \in DOMAIN queue' : queue'[i] = queue'[j] => i = j
        /\ \A c \in listed' : client'[c].life = "open"
    <3>1. CASE HandleConnection
      BY <3>1, AcceptStep
    <3>2. CASE Serve \/ ServeFails \/ HandleDisplayDestroy
      <4>1. queue' = <<>> /\ listed' = {}
        BY <3>2 DEF Serve, ServeFails, HandleDisplayDestroy
      <4>2. QED BY <4>1
    <3>3. QED BY <1>2, <3>1, <3>2, BacklogStep, ListStep
  <2>4. QED BY <2>1, <2>2, <2>3 DEF LifeInv
<1>3. QED BY <1>1, <1>2

LEMMA LifeInvariant == Spec => []LifeInv
<1>1. QED BY Invariant, LifeInit, LifeStep, PTL DEF Spec

-----------------------------------------------------------------------------
(* The client list. *)

\* Who has been disconnected is never served again.
LEMMA GoneStays ==
  ASSUME IInv, LifeInv, Next, NEW d \in Clients, client[d].life \in {"gone", "touched"}
  PROVE  client'[d].life \in {"gone", "touched"}
<1> DEFINE R == {k \in GoodRec : k.life \in {"gone", "touched"}}
<1>0. client \in [Clients -> GoodRec]
  BY DEF IInv
<1>1. ~ClientHandleWritable(d)
  BY DEF ClientHandleWritable, Dispatchable
<1>2. Fresh("gone") \in R /\ client[d] \in R
  BY <1>0, GoodKept
<1>3. KeptWhenRead(R) /\ KeptWhenMasked(R)
  BY DEF KeptWhenRead, KeptWhenMasked
<1>4. KeptWhenTold(R)
  <2> SUFFICES ASSUME NEW k \in R, NEW m \in Message, NEW payload \in Nat, NEW oom \in BOOLEAN
               PROVE  SendReply(k, m, payload, oom) \in R
    BY DEF KeptWhenTold
  <2>1. /\ SendReply(k, m, payload, oom) \in GoodRec
        /\ k.life # "open" => SendReply(k, m, payload, oom).life = "touched"
    BY SendReplyCases
  <2>2. QED BY <2>1
<1> HIDE DEF R
<1>5. client'[d] \in R
  BY <1>1, <1>2, <1>3, <1>4, ServedStep
<1>6. QED BY <1>5 DEF R

\* Before the server is started nobody can connect.
NothingServed ==
  serves = 0 => server = "down" /\ \A c \in Clients : client[c].life = "new"

LEMMA ListedStep ==
  ASSUME MaxServes <= 1, IInv, LifeInv, NothingServed, ListedAreOpen, [Next]_vars
  PROVE  NothingServed' /\ ListedAreOpen'
<1>0. /\ client \in [Clients -> ClientRec] /\ listed \subseteq Clients /\ serves \in Nat
      /\ MaxServes \in Nat /\ queue \in Seq(Clients)
  BY BoundsAssumption DEF IInv, TypeOK
<1>1. CASE UNCHANGED vars
  BY <1>1 DEF vars, NothingServed, ListedAreOpen
<1>2. CASE Next /\ serves = 0
  <2>1. server = "down" /\ \A c \in Clients : client[c].life = "new"
    BY <1>2 DEF NothingServed
  <2>2. ASSUME NEW d \in Clients PROVE client'[d] = client[d]
    <3>1. ~PeerConnect(d)
      BY <2>1 DEF PeerConnect
    <3>2. client[d].life = "new"
      BY <2>1
    <3>3. QED BY <1>2, <3>1, <3>2, PendingStep
  <2>3. listed = {}
    BY <1>0, <2>1 DEF LifeInv
  <2>4. listed' = {} /\ (serves' = 0 => server' = "down")
    <3>0. serves + 1 # 0
      BY <1>0
    <3>1. CASE Plugin
      <4>1. CASE Serve \/ ServeFails
        BY <3>0, <4>1 DEF Serve, ServeFails
      <4>2. CASE HandleDisplayDestroy \/ HandleConnection
        BY <2>1, <4>2 DEF HandleDisplayDestroy, HandleConnection
      <4>3. CASE CommandDone
        BY <2>1, <2>3, <4>3 DEF CommandDone, ClientsBecome, StillListed
      <4>4. ASSUME NEW e \in PluginEvents, Publish(e)
            PROVE  listed' = {} /\ server' = server
        BY <2>3, <4>4 DEF Publish, ClientsBecome, StillListed
      <4>5. QED BY <2>1, <3>1, <4>1, <4>2, <4>3, <4>4 DEF Plugin
    <3>2. ASSUME NEW c \in Clients, Handler(c) PROVE FALSE
      BY <2>1, <3>2 DEF Handler, ReadHeader, ReadPayload, ClientHandleWritable, HandleHangup,
                        SocketError, Dispatchable
    <3>3. ASSUME NEW c \in Clients, Peer(c)
          PROVE  listed' = listed /\ server' = server /\ serves' = serves
      BY <3>3 DEF Peer, PeerConnect, PeerSend, Arrive, PeerHangup
    <3>4. QED BY <1>2, <2>1, <2>3, <3>1, <3>2, <3>3 DEF Next
  <2>5. QED BY <2>1, <2>2, <2>4 DEF NothingServed, ListedAreOpen
<1>3. CASE Next /\ serves # 0
  <2>0. ~Serve /\ ~ServeFails
    BY <1>0, <1>3 DEF Serve, ServeFails
  <2>1. serves' = serves
    <3>1. CASE Plugin
      BY <2>0, <3>1 DEF Plugin, HandleDisplayDestroy, HandleConnection, CommandDone, Publish
    <3>2. ASSUME NEW c \in Clients, ReadHeader(c) \/ ReadPayload(c) PROVE serves' = serves
      <4>1. CASE RequestHandled(c)
        BY <4>1 DEF RequestHandled, ClientHandleCommand
      <4>2. QED BY <3>2, <4>1, ReadCases DEF Disconnect, HeaderKept
    <3>3. ASSUME NEW c \in Clients, HandleHangup(c) \/ SocketError(c)
                                    \/ ClientHandleWritable(c) \/ Peer(c)
          PROVE  serves' = serves
      BY <3>3 DEF HandleHangup, SocketError, Disconnect, ClientHandleWritable, Peer,
                  PeerConnect, PeerSend, Arrive, PeerHangup
    <3>4. QED BY <1>3, <3>1, <3>2, <3>3 DEF Next, Handler
  <2>2. \A c \in listed' : client'[c].life = "open"
    <3>1. CASE HandleConnection
      BY <3>1, AcceptStep
    <3>2. QED BY <1>3, <3>1, ListStep
  <2>3. listed' \subseteq Clients
    <3>1. IInv'
      BY StepGood
    <3>2. QED BY <3>1 DEF IInv, TypeOK
  <2>4. ASSUME NEW d \in Clients, client'[d].life = "open" PROVE d \in listed'
    <3>1. CASE client[d].life \in {"new", "queued"}
      <4>1. client'[d] # client[d] /\ client'[d] # Fresh("queued") /\ client'[d] # Fresh("gone")
        BY <2>4, <3>1 DEF Fresh
      <4>2. /\ HandleDisplayDestroy \/ (HandleConnection /\ d = Head(queue))
            /\ client'[d] = Fresh("open")
        BY <1>3, <2>0, <3>1, <4>1, PendingStep
      <4>3. ~HandleDisplayDestroy
        BY <1>0, <4>1 DEF HandleDisplayDestroy, Disconnected
      <4>4. Head(queue) \in Clients
        BY <1>0, <4>2, <4>3, HeadTailProperties DEF HandleConnection
      <4>5. client' = [client EXCEPT ![d] = Fresh("gone")] => client'[d] = Fresh("gone")
        BY <1>0
      <4>6. QED BY <4>1, <4>2, <4>3, <4>5 DEF HandleConnection
    <3>2. CASE client[d].life \in {"gone", "touched"}
      BY <1>3, <2>4, <3>2, GoneStays
    <3>3. CASE client[d].life = "open"
      <4>0. d \in listed
        BY <3>3 DEF ListedAreOpen
      <4>1. CASE Plugin
        <5>1. ~HandleDisplayDestroy
          BY <2>4, <4>0 DEF HandleDisplayDestroy, Disconnected, Fresh
        <5>2. QED BY <2>0, <2>4, <4>0, <4>1, <5>1
                  DEF Plugin, HandleConnection, CommandDone, Publish, ClientsBecome, StillListed
      <4>2. ASSUME NEW c \in Clients, ReadHeader(c) \/ ReadPayload(c) PROVE d \in listed'
        <5>1. CASE Disconnect(c)
          BY <2>4, <4>0, <5>1 DEF Disconnect, ClientsBecome, StillListed
        <5>2. CASE HeaderKept(c)
          BY <4>0, <5>2 DEF HeaderKept
        <5>3. ASSUME NEW t \in RequestTypes \cup {"none"}, NEW n \in Nat, NEW len \in Nat, NEW q,
                     ClientHandleCommand(c, t, n, len, q)
              PROVE  d \in listed'
          <6> DEFINE cs == [client EXCEPT ![c].pending = 0, ![c].ptype = t, ![c].hdr = n]
                     arg == IF len = 0 THEN <<>> ELSE sock[c].asked[q[1].n].arg
          <6>1. Handled(cs, c, t, n, arg)
            BY <5>3 DEF ClientHandleCommand, Handled
          <6>2. DOMAIN cs = Clients /\ \A x \in Clients \ {c} : cs[x] = client[x]
            BY <1>0
          <6> HIDE DEF cs, arg
          <6>3. listed' = {x \in listed : client'[x].life = "open"}
            BY <6>1, <6>2, HandledOthers
          <6>4. QED BY <2>4, <4>0, <6>3
        <5>4. CASE RequestHandled(c)
          BY <5>3, <5>4, Zenon DEF RequestHandled
        <5>5. QED BY <4>2, <5>1, <5>2, <5>4, ReadCases
      <4>3. ASSUME NEW c \in Clients, HandleHangup(c) \/ SocketError(c) PROVE d \in listed'
        BY <2>4, <4>0, <4>3 DEF HandleHangup, SocketError, Disconnect, ClientsBecome, StillListed
      <4>4. ASSUME NEW c \in Clients, ClientHandleWritable(c) \/ Peer(c) PROVE d \in listed'
        BY <4>0, <4>4 DEF ClientHandleWritable, Peer, PeerConnect, PeerSend, Arrive, PeerHangup
      <4>5. QED BY <1>3, <4>1, <4>2, <4>3, <4>4 DEF Next, Handler
    <3>4. client[d].life \in Lives
      BY <1>0 DEF ClientRec
    <3>5. QED BY <3>1, <3>2, <3>3, <3>4 DEF Lives
  <2>5. QED BY <1>0, <1>3, <2>1, <2>2, <2>3, <2>4 DEF NothingServed, ListedAreOpen
<1>4. QED BY <1>1, <1>2, <1>3

\* The list that send_event goes through and the teardown disconnects holds
\* the served clients and no others, when serve() is called at most once.
THEOREM ListedAreOpenHolds ==
  ASSUME MaxServes <= 1
  PROVE  Spec => []ListedAreOpen
<1>1. Init => NothingServed /\ ListedAreOpen
  BY DEF Init, NothingServed, ListedAreOpen, Fresh
<1>2. IInv /\ LifeInv /\ NothingServed /\ ListedAreOpen /\ [Next]_vars
        => NothingServed' /\ ListedAreOpen'
  BY ListedStep
<1>3. QED BY <1>1, <1>2, Invariant, LifeInvariant, PTL DEF Spec

-----------------------------------------------------------------------------
(* Framing of what is written. *)

\* A sequence cut in two and put after another one.
LEMMA Regroup ==
  ASSUME NEW S, NEW s \in Seq(S), NEW a \in Seq(S), NEW b \in Seq(S)
  PROVE  (s \o a) \o b = s \o (a \o b)
BY ConcatAssociative

Chain(s) == \A i \in 1..Len(s) - 1 : Follows(s[i], s[i + 1])
Starts(s) == s # <<>> => s[1].at = 1
Ends(s) == s # <<>> => s[Len(s)].left = 0

\* Whole messages one after the other.
LEMMA ConcatFramed ==
  ASSUME NEW s \in Seq(OutCell), NEW t \in Seq(OutCell),
         Chain(s), Starts(s), Ends(s), Chain(t), Starts(t), Ends(t)
  PROVE  Chain(s \o t) /\ Starts(s \o t) /\ Ends(s \o t)
<1> DEFINE u == s \o t
<1>1. /\ Len(s) \in Nat /\ Len(t) \in Nat /\ Len(u) = Len(s) + Len(t)
      /\ \A i \in 1..Len(s) + Len(t) : u[i] = IF i <= Len(s) THEN s[i] ELSE t[i - Len(s)]
      /\ u \in Seq(OutCell)
  BY ConcatProperties, LenProperties
<1>2. /\ s = <<>> <=> Len(s) = 0
      /\ t = <<>> <=> Len(t) = 0
      /\ u = <<>> <=> Len(u) = 0
  BY <1>1, EmptySeq
<1> HIDE DEF u
<1>3. ASSUME NEW i \in 1..Len(u) - 1 PROVE Follows(u[i], u[i + 1])
  <2>1. CASE i + 1 <= Len(s)
    <3>1. u[i] = s[i] /\ u[i + 1] = s[i + 1] /\ i \in 1..Len(s) - 1
      BY <1>1, <2>1
    <3>2. QED BY <3>1 DEF Chain
  <2>2. CASE i = Len(s)
    <3>1. u[i] = s[Len(s)] /\ u[i + 1] = t[1] /\ Len(s) # 0 /\ Len(t) # 0
      BY SMTT(30), <1>1, <2>2
    <3>2. QED BY <1>2, <3>1 DEF Starts, Ends, Follows
  <2>3. CASE i > Len(s)
    <3>1. /\ u[i] = t[i - Len(s)] /\ u[i + 1] = t[i + 1 - Len(s)]
          /\ i + 1 - Len(s) = (i - Len(s)) + 1 /\ i - Len(s) \in 1..Len(t) - 1
      BY <1>1, <2>3
    <3>2. QED BY <3>1 DEF Chain
  <2>4. QED BY <1>1, <2>1, <2>2, <2>3
<1>4. Starts(u)
  <2> SUFFICES ASSUME u # <<>> PROVE u[1].at = 1
    BY DEF Starts
  <2>1. CASE Len(s) = 0
    <3>1. u[1] = t[1] /\ t # <<>>
      BY <1>1, <1>2, <2>1
    <3>2. QED BY <3>1 DEF Starts
  <2>2. CASE Len(s) # 0
    <3>1. u[1] = s[1] /\ s # <<>>
      BY <1>1, <1>2, <2>2
    <3>2. QED BY <3>1 DEF Starts
  <2>3. QED BY <2>1, <2>2
<1>5. Ends(u)
  <2> SUFFICES ASSUME u # <<>> PROVE u[Len(u)].left = 0
    BY DEF Ends
  <2>1. CASE Len(t) = 0
    <3>1. u[Len(u)] = s[Len(s)] /\ s # <<>>
      BY <1>1, <1>2, <2>1
    <3>2. QED BY <3>1 DEF Ends
  <2>2. CASE Len(t) # 0
    <3>1. u[Len(u)] = t[Len(t)] /\ t # <<>>
      BY <1>1, <1>2, <2>2
    <3>2. QED BY <3>1 DEF Ends
  <2>3. QED BY <2>1, <2>2
<1>6. QED BY <1>3, <1>4, <1>5 DEF Chain, u

\* The beginning of a stream of messages is framed, too.
LEMMA PrefixFramed ==
  ASSUME NEW s \in Seq(OutCell), NEW t \in Seq(OutCell), Chain(s \o t), Starts(s \o t)
  PROVE  Chain(s) /\ Starts(s)
<1>1. /\ Len(s) \in Nat /\ Len(t) \in Nat /\ Len(s \o t) = Len(s) + Len(t)
      /\ \A i \in 1..Len(s) + Len(t) :
           (s \o t)[i] = IF i <= Len(s) THEN s[i] ELSE t[i - Len(s)]
      /\ s \o t \in Seq(OutCell)
  BY ConcatProperties, LenProperties
<1>2. Chain(s)
  <2> SUFFICES ASSUME NEW i \in 1..Len(s) - 1 PROVE Follows(s[i], s[i + 1])
    BY DEF Chain
  <2>1. /\ i \in 1..Len(s \o t) - 1
        /\ (s \o t)[i] = s[i] /\ (s \o t)[i + 1] = s[i + 1]
    BY <1>1
  <2>2. QED BY <2>1 DEF Chain
<1>3. Starts(s)
  <2> SUFFICES ASSUME s # <<>> PROVE s[1].at = 1
    BY DEF Starts
  <2>1. Len(s) >= 1
    BY <1>1, EmptySeq
  <2>2. (s \o t)[1] = s[1] /\ s \o t # <<>>
    BY <1>1, <2>1, EmptySeq
  <2>3. QED BY <2>2 DEF Starts
<1>4. QED BY <1>2, <1>3

\* A message is framed.
LEMMA FrameFramed ==
  ASSUME NEW m \in Message, NEW payload \in Nat
  PROVE  LET f == Frame(m, payload) IN Chain(f) /\ Starts(f) /\ Ends(f)
<1>0. PICK n, f : n = HeaderSize + payload /\ f = Frame(m, payload)
  OBVIOUS
<1>1. n \in Nat /\ n > 0 /\ f \in Seq(OutCell) /\ Len(f) = n
  BY <1>0, SizesNat, FrameType
<1>3. ASSUME NEW i \in 1..n PROVE f[i].msg = m /\ f[i].at = i /\ f[i].left = n - i
  <2>1. i \in 1..HeaderSize + payload /\ i \in Int
    BY <1>0
  <2>2. Frame(m, payload)[i] = [msg |-> m, at |-> i, left |-> HeaderSize + payload - i]
    BY <2>1, Zenon DEF Frame
  <2>3. f[i].msg = m /\ f[i].at = i /\ f[i].left = HeaderSize + payload - i
    BY <1>0, <2>2
  <2>4. HeaderSize + payload - i = n - i
    BY <1>0, <1>1, <2>1, SizesNat
  <2>5. QED BY <2>3, <2>4
<1>4. ASSUME NEW i \in 1..n - 1 PROVE Follows(f[i], f[i + 1])
  <2>1. i \in 1..n /\ i + 1 \in 1..n /\ n - i # 0 /\ n - (i + 1) = (n - i) - 1
    BY <1>1
  <2>2. QED BY <1>3, <2>1 DEF Follows
<1>5. 1 \in 1..n /\ n \in 1..n /\ n - n = 0
  BY <1>1
<1>6. f[1].at = 1 /\ f[n].left = 0
  BY <1>3, <1>5
<1>7. QED BY <1>0, <1>1, <1>4, <1>6 DEF Chain, Starts, Ends

\* Moving bytes from the front of one sequence to the end of another leaves
\* the two together as they are.
LEMMA FrontMoved ==
  ASSUME NEW S, NEW s \in Seq(S), NEW t \in Seq(S), NEW w \in 1..Len(t)
  PROVE  (s \o SubSeq(t, 1, w)) \o SubSeq(t, w + 1, Len(t)) = s \o t
<1>1. /\ Len(t) \in Nat /\ w \in Nat /\ 1 <= w /\ w <= Len(t)
      /\ \A i \in 1..Len(t) : t[i] \in S
  BY LenProperties
<1>2. SubSeq(t, 1, w) \in Seq(S)
  <2>1. w \in Int /\ \A i \in 1..w : t[i] \in S
    BY <1>1
  <2>2. QED BY <2>1, SubSeqProperties
<1>3. SubSeq(t, w + 1, Len(t)) \in Seq(S)
  <2>1. w + 1 \in Int /\ Len(t) \in Int /\ \A i \in w + 1..Len(t) : t[i] \in S
    BY <1>1
  <2>2. QED BY <2>1, SubSeqProperties
<1>4. SubSeq(t, 1, w) \o SubSeq(t, w + 1, Len(t)) = t
  <2>1. 1 \in 1..Len(t) + 1 /\ w \in 1 - 1..Len(t) /\ Len(t) \in w..Len(t)
    BY <1>1
  <2>2. SubSeq(t, 1, w) \o SubSeq(t, w + 1, Len(t)) = SubSeq(t, 1, Len(t))
    BY <2>1, ConcatAdjacentSubSeq
  <2>3. QED BY <2>2, SubSeqFull
<1>5. (s \o SubSeq(t, 1, w)) \o SubSeq(t, w + 1, Len(t)) = s \o (SubSeq(t, 1, w) \o SubSeq(t, w + 1, Len(t)))
  <2> DEFINE a == SubSeq(t, 1, w)
             b == SubSeq(t, w + 1, Len(t))
  <2>1. a \in Seq(S) /\ b \in Seq(S)
    BY <1>2, <1>3
  <2> HIDE DEF a, b
  <2>2. \A x \in Seq(S), y \in Seq(S) : (s \o x) \o y = s \o (x \o y)
    BY SMTT(30), Regroup
  <2>3. (s \o a) \o b = s \o (a \o b)
    BY ONLY <2>1, <2>2
  <2>4. QED BY <2>3 DEF a, b
<1>6. QED BY <1>4, <1>5

LEMMA MoveFront ==
  ASSUME NEW S, NEW s \in Seq(S), NEW t \in Seq(S), NEW w \in 1..Len(t)
  PROVE  /\ s \o SubSeq(t, 1, w) \in Seq(S)
         /\ SubSeq(t, w + 1, Len(t)) \in Seq(S)
         /\ (s \o SubSeq(t, 1, w)) \o SubSeq(t, w + 1, Len(t)) = s \o t
<1>1. /\ Len(t) \in Nat /\ w \in Nat /\ 1 <= w /\ w <= Len(t)
      /\ \A i \in 1..Len(t) : t[i] \in S
  BY LenProperties
<1>2. SubSeq(t, 1, w) \in Seq(S)
  <2>1. w \in Int /\ \A i \in 1..w : t[i] \in S
    BY <1>1
  <2>2. QED BY <2>1, SubSeqProperties
<1>3. SubSeq(t, w + 1, Len(t)) \in Seq(S)
  <2>1. w + 1 \in Int /\ Len(t) \in Int /\ \A i \in w + 1..Len(t) : t[i] \in S
    BY <1>1
  <2>2. QED BY <2>1, SubSeqProperties
<1>4. (s \o SubSeq(t, 1, w)) \o SubSeq(t, w + 1, Len(t)) = s \o t
  BY FrontMoved
<1>5. s \o SubSeq(t, 1, w) \in Seq(S)
  BY <1>2, ConcatProperties
<1>6. QED BY <1>3, <1>4, <1>5

\* A partial write moves bytes and changes nothing else.
LEMMA WriteStep ==
  ASSUME IInv, NEW d \in Clients, ClientHandleWritable(d)
  PROVE  /\ client[d].life = "open" /\ client'[d].life = "open"
         /\ client'[d].subs = client[d].subs /\ client'[d].pending = client[d].pending
         /\ client'[d].ptype = client[d].ptype /\ client'[d].hdr = client[d].hdr
         /\ \E t \in Seq(OutCell) : sock'[d].got = sock[d].got \o t
         /\ sock'[d].got \o client'[d].buf = Out(d)
         /\ sock'[d].inq = sock[d].inq /\ sock'[d].wire = sock[d].wire
         /\ sock'[d].asked = sock[d].asked /\ sock'[d].hup = sock[d].hup
<1>1. PICK w \in 1..Len(client[d].buf) :
        Written(d, w, SubSeq(client[d].buf, w + 1, Len(client[d].buf)),
                SubSeq(client[d].buf, w + 1, Len(client[d].buf)) # <<>>)
  BY DEF ClientHandleWritable
<1>2. /\ client \in [Clients -> ClientRec] /\ sock \in [Clients -> SockRec]
      /\ client[d] \in ClientRec /\ sock[d] \in SockRec
      /\ client[d].buf \in Seq(OutCell) /\ sock[d].got \in Seq(OutCell)
  BY DEF IInv, TypeOK, ClientRec, SockRec
<1> DEFINE rest == SubSeq(client[d].buf, w + 1, Len(client[d].buf))
           sent == SubSeq(client[d].buf, 1, w)
<1>3. /\ client' = [client EXCEPT ![d].buf = rest, ![d].writable = rest # <<>>]
      /\ sock' = [sock EXCEPT ![d].got = sock[d].got \o sent]
  BY <1>1 DEF Written
<1>4. (sock[d].got \o sent) \o rest = sock[d].got \o client[d].buf
  <2> DEFINE b == client[d].buf
             g == sock[d].got
  <2>1. b \in Seq(OutCell) /\ g \in Seq(OutCell) /\ w \in 1..Len(b)
    BY <1>2
  <2> HIDE DEF b, g
  <2>2. (g \o SubSeq(b, 1, w)) \o SubSeq(b, w + 1, Len(b)) = g \o b
    BY ONLY ZenonT(30), <2>1, FrontMoved
  <2>3. QED BY <2>2 DEF b, g
<1>5. sent \in Seq(OutCell)
  <2>1. Len(client[d].buf) \in Nat /\ w \in Int /\ \A i \in 1..w : client[d].buf[i] \in OutCell
    BY <1>2, LenProperties
  <2>2. QED BY <2>1, SubSeqProperties
<1> HIDE DEF rest, sent
<1>6. /\ client'[d] = [client[d] EXCEPT !.buf = rest, !.writable = rest # <<>>]
      /\ sock'[d] = [sock[d] EXCEPT !.got = sock[d].got \o sent]
  BY <1>2, <1>3
<1>7. client[d].life = "open"
  BY DEF ClientHandleWritable, Dispatchable
<1>8. QED
  BY <1>2, <1>4, <1>5, <1>6, <1>7 DEF ClientRec, SockRec, Out

FramedRec(got, k) ==
  /\ Chain(got \o k.buf) /\ Starts(got \o k.buf)
  /\ k.life = "open" => Ends(got \o k.buf)
FramedInv == \A c \in Clients : FramedRec(sock[c].got, client[c])

\* Messages are queued whole, and a client that is disconnected keeps the
\* beginning of the stream that it has.
LEMMA FramedRecKept ==
  ASSUME NEW got \in Seq(OutCell), NEW R,
         R = {k \in GoodRec : LivingRec(k) /\ FramedRec(got, k)}, R # {}
  PROVE  Fresh("gone") \in R /\ KeptWhenTold(R) /\ KeptWhenRead(R) /\ KeptWhenMasked(R)
<1>1. Fresh("gone") \in R
  <2>1. PICK k \in GoodRec : FramedRec(got, k)
    OBVIOUS
  <2>2. k.buf \in Seq(OutCell)
    BY DEF GoodRec, ClientRec
  <2>3. Chain(got) /\ Starts(got) /\ got \o <<>> = got
    BY <2>1, <2>2, PrefixFramed, ConcatEmptySeq DEF FramedRec
  <2>4. QED BY <2>3, GoodKept DEF FramedRec, LivingRec
<1>2. KeptWhenTold(R)
  <2> SUFFICES ASSUME NEW k \in R, NEW m \in Message, NEW payload \in Nat, NEW oom \in BOOLEAN
               PROVE  SendReply(k, m, payload, oom) \in R
    BY Zenon DEF KeptWhenTold
  <2>0. /\ k \in GoodRec /\ LivingRec(k) /\ FramedRec(got, k) /\ k.buf \in Seq(OutCell)
        /\ \E k2 : k2 = SendReply(k, m, payload, oom)
    BY DEF GoodRec, ClientRec
  <2>p. PICK k2 : k2 = SendReply(k, m, payload, oom)
    BY <2>0
  <2>1. /\ k2 \in GoodRec
        /\ \/ k.life # "open" /\ k2.life = "touched" /\ k2.buf = k.buf
           \/ k2 = Fresh("gone")
           \/ k.life = "open" /\ k2.life = "open" /\ k2.buf = k.buf \o Frame(m, payload)
    <3>1. /\ k2 \in GoodRec
          /\ \/ k.life # "open" /\ k2.life = "touched" /\ k2.buf = k.buf
             \/ k.life = "open" /\ k2 = Fresh("gone") /\ k2.life = "gone" /\ k2.buf = <<>>
             \/ k.life = "open" /\ k2.life = "open" /\ Longer(k, k2, m, payload)
      BY <2>0, <2>p, SendReplyCases
    <3>2. QED BY <3>1 DEF Longer
  <2> SUFFICES k2 \in R
    BY <2>p
  <2>2. CASE k.life # "open" /\ k2.life = "touched" /\ k2.buf = k.buf
    BY <2>0, <2>1, <2>2 DEF FramedRec, LivingRec
  <2>3. CASE k.life = "open" /\ k2.life = "open"
    <3>1. got \o k2.buf = (got \o k.buf) \o Frame(m, payload)
      <4> DEFINE b == k.buf
                 f == Frame(m, payload)
      <4>1. b \in Seq(OutCell) /\ f \in Seq(OutCell)
        BY <2>0, FrameType
      <4>2. k2.buf = b \o f
        BY <2>1, <2>3 DEF Fresh
      <4> HIDE DEF b, f
      <4>3. got \o (b \o f) = (got \o b) \o f
        BY <4>1, Regroup
      <4>4. QED BY <4>2, <4>3 DEF b, f
    <3>2. got \o k.buf \in Seq(OutCell) /\ Frame(m, payload) \in Seq(OutCell)
      BY <2>0, FrameType, ConcatProperties
    <3>3. Chain(got \o k2.buf) /\ Starts(got \o k2.buf) /\ Ends(got \o k2.buf)
      BY <2>0, <2>3, <3>1, <3>2, FrameFramed, ConcatFramed DEF FramedRec
    <3>4. QED BY <2>1, <2>3, <3>3 DEF FramedRec, LivingRec
  <2>4. k2 \in R
    BY <1>1, <2>1, <2>2, <2>3
  <2>5. QED BY <2>4
<1>3. KeptWhenRead(R)
  <2> SUFFICES ASSUME NEW k \in R, NEW p \in Nat, NEW t \in RequestTypes \cup {"none"},
                      NEW n \in Nat, k.life = "open"
               PROVE  [k EXCEPT !.pending = p, !.ptype = t, !.hdr = n] \in R
    BY DEF KeptWhenRead
  <2> DEFINE k2 == [k EXCEPT !.pending = p, !.ptype = t, !.hdr = n]
  <2>1. k2 \in GoodRec /\ k2.life = k.life /\ k2.buf = k.buf
    BY GoodKept DEF GoodRec, ClientRec
  <2> HIDE DEF k2
  <2>2. k2 \in R
    BY <2>1 DEF FramedRec, LivingRec
  <2>3. QED BY <2>2 DEF k2
<1>4. KeptWhenMasked(R)
  <2> SUFFICES ASSUME NEW k \in R, NEW subs \in SUBSET Bits, k.life = "open"
               PROVE  [k EXCEPT !.subs = subs] \in R
    BY DEF KeptWhenMasked
  <2> DEFINE k2 == [k EXCEPT !.subs = subs]
  <2>1. k2 \in GoodRec /\ k2.life = k.life /\ k2.buf = k.buf
    BY GoodKept DEF GoodRec, ClientRec
  <2> HIDE DEF k2
  <2>2. k2 \in R
    BY <2>1 DEF FramedRec, LivingRec
  <2>3. QED BY <2>2 DEF k2
<1>5. QED BY <1>1, <1>2, <1>3, <1>4

LEMMA FramedInit == Init => FramedInv
<1> SUFFICES ASSUME Init, NEW c \in Clients PROVE FramedRec(sock[c].got, client[c])
  BY DEF FramedInv
<1>1. sock[c].got = <<>> /\ client[c].buf = <<>> /\ <<>> \o <<>> = <<>> /\ Len(<<>>) = 0
  BY DEF Init, Fresh
<1>2. Chain(<<>>) /\ Starts(<<>>) /\ Ends(<<>>)
  BY DEF Chain, Starts, Ends
<1>3. sock[c].got \o client[c].buf = <<>>
  BY <1>1
<1>4. QED BY <1>2, <1>3 DEF FramedRec

LEMMA FramedStep ==
  ASSUME IInv, LifeInv, FramedInv, [Next]_vars
  PROVE  FramedInv'
<1>0. /\ client \in [Clients -> GoodRec] /\ sock \in [Clients -> SockRec]
      /\ \A c \in Clients : sock[c].got \in Seq(OutCell)
  BY DEF IInv, TypeOK, SockRec
<1>1. CASE UNCHANGED vars
  BY <1>1 DEF vars, FramedInv
<1>2. CASE Next
  <2> SUFFICES ASSUME NEW d \in Clients PROVE FramedRec(sock'[d].got, client'[d])
    BY DEF FramedInv
  <2>0. FramedRec(sock[d].got, client[d]) /\ LivingRec(client[d])
    BY DEF FramedInv, LifeInv
  <2>1. CASE ClientHandleWritable(d)
    <3>1. /\ client[d].life = "open" /\ client'[d].life = "open"
          /\ sock'[d].got \o client'[d].buf = Out(d)
      BY <2>1, WriteStep
    <3>2. QED BY <2>0, <3>1 DEF FramedRec, Out
  <2>2. CASE client[d].life \notin {"new", "queued"} /\ ~ClientHandleWritable(d)
    <3>1. PICK R : R = {k \in GoodRec : LivingRec(k) /\ FramedRec(sock[d].got, k)}
      OBVIOUS
    <3>2. client[d] \in R /\ R # {}
      BY <1>0, <2>0, <3>1
    <3>3. Fresh("gone") \in R /\ KeptWhenTold(R) /\ KeptWhenRead(R) /\ KeptWhenMasked(R)
      BY <1>0, <3>1, <3>2, FramedRecKept
    <3>4. client'[d] \in R
      BY <1>2, <2>2, <3>2, <3>3, ServedStep
    <3>5. sock'[d].got = sock[d].got
      BY <1>2, <2>2, GotStays
    <3>6. QED BY <3>1, <3>4, <3>5
  <2>3. CASE client[d].life \in {"new", "queued"}
    <3>1. /\ sock'[d].got = <<>>
          /\ client'[d].buf = <<>>
      <4>1. sock[d].got = <<>> /\ client[d].buf = <<>>
        BY <2>0, <2>3 DEF LifeInv, LivingRec
      <4>2. QED BY <1>2, <2>3, <4>1, PendingStep DEF Fresh
    <3>2. sock'[d].got \o client'[d].buf = <<>> /\ Len(<<>>) = 0
      BY <3>1
    <3>3. QED BY <3>2 DEF FramedRec, Chain, Starts, Ends
  <2>4. QED BY <2>1, <2>2, <2>3
<1>3. QED BY <1>1, <1>2

LEMMA FramedInvariant == Spec => []FramedInv
<1>1. QED BY FramedInit, FramedStep, Invariant, LifeInvariant, PTL DEF Spec

LEMMA LastOfConcat ==
  ASSUME NEW s \in Seq(OutCell), NEW t \in Seq(OutCell), t # <<>>, NEW u, u = s \o t
  PROVE  u # <<>> /\ u[Len(u)] = t[Len(t)]
<1>1. /\ Len(s) \in Nat /\ Len(t) \in Nat /\ Len(u) = Len(s) + Len(t)
      /\ \A i \in 1..Len(s) + Len(t) : u[i] = IF i <= Len(s) THEN s[i] ELSE t[i - Len(s)]
      /\ u \in Seq(OutCell)
  BY ConcatProperties, LenProperties
<1>2. Len(t) # 0
  BY EmptySeq
<1>3. QED BY <1>1, <1>2

LEMMA LastOfJoined ==
  ASSUME NEW s \in Seq(OutCell), NEW t \in Seq(OutCell), t # <<>>
  PROVE  s \o t # <<>> /\ (s \o t)[Len(s \o t)] = t[Len(t)]
<1>1. PICK u : u = s \o t
  OBVIOUS
<1>2. u # <<>> /\ u[Len(u)] = t[Len(t)]
  BY <1>1, LastOfConcat
<1>3. QED BY <1>1, <1>2

\* Whatever the partial writes, reallocations and disconnections were, the
\* stream that client_handle_writable makes for a peer is one of whole
\* messages, each byte in its place, and the buffer ends with a whole one.
THEOREM WellFramedHolds == Spec => []WellFramed
<1>1. ASSUME IInv, LifeInv, FramedInv PROVE WellFramed
  <2> SUFFICES ASSUME NEW c \in Clients
               PROVE  /\ \A i \in 1..Len(Out(c)) - 1 : Follows(Out(c)[i], Out(c)[i + 1])
                      /\ Out(c) # <<>> => Out(c)[1].at = 1
                      /\ client[c].buf # <<>> => client[c].buf[Len(client[c].buf)].left = 0
    BY DEF WellFramed
  <2>1. /\ client[c].buf \in Seq(OutCell) /\ sock[c].got \in Seq(OutCell)
        /\ LivingRec(client[c]) /\ FramedRec(sock[c].got, client[c])
    BY <1>1 DEF IInv, TypeOK, ClientRec, SockRec, FramedInv, LifeInv
  <2>2. ASSUME client[c].buf # <<>> PROVE client[c].buf[Len(client[c].buf)].left = 0
    <3>1. client[c].life = "open"
      BY <2>1, <2>2 DEF LivingRec
    <3>2. Ends(Out(c))
      BY <2>1, <3>1 DEF FramedRec, Out
    <3>3. PICK g, b, o : g = sock[c].got /\ b = client[c].buf /\ o = g \o b
      OBVIOUS
    <3>4. g \in Seq(OutCell) /\ b \in Seq(OutCell) /\ b # <<>>
      BY <2>1, <2>2, <3>3
    <3>5. o # <<>> /\ o[Len(o)] = b[Len(b)]
      <4>1. g \o b # <<>> /\ (g \o b)[Len(g \o b)] = b[Len(b)]
        BY ONLY ZenonT(30), <3>4, LastOfJoined
      <4>2. QED BY <3>3, <4>1
    <3>6. o = Out(c)
      BY <3>3 DEF Out
    <3>7. QED BY <3>2, <3>3, <3>5, <3>6 DEF Ends
  <2>3. QED BY <2>1, <2>2 DEF FramedRec, Out, Chain, Starts
<1>2. QED BY <1>1, FramedInvariant, Invariant, LifeInvariant, PTL

-----------------------------------------------------------------------------
(* The stream only grows. *)

LEMMA BeginsSelf ==
  ASSUME NEW s \in Seq(OutCell)
  PROVE  Begins(s, s)
BY SubSeqFull, LenProperties DEF Begins

LEMMA BeginsConcat ==
  ASSUME NEW s \in Seq(OutCell), NEW t \in Seq(OutCell), NEW u, u = s \o t
  PROVE  Begins(s, u)
<1>1. /\ Len(s) \in Nat /\ Len(t) \in Nat /\ Len(u) = Len(s) + Len(t)
      /\ \A i \in 1..Len(s) + Len(t) : u[i] = IF i <= Len(s) THEN s[i] ELSE t[i - Len(s)]
      /\ u \in Seq(OutCell) /\ DOMAIN s = 1..Len(s)
  BY ConcatProperties, LenProperties
<1>2. /\ SubSeq(u, 1, Len(s)) \in Seq(OutCell) /\ Len(SubSeq(u, 1, Len(s))) = Len(s)
      /\ \A i \in 1..Len(s) : SubSeq(u, 1, Len(s))[i] = u[i]
  <2>1. 1 \in Int /\ Len(s) \in Int /\ \A i \in 1..Len(s) : u[i] \in OutCell
    <3>1. \A i \in 1..Len(s) : i \in 1..Len(u)
      BY <1>1
    <3>2. QED BY <1>1, <3>1, LenProperties
  <2> DEFINE w == SubSeq(u, 1, Len(s))
  <2>2. /\ w \in Seq(OutCell)
        /\ Len(w) = IF 1 <= Len(s) THEN Len(s) - 1 + 1 ELSE 0
        /\ \A i \in 1..Len(s) - 1 + 1 : w[i] = u[1 + i - 1]
    BY <2>1, SubSeqProperties
  <2> HIDE DEF w
  <2>3. Len(w) = Len(s) /\ \A i \in 1..Len(s) : w[i] = u[i]
    BY <1>1, <2>2
  <2>4. QED BY <2>2, <2>3 DEF w
<1>3. s = SubSeq(u, 1, Len(s))
  <2>1. PICK w : w = SubSeq(u, 1, Len(s))
    OBVIOUS
  <2>2. w \in Seq(OutCell) /\ Len(w) = Len(s) /\ \A i \in 1..Len(s) : w[i] = s[i]
    BY <1>1, <1>2, <2>1
  <2>3. w = s
    BY <2>2, SeqEqual
  <2>4. QED BY <2>1, <2>3
<1>4. Len(s) <= Len(u)
  BY <1>1
<1>5. QED BY <1>3, <1>4 DEF Begins

\* A buffer that has been appended to.
Grown(b, b2) == \E x \in Seq(OutCell) : b2 = b \o x

LEMMA GrownTwice ==
  ASSUME NEW b \in Seq(OutCell), NEW b2 \in Seq(OutCell), NEW b3,
         Grown(b, b2), NEW y \in Seq(OutCell), b3 = b2 \o y
  PROVE  Grown(b, b3)
<1>1. PICK x \in Seq(OutCell) : b2 = b \o x
  BY DEF Grown
<1>2. b3 = b \o (x \o y)
  <2>1. (b \o x) \o y = b \o (x \o y)
    BY Regroup
  <2>2. QED BY <1>1, <2>1
<1>3. x \o y \in Seq(OutCell)
  BY ConcatProperties
<1>4. QED BY <1>2, <1>3, Zenon DEF Grown

LEMMA GrownBegins ==
  ASSUME NEW got \in Seq(OutCell), NEW b \in Seq(OutCell), NEW b2, Grown(b, b2)
  PROVE  Begins(got \o b, got \o b2)
<1>1. PICK x \in Seq(OutCell) : b2 = b \o x
  BY DEF Grown
<1>2. (got \o b) \o x = got \o (b \o x)
  BY Regroup
<1>3. got \o b \in Seq(OutCell)
  BY ConcatProperties
<1>4. PICK s, u : s = got \o b /\ u = got \o b2
  OBVIOUS
<1>5. s \in Seq(OutCell) /\ u = s \o x
  BY <1>1, <1>2, <1>3, <1>4
<1>6. Begins(s, u)
  BY <1>5, BeginsConcat
<1>7. QED BY <1>4, <1>6

LEMMA GrownKept ==
  ASSUME NEW b \in Seq(OutCell), NEW R,
         R = {k \in GoodRec : k.life = "open" => Grown(b, k.buf)}
  PROVE  Fresh("gone") \in R /\ KeptWhenTold(R) /\ KeptWhenRead(R) /\ KeptWhenMasked(R)
<1>1. Fresh("gone") \in R
  BY GoodKept
<1>2. KeptWhenTold(R)
  <2> SUFFICES ASSUME NEW k \in R, NEW m \in Message, NEW payload \in Nat, NEW oom \in BOOLEAN
               PROVE  SendReply(k, m, payload, oom) \in R
    BY Zenon DEF KeptWhenTold
  <2>0. k \in GoodRec /\ k.buf \in Seq(OutCell) /\ Frame(m, payload) \in Seq(OutCell)
        /\ \E k2 : k2 = SendReply(k, m, payload, oom)
    BY FrameType DEF GoodRec, ClientRec
  <2>p. PICK k2 : k2 = SendReply(k, m, payload, oom)
    BY <2>0
  <2>1. /\ k2 \in GoodRec
        /\ \/ k.life # "open" /\ k2.life = "touched" /\ k2.buf = k.buf
           \/ k.life = "open" /\ k2 = Fresh("gone") /\ k2.life = "gone" /\ k2.buf = <<>>
           \/ k.life = "open" /\ k2.life = "open" /\ Longer(k, k2, m, payload)
    BY <2>0, <2>p, SendReplyCases
  <2>2. ASSUME k2.life = "open" PROVE Grown(b, k2.buf)
    <3>1. k.life = "open" /\ Longer(k, k2, m, payload)
      BY <2>1, <2>2
    <3>2. Grown(b, k.buf)
      BY <3>1
    <3>3. k2.buf = k.buf \o Frame(m, payload)
      BY <3>1 DEF Longer
    <3>4. QED BY <2>0, <3>2, <3>3, GrownTwice
  <2>3. QED BY <2>p, <2>1, <2>2
<1>3. KeptWhenRead(R)
  <2> SUFFICES ASSUME NEW k \in R, NEW p \in Nat, NEW t \in RequestTypes \cup {"none"},
                      NEW n \in Nat, k.life = "open"
               PROVE  [k EXCEPT !.pending = p, !.ptype = t, !.hdr = n] \in R
    BY DEF KeptWhenRead
  <2>1. PICK k2 : k2 = [k EXCEPT !.pending = p, !.ptype = t, !.hdr = n]
    OBVIOUS
  <2>2. k2 \in GoodRec /\ k2.life = k.life /\ k2.buf = k.buf
    BY <2>1, GoodKept DEF GoodRec, ClientRec
  <2>3. QED BY <2>1, <2>2
<1>4. KeptWhenMasked(R)
  <2> SUFFICES ASSUME NEW k \in R, NEW subs \in SUBSET Bits, k.life = "open"
               PROVE  [k EXCEPT !.subs = subs] \in R
    BY DEF KeptWhenMasked
  <2>1. PICK k2 : k2 = [k EXCEPT !.subs = subs]
    OBVIOUS
  <2>2. k2 \in GoodRec /\ k2.life = k.life /\ k2.buf = k.buf
    BY <2>1, GoodKept DEF GoodRec, ClientRec
  <2>3. QED BY <2>1, <2>2
<1>5. QED BY <1>1, <1>2, <1>3, <1>4

LEMMA GrowingStep ==
  ASSUME IInv, LifeInv, [Next]_vars
  PROVE  StreamStep
<1> SUFFICES ASSUME NEW d \in Clients
             PROVE  /\ Begins(sock[d].got, sock'[d].got)
                    /\ client'[d].life = "open" =>
                         Begins(Out(d), sock'[d].got \o client'[d].buf)
  BY DEF StreamStep
<1>0. /\ client \in [Clients -> GoodRec] /\ client[d] \in GoodRec
      /\ sock[d].got \in Seq(OutCell) /\ client[d].buf \in Seq(OutCell)
      /\ Out(d) \in Seq(OutCell)
  <2>1. client \in [Clients -> GoodRec]
    BY DEF IInv
  <2>2. sock[d].got \in Seq(OutCell) /\ client[d].buf \in Seq(OutCell)
    BY DEF IInv, TypeOK, SockRec, ClientRec
  <2>3. QED BY <2>1, <2>2, ConcatProperties DEF Out
<1>1. CASE UNCHANGED vars
  <2>1. sock'[d].got = sock[d].got /\ client'[d] = client[d]
    BY <1>1 DEF vars
  <2>2. sock'[d].got \o client'[d].buf = Out(d)
    BY <2>1 DEF Out
  <2>3. QED BY <1>0, <2>1, <2>2, BeginsSelf
<1>2. CASE Next /\ ClientHandleWritable(d)
  <2>1. PICK t \in Seq(OutCell) : sock'[d].got = sock[d].got \o t
    BY <1>2, WriteStep
  <2>2. Begins(sock[d].got, sock'[d].got)
    BY <1>0, <2>1, BeginsConcat
  <2>3. sock'[d].got \o client'[d].buf = Out(d)
    BY <1>2, WriteStep
  <2>4. QED BY <1>0, <2>2, <2>3, BeginsSelf
<1>3. CASE Next /\ ~ClientHandleWritable(d)
  <2>1. sock'[d].got = sock[d].got
    BY <1>3, GotStays
  <2>2. ASSUME client'[d].life = "open" PROVE Grown(client[d].buf, client'[d].buf)
    <3>0. client[d].buf \o <<>> = client[d].buf /\ <<>> \in Seq(OutCell)
      BY <1>0, ConcatEmptySeq
    <3>1. CASE client[d].life \notin {"new", "queued"}
      <4>1. PICK R : R = {k \in GoodRec : k.life = "open" => Grown(client[d].buf, k.buf)}
        OBVIOUS
      <4>2. client[d] \in R
        <5>1. Grown(client[d].buf, client[d].buf)
          BY <3>0 DEF Grown
        <5>2. QED BY <1>0, <4>1, <5>1
      <4>3. Fresh("gone") \in R /\ KeptWhenTold(R) /\ KeptWhenRead(R) /\ KeptWhenMasked(R)
        BY <1>0, <4>1, GrownKept
      <4>4. client'[d] \in R
        BY <1>3, <3>1, <4>2, <4>3, ServedStep
      <4>5. QED BY <2>2, <4>1, <4>4
    <3>2. CASE client[d].life \in {"new", "queued"}
      <4>1. client[d].buf = <<>> /\ client'[d].buf = <<>>
        <5>1. client[d].buf = <<>>
          BY <3>2 DEF LifeInv, LivingRec
        <5>2. \/ client'[d] = client[d] \/ client'[d] = Fresh("queued")
              \/ client'[d] \in {Fresh("open"), Fresh("gone")}
          BY <1>3, <3>2, PendingStep
        <5>3. QED BY <5>1, <5>2 DEF Fresh
      <4>2. QED BY <3>0, <4>1 DEF Grown
    <3>3. QED BY <3>1, <3>2
  <2>3. ASSUME client'[d].life = "open" PROVE Begins(Out(d), sock'[d].got \o client'[d].buf)
    BY <1>0, <2>1, <2>2, <2>3, GrownBegins DEF Out
  <2>4. QED BY <1>0, <2>1, <2>3, BeginsSelf
<1>4. QED BY <1>1, <1>2, <1>3

\* No step takes back a byte that has been written to a peer, and as long
\* as the client is served none changes, drops or reorders what is queued.
THEOREM StreamOnlyGrowsHolds == Spec => StreamOnlyGrows
<1>1. IInv /\ LifeInv /\ [Next]_vars => [StreamStep]_vars
  BY GrowingStep
<1>2. QED BY <1>1, Invariant, LifeInvariant, PTL DEF Spec, StreamOnlyGrows
===============================================================================
