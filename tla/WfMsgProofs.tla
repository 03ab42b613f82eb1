----------------------------- MODULE WfMsgProofs -----------------------------
(***************************************************************************)
(* What is proved of wf-msg for every number of processes, command lines   *)
(* and sizes.  First, that a process is a peer as module IpcServer assumes *)
(* it (IsAPeerHolds): in the image Wired, the payload that is not written  *)
(* yet is on the wire already, so that the write of the header is the      *)
(* peer's PeerSend, that of the payload a stuttering step, and the end of  *)
(* the process its PeerHangup.                                             *)
(*                                                                         *)
(* Therefore the theorems about the server, instantiated as P, hold of the *)
(* processes (PeerInvariant): what one receives is framed, begins with a   *)
(* reply, and has the reply to its one request only (GotInv).  With that,  *)
(* the responses a process cuts out of the stream are the messages the     *)
(* server sent (ReadInv, UnderstoodHolds), and its exit code is that of    *)
(* the reply to its request (TellInv, ExitTellsHolds).                     *)
(***************************************************************************)
EXTENDS WfMsg, IpcStreamProofs

-----------------------------------------------------------------------------
(* The operators of the server's module seen from here, and through AsPeer.*)

LEMMA SameReply ==
  /\ \A k : AsPeer!Fresh(k) = Fresh(k)
  /\ \A k, m, payload, oom : AsPeer!SendReply(k, m, payload, oom) = SendReply(k, m, payload, oom)
  /\ \A t, ok, n : AsPeer!Reply(t, ok, n) = Reply(t, ok, n)
  /\ \A n : AsPeer!FirstTick(n) = FirstTick(n)
  /\ \A e, n : AsPeer!Event(e, n) = Event(e, n)
  /\ \A k : AsPeer!Disconnected(k) = Disconnected(k)
<1>1. \A k : AsPeer!Fresh(k) = Fresh(k)
  BY DEF AsPeer!Fresh, Fresh
<1>2. \A k, payload : AsPeer!RoomySizes(k, payload) = RoomySizes(k, payload)
  BY DEF AsPeer!RoomySizes, RoomySizes, AsPeer!BufSizes, BufSizes
<1>3. \A m, payload : AsPeer!Frame(m, payload) = Frame(m, payload)
  BY DEF AsPeer!Frame, Frame
<1>4. \A k : AsPeer!Disconnected(k) = Disconnected(k)
  BY <1>1 DEF AsPeer!Disconnected, Disconnected
<1>5. \A k, m, payload, oom : AsPeer!SendReply(k, m, payload, oom) = SendReply(k, m, payload, oom)
  BY DEF AsPeer!SendReply, SendReply, AsPeer!RoomySizes, RoomySizes, AsPeer!BufSizes, BufSizes,
         AsPeer!Frame, Frame, AsPeer!Disconnected, Disconnected, AsPeer!Fresh, Fresh
<1>6. QED BY <1>1, <1>4, <1>5
        DEF AsPeer!Reply, Reply, AsPeer!FirstTick, FirstTick, AsPeer!Event, Event

LEMMA SameEvents ==
  /\ \A e : AsPeer!EventBit(e) = EventBit(e)
  /\ \A cs, e : AsPeer!HasListeners(cs, e) <=> HasListeners(cs, e)
  /\ \A cs, m, payload, oom : AsPeer!SendEvent(cs, m, payload, oom) = SendEvent(cs, m, payload, oom)
  /\ \A cs : AsPeer!ClientsBecome(cs) <=> ClientsBecome(cs)
  /\ \A cs, payload, oom : AsPeer!TickSent(cs, payload, oom) = TickSent(cs, payload, oom)
<1>1. \A e : AsPeer!EventBit(e) = EventBit(e)
  BY DEF AsPeer!EventBit, EventBit, AsPeer!EventNo, EventNo
<1>2. \A cs, e : AsPeer!HasListeners(cs, e) <=> HasListeners(cs, e)
  BY <1>1 DEF AsPeer!HasListeners, HasListeners
<1>3. \A cs, m, payload, oom : AsPeer!SendEvent(cs, m, payload, oom) = SendEvent(cs, m, payload, oom)
  BY <1>1, SameReply DEF AsPeer!SendEvent, SendEvent
<1>4. \A cs : AsPeer!ClientsBecome(cs) <=> ClientsBecome(cs)
  BY DEF AsPeer!ClientsBecome, ClientsBecome, AsPeer!StillListed, StillListed
<1>5. \A cs, payload, oom : AsPeer!TickSent(cs, payload, oom) = TickSent(cs, payload, oom)
  BY <1>2, <1>3, SameReply DEF AsPeer!TickSent, TickSent
<1>6. QED BY <1>1, <1>2, <1>3, <1>4, <1>5

LEMMA SameMasks ==
  /\ \A subs, arg : AsPeer!Subscribed(subs, arg) = Subscribed(subs, arg)
  /\ \A subs, arg : AsPeer!Unsubscribed(subs, arg) = Unsubscribed(subs, arg)
  /\ \A arg, names : AsPeer!Unsupported(arg, names) = Unsupported(arg, names)
  /\ AsPeer!SubscribeNames = SubscribeNames /\ AsPeer!UnsubscribeNames = UnsubscribeNames
<1>1. /\ AsPeer!SubscribeNames = SubscribeNames /\ AsPeer!UnsubscribeNames = UnsubscribeNames
      /\ AsPeer!NotString = NotString
  BY DEF AsPeer!SubscribeNames, SubscribeNames, AsPeer!UnsubscribeNames, UnsubscribeNames,
         AsPeer!NotString, NotString
<1>2. \A arg, names : AsPeer!Unsupported(arg, names) = Unsupported(arg, names)
  BY <1>1 DEF AsPeer!Unsupported, Unsupported
<1>3. \A subs, arg : AsPeer!Subscribed(subs, arg) = Subscribed(subs, arg)
  BY <1>1, <1>2, SameEvents DEF AsPeer!Subscribed, Subscribed
<1>4. \A subs, arg : AsPeer!Unsubscribed(subs, arg) = Unsubscribed(subs, arg)
  BY <1>1, <1>2, SameEvents DEF AsPeer!Unsubscribed, Unsubscribed
<1>5. QED BY <1>1, <1>2, <1>3, <1>4

\* The handlers of the requests: more clients may fail.
LEMMA SameHandlers ==
  \A cs, c, n, arg :
    /\ ExecuteCommand(cs, c) => AsPeer!ExecuteCommand(cs, c)
    /\ SendTick(cs, c, n) => AsPeer!SendTick(cs, c, n)
    /\ AnswerQuery(cs, c, n) => AsPeer!AnswerQuery(cs, c, n)
    /\ Subscribe(cs, c, n, arg) => AsPeer!Subscribe(cs, c, n, arg)
    /\ Unsubscribe(cs, c, n, arg) => AsPeer!Unsubscribe(cs, c, n, arg)
    /\ Refuse(cs, c, n) => AsPeer!Refuse(cs, c, n)
<1>0. SUBSET MayFail \subseteq SUBSET Clients
  BY ClientsAssumption
<1>1. \A k, t, ok, n, oom : AsPeer!SendStatus(k, t, ok, n, oom) = SendStatus(k, t, ok, n, oom)
  BY SameReply DEF AsPeer!SendStatus, SendStatus
<1> SUFFICES ASSUME NEW cs, NEW c, NEW n, NEW arg
    PROVE  /\ ExecuteCommand(cs, c) => AsPeer!ExecuteCommand(cs, c)
           /\ SendTick(cs, c, n) => AsPeer!SendTick(cs, c, n)
           /\ AnswerQuery(cs, c, n) => AsPeer!AnswerQuery(cs, c, n)
           /\ Subscribe(cs, c, n, arg) => AsPeer!Subscribe(cs, c, n, arg)
           /\ Unsubscribe(cs, c, n, arg) => AsPeer!Unsubscribe(cs, c, n, arg)
           /\ Refuse(cs, c, n) => AsPeer!Refuse(cs, c, n)
  OBVIOUS
<1>2. ExecuteCommand(cs, c) => AsPeer!ExecuteCommand(cs, c)
  BY SameEvents DEF AsPeer!ExecuteCommand, ExecuteCommand
<1>3. SendTick(cs, c, n) => AsPeer!SendTick(cs, c, n)
  BY <1>0, <1>1, SameEvents DEF AsPeer!SendTick, SendTick
<1>4. AnswerQuery(cs, c, n) => AsPeer!AnswerQuery(cs, c, n)
  BY <1>0, SameReply, SameEvents DEF AsPeer!AnswerQuery, AnswerQuery
<1>5. Subscribe(cs, c, n, arg) => AsPeer!Subscribe(cs, c, n, arg)
  BY <1>0, <1>1, SameReply, SameEvents, SameMasks DEF AsPeer!Subscribe, Subscribe
<1>6. Unsubscribe(cs, c, n, arg) => AsPeer!Unsubscribe(cs, c, n, arg)
  BY <1>0, <1>1, SameReply, SameEvents, SameMasks DEF AsPeer!Unsubscribe, Unsubscribe
<1>7. Refuse(cs, c, n) => AsPeer!Refuse(cs, c, n)
  BY <1>0, <1>1, SameReply, SameEvents DEF AsPeer!Refuse, Refuse
<1>8. QED BY <1>2, <1>3, <1>4, <1>5, <1>6, <1>7

-----------------------------------------------------------------------------
(* The sockets as the server's module sees them. *)

Wired == [c \in Clients |-> [sock[c] EXCEPT !.wire = @ \o Unwritten(c)]]
Typed == sock \in [Clients -> SockRec] /\ proc \in [Clients -> ProcRec]

\* The sockets s with u counted as written.
Mapped(s, u) == [c \in Clients |-> [s[c] EXCEPT !.wire = @ \o u[c]]]
Unsent == [c \in Clients |-> Unwritten(c)]

LEMMA WiredFacts ==
  ASSUME Typed, NEW c \in Clients
  PROVE  /\ Wired[c].inq = sock[c].inq /\ Wired[c].asked = sock[c].asked
         /\ Wired[c].hup = sock[c].hup /\ Wired[c].got = sock[c].got
         /\ Wired[c].wire = sock[c].wire \o Unwritten(c)
BY DEF Typed, Wired, SockRec

LEMMA UnwrittenStays ==
  ASSUME NEW d \in Clients, proc' = proc,
         sock'[d].asked = sock[d].asked /\ sock'[d].hup = sock[d].hup
  PROVE  Unwritten(d)' = Unwritten(d)
BY DEF Unwritten, Bytes

LEMMA WiredMapped ==
  /\ Wired = Mapped(sock, Unsent) /\ Wired' = Mapped(sock', Unsent')
  /\ \A d \in Clients : Unsent[d] = Unwritten(d) /\ Unsent'[d] = Unwritten(d)'
BY DEF Wired, Mapped, Unsent

LEMMA WiredStays ==
  ASSUME proc' = proc,
         \A d \in Clients : sock'[d].asked = sock[d].asked /\ sock'[d].hup = sock[d].hup
  PROVE  Wired' = Mapped(sock', Unsent)
<1>1. \A d \in Clients : Unwritten(d)' = Unwritten(d)
  BY UnwrittenStays
<1>2. Unsent' = Unsent
  BY <1>1 DEF Unsent
<1>3. QED BY <1>2, WiredMapped

LEMMA WiredInq ==
  ASSUME Typed, proc' = proc, NEW c \in Clients, NEW q, sock' = [sock EXCEPT ![c].inq = q]
  PROVE  Wired' = [Wired EXCEPT ![c].inq = q]
<1>1. \A d \in Clients : sock'[d].asked = sock[d].asked /\ sock'[d].hup = sock[d].hup
  BY DEF Typed, SockRec
<1>2. Wired' = Mapped(sock', Unsent) /\ Wired = Mapped(sock, Unsent)
  BY <1>1, WiredStays, WiredMapped
<1>3. QED BY <1>2 DEF Mapped, Typed, SockRec

LEMMA WiredSame ==
  ASSUME proc' = proc, sock' = sock
  PROVE  Wired' = Wired
BY WiredStays, WiredMapped

\* ipc_client_handle_command, as the server's module sees it.
PeerHandles(c, t, n, len, q) ==
  LET arg == IF len = 0 THEN <<>> ELSE Wired[c].asked[q[1].n].arg
      cs == [client EXCEPT ![c].pending = 0, ![c].ptype = t, ![c].hdr = n]
  IN /\ Wired' = [Wired EXCEPT ![c].inq = SubSeq(q, len + 1, Len(q))]
     /\ \/ t = "command" /\ AsPeer!ExecuteCommand(cs, c)
        \/ t = "send_tick" /\ AsPeer!SendTick(cs, c, n)
        \/ t = "query" /\ AsPeer!AnswerQuery(cs, c, n)
        \/ t = "subscribe" /\ AsPeer!Subscribe(cs, c, n, arg)
        \/ t = "unsubscribe" /\ AsPeer!Unsubscribe(cs, c, n, arg)
        \/ t = "other" /\ AsPeer!Refuse(cs, c, n)
     /\ UNCHANGED <<server, serves, queue>>

LEMMA HandledMaps ==
  ASSUME Typed, proc' = proc, NEW c \in Clients, NEW t, NEW n, NEW len, NEW q,
         ClientHandleCommand(c, t, n, len, q)
  PROVE  PeerHandles(c, t, n, len, q)
<1> DEFINE arg == IF len = 0 THEN <<>> ELSE sock[c].asked[q[1].n].arg
           cs == [client EXCEPT ![c].pending = 0, ![c].ptype = t, ![c].hdr = n]
<1>1. Wired' = [Wired EXCEPT ![c].inq = SubSeq(q, len + 1, Len(q))]
  BY WiredInq DEF ClientHandleCommand
<1>2. /\ \/ t = "command" /\ ExecuteCommand(cs, c)
         \/ t = "send_tick" /\ SendTick(cs, c, n)
         \/ t = "query" /\ AnswerQuery(cs, c, n)
         \/ t = "subscribe" /\ Subscribe(cs, c, n, arg)
         \/ t = "unsubscribe" /\ Unsubscribe(cs, c, n, arg)
         \/ t = "other" /\ Refuse(cs, c, n)
      /\ UNCHANGED <<server, serves, queue>>
  BY DEF ClientHandleCommand
<1>3. arg = IF len = 0 THEN <<>> ELSE Wired[c].asked[q[1].n].arg
  BY WiredFacts
<1> HIDE DEF arg, cs
<1>4. \/ t = "command" /\ AsPeer!ExecuteCommand(cs, c)
      \/ t = "send_tick" /\ AsPeer!SendTick(cs, c, n)
      \/ t = "query" /\ AsPeer!AnswerQuery(cs, c, n)
      \/ t = "subscribe" /\ AsPeer!Subscribe(cs, c, n, arg)
      \/ t = "unsubscribe" /\ AsPeer!Unsubscribe(cs, c, n, arg)
      \/ t = "other" /\ AsPeer!Refuse(cs, c, n)
  BY <1>2, SameHandlers
<1>5. QED BY <1>1, <1>2, <1>3, <1>4 DEF PeerHandles, cs

LEMMA SameGuards ==
  /\ AsPeer!NeverTouched <=> NeverTouched
  /\ AsPeer!Idle <=> Idle
  /\ \A c \in Clients : Typed => /\ AsPeer!Dispatchable(c) <=> Dispatchable(c)
                                 /\ AsPeer!Connected(c) <=> Connected(c)
                                 /\ AsPeer!IsHeader(c) <=> IsHeader(c)
<1>1. AsPeer!NeverTouched <=> NeverTouched
  BY DEF AsPeer!NeverTouched, NeverTouched
<1>2. AsPeer!Idle <=> Idle
  BY <1>1 DEF AsPeer!Idle, Idle
<1>3. ASSUME NEW c \in Clients, Typed
      PROVE  /\ AsPeer!Dispatchable(c) <=> Dispatchable(c)
             /\ AsPeer!Connected(c) <=> Connected(c)
  BY <1>1, <1>2, <1>3, WiredFacts
     DEF AsPeer!Dispatchable, Dispatchable, AsPeer!Connected, Connected, Wired
<1>4. ASSUME NEW c \in Clients, Typed
      PROVE  AsPeer!IsHeader(c) <=> IsHeader(c)
  BY <1>4, WiredFacts DEF AsPeer!IsHeader, IsHeader, Wired
<1>5. QED BY <1>1, <1>2, <1>3, <1>4

LEMMA DisconnectMaps ==
  ASSUME proc' = proc, NEW c \in Clients, Disconnect(c)
  PROVE  AsPeer!Disconnect(c)
<1>1. Wired' = Wired
  BY WiredSame DEF Disconnect
<1>2. QED BY <1>1, SameReply, SameEvents DEF AsPeer!Disconnect, Disconnect, Wired

LEMMA ReadHeaderMaps ==
  ASSUME Typed, proc' = proc, NEW c \in Clients, ReadHeader(c)
  PROVE  AsPeer!ReadHeader(c)
<1> DEFINE q == sock[c].inq
           n == q[1].n
           r == sock[c].asked[n]
           rest == SubSeq(q, HeaderSize + 1, Len(q))
<1>1. AsPeer!Dispatchable(c) /\ client[c].pending = 0 /\ Len(q) >= HeaderSize
  BY SameGuards DEF ReadHeader
<1>2. CASE ~IsHeader(c)
  <2>1. ~AsPeer!IsHeader(c) /\ AsPeer!Disconnect(c)
    BY <1>2, SameGuards, DisconnectMaps DEF ReadHeader
  <2>2. QED BY <1>1, <2>1, WiredFacts DEF AsPeer!ReadHeader, Wired
<1>3. CASE IsHeader(c) /\ Len(rest) >= r.len
  <2>1. AsPeer!IsHeader(c) /\ ClientHandleCommand(c, r.type, n, r.len, rest)
    BY <1>3, SameGuards DEF ReadHeader
  <2>2. PeerHandles(c, r.type, n, r.len, rest)
    BY <2>1, HandledMaps
  <2>3. Wired[c].inq = q /\ Wired[c].asked[n] = r
    BY WiredFacts
  <2>4. AsPeer!ClientHandleCommand(c, Wired[c].asked[Wired[c].inq[1].n].type, Wired[c].inq[1].n,
                                   Wired[c].asked[Wired[c].inq[1].n].len,
                                   SubSeq(Wired[c].inq, HeaderSize + 1, Len(Wired[c].inq)))
    <3>1. PeerHandles(c, Wired[c].asked[Wired[c].inq[1].n].type, Wired[c].inq[1].n,
                      Wired[c].asked[Wired[c].inq[1].n].len,
                      SubSeq(Wired[c].inq, HeaderSize + 1, Len(Wired[c].inq)))
      BY <2>2, <2>3
    <3>2. QED BY <3>1 DEF PeerHandles, AsPeer!ClientHandleCommand, Wired
  <2>5. Len(SubSeq(Wired[c].inq, HeaderSize + 1, Len(Wired[c].inq))) >=
          Wired[c].asked[Wired[c].inq[1].n].len
    BY <1>3, <2>3
  <2>6. QED BY <1>1, <2>1, <2>3, <2>4, <2>5 DEF AsPeer!ReadHeader, Wired
<1>4. CASE IsHeader(c) /\ ~(Len(rest) >= r.len)
  <2>1. AsPeer!IsHeader(c)
    BY <1>4, SameGuards
  <2>2. Wired[c].inq = q /\ Wired[c].asked[n] = r
    BY WiredFacts
  <2>3. /\ client' = [client EXCEPT ![c].pending = r.len, ![c].ptype = r.type, ![c].hdr = n]
        /\ sock' = [sock EXCEPT ![c].inq = rest]
        /\ UNCHANGED <<server, serves, queue, listed, executing, nev>>
    BY <1>4 DEF ReadHeader
  <2>4. Wired' = [Wired EXCEPT ![c].inq = rest]
    BY <2>3, WiredInq
  <2>5. QED BY <1>1, <1>4, <2>1, <2>2, <2>3, <2>4 DEF AsPeer!ReadHeader, Wired
<1>5. QED BY <1>2, <1>3, <1>4

LEMMA ReadPayloadMaps ==
  ASSUME Typed, proc' = proc, NEW c \in Clients, ReadPayload(c)
  PROVE  AsPeer!ReadPayload(c)
<1>1. PeerHandles(c, client[c].ptype, client[c].hdr, client[c].pending, sock[c].inq)
  BY HandledMaps DEF ReadPayload
<1>2. Wired[c].inq = sock[c].inq
  BY WiredFacts
<1>3. PeerHandles(c, client[c].ptype, client[c].hdr, client[c].pending, Wired[c].inq)
  BY <1>1, <1>2
<1>4. AsPeer!ClientHandleCommand(c, client[c].ptype, client[c].hdr, client[c].pending,
                                 Wired[c].inq)
  BY <1>3 DEF PeerHandles, AsPeer!ClientHandleCommand, Wired
<1>5. AsPeer!Dispatchable(c) /\ client[c].pending > 0 /\ Len(Wired[c].inq) >= client[c].pending
  BY <1>2, SameGuards DEF ReadPayload
<1>6. QED BY <1>4, <1>5 DEF AsPeer!ReadPayload, Wired

LEMMA WritableMaps ==
  ASSUME Typed, proc' = proc, NEW c \in Clients, ClientHandleWritable(c)
  PROVE  AsPeer!ClientHandleWritable(c)
<1>1. PICK written \in 1..Len(client[c].buf) :
        LET rest == SubSeq(client[c].buf, written + 1, Len(client[c].buf))
        IN Written(c, written, rest, rest # <<>>)
  BY DEF ClientHandleWritable
<1> DEFINE sent == SubSeq(client[c].buf, 1, written)
<1>2. sock' = [sock EXCEPT ![c].got = @ \o sent]
  BY <1>1 DEF Written
<1>3. \A d \in Clients : sock'[d].asked = sock[d].asked /\ sock'[d].hup = sock[d].hup
  BY <1>2 DEF Typed, SockRec
<1>4. Wired' = Mapped(sock', Unsent) /\ Wired = Mapped(sock, Unsent)
  BY <1>3, WiredStays, WiredMapped
<1>5. PICK x : x = sent
  OBVIOUS
<1>6. Wired' = [Wired EXCEPT ![c].got = @ \o sent]
  <2>1. sock' = [sock EXCEPT ![c].got = @ \o x]
    BY <1>2, <1>5
  <2>2. Wired' = [Wired EXCEPT ![c].got = @ \o x]
    BY <1>4, <2>1 DEF Mapped, Typed, SockRec
  <2>3. QED BY <1>5, <2>2
<1>7. QED BY <1>1, <1>6, SameGuards
         DEF AsPeer!ClientHandleWritable, ClientHandleWritable, AsPeer!Written, Written, Wired

\* A sequence cut in two.
LEMMA CutInTwo ==
  ASSUME NEW S, NEW b \in Seq(S), NEW k \in 0..Len(b)
  PROVE  /\ SubSeq(b, 1, k) \in Seq(S) /\ Len(SubSeq(b, 1, k)) = k
         /\ \A i \in 1..k : SubSeq(b, 1, k)[i] = b[i]
         /\ SubSeq(b, k + 1, Len(b)) \in Seq(S)
         /\ Len(SubSeq(b, k + 1, Len(b))) = Len(b) - k
         /\ \A i \in 1..Len(b) - k : SubSeq(b, k + 1, Len(b))[i] = b[k + i]
         /\ SubSeq(b, 1, k) \o SubSeq(b, k + 1, Len(b)) = b
<1> DEFINE x == SubSeq(b, 1, k)
           y == SubSeq(b, k + 1, Len(b))
<1>1. Len(b) \in Nat /\ k \in Nat /\ k <= Len(b) /\ \A i \in 1..Len(b) : b[i] \in S
  BY LenProperties
<1>2. x \in Seq(S) /\ Len(x) = k /\ \A i \in 1..k : x[i] = b[i]
  <2>1. k \in Int /\ \A i \in 1..k : b[i] \in S
    BY <1>1
  <2>2. /\ x \in Seq(S)
        /\ Len(x) = IF 1 <= k THEN k - 1 + 1 ELSE 0
        /\ \A i \in 1..k - 1 + 1 : x[i] = b[1 + i - 1]
    BY <2>1, SubSeqProperties
  <2> HIDE DEF x
  <2>3. QED BY <1>1, <2>2
<1>3. /\ y \in Seq(S) /\ Len(y) = Len(b) - k
      /\ \A i \in 1..Len(b) - k : y[i] = b[k + i]
  <2>1. k + 1 \in Int /\ Len(b) \in Int /\ \A i \in k + 1..Len(b) : b[i] \in S
    BY <1>1
  <2>2. /\ y \in Seq(S)
        /\ Len(y) = IF k + 1 <= Len(b) THEN Len(b) - (k + 1) + 1 ELSE 0
        /\ \A i \in 1..Len(b) - (k + 1) + 1 : y[i] = b[k + 1 + i - 1]
    BY <2>1, SubSeqProperties
  <2> HIDE DEF y
  <2>3. QED BY <1>1, <2>2
<1>4. x \o y = b
  <2>1. 1 \in 1..Len(b) + 1 /\ k \in 1 - 1..Len(b) /\ Len(b) \in k..Len(b)
    BY <1>1
  <2>2. SubSeq(b, 1, k) \o SubSeq(b, k + 1, Len(b)) = SubSeq(b, 1, Len(b))
    BY <2>1, ConcatAdjacentSubSeq
  <2>3. QED BY <2>2, SubSeqFull
<1>5. QED BY <1>2, <1>3, <1>4

LEMMA CutFront ==
  ASSUME NEW S, NEW w \in Seq(S), NEW u \in Seq(S), NEW k \in 1..Len(w)
  PROVE  LET v == w \o u
         IN /\ k \in 1..Len(v)
            /\ SubSeq(v, 1, k) = SubSeq(w, 1, k)
            /\ SubSeq(v, k + 1, Len(v)) = SubSeq(w, k + 1, Len(w)) \o u
<1> DEFINE v == w \o u
<1>1. v \in Seq(S) /\ Len(v) = Len(w) + Len(u) /\ Len(w) \in Nat /\ Len(u) \in Nat
  BY ConcatProperties, LenProperties
<1>2. 1 \in 1..Len(w) /\ k \in 1..Len(w) /\ k \in 0..Len(w)
  BY <1>1
<1>3. SubSeq(v, 1, k) = SubSeq(w, 1, k)
  BY <1>2, SubSeqOfConcat1
<1>4. k \in 1..Len(v) /\ k \in 0..Len(v)
  <2> HIDE DEF v
  <2>1. QED BY <1>1
<1>5. PICK a, b : a = SubSeq(w, 1, k) /\ b = SubSeq(w, k + 1, Len(w))
  OBVIOUS
<1>6. a \in Seq(S) /\ b \in Seq(S) /\ a \o b = w
  BY <1>2, <1>5, CutInTwo
<1>7. PICK r : r = SubSeq(v, k + 1, Len(v))
  OBVIOUS
<1>8. r \in Seq(S) /\ a \o r = v
  <2> HIDE DEF v
  <2>1. r \in Seq(S) /\ SubSeq(v, 1, k) \o r = v
    BY <1>1, <1>4, <1>7, CutInTwo
  <2>2. QED BY <1>3, <1>5, <2>1
<1>9. (a \o b) \o u = a \o (b \o u) /\ b \o u \in Seq(S)
  <2> HIDE DEF v
  <2>1. a \in Seq(S) /\ b \in Seq(S) /\ u \in Seq(S)
    BY <1>6
  <2>2. \A x, y \in Seq(S) : x \o y \in Seq(S)
    BY ConcatProperties
  <2>3. (a \o b) \o u = a \o (b \o u)
    BY ONLY SMTT(30), <2>1, Regroup
  <2>4. b \o u \in Seq(S)
    BY ONLY ZenonT(30), <2>1, <2>2
  <2>5. QED BY <2>3, <2>4
<1>10. a \o (b \o u) = v
  BY <1>6, <1>9
<1>11. r = b \o u
  <2>1. \A x, y, z \in Seq(S) : x \o y = x \o z => y = z
    BY ConcatSimplifications
  <2> HIDE DEF v
  <2>2. QED BY <1>6, <1>8, <1>9, <1>10, <2>1
<1>12. QED BY <1>3, <1>4, <1>5, <1>7, <1>11

\* The bytes of the first request of a peer: its header and its payload.
LEMMA BytesParts ==
  ASSUME NEW r \in Requests
  PROVE  LET head == SubSeq(Bytes(1, r), 1, HeaderSize)
             tail == SubSeq(Bytes(1, r), HeaderSize + 1, HeaderSize + r.len)
         IN /\ head \in Seq(InCell) /\ tail \in Seq(InCell) /\ head \o tail = Bytes(1, r)
            /\ \A i \in 1..Len(head) : head[i].n = 1
            /\ \A i \in 1..Len(tail) : tail[i].n = 1
<1>1. PICK l, b : l = r.len /\ b = Bytes(1, r)
  OBVIOUS
<1>2. l \in Nat /\ HeaderSize \in Nat /\ HeaderSize + l \in Nat
  BY <1>1, RequestsAssumption, SizesNat DEF Request
<1>3. b \in Seq(InCell) /\ Len(b) = HeaderSize + l /\ \A i \in 1..HeaderSize + l : b[i].n = 1
  <2>1. PICK n : n = HeaderSize + l
    OBVIOUS
  <2>2. b = [i \in 1..n |-> [n |-> 1, off |-> i]] /\ n \in Nat
    BY <1>1, <1>2, <2>1 DEF Bytes
  <2>3. b \in [1..n -> InCell]
    BY <2>2 DEF InCell
  <2>4. b \in Seq(InCell)
    BY <2>2, <2>3
  <2>5. Len(b) = n
    BY <2>2, <2>3, <2>4
  <2>6. QED BY <2>1, <2>2, <2>4, <2>5
<1>4. HeaderSize \in 0..Len(b)
  BY <1>2, <1>3
<1>5. PICK x, y : x = SubSeq(b, 1, HeaderSize) /\ y = SubSeq(b, HeaderSize + 1, Len(b))
  OBVIOUS
<1>6. /\ x \in Seq(InCell) /\ y \in Seq(InCell) /\ x \o y = b
      /\ Len(x) = HeaderSize /\ \A i \in 1..HeaderSize : x[i] = b[i]
      /\ Len(y) = Len(b) - HeaderSize /\ \A i \in 1..Len(b) - HeaderSize : y[i] = b[HeaderSize + i]
  BY <1>3, <1>4, <1>5, CutInTwo
<1>7. \A i \in 1..Len(x) : x[i].n = 1
  <2>1. \A i \in 1..HeaderSize : i \in 1..HeaderSize + l
    BY <1>2
  <2>2. QED BY <1>3, <1>6, <2>1
<1>8. \A i \in 1..Len(y) : y[i].n = 1
  <2>1. \A i \in 1..Len(b) - HeaderSize : HeaderSize + i \in 1..HeaderSize + l
    BY <1>2, <1>3
  <2>2. QED BY <1>3, <1>6, <2>1
<1>9. x = SubSeq(Bytes(1, r), 1, HeaderSize) /\ b = Bytes(1, r)
      /\ y = SubSeq(Bytes(1, r), HeaderSize + 1, HeaderSize + r.len)
  BY <1>1, <1>3, <1>5
<1>10. QED BY <1>6, <1>7, <1>8, <1>9

LEMMA UnwrittenType ==
  ASSUME Typed, NEW c \in Clients
  PROVE  Unwritten(c) \in Seq(InCell)
<1>1. proc[c].job.req \in Requests
  BY DEF Typed, ProcRec, Job
<1>2. <<>> \in Seq(InCell)
  BY EmptySeq
<1>3. QED BY <1>1, <1>2, BytesParts DEF Unwritten

LEMMA ArriveMaps ==
  ASSUME Typed, proc' = proc, NEW c \in Clients, Arrive(c)
  PROVE  AsPeer!Arrive(c)
<1>1. PICK k \in 1..Len(sock[c].wire) :
        /\ Len(sock[c].inq) + k <= SockBuf
        /\ sock' = [sock EXCEPT ![c].inq = @ \o SubSeq(sock[c].wire, 1, k),
                                ![c].wire = SubSeq(@, k + 1, Len(@))]
  BY DEF Arrive
<1>2. PICK w, u, v : w = sock[c].wire /\ u = Unwritten(c) /\ v = w \o u
  OBVIOUS
<1>3. w \in Seq(InCell) /\ u \in Seq(InCell)
  BY <1>2, UnwrittenType DEF Typed, SockRec
<1>4. /\ k \in 1..Len(v)
      /\ SubSeq(v, 1, k) = SubSeq(w, 1, k)
      /\ SubSeq(v, k + 1, Len(v)) = SubSeq(w, k + 1, Len(w)) \o u
  <2>1. k \in 1..Len(w) /\ v = w \o u
    BY <1>1, <1>2
  <2> HIDE <1>1, <1>2
  <2>2. QED BY <1>3, <2>1, CutFront
<1>5. \A d \in Clients : sock'[d].asked = sock[d].asked /\ sock'[d].hup = sock[d].hup
  BY <1>1 DEF Typed, SockRec
<1>6. Wired' = Mapped(sock', Unsent) /\ Wired = Mapped(sock, Unsent) /\ Unsent[c] = u
  BY <1>2, <1>5, WiredStays, WiredMapped
<1>8. Wired' = [Wired EXCEPT ![c].inq = @ \o SubSeq(v, 1, k), ![c].wire = SubSeq(v, k + 1, Len(v))]
  <2>1. PICK x, y : x = SubSeq(w, 1, k) /\ y = SubSeq(w, k + 1, Len(w))
    OBVIOUS
  <2>2. sock' = [sock EXCEPT ![c].inq = @ \o x, ![c].wire = y]
    BY <1>1, <1>2, <2>1
  <2>3. Wired' = [Wired EXCEPT ![c].inq = @ \o x, ![c].wire = y \o u]
    BY <1>6, <2>2 DEF Mapped, Typed, SockRec
  <2>4. QED BY <1>4, <2>1, <2>3
<1>9. Wired[c].wire = v /\ Wired[c].inq = sock[c].inq
  BY <1>2, WiredFacts
<1>10. AsPeer!Connected(c) /\ UNCHANGED <<server, serves, queue, listed, client, executing, nev>>
  BY SameGuards DEF Arrive
<1>11. QED BY <1>1, <1>4, <1>8, <1>9, <1>10 DEF AsPeer!Arrive, Wired

LEMMA HangupMaps ==
  ASSUME Typed, proc' = proc, NEW c \in Clients, HandleHangup(c) \/ SocketError(c)
  PROVE  AsPeer!HandleHangup(c) \/ AsPeer!SocketError(c)
<1>1. AsPeer!Disconnect(c) /\ AsPeer!Idle /\ client[c].life = "open"
  BY DisconnectMaps, SameGuards DEF HandleHangup, SocketError
<1>2. QED BY <1>1 DEF AsPeer!SocketError

\* What the plugin does, and the callbacks of the listening socket.
LEMMA PluginMaps ==
  ASSUME Typed, proc' = proc, Plugin
  PROVE  AsPeer!Plugin
<1>1. sock' = sock
  BY DEF Plugin, Serve, ServeFails, HandleDisplayDestroy, HandleConnection, CommandDone, Publish
<1>2. Wired' = Wired
  BY <1>1, WiredSame
<1>3. MayFail \subseteq Clients /\ SUBSET MayFail \subseteq SUBSET Clients
  BY ClientsAssumption
<1>4. CASE Serve
  BY <1>2, <1>4, SameGuards DEF Serve, AsPeer!Serve, AsPeer!Plugin, Wired
<1>5. CASE ServeFails
  <2>1. Clients # {}
    BY <1>3, <1>5 DEF ServeFails
  <2>2. QED BY <1>2, <1>5, <2>1, SameGuards, SameReply
           DEF ServeFails, AsPeer!ServeFails, AsPeer!Plugin, Wired
<1>6. CASE HandleDisplayDestroy
  BY <1>2, <1>6, SameGuards, SameReply
     DEF HandleDisplayDestroy, AsPeer!HandleDisplayDestroy, AsPeer!Plugin, Wired
<1>7. CASE HandleConnection
  <2>1. Head(queue) \in MayFail => Head(queue) \in Clients
    BY <1>3
  <2>2. QED BY <1>2, <1>7, <2>1, SameGuards, SameReply
           DEF HandleConnection, AsPeer!HandleConnection, AsPeer!Plugin, Wired
<1>8. CASE CommandDone
  BY <1>2, <1>3, <1>8, SameGuards, SameReply, SameEvents
     DEF CommandDone, AsPeer!CommandDone, AsPeer!Plugin, Wired
<1>9. ASSUME NEW e \in PluginEvents, Publish(e)
      PROVE  AsPeer!Plugin
  <2>1. AsPeer!PluginEvents = PluginEvents
    BY DEF AsPeer!PluginEvents, PluginEvents
  <2>2. AsPeer!Publish(e)
    BY <1>2, <1>3, <1>9, SameGuards, SameReply, SameEvents
       DEF Publish, AsPeer!Publish, Wired
  <2>3. QED BY <2>1, <2>2 DEF AsPeer!Plugin
<1>10. QED BY <1>4, <1>5, <1>6, <1>7, <1>8, <1>9 DEF Plugin

\* What the server does is what it does there.
LEMMA ServerMaps ==
  ASSUME Typed, Serves \/ ServerStep
  PROVE  AsPeer!Next /\ Next /\ proc' = proc
<1>1. proc' = proc
  BY DEF Serves, ServerStep
<1>2. \/ Plugin
      \/ \E c \in Clients : \/ ReadHeader(c) \/ ReadPayload(c) \/ HandleHangup(c)
                            \/ Arrive(c) \/ ClientHandleWritable(c) \/ SocketError(c)
  BY DEF Serves, ServerStep, Plugin
<1>3. CASE Plugin
  BY <1>1, <1>3, PluginMaps DEF AsPeer!Next, Next
<1>4. ASSUME NEW c \in Clients,
             \/ ReadHeader(c) \/ ReadPayload(c) \/ HandleHangup(c)
             \/ Arrive(c) \/ ClientHandleWritable(c) \/ SocketError(c)
      PROVE  AsPeer!Next /\ Next
  <2>1. Handler(c) \/ Peer(c)
    BY <1>4 DEF Handler, Peer
  <2>2. AsPeer!Handler(c) \/ AsPeer!Peer(c)
    BY <1>1, <1>4, ReadHeaderMaps, ReadPayloadMaps, HangupMaps, ArriveMaps, WritableMaps
       DEF AsPeer!Handler, AsPeer!Peer
  <2>3. QED BY <2>1, <2>2 DEF AsPeer!Next, Next
<1>5. QED BY <1>1, <1>2, <1>3, <1>4

-----------------------------------------------------------------------------
(* What a process has done of its connection, by the stage it is in.       *)

StageRec(p, s) ==
  /\ s.asked = <<>> \/ s.asked = <<p.job.req>>
  /\ p.stage \in {"main", "write_header"} => s.asked = <<>> /\ s.wire = <<>>
  /\ p.stage = "write_payload" => s.asked # <<>>
  /\ p.stage \in {"main", "write_header", "write_payload"} => ~p.sent

WfInv ==
  /\ IInv
  /\ proc \in [Clients -> ProcRec]
  /\ \A c \in Clients : StageRec(proc[c], sock[c])

Codes == {0, 1, 2, Aborted, Killed}

\* The process goes on, with some of the response more.
GoesOn(c) ==
  /\ UNCHANGED vars
  /\ \E p \in ProcRec :
       /\ proc' = [proc EXCEPT ![c] = p]
       /\ p.job = proc[c].job /\ p.sent = proc[c].sent /\ p.stage = proc[c].stage

Connects(c) ==
  /\ PeerConnect(c) /\ proc[c].stage = "main"
  /\ \E p \in ProcRec :
       /\ proc' = [proc EXCEPT ![c] = p]
       /\ p.job = proc[c].job /\ p.sent = proc[c].sent /\ p.stage = "write_header"

LEMMA FrameHead ==
  ASSUME WfInv, NEW c \in Clients, Complete(c)
  PROVE  proc[c].frame[1].msg \in Message
<1>1. proc[c].frame \in Seq(OutCell) /\ Len(proc[c].frame) >= HeaderSize
  BY DEF WfInv, ProcRec, Complete
<1>2. 1 \in 1..Len(proc[c].frame)
  BY <1>1, SizesNat, LenProperties
<1>3. proc[c].frame[1] \in OutCell
  BY <1>1, <1>2, ElementOfSeq
<1>4. QED BY <1>3 DEF OutCell

LEMMA RecvGoesOn ==
  ASSUME WfInv, NEW c \in Clients, Recv(c)
  PROVE  GoesOn(c)
<1> DEFINE p == proc[c]
           got == sock[c].got
<1>1. PICK k \in 1..Missing(p.frame) :
        /\ k <= Unread(c)
        /\ proc' = [proc EXCEPT ![c].frame = @ \o SubSeq(got, p.read + 1, p.read + k),
                                ![c].read = @ + k]
  BY DEF Recv
<1>2. /\ p \in ProcRec /\ p.frame \in Seq(OutCell) /\ p.read \in Nat
      /\ got \in Seq(OutCell) /\ Len(got) \in Nat
  BY LenProperties DEF WfInv, IInv, TypeOK, ProcRec, SockRec
<1>3. k \in Int /\ k >= 1 /\ p.read + k <= Len(got) /\ p.read + k \in Nat
  <2>1. PICK a, b, m : a = p.read /\ b = Len(got) /\ m = Missing(p.frame)
    OBVIOUS
  <2>2. k \in 1..m /\ k <= b - a /\ a \in Nat /\ b \in Nat
    BY <1>1, <1>2, <2>1 DEF Unread
  <2>3. k \in Int /\ k >= 1 /\ a + k <= b /\ a + k \in Nat
    BY <2>2
  <2>4. QED BY <2>1, <2>3
<1>4. PICK x : x = SubSeq(got, p.read + 1, p.read + k)
  OBVIOUS
<1>5. x \in Seq(OutCell)
  <2>1. \A i \in p.read + 1..p.read + k : i \in 1..Len(got)
    BY <1>2, <1>3
  <2>2. \A i \in p.read + 1..p.read + k : got[i] \in OutCell
    BY <1>2, <2>1, ElementOfSeq
  <2>3. p.read + 1 \in Int /\ p.read + k \in Int
    BY <1>2, <1>3
  <2>4. QED BY <1>4, <2>2, <2>3, SubSeqProperties
<1>6. PICK y, r : y = p.frame \o x /\ r = p.read + k
  OBVIOUS
<1>7. y \in Seq(OutCell) /\ r \in Nat
  BY <1>2, <1>3, <1>5, <1>6, ConcatProperties
<1>8. [p EXCEPT !.frame = y, !.read = r] \in ProcRec
  BY <1>2, <1>7 DEF ProcRec
<1>9. proc' = [proc EXCEPT ![c] = [p EXCEPT !.frame = y, !.read = r]]
  BY <1>1, <1>4, <1>6 DEF WfInv
<1>10. UNCHANGED vars
  BY DEF Recv
<1>11. PICK q : q = [p EXCEPT !.frame = y, !.read = r]
  OBVIOUS
<1>12. q.job = p.job /\ q.sent = p.sent /\ q.stage = p.stage
  BY <1>2, <1>11 DEF ProcRec
<1>13. QED BY <1>8, <1>9, <1>10, <1>11, <1>12 DEF GoesOn

\* What a process does.
LEMMA ProcCases ==
  ASSUME WfInv, NEW c \in Clients, Runs(c) \/ OutOfMemory(c) \/ Kill(c)
  PROVE  \/ \E seen \in Seq(Message), code \in Codes : Leaves(c, seen, code)
         \/ Connects(c) \/ WriteHeader(c) \/ WritePayload(c) \/ GoesOn(c)
<1> DEFINE p == proc[c]
<1>1. p \in ProcRec /\ p.seen \in Seq(Message)
  BY DEF WfInv, ProcRec
<1>2. \A code \in Codes : Exit(c, code) => \E seen \in Seq(Message), x \in Codes : Leaves(c, seen, x)
  BY <1>1 DEF Exit
<1>3. 0 \in Codes /\ 1 \in Codes /\ 2 \in Codes /\ Aborted \in Codes /\ Killed \in Codes
  BY DEF Codes
<1>4. CASE Misused(c)
  BY <1>2, <1>3, <1>4 DEF Misused
<1>5. CASE OpenSocket(c)
  <2>1. CASE Exit(c, Aborted)
    BY <1>2, <1>3, <2>1
  <2>2. CASE /\ PeerConnect(c)
             /\ proc' = [proc EXCEPT ![c].stage = "write_header",
                                     ![c].earlier = {d \in Clients : MonitorsTicks(d)}]
    <3>1. PICK e : e = {d \in Clients : MonitorsTicks(d)}
      OBVIOUS
    <3>2. e \in SUBSET Clients
      BY <3>1
    <3>3. PICK q : q = [p EXCEPT !.stage = "write_header", !.earlier = e]
      OBVIOUS
    <3>4. q \in ProcRec /\ q.job = p.job /\ q.sent = p.sent /\ q.stage = "write_header"
      BY <1>1, <3>2, <3>3 DEF ProcRec, Stages
    <3>5. proc' = [proc EXCEPT ![c] = q]
      BY <2>2, <3>1, <3>3 DEF WfInv
    <3>6. p.stage = "main"
      BY <1>5 DEF OpenSocket
    <3>7. QED BY <2>2, <3>4, <3>5, <3>6 DEF Connects
  <2>3. QED BY <1>5, <2>1, <2>2 DEF OpenSocket
<1>6. CASE WriteFails(c) \/ RecvFails(c) \/ RecvTimesOut(c) \/ Kill(c)
  BY <1>2, <1>3, <1>6 DEF WriteFails, RecvFails, RecvTimesOut, Kill
<1>7. CASE OutOfMemory(c)
  BY <1>2, <1>3, <1>7 DEF OutOfMemory
<1>8. CASE Recv(c)
  BY <1>8, RecvGoesOn
<1>9. CASE HandleReply(c)
  <2>1. PICK m : m = p.frame[1].msg
    OBVIOUS
  <2>2. m \in Message /\ <<m>> \in Seq(Message) /\ <<>> \in Seq(OutCell)
    <3>1. m \in Message
      BY <1>9, <2>1, FrameHead DEF HandleReply
    <3>2. QED BY <3>1, EmptySeq
  <2>3. \A x : Verdict(x) \in Codes
    BY <1>3 DEF Verdict
  <2>4. CASE \E code \in Codes : Leaves(c, <<m>>, code)
    BY <2>2, <2>4
  <2>5. CASE proc' = [proc EXCEPT ![c].seen = <<m>>, ![c].frame = <<>>] /\ UNCHANGED vars
    <3>1. PICK q : q = [p EXCEPT !.seen = <<m>>, !.frame = <<>>]
      OBVIOUS
    <3>2. q \in ProcRec /\ q.job = p.job /\ q.sent = p.sent /\ q.stage = p.stage
      BY <1>1, <2>2, <3>1 DEF ProcRec
    <3>3. proc' = [proc EXCEPT ![c] = q]
      BY <2>5, <3>1 DEF WfInv
    <3>4. QED BY <2>5, <3>2, <3>3 DEF GoesOn
  <2>6. QED BY <1>9, <2>1, <2>3, <2>4, <2>5 DEF HandleReply
<1>10. CASE HandleEvent(c)
  <2>1. PICK m, seen : m = p.frame[1].msg /\ seen = Append(p.seen, m)
    OBVIOUS
  <2>2. seen \in Seq(Message) /\ <<>> \in Seq(OutCell)
    <3>1. m \in Message
      BY <1>10, <2>1, FrameHead DEF HandleEvent
    <3>2. QED BY <1>1, <2>1, <3>1, AppendProperties, EmptySeq
  <2>3. CASE \E code \in Codes : Leaves(c, seen, code)
    BY <2>2, <2>3
  <2>4. CASE proc' = [proc EXCEPT ![c].seen = seen, ![c].frame = <<>>] /\ UNCHANGED vars
    <3>1. PICK q : q = [p EXCEPT !.seen = seen, !.frame = <<>>]
      OBVIOUS
    <3>2. q \in ProcRec /\ q.job = p.job /\ q.sent = p.sent /\ q.stage = p.stage
      BY <1>1, <2>2, <3>1 DEF ProcRec
    <3>3. proc' = [proc EXCEPT ![c] = q]
      BY <2>4, <3>1 DEF WfInv
    <3>4. QED BY <2>4, <3>2, <3>3 DEF GoesOn
  <2>5. QED BY <1>3, <1>10, <2>1, <2>3, <2>4 DEF HandleEvent
<1>11. QED BY <1>4, <1>5, <1>6, <1>7, <1>8, <1>9, <1>10 DEF Runs

LEMMA SockBecomes ==
  ASSUME IInv, NEW c \in Clients, NEW u \in GoodSockRec, sock' = [sock EXCEPT ![c] = u],
         UNCHANGED <<server, serves, queue, listed, client, executing, nev>>
  PROVE  IInv'
<1>1. sock' \in [Clients -> GoodSockRec]
  BY DEF IInv
<1>2. QED BY <1>1, Establish DEF IInv, TypeOK

LEMMA SameProc ==
  ASSUME WfInv, NEW c \in Clients, NEW p \in ProcRec, proc' = [proc EXCEPT ![c] = p],
         StageRec(p, sock'[c]), IInv', \A d \in Clients \ {c} : sock'[d] = sock[d]
  PROVE  WfInv'
<1>1. proc' \in [Clients -> ProcRec] /\ \A d \in Clients : proc'[d] = IF d = c THEN p ELSE proc[d]
  BY DEF WfInv
<1>2. ASSUME NEW d \in Clients
      PROVE  StageRec(proc'[d], sock'[d])
  BY <1>1 DEF WfInv
<1>3. QED BY <1>1, <1>2 DEF WfInv

\* What of the request is not written yet, by what it depends on.
LEMMA UnwrittenIs ==
  ASSUME NEW d \in Clients, proc'[d].job = proc[d].job, proc'[d].sent = proc[d].sent,
         sock'[d].asked = sock[d].asked, sock'[d].hup = sock[d].hup
  PROVE  Unwritten(d)' = Unwritten(d)
BY DEF Unwritten, Bytes

\* The peers seen by the server's module when one socket changes.
LEMMA WiredOne ==
  ASSUME Typed, NEW c \in Clients, NEW p \in ProcRec, proc' = [proc EXCEPT ![c] = p],
         NEW u \in SockRec, sock' = [sock EXCEPT ![c] = u]
  PROVE  Wired' = [Wired EXCEPT ![c] = [u EXCEPT !.wire = @ \o Unwritten(c)']]
<1>1. \A d \in Clients \ {c} : proc'[d] = proc[d] /\ sock'[d] = sock[d]
  BY DEF Typed
<1>2. \A d \in Clients \ {c} : Unwritten(d)' = Unwritten(d)
  BY <1>1, UnwrittenIs
<1>3. PICK x : x = Unwritten(c)'
  OBVIOUS
<1>4. Unsent' = [Unsent EXCEPT ![c] = x]
  BY <1>2, <1>3 DEF Unsent
<1>5. Wired' = Mapped(sock', Unsent') /\ Wired = Mapped(sock, Unsent)
  BY WiredMapped
<1>6. Unsent = [d \in Clients |-> Unsent[d]]
  BY DEF Unsent
<1>7. Wired' = [Wired EXCEPT ![c] = [u EXCEPT !.wire = @ \o x]]
  BY <1>4, <1>5, <1>6 DEF Mapped, Typed
<1>8. QED BY <1>3, <1>7

\* The process ends: its peer hangs up, or there was no connection.
LEMMA LeavesMaps ==
  ASSUME WfInv, NEW c \in Clients, NEW seen \in Seq(Message), NEW code \in Codes,
         Leaves(c, seen, code)
  PROVE  WfInv' /\ (AsPeer!Next \/ UNCHANGED <<server, serves, queue, listed, client, Wired,
                                               executing, nev>>)
<1>0. Typed /\ proc[c] \in ProcRec /\ sock[c] \in SockRec /\ sock[c] \in GoodSockRec
  BY DEF WfInv, IInv, TypeOK, Typed
<1>1. PICK p : p = [proc[c] EXCEPT !.stage = "exited", !.ret = code, !.frame = <<>>, !.seen = seen]
  OBVIOUS
<1>2. /\ p \in ProcRec /\ p.job = proc[c].job /\ p.sent = proc[c].sent /\ p.stage = "exited"
  <2>1. <<>> \in Seq(OutCell)
    BY EmptySeq
  <2>2. QED BY <1>0, <1>1, <2>1 DEF ProcRec, Codes, Stages
<1>3. proc' = [proc EXCEPT ![c] = p]
  BY <1>1 DEF Leaves, WfInv
<1>4. UNCHANGED <<server, serves, queue, listed, client, executing, nev>>
  BY DEF Leaves
<1>5. CASE Connected(c)
  <2>1. PICK u : u = [sock[c] EXCEPT !.hup = TRUE, !.wire = <<>>]
    OBVIOUS
  <2>2. <<>> \in Seq(InCell) /\ Len(<<>>) = 0
    BY EmptySeq
  <2>3. u \in SockRec /\ u.wire = <<>> /\ u.inq = sock[c].inq /\ u.asked = sock[c].asked /\ u.hup
    BY <1>0, <2>1, <2>2 DEF SockRec
  <2>4. u \in GoodSockRec
    BY <1>0, <2>2, <2>3 DEF GoodSockRec, GoodSock
  <2>5. sock' = [sock EXCEPT ![c] = u]
    BY <1>0, <1>5, <2>1 DEF Leaves, Typed
  <2>6. sock'[c] = u /\ proc'[c] = p /\ \A d \in Clients \ {c} : sock'[d] = sock[d]
    BY <1>0, <1>3, <2>5 DEF Typed
  <2>7. IInv'
    BY <1>4, <2>4, <2>5, SockBecomes DEF WfInv
  <2>8. StageRec(p, sock'[c])
    BY <1>2, <2>3, <2>6 DEF WfInv, StageRec
  <2>9. WfInv'
    BY <1>2, <1>3, <2>6, <2>7, <2>8, SameProc
  <2>10. Unwritten(c)' = <<>>
    BY <2>3, <2>6 DEF Unwritten
  <2>11. u.wire \o Unwritten(c)' = <<>>
    BY <2>2, <2>3, <2>10, ConcatEmptySeq
  <2>12. Wired' = [Wired EXCEPT ![c] = [u EXCEPT !.wire = @ \o Unwritten(c)']]
    BY <1>0, <1>2, <1>3, <2>3, <2>5, WiredOne
  <2>13. [u EXCEPT !.wire = @ \o Unwritten(c)'] = [Wired[c] EXCEPT !.hup = TRUE, !.wire = <<>>]
    <3>1. PICK x : x = Unwritten(c)'
      OBVIOUS
    <3>2. [u EXCEPT !.wire = @ \o x] = [sock[c] EXCEPT !.hup = TRUE, !.wire = <<>>]
      BY <1>0, <2>1, <2>3, <2>11, <3>1 DEF SockRec
    <3>3. [Wired[c] EXCEPT !.hup = TRUE, !.wire = <<>>]
            = [sock[c] EXCEPT !.hup = TRUE, !.wire = <<>>]
      BY <1>0 DEF Wired, SockRec
    <3>4. QED BY <3>1, <3>2, <3>3
  <2>14. Wired' = [Wired EXCEPT ![c].hup = TRUE, ![c].wire = <<>>]
    <3>1. PICK y : y = [u EXCEPT !.wire = @ \o Unwritten(c)']
      OBVIOUS
    <3>2. Wired' = [Wired EXCEPT ![c] = y] /\ y = [Wired[c] EXCEPT !.hup = TRUE, !.wire = <<>>]
      BY <2>12, <2>13, <3>1
    <3>3. QED BY <3>2 DEF Wired
  <2>15. AsPeer!PeerHangup(c)
    BY <1>0, <1>4, <1>5, <2>14, SameGuards DEF AsPeer!PeerHangup, Wired
  <2>16. QED BY <2>9, <2>15 DEF AsPeer!Next, AsPeer!Peer
<1>6. CASE ~Connected(c)
  <2>1. sock' = sock
    BY <1>6 DEF Leaves
  <2>2. IInv'
    BY <1>4, <2>1, Establish DEF WfInv, IInv, TypeOK
  <2>3. StageRec(p, sock'[c])
    BY <1>2, <2>1 DEF WfInv, StageRec
  <2>4. WfInv'
    BY <1>2, <1>3, <2>1, <2>2, <2>3, SameProc
  <2>5. \A d \in Clients : proc'[d].job = proc[d].job /\ proc'[d].sent = proc[d].sent
    BY <1>0, <1>2, <1>3 DEF Typed
  <2>6. \A d \in Clients : Unwritten(d)' = Unwritten(d)
    BY <2>1, <2>5, UnwrittenIs
  <2>7. Unsent' = Unsent
    BY <2>6 DEF Unsent
  <2>8. Wired' = Wired
    BY <2>1, <2>7, WiredMapped
  <2>9. QED BY <1>4, <2>4, <2>8
<1>7. QED BY <1>5, <1>6

LEMMA ConnectsMaps ==
  ASSUME WfInv, NEW c \in Clients, Connects(c)
  PROVE  WfInv' /\ AsPeer!Next
<1>0. Typed
  BY DEF WfInv, IInv, TypeOK, Typed
<1>1. PICK p \in ProcRec :
        /\ proc' = [proc EXCEPT ![c] = p]
        /\ p.job = proc[c].job /\ p.sent = proc[c].sent /\ p.stage = "write_header"
  BY DEF Connects
<1>2. PeerConnect(c) /\ sock' = sock /\ proc[c].stage = "main"
  BY DEF Connects, PeerConnect
<1>3. IInv'
  BY <1>2, PeerConnectGood DEF WfInv
<1>4. StageRec(p, sock'[c])
  BY <1>1, <1>2 DEF WfInv, StageRec
<1>5. WfInv'
  BY <1>1, <1>2, <1>3, <1>4, SameProc
<1>6. \A d \in Clients : proc'[d].job = proc[d].job /\ proc'[d].sent = proc[d].sent
  BY <1>0, <1>1 DEF Typed
<1>7. \A d \in Clients : Unwritten(d)' = Unwritten(d)
  BY <1>2, <1>6, UnwrittenIs
<1>8. Unsent' = Unsent
  BY <1>7 DEF Unsent
<1>9. Wired' = Wired
  BY <1>2, <1>8, WiredMapped
<1>10. AsPeer!PeerConnect(c)
  BY <1>2, <1>9, SameGuards, SameReply DEF PeerConnect, AsPeer!PeerConnect, Wired
<1>11. QED BY <1>5, <1>10 DEF AsPeer!Next, AsPeer!Peer

LEMMA GoesOnMaps ==
  ASSUME WfInv, NEW c \in Clients, GoesOn(c)
  PROVE  WfInv' /\ UNCHANGED <<server, serves, queue, listed, client, Wired, executing, nev>>
<1>0. Typed
  BY DEF WfInv, IInv, TypeOK, Typed
<1>1. PICK p \in ProcRec :
        /\ proc' = [proc EXCEPT ![c] = p]
        /\ p.job = proc[c].job /\ p.sent = proc[c].sent /\ p.stage = proc[c].stage
  BY DEF GoesOn
<1>2. UNCHANGED <<server, serves, queue, listed, client, sock, executing, nev>>
  BY DEF GoesOn, vars
<1>3. IInv'
  BY <1>2, Establish DEF WfInv, IInv, TypeOK
<1>4. StageRec(p, sock'[c])
  BY <1>1, <1>2 DEF WfInv, StageRec
<1>5. WfInv'
  BY <1>1, <1>2, <1>3, <1>4, SameProc
<1>6. \A d \in Clients : proc'[d].job = proc[d].job /\ proc'[d].sent = proc[d].sent
  BY <1>0, <1>1 DEF Typed
<1>7. \A d \in Clients : Unwritten(d)' = Unwritten(d)
  BY <1>2, <1>6, UnwrittenIs
<1>8. Unsent' = Unsent
  BY <1>7 DEF Unsent
<1>9. Wired' = Wired
  BY <1>2, <1>8, WiredMapped
<1>10. QED BY <1>2, <1>5, <1>9

\* The write of the header puts the whole request on the wire.
LEMMA WriteHeaderMaps ==
  ASSUME WfInv, NEW c \in Clients, WriteHeader(c)
  PROVE  WfInv' /\ AsPeer!Next
<1>0. Typed /\ proc[c] \in ProcRec /\ sock[c] \in SockRec /\ sock[c] \in GoodSockRec
  BY DEF WfInv, IInv, TypeOK, Typed
<1>1. PICK r, head, tail, p, u :
        /\ r = proc[c].job.req
        /\ head = SubSeq(Bytes(1, r), 1, HeaderSize)
        /\ tail = SubSeq(Bytes(1, r), HeaderSize + 1, HeaderSize + r.len)
        /\ p = [proc[c] EXCEPT !.stage = "write_payload"]
        /\ u = [sock[c] EXCEPT !.asked = <<r>>, !.wire = head]
  OBVIOUS
<1>2. r \in Requests
  BY <1>0, <1>1 DEF ProcRec, Job
<1>3. /\ head \in Seq(InCell) /\ tail \in Seq(InCell) /\ head \o tail = Bytes(1, r)
      /\ \A i \in 1..Len(head) : head[i].n = 1
  BY <1>1, <1>2, BytesParts
<1>4. /\ p \in ProcRec /\ p.job = proc[c].job /\ p.sent = proc[c].sent
      /\ p.stage = "write_payload" /\ proc' = [proc EXCEPT ![c] = p]
  BY <1>0, <1>1 DEF ProcRec, Stages, WriteHeader, Typed
<1>5. sock[c].asked = <<>> /\ sock[c].wire = <<>>
  BY DEF WriteHeader, WfInv, StageRec
<1>6. <<r>> \in Seq(Requests) /\ Len(<<r>>) = 1
  BY <1>2
<1>7. /\ u \in SockRec /\ u.asked = <<r>> /\ u.wire = head /\ u.inq = sock[c].inq
      /\ u.hup = sock[c].hup /\ u.got = sock[c].got
  BY <1>0, <1>1, <1>3, <1>6 DEF SockRec
<1>8. sock' = [sock EXCEPT ![c] = u]
  BY <1>0, <1>1 DEF WriteHeader, Typed
<1>9. UNCHANGED <<server, serves, queue, listed, client, executing, nev>> /\ Connected(c)
  BY DEF WriteHeader
<1>10. u \in GoodSockRec
  <2>1. \A i \in 1..Len(u.wire) : u.wire[i].n \in 1..Len(u.asked)
    BY <1>3, <1>6, <1>7
  <2>2. \A i \in 1..Len(u.inq) : u.inq[i].n \in 1..Len(u.asked)
    <3>1. \A i \in 1..Len(sock[c].inq) : sock[c].inq[i].n \in 1..Len(sock[c].asked)
      BY <1>0 DEF GoodSockRec, GoodSock
    <3>2. Len(sock[c].asked) = 0
      BY <1>5, EmptySeq
    <3>3. \A i \in 1..Len(u.inq) : FALSE
      BY <1>7, <3>1, <3>2
    <3>4. QED BY <3>3
  <2>3. QED BY <1>7, <2>1, <2>2 DEF GoodSockRec, GoodSock
<1>11. sock'[c] = u /\ proc'[c] = p /\ \A d \in Clients \ {c} : sock'[d] = sock[d]
  BY <1>0, <1>4, <1>8 DEF Typed
<1>12. ~proc[c].sent /\ proc[c].stage = "write_header" /\ ~sock[c].hup
  BY DEF WriteHeader, WfInv, StageRec, Connected
<1>13. WfInv'
  <2>1. IInv'
    BY <1>8, <1>9, <1>10, SockBecomes DEF WfInv
  <2>2. u.asked # <<>>
    BY <1>6, <1>7, EmptySeq
  <2>3. StageRec(p, sock'[c])
    BY <1>1, <1>4, <1>7, <1>11, <1>12, <2>2 DEF StageRec
  <2>4. QED BY <1>4, <1>11, <2>1, <2>3, SameProc
<1>14. Unwritten(c)' = tail
  <2>1. u.asked # <<>>
    BY <1>6, <1>7, EmptySeq
  <2>2. sock'[c].asked # <<>> /\ ~proc'[c].sent /\ ~sock'[c].hup /\ proc'[c].job.req = r
    BY <1>1, <1>4, <1>7, <1>11, <1>12, <2>1
  <2>3. QED BY <1>1, <2>2 DEF Unwritten, Bytes
<1>15. Unwritten(c) = <<>> /\ Wired[c].wire = <<>>
  <2>1. Unwritten(c) = <<>>
    BY <1>5 DEF Unwritten
  <2>2. <<>> \o <<>> = <<>>
    BY EmptySeq, ConcatEmptySeq
  <2>3. QED BY <1>0, <1>5, <2>1, <2>2, WiredFacts
<1>16. Wired' = [Wired EXCEPT ![c] = [u EXCEPT !.wire = Bytes(1, r)]]
  BY <1>0, <1>3, <1>4, <1>7, <1>8, <1>14, WiredOne
<1>17. Append(Wired[c].asked, r) = <<r>> /\ Len(Wired[c].asked) = 0
  <2>1. Wired[c].asked = <<>>
    BY <1>0, <1>5, WiredFacts
  <2>2. QED BY <1>2, <2>1, EmptySeq
<1>18. Wired' = [Wired EXCEPT ![c].asked = <<r>>, ![c].wire = Bytes(1, r)]
  <2>1. PICK b, t : b = Bytes(1, r) /\ t = <<r>>
    OBVIOUS
  <2>2. [u EXCEPT !.wire = b] = [sock[c] EXCEPT !.asked = t, !.wire = b]
    BY <1>0, <1>1, <2>1 DEF SockRec
  <2>3. [Wired[c] EXCEPT !.asked = t, !.wire = b] = [sock[c] EXCEPT !.asked = t, !.wire = b]
    BY <1>0 DEF Wired, SockRec
  <2>4. PICK y : y = [u EXCEPT !.wire = b]
    OBVIOUS
  <2>5. Wired' = [Wired EXCEPT ![c] = y] /\ y = [Wired[c] EXCEPT !.asked = t, !.wire = b]
    BY <1>16, <2>1, <2>2, <2>3, <2>4
  <2>6. QED BY <2>1, <2>5 DEF Wired
<1>19. /\ Wired[c].wire = <<>> /\ Len(Wired[c].asked) < MaxRequests
       /\ Wired' = [Wired EXCEPT ![c].asked = Append(@, r),
                                 ![c].wire = Bytes(Len(Wired[c].asked) + 1, r)]
  <2>1. MaxRequests > 0 /\ MaxRequests \in Nat
    BY JobsAssumption, BoundsAssumption
  <2>2. PICK n, t : n = Len(Wired[c].asked) + 1 /\ t = Append(Wired[c].asked, r)
    OBVIOUS
  <2>3. n = 1 /\ t = <<r>>
    BY <1>17, <2>2
  <2>4. Wired' = [Wired EXCEPT ![c].asked = t, ![c].wire = Bytes(n, r)]
    BY <1>18, <2>3
  <2>5. Wired' = [Wired EXCEPT ![c].asked = Append(@, r),
                               ![c].wire = Bytes(Len(Wired[c].asked) + 1, r)]
    BY <2>2, <2>4
  <2>6. QED BY <1>15, <1>17, <2>1, <2>5
<1>20. AsPeer!PeerSend(c)
  <2>1. AsPeer!Connected(c)
    BY <1>0, <1>9, SameGuards
  <2>2. \A n : AsPeer!Bytes(n, r) = Bytes(n, r)
    BY DEF AsPeer!Bytes, Bytes
  <2>3. QED BY <1>2, <1>9, <1>19, <2>1, <2>2 DEF AsPeer!PeerSend, Wired
<1>21. QED BY <1>13, <1>20 DEF AsPeer!Next, AsPeer!Peer

\* The write of the payload changes nothing there.
LEMMA WritePayloadMaps ==
  ASSUME WfInv, NEW c \in Clients, WritePayload(c)
  PROVE  WfInv' /\ UNCHANGED <<server, serves, queue, listed, client, Wired, executing, nev>>
<1>0. Typed /\ proc[c] \in ProcRec /\ sock[c] \in SockRec /\ sock[c] \in GoodSockRec
  BY DEF WfInv, IInv, TypeOK, Typed
<1>1. PICK r, tail, p, u :
        /\ r = proc[c].job.req
        /\ tail = SubSeq(Bytes(1, r), HeaderSize + 1, HeaderSize + r.len)
        /\ p = [proc[c] EXCEPT !.stage = "recv", !.sent = TRUE]
        /\ u = [sock[c] EXCEPT !.wire = tail]
  OBVIOUS
<1>2. r \in Requests
  BY <1>0, <1>1 DEF ProcRec, Job
<1>3. tail \in Seq(InCell) /\ \A i \in 1..Len(tail) : tail[i].n = 1
  BY <1>1, <1>2, BytesParts
<1>4. /\ p \in ProcRec /\ p.job = proc[c].job /\ p.sent
      /\ p.stage = "recv" /\ proc' = [proc EXCEPT ![c] = p]
  BY <1>0, <1>1 DEF ProcRec, Stages, WritePayload, Typed
<1>5. /\ sock[c].asked = <<r>> /\ sock[c].wire = <<>> /\ ~proc[c].sent /\ ~sock[c].hup
      /\ proc[c].stage = "write_payload" /\ sock[c].asked # <<>>
  BY <1>1 DEF WritePayload, WfInv, StageRec, Connected
<1>6. /\ u \in SockRec /\ u.asked = sock[c].asked /\ u.wire = tail /\ u.inq = sock[c].inq
      /\ u.hup = sock[c].hup /\ u.got = sock[c].got
  BY <1>0, <1>1, <1>3 DEF SockRec
<1>7. sock' = [sock EXCEPT ![c] = u]
  BY <1>0, <1>1 DEF WritePayload, Typed
<1>8. UNCHANGED <<server, serves, queue, listed, client, executing, nev>>
  BY DEF WritePayload
<1>9. u \in GoodSockRec
  <2>1. Len(u.asked) = 1
    BY <1>2, <1>5, <1>6
  <2>2. \A i \in 1..Len(u.wire) : u.wire[i].n \in 1..Len(u.asked)
    BY <1>3, <1>6, <2>1
  <2>3. \A i \in 1..Len(u.inq) : u.inq[i].n \in 1..Len(u.asked)
    BY <1>0, <1>6 DEF GoodSockRec, GoodSock
  <2>4. QED BY <1>6, <2>2, <2>3 DEF GoodSockRec, GoodSock
<1>10. sock'[c] = u /\ proc'[c] = p /\ \A d \in Clients \ {c} : sock'[d] = sock[d]
  BY <1>0, <1>4, <1>7 DEF Typed
<1>11. WfInv'
  <2>1. IInv'
    BY <1>7, <1>8, <1>9, SockBecomes DEF WfInv
  <2>2. StageRec(p, sock'[c])
    BY <1>1, <1>4, <1>5, <1>6, <1>10 DEF StageRec
  <2>3. QED BY <1>4, <1>10, <2>1, <2>2, SameProc
<1>12. Unwritten(c)' = <<>>
  BY <1>4, <1>10 DEF Unwritten
<1>13. Unwritten(c) = tail
  BY <1>1, <1>5 DEF Unwritten
<1>14. tail \o <<>> = tail /\ <<>> \o tail = tail
  BY <1>3, ConcatEmptySeq
<1>15. Wired' = [Wired EXCEPT ![c] = [u EXCEPT !.wire = tail]]
  <2>1. PICK x : x = Unwritten(c)'
    OBVIOUS
  <2>2. Wired' = [Wired EXCEPT ![c] = [u EXCEPT !.wire = @ \o x]]
    BY <1>0, <1>4, <1>6, <1>7, <2>1, WiredOne
  <2>3. u.wire \o x = tail
    BY <1>6, <1>12, <1>14, <2>1
  <2>4. QED BY <2>2, <2>3
<1>16. Wired[c] = [sock[c] EXCEPT !.wire = tail]
  <2>1. Wired[c] = [sock[c] EXCEPT !.wire = @ \o Unwritten(c)]
    BY DEF Wired
  <2>2. QED BY <1>5, <1>13, <1>14, <2>1
<1>17. [u EXCEPT !.wire = tail] = Wired[c]
  BY <1>0, <1>1, <1>16 DEF SockRec
<1>18. Wired' = Wired
  <2>1. PICK y : y = Wired[c]
    OBVIOUS
  <2>2. Wired' = [Wired EXCEPT ![c] = y]
    BY <1>15, <1>17, <2>1
  <2>3. QED BY <2>1, <2>2 DEF Wired
<1>19. QED BY <1>8, <1>11, <1>18

\* WfMsg's initial states are the server's.
LEMMA WfInitGood ==
  ASSUME WfInit
  PROVE  WfInv /\ AsPeer!Init
<1>1. Init /\ \A c \in Clients : sock[c].asked = <<>> /\ sock[c].wire = <<>>
  BY Zenon DEF WfInit, Init
<1>2. IInv
  BY <1>1, InitGood
<1>3. PICK job \in [Clients -> Job] :
        proc = [c \in Clients |->
                 [job |-> job[c], stage |-> "main", sent |-> FALSE, frame |-> <<>>,
                  read |-> 0, seen |-> <<>>, ret |-> 0, earlier |-> {}]]
  BY Zenon DEF WfInit
<1>4. <<>> \in Seq(OutCell) /\ <<>> \in Seq(Message)
  BY EmptySeq
<1>5. proc \in [Clients -> ProcRec]
  BY <1>3, <1>4 DEF ProcRec, Stages
<1>6. \A c \in Clients : StageRec(proc[c], sock[c])
  BY <1>1, <1>3 DEF StageRec
<1>7. Typed
  BY <1>2, <1>5 DEF IInv, TypeOK, Typed
<1>8. Wired = sock
  <2>1. ASSUME NEW c \in Clients
        PROVE  [sock[c] EXCEPT !.wire = @ \o Unwritten(c)] = sock[c]
    <3>1. Unwritten(c) = <<>>
      BY <1>1 DEF Unwritten
    <3>2. <<>> \o <<>> = <<>>
      BY EmptySeq, ConcatEmptySeq
    <3>3. sock[c].wire \o Unwritten(c) = sock[c].wire
      BY <1>1, <3>1, <3>2
    <3>4. QED BY <1>7, <3>3 DEF Typed, SockRec
  <2>2. QED BY <1>7, <2>1 DEF Wired, Typed
<1>9. AsPeer!Init
  BY <1>1, <1>8 DEF AsPeer!Init, Init, Wired, AsPeer!Fresh, Fresh
<1>10. QED BY <1>2, <1>5, <1>6, <1>9 DEF WfInv

\* The server's steps, and the arrival of bytes, leave the request of a peer
\* alone; what a peer has received changes only when the server writes to it.
LEMMA ServerSock ==
  ASSUME IInv, Serves \/ ServerStep, NEW d \in Clients
  PROVE  /\ sock'[d].asked = sock[d].asked /\ sock'[d].hup = sock[d].hup
         /\ sock[d].wire = <<>> => sock'[d].wire = <<>>
         /\ sock'[d].got = sock[d].got \/ ClientHandleWritable(d)
<1> DEFINE Same == /\ sock'[d].asked = sock[d].asked /\ sock'[d].hup = sock[d].hup
                   /\ sock[d].wire = <<>> => sock'[d].wire = <<>>
                   /\ sock'[d].got = sock[d].got \/ ClientHandleWritable(d)
<1>0. sock \in [Clients -> SockRec] /\ sock[d] \in SockRec
  BY DEF IInv, TypeOK
<1>1. CASE sock' = sock
  BY <1>1
<1>2. ASSUME NEW c \in Clients, ReadHeader(c) \/ ReadPayload(c) PROVE Same
  <2>1. CASE Disconnect(c)
    BY <1>1, <2>1 DEF Disconnect
  <2>2. ASSUME NEW q, sock' = [sock EXCEPT ![c].inq = q] PROVE Same
    BY <1>0, <2>2 DEF SockRec
  <2>3. CASE HeaderKept(c)
    BY <2>2, <2>3 DEF HeaderKept
  <2>4. CASE RequestHandled(c)
    <3>1. \E p : sock' = [sock EXCEPT ![c].inq = p]
      BY <2>4, RequestTaken
    <3>2. QED BY <2>2, <3>1
  <2>5. QED BY <1>2, <2>1, <2>3, <2>4, ReadCases
<1>3. ASSUME NEW c \in Clients, HandleHangup(c) \/ SocketError(c) PROVE Same
  BY <1>1, <1>3 DEF HandleHangup, SocketError, Disconnect
<1>4. ASSUME NEW c \in Clients, ClientHandleWritable(c) PROVE Same
  <2>1. CASE sock' = sock
    BY <2>1
  <2>2. ASSUME NEW x, sock' = [sock EXCEPT ![c].got = x] PROVE Same
    BY <1>0, <1>4, <2>2 DEF SockRec
  <2>3. sock' = sock \/ \E x : sock' = [sock EXCEPT ![c].got = x]
    BY <1>4 DEF ClientHandleWritable, Written, Disconnect
  <2>4. QED BY <2>1, <2>2, <2>3
<1>5. ASSUME NEW c \in Clients, Arrive(c) PROVE Same
  <2>1. PICK x, y : sock' = [sock EXCEPT ![c].inq = x, ![c].wire = y]
    BY <1>5 DEF Arrive
  <2>2. sock[c].wire # <<>>
    BY <1>5, EmptySeq DEF Arrive
  <2>3. QED BY <1>0, <2>1, <2>2 DEF SockRec
<1>6. CASE Plugin
  BY <1>1, <1>6 DEF Plugin, Serve, ServeFails, HandleDisplayDestroy, HandleConnection,
                    CommandDone, Publish
<1>7. QED BY <1>2, <1>3, <1>4, <1>5, <1>6 DEF Serves, ServerStep, Plugin

\* What the server does leaves the requests alone.
LEMMA ServerKeeps ==
  ASSUME WfInv, Serves \/ ServerStep
  PROVE  WfInv' /\ AsPeer!Next
<1>1. Typed
  BY DEF WfInv, IInv, TypeOK, Typed
<1>2. AsPeer!Next /\ Next /\ proc' = proc
  BY <1>1, ServerMaps
<1>3. IInv'
  BY <1>2, StepGood DEF WfInv
<1>4. ASSUME NEW d \in Clients
      PROVE  StageRec(proc[d], sock'[d])
  <2>1. sock'[d].asked = sock[d].asked /\ (sock[d].wire = <<>> => sock'[d].wire = <<>>)
    BY ServerSock DEF WfInv
  <2>2. StageRec(proc[d], sock[d])
    BY DEF WfInv
  <2>3. QED BY <2>1, <2>2 DEF StageRec
<1>5. QED BY <1>2, <1>3, <1>4 DEF WfInv

LEMMA WfStep ==
  ASSUME WfInv, [WfNext]_wfVars
  PROVE  WfInv' /\ [AsPeer!Next]_AsPeer!vars
<1>1. CASE Serves \/ ServerStep
  BY <1>1, ServerKeeps
<1>2. ASSUME NEW c \in Clients, Runs(c) \/ OutOfMemory(c) \/ Kill(c)
      PROVE  WfInv' /\ (AsPeer!Next \/ UNCHANGED <<server, serves, queue, listed, client, Wired,
                                                  executing, nev>>)
  BY <1>2, ProcCases, LeavesMaps, ConnectsMaps, WriteHeaderMaps, WritePayloadMaps, GoesOnMaps
<1>3. CASE UNCHANGED wfVars
  <2>1. Wired' = Wired
    BY <1>3, WiredSame DEF wfVars, vars
  <2>2. WfInv'
    BY <1>3 DEF wfVars, vars, WfInv, IInv, TypeOK, GoodRec, StageRec
  <2>3. QED BY <1>3, <2>1, <2>2 DEF wfVars, vars, AsPeer!vars, Wired
<1>4. QED BY <1>1, <1>2, <1>3 DEF WfNext, AsPeer!vars, Wired

LEMMA WfInvariant == WfSpec => []WfInv
<1>1. WfInit => WfInv
  BY WfInitGood
<1>2. WfInv /\ [WfNext]_wfVars => WfInv'
  BY WfStep
<1>3. QED BY <1>1, <1>2, PTL DEF WfSpec

\* Every process is a peer as the server's module assumes it, however its
\* request was cut into the two writes and whenever it ends: what is proved
\* of the server there holds of it here.
THEOREM IsAPeerHolds == WfSpec => IsAPeer
<1>1. WfInit => AsPeer!Init
  BY WfInitGood
<1>2. WfInv /\ [WfNext]_wfVars => [AsPeer!Next]_AsPeer!vars
  BY WfStep
<1>3. QED BY <1>1, <1>2, WfInvariant, PTL DEF WfSpec, IsAPeer, AsPeer!Spec

-----------------------------------------------------------------------------
(* What is proved of the server for all peers, about these.                *)

P == INSTANCE IpcStreamProofs WITH
  MayFail <- Clients,
  sock <- [c \in Clients |-> [sock[c] EXCEPT !.wire = @ \o Unwritten(c)]]

\* P is AsPeer with the theorems about it: all definitions are the same.
LEMMA PeerReply ==
  /\ \A k : P!Fresh(k) = AsPeer!Fresh(k)
  /\ \A k, m, payload, oom : P!SendReply(k, m, payload, oom) = AsPeer!SendReply(k, m, payload, oom)
  /\ \A t, ok, n : P!Reply(t, ok, n) = AsPeer!Reply(t, ok, n)
  /\ \A n : P!FirstTick(n) = AsPeer!FirstTick(n)
  /\ \A e, n : P!Event(e, n) = AsPeer!Event(e, n)
  /\ \A k : P!Disconnected(k) = AsPeer!Disconnected(k)
<1>1. \A k : P!Fresh(k) = AsPeer!Fresh(k)
  BY DEF P!Fresh, AsPeer!Fresh
<1>2. \A k, payload : P!RoomySizes(k, payload) = AsPeer!RoomySizes(k, payload)
  BY DEF P!RoomySizes, AsPeer!RoomySizes, P!BufSizes, AsPeer!BufSizes
<1>3. \A m, payload : P!Frame(m, payload) = AsPeer!Frame(m, payload)
  BY DEF P!Frame, AsPeer!Frame
<1>4. \A k : P!Disconnected(k) = AsPeer!Disconnected(k)
  BY <1>1 DEF P!Disconnected, AsPeer!Disconnected
<1>5. \A k, m, payload, oom : P!SendReply(k, m, payload, oom) = AsPeer!SendReply(k, m, payload, oom)
  BY DEF P!SendReply, AsPeer!SendReply, P!RoomySizes, AsPeer!RoomySizes, P!BufSizes, AsPeer!BufSizes,
         P!Frame, AsPeer!Frame, P!Disconnected, AsPeer!Disconnected, P!Fresh, AsPeer!Fresh
<1>6. QED BY <1>1, <1>4, <1>5
        DEF P!Reply, AsPeer!Reply, P!FirstTick, AsPeer!FirstTick, P!Event, AsPeer!Event

LEMMA PeerEvents ==
  /\ \A e : P!EventBit(e) = AsPeer!EventBit(e)
  /\ \A cs, e : P!HasListeners(cs, e) <=> AsPeer!HasListeners(cs, e)
  /\ \A cs, m, payload, oom : P!SendEvent(cs, m, payload, oom) = AsPeer!SendEvent(cs, m, payload, oom)
  /\ \A cs : P!ClientsBecome(cs) <=> AsPeer!ClientsBecome(cs)
  /\ \A cs, payload, oom : P!TickSent(cs, payload, oom) = AsPeer!TickSent(cs, payload, oom)
<1>1. \A e : P!EventBit(e) = AsPeer!EventBit(e)
  BY DEF P!EventBit, AsPeer!EventBit, P!EventNo, AsPeer!EventNo
<1>2. \A cs, e : P!HasListeners(cs, e) <=> AsPeer!HasListeners(cs, e)
  BY <1>1 DEF P!HasListeners, AsPeer!HasListeners
<1>3. \A cs, m, payload, oom : P!SendEvent(cs, m, payload, oom) = AsPeer!SendEvent(cs, m, payload, oom)
  BY <1>1, PeerReply DEF P!SendEvent, AsPeer!SendEvent
<1>4. \A cs : P!ClientsBecome(cs) <=> AsPeer!ClientsBecome(cs)
  BY DEF P!ClientsBecome, AsPeer!ClientsBecome, P!StillListed, AsPeer!StillListed
<1>5. \A cs, payload, oom : P!TickSent(cs, payload, oom) = AsPeer!TickSent(cs, payload, oom)
  BY <1>2, <1>3, PeerReply DEF P!TickSent, AsPeer!TickSent
<1>6. QED BY <1>1, <1>2, <1>3, <1>4, <1>5

LEMMA PeerMasks ==
  /\ \A subs, arg : P!Subscribed(subs, arg) = AsPeer!Subscribed(subs, arg)
  /\ \A subs, arg : P!Unsubscribed(subs, arg) = AsPeer!Unsubscribed(subs, arg)
  /\ \A arg, names : P!Unsupported(arg, names) = AsPeer!Unsupported(arg, names)
  /\ P!SubscribeNames = AsPeer!SubscribeNames /\ P!UnsubscribeNames = AsPeer!UnsubscribeNames
<1>1. /\ P!SubscribeNames = AsPeer!SubscribeNames /\ P!UnsubscribeNames = AsPeer!UnsubscribeNames
      /\ P!NotString = AsPeer!NotString
  BY DEF P!SubscribeNames, AsPeer!SubscribeNames, P!UnsubscribeNames, AsPeer!UnsubscribeNames,
         P!NotString, AsPeer!NotString
<1>2. \A arg, names : P!Unsupported(arg, names) = AsPeer!Unsupported(arg, names)
  BY <1>1 DEF P!Unsupported, AsPeer!Unsupported
<1>3. \A subs, arg : P!Subscribed(subs, arg) = AsPeer!Subscribed(subs, arg)
  BY <1>1, <1>2, PeerEvents DEF P!Subscribed, AsPeer!Subscribed
<1>4. \A subs, arg : P!Unsubscribed(subs, arg) = AsPeer!Unsubscribed(subs, arg)
  BY <1>1, <1>2, PeerEvents DEF P!Unsubscribed, AsPeer!Unsubscribed
<1>5. QED BY <1>1, <1>2, <1>3, <1>4

LEMMA PeerHandlers ==
  \A cs, c, n, arg :
    /\ P!ExecuteCommand(cs, c) <=> AsPeer!ExecuteCommand(cs, c)
    /\ P!SendTick(cs, c, n) <=> AsPeer!SendTick(cs, c, n)
    /\ P!AnswerQuery(cs, c, n) <=> AsPeer!AnswerQuery(cs, c, n)
    /\ P!Subscribe(cs, c, n, arg) <=> AsPeer!Subscribe(cs, c, n, arg)
    /\ P!Unsubscribe(cs, c, n, arg) <=> AsPeer!Unsubscribe(cs, c, n, arg)
    /\ P!Refuse(cs, c, n) <=> AsPeer!Refuse(cs, c, n)
<1>1. \A k, t, ok, n, oom : P!SendStatus(k, t, ok, n, oom) = AsPeer!SendStatus(k, t, ok, n, oom)
  BY PeerReply DEF P!SendStatus, AsPeer!SendStatus
<1> SUFFICES ASSUME NEW cs, NEW c, NEW n, NEW arg
    PROVE  /\ P!ExecuteCommand(cs, c) <=> AsPeer!ExecuteCommand(cs, c)
           /\ P!SendTick(cs, c, n) <=> AsPeer!SendTick(cs, c, n)
           /\ P!AnswerQuery(cs, c, n) <=> AsPeer!AnswerQuery(cs, c, n)
           /\ P!Subscribe(cs, c, n, arg) <=> AsPeer!Subscribe(cs, c, n, arg)
           /\ P!Unsubscribe(cs, c, n, arg) <=> AsPeer!Unsubscribe(cs, c, n, arg)
           /\ P!Refuse(cs, c, n) <=> AsPeer!Refuse(cs, c, n)
  OBVIOUS
<1>2. P!ExecuteCommand(cs, c) <=> AsPeer!ExecuteCommand(cs, c)
  BY PeerEvents DEF P!ExecuteCommand, AsPeer!ExecuteCommand
<1>3. P!SendTick(cs, c, n) <=> AsPeer!SendTick(cs, c, n)
  BY <1>1, PeerEvents DEF P!SendTick, AsPeer!SendTick
<1>4. P!AnswerQuery(cs, c, n) <=> AsPeer!AnswerQuery(cs, c, n)
  BY PeerReply, PeerEvents DEF P!AnswerQuery, AsPeer!AnswerQuery
<1>5. P!Subscribe(cs, c, n, arg) <=> AsPeer!Subscribe(cs, c, n, arg)
  BY <1>1, PeerReply, PeerEvents, PeerMasks DEF P!Subscribe, AsPeer!Subscribe
<1>6. P!Unsubscribe(cs, c, n, arg) <=> AsPeer!Unsubscribe(cs, c, n, arg)
  BY <1>1, PeerReply, PeerEvents, PeerMasks DEF P!Unsubscribe, AsPeer!Unsubscribe
<1>7. P!Refuse(cs, c, n) <=> AsPeer!Refuse(cs, c, n)
  BY <1>1, PeerReply, PeerEvents DEF P!Refuse, AsPeer!Refuse
<1>8. QED BY <1>2, <1>3, <1>4, <1>5, <1>6, <1>7

HandlesToo(c, t, n, len, q) ==
  LET arg == IF len = 0 THEN <<>> ELSE Wired[c].asked[q[1].n].arg
      cs == [client EXCEPT ![c].pending = 0, ![c].ptype = t, ![c].hdr = n]
  IN /\ Wired' = [Wired EXCEPT ![c].inq = SubSeq(q, len + 1, Len(q))]
     /\ \/ t = "command" /\ P!ExecuteCommand(cs, c)
        \/ t = "send_tick" /\ P!SendTick(cs, c, n)
        \/ t = "query" /\ P!AnswerQuery(cs, c, n)
        \/ t = "subscribe" /\ P!Subscribe(cs, c, n, arg)
        \/ t = "unsubscribe" /\ P!Unsubscribe(cs, c, n, arg)
        \/ t = "other" /\ P!Refuse(cs, c, n)
     /\ UNCHANGED <<server, serves, queue>>

LEMMA PeerHandlesToo ==
  ASSUME NEW c \in Clients, NEW t, NEW n, NEW len, NEW q, PeerHandles(c, t, n, len, q)
  PROVE  HandlesToo(c, t, n, len, q)
BY PeerHandlers DEF PeerHandles, HandlesToo

LEMMA PeerReadsHeader ==
  ASSUME NEW c \in Clients, AsPeer!ReadHeader(c),
         P!Dispatchable(c) <=> AsPeer!Dispatchable(c), P!Disconnect(c) <=> AsPeer!Disconnect(c),
         P!IsHeader(c) <=> AsPeer!IsHeader(c)
  PROVE  P!ReadHeader(c)
<1> DEFINE q == Wired[c].inq
           r == Wired[c].asked[q[1].n]
           rest == SubSeq(q, HeaderSize + 1, Len(q))
<1>1. P!Dispatchable(c) /\ client[c].pending = 0 /\ Len(q) >= HeaderSize
  BY DEF AsPeer!ReadHeader, Wired
<1>2. CASE ~P!IsHeader(c)
  <2>1. P!Disconnect(c)
    BY <1>2 DEF AsPeer!ReadHeader
  <2>2. QED BY <1>1, <1>2, <2>1 DEF P!ReadHeader, Wired
<1>3. CASE P!IsHeader(c) /\ Len(rest) >= r.len
  <2>1. AsPeer!ClientHandleCommand(c, r.type, q[1].n, r.len, rest)
    BY <1>3 DEF AsPeer!ReadHeader, Wired
  <2>2. PeerHandles(c, r.type, q[1].n, r.len, rest)
    BY <2>1 DEF PeerHandles, AsPeer!ClientHandleCommand, Wired
  <2>3. P!ClientHandleCommand(c, r.type, q[1].n, r.len, rest)
    <3>1. HandlesToo(c, r.type, q[1].n, r.len, rest)
      BY <2>2, PeerHandlesToo
    <3>2. QED BY <3>1 DEF HandlesToo, P!ClientHandleCommand, Wired
  <2>4. QED BY <1>1, <1>3, <2>3 DEF P!ReadHeader, Wired
<1>4. CASE P!IsHeader(c) /\ ~(Len(rest) >= r.len)
  <2>1. /\ client' = [client EXCEPT ![c].pending = r.len, ![c].ptype = r.type, ![c].hdr = q[1].n]
        /\ Wired' = [Wired EXCEPT ![c].inq = rest]
        /\ UNCHANGED <<server, serves, queue, listed, executing, nev>>
    BY <1>4 DEF AsPeer!ReadHeader, Wired
  <2>2. QED BY <1>1, <1>4, <2>1 DEF P!ReadHeader, Wired
<1>5. QED BY <1>2, <1>3, <1>4

LEMMA SameNext == AsPeer!Next => P!Next
<1>0. P!NeverTouched <=> AsPeer!NeverTouched
  BY DEF P!NeverTouched, AsPeer!NeverTouched
<1>1. P!Idle <=> AsPeer!Idle
  BY <1>0 DEF P!Idle, AsPeer!Idle
<1>2. ASSUME NEW c
      PROVE  /\ P!Dispatchable(c) <=> AsPeer!Dispatchable(c)
             /\ P!Disconnect(c) <=> AsPeer!Disconnect(c)
             /\ P!IsHeader(c) <=> AsPeer!IsHeader(c)
             /\ P!Connected(c) <=> AsPeer!Connected(c)
  <2>1. P!Dispatchable(c) <=> AsPeer!Dispatchable(c)
    BY <1>1 DEF P!Dispatchable, AsPeer!Dispatchable
  <2>2. P!Disconnect(c) <=> AsPeer!Disconnect(c)
    BY PeerReply, PeerEvents DEF P!Disconnect, AsPeer!Disconnect
  <2>3. P!IsHeader(c) <=> AsPeer!IsHeader(c)
    BY DEF P!IsHeader, AsPeer!IsHeader
  <2>4. P!Connected(c) <=> AsPeer!Connected(c)
    BY <1>0 DEF P!Connected, AsPeer!Connected
  <2>5. QED BY <2>1, <2>2, <2>3, <2>4
<1>3. \A c, t, n, len, q :
        P!ClientHandleCommand(c, t, n, len, q) <=> AsPeer!ClientHandleCommand(c, t, n, len, q)
  BY PeerHandlers DEF P!ClientHandleCommand, AsPeer!ClientHandleCommand
<1>4. ASSUME NEW c \in Clients
      PROVE  AsPeer!Handler(c) => P!Handler(c)
  <2>1. AsPeer!ReadHeader(c) => P!ReadHeader(c)
    BY <1>2, PeerReadsHeader
  <2>2. P!ReadPayload(c) <=> AsPeer!ReadPayload(c)
    <3> DEFINE q == Wired[c].inq
               k == client[c]
    <3>1. P!ReadPayload(c) <=> /\ P!Dispatchable(c) /\ k.pending > 0 /\ Len(q) >= k.pending
                               /\ P!ClientHandleCommand(c, k.ptype, k.hdr, k.pending, q)
      BY DEF P!ReadPayload, Wired
    <3>2. AsPeer!ReadPayload(c) <=> /\ AsPeer!Dispatchable(c) /\ k.pending > 0
                                    /\ Len(q) >= k.pending
                                    /\ AsPeer!ClientHandleCommand(c, k.ptype, k.hdr, k.pending, q)
      BY DEF AsPeer!ReadPayload, Wired
    <3> HIDE DEF q, k
    <3>3. P!Dispatchable(c) <=> AsPeer!Dispatchable(c)
      BY <1>2
    <3>4. P!ClientHandleCommand(c, k.ptype, k.hdr, k.pending, q)
          <=> AsPeer!ClientHandleCommand(c, k.ptype, k.hdr, k.pending, q)
      BY SMTT(30), PeerHandlers DEF P!ClientHandleCommand, AsPeer!ClientHandleCommand
    <3>5. QED BY ONLY <3>1, <3>2, <3>3, <3>4
  <2>3. P!ClientHandleWritable(c) <=> AsPeer!ClientHandleWritable(c)
    BY <1>2 DEF P!ClientHandleWritable, AsPeer!ClientHandleWritable, P!Written, AsPeer!Written
  <2>4. (P!HandleHangup(c) <=> AsPeer!HandleHangup(c)) /\ (P!SocketError(c) <=> AsPeer!SocketError(c))
    BY <1>1, <1>2 DEF P!HandleHangup, AsPeer!HandleHangup, P!SocketError, AsPeer!SocketError
  <2>5. QED BY <2>1, <2>2, <2>3, <2>4 DEF P!Handler, AsPeer!Handler
<1>5. ASSUME NEW c \in Clients
      PROVE  P!Peer(c) <=> AsPeer!Peer(c)
  <2>1. P!PeerConnect(c) <=> AsPeer!PeerConnect(c)
    BY <1>0, PeerReply DEF P!PeerConnect, AsPeer!PeerConnect
  <2>2. P!PeerSend(c) <=> AsPeer!PeerSend(c)
    BY <1>2 DEF P!PeerSend, AsPeer!PeerSend, P!Bytes, AsPeer!Bytes
  <2>3. P!Arrive(c) <=> AsPeer!Arrive(c)
    BY <1>2 DEF P!Arrive, AsPeer!Arrive
  <2>4. P!PeerHangup(c) <=> AsPeer!PeerHangup(c)
    BY <1>2 DEF P!PeerHangup, AsPeer!PeerHangup
  <2>5. QED BY <2>1, <2>2, <2>3, <2>4 DEF P!Peer, AsPeer!Peer
<1>6. P!Plugin <=> AsPeer!Plugin
  <2>1. (P!Serve <=> AsPeer!Serve) /\ (P!ServeFails <=> AsPeer!ServeFails)
    BY <1>0, PeerReply DEF P!Serve, AsPeer!Serve, P!ServeFails, AsPeer!ServeFails
  <2>2. P!HandleDisplayDestroy <=> AsPeer!HandleDisplayDestroy
    BY <1>1, PeerReply DEF P!HandleDisplayDestroy, AsPeer!HandleDisplayDestroy
  <2>3. P!HandleConnection <=> AsPeer!HandleConnection
    BY <1>1, PeerReply DEF P!HandleConnection, AsPeer!HandleConnection
  <2>4. P!CommandDone <=> AsPeer!CommandDone
    BY <1>0, PeerReply, PeerEvents DEF P!CommandDone, AsPeer!CommandDone
  <2>5. \A e : P!Publish(e) <=> AsPeer!Publish(e)
    BY <1>0, PeerReply, PeerEvents DEF P!Publish, AsPeer!Publish
  <2>6. P!PluginEvents = AsPeer!PluginEvents
    BY DEF P!PluginEvents, AsPeer!PluginEvents
  <2>7. QED BY <2>1, <2>2, <2>3, <2>4, <2>5, <2>6 DEF P!Plugin, AsPeer!Plugin
<1>7. QED BY <1>4, <1>5, <1>6 DEF P!Next, AsPeer!Next

LEMMA SameSpec == IsAPeer => P!Spec
<1>1. AsPeer!Init => P!Init
  BY DEF P!Init, AsPeer!Init, P!Fresh, AsPeer!Fresh
<1>2. [AsPeer!Next]_AsPeer!vars => [P!Next]_P!vars
  BY SameNext DEF AsPeer!vars, P!vars
<1>3. QED BY <1>1, <1>2, PTL DEF IsAPeer, AsPeer!Spec, P!Spec

LEMMA PeerInvariant ==
  WfSpec => [](P!IInv /\ P!FramedInv /\ P!FirstInv /\ P!OneReplyPerRequest)
<1>1. P!ClientsAssumption
  BY ClientsAssumption
<1>2. P!RequestsAssumption
  BY RequestsAssumption DEF P!RequestsAssumption, P!Request, P!RequestTypes, Request, RequestTypes
<1>3. P!SizesAssumption
  BY SizesAssumption DEF P!SizesAssumption, P!BufSizes, BufSizes
<1>4. P!BoundsAssumption
  BY BoundsAssumption
<1>5. P!Spec => []P!FramedInv /\ []P!FirstInv
  BY <1>1, <1>2, <1>3, <1>4, P!FramedInvariant, P!FirstInvariant
<1>6. P!Spec => []P!OneReplyPerRequest /\ []P!IInv
  BY <1>1, <1>2, <1>3, <1>4, P!OneReplyPerRequestHolds, P!Invariant
<1>7. QED BY <1>5, <1>6, IsAPeerHolds, SameSpec, PTL

-----------------------------------------------------------------------------
(* Reading a stream of messages in pieces.                                 *)

LEMMA PartOf ==
  ASSUME NEW S, NEW s \in Seq(S), NEW a \in 0..Len(s), NEW b \in a..Len(s)
  PROVE  /\ SubSeq(s, a + 1, b) \in Seq(S) /\ Len(SubSeq(s, a + 1, b)) = b - a
         /\ \A i \in 1..b - a : SubSeq(s, a + 1, b)[i] = s[a + i]
<1>1. /\ Len(s) \in Nat /\ a \in Nat /\ b \in Nat /\ a <= b /\ b <= Len(s)
      /\ \A i \in 1..Len(s) : s[i] \in S
  BY LenProperties
<1>2. a + 1 \in Int /\ b \in Int /\ \A i \in a + 1..b : s[i] \in S
  BY <1>1
<1>3. /\ SubSeq(s, a + 1, b) \in Seq(S)
      /\ Len(SubSeq(s, a + 1, b)) = IF a + 1 <= b THEN b - (a + 1) + 1 ELSE 0
      /\ \A i \in 1..b - (a + 1) + 1 : SubSeq(s, a + 1, b)[i] = s[a + 1 + i - 1]
  BY <1>2, SubSeqProperties
<1>4. PICK t : t = SubSeq(s, a + 1, b)
  OBVIOUS
<1>5. /\ t \in Seq(S) /\ Len(t) = IF a + 1 <= b THEN b - (a + 1) + 1 ELSE 0
      /\ \A i \in 1..b - (a + 1) + 1 : t[i] = s[a + 1 + i - 1]
  BY <1>3, <1>4
<1>6. Len(t) = b - a /\ \A i \in 1..b - a : t[i] = s[a + i]
  BY <1>1, <1>5
<1>7. QED BY <1>4, <1>5, <1>6

LEMMA PartsJoin ==
  ASSUME NEW S, NEW s \in Seq(S), NEW a \in 0..Len(s), NEW b \in a..Len(s), NEW c \in b..Len(s)
  PROVE  SubSeq(s, a + 1, b) \o SubSeq(s, b + 1, c) = SubSeq(s, a + 1, c)
<1>1. Len(s) \in Nat
  BY LenProperties
<1>2. a + 1 \in 1..Len(s) + 1 /\ b \in a + 1 - 1..Len(s) /\ c \in b..Len(s)
  BY <1>1
<1>3. QED BY <1>2, ConcatAdjacentSubSeq

\* Whole messages, the last perhaps cut short, the first of them a reply.
Received(got) == Chain(got) /\ Starts(got) /\ Headed(got) /\ Replying(got)

\* Behind the end of a message comes the next, cell by cell.
LEMMA FrameCells ==
  ASSUME NEW got \in Seq(OutCell), Received(got), NEW k \in Nat, k = 0 \/ got[k].left = 0,
         NEW n \in Nat, k + n <= Len(got), NEW left, left = got[k + 1].left, n <= left + 1
  PROVE  \A i \in 1..n : /\ got[k + i].at = i /\ got[k + i].left = left + 1 - i
                         /\ got[k + i].msg = got[k + 1].msg
<1> DEFINE Good(i) == /\ got[k + i].at = i /\ got[k + i].left = left + 1 - i
                      /\ got[k + i].msg = got[k + 1].msg
           Bad == {i \in 1..n : ~Good(i)}
<1> SUFFICES ASSUME Bad # {}
             PROVE  FALSE
  OBVIOUS
<1>0. Len(got) \in Nat /\ \A i \in 1..Len(got) : got[i] \in OutCell
  BY LenProperties
<1>1. PICK j \in Bad : \A h \in Bad : j <= h
  <2>1. Bad \subseteq Nat
    OBVIOUS
  <2> HIDE DEF Bad
  <2>2. QED BY <2>1, LeastNat
<1>2. j \in 1..n /\ ~Good(j)
  BY <1>1
<1>3. left \in Nat
  <2>1. k + 1 \in 1..Len(got)
    BY <1>0, <1>2
  <2>2. QED BY <1>0, <2>1 DEF OutCell
<1>4. got[k + 1].at = 1
  <2>1. CASE k = 0
    <3>1. got # <<>>
      BY <1>2, <2>1, EmptySeq
    <3>2. QED BY <2>1, <3>1 DEF Received, Starts
  <2>2. CASE k # 0
    <3>1. k \in 1..Len(got) - 1 /\ got[k].left = 0
      BY <1>0, <1>2, <2>2
    <3>2. Follows(got[k], got[k + 1])
      BY <3>1 DEF Received, Chain
    <3>3. QED BY <3>1, <3>2 DEF Follows
  <2>3. QED BY <2>1, <2>2
<1>5. j # 1
  <2>1. Good(1)
    BY <1>3, <1>4
  <2>2. QED BY <1>2, <2>1
<1>6. j - 1 \in 1..n /\ Good(j - 1)
  <2>1. j - 1 \in 1..n /\ ~(j <= j - 1)
    BY <1>2, <1>5
  <2>2. QED BY <1>1, <2>1
<1> HIDE DEF Bad
<1>7. Follows(got[k + (j - 1)], got[k + (j - 1) + 1])
  <2>1. k + (j - 1) \in 1..Len(got) - 1
    BY <1>0, <1>2, <1>6
  <2>2. QED BY <2>1 DEF Received, Chain
<1>8. k + (j - 1) + 1 = k + j
  BY <1>2
<1>9. got[k + (j - 1)].left # 0
  BY <1>2, <1>3, <1>6
<1>10. Good(j)
  <2>1. PICK x, y : x = got[k + (j - 1)] /\ y = got[k + j]
    OBVIOUS
  <2>2. y.msg = x.msg /\ y.at = x.at + 1 /\ y.left = x.left - 1
    BY <1>7, <1>8, <1>9, <2>1 DEF Follows
  <2>3. x.at = j - 1 /\ x.left = left + 1 - (j - 1) /\ x.msg = got[k + 1].msg
    BY <1>6, <2>1
  <2>4. j \in Nat /\ left \in Nat
    BY <1>2, <1>3
  <2> HIDE DEF Good
  <2>6. y.at = j /\ y.left = left + 1 - j
    BY SMTT(30), <2>2, <2>3, <2>4
  <2>7. QED BY <2>1, <2>2, <2>3, <2>6 DEF Good
<1>11. QED BY <1>2, <1>10

\* Of stream got the first read bytes have been received: responses seen, up
\* to the k-th byte, and f, the beginning of the next one.
Reads(got, seen, f, read, k) ==
  /\ read \in 0..Len(got) /\ k \in 0..read
  /\ k = 0 \/ got[k].left = 0
  /\ seen = Whole(SubSeq(got, 1, k))
  /\ seen = <<>> => k = 0
  /\ seen # <<>> => k > 0 /\ seen[1] = got[1].msg
  /\ f = SubSeq(got, k + 1, read)
  /\ k < read => read - k <= got[k + 1].left + 1

LEMMA ReadsCells ==
  ASSUME NEW got \in Seq(OutCell), Received(got), NEW seen, NEW f, NEW read, NEW k,
         Reads(got, seen, f, read, k), NEW left, left = got[k + 1].left
  PROVE  /\ f \in Seq(OutCell) /\ Len(f) = read - k /\ read \in Nat /\ k \in Nat
         /\ \A i \in 1..Len(f) : /\ f[i] = got[k + i] /\ f[i].at = i
                                 /\ f[i].left = left + 1 - i /\ f[i].msg = f[1].msg
         /\ k < Len(got) => left \in Nat /\ left + 1 >= HeaderSize /\ got[k + 1].msg \in Message
<1>0. Len(got) \in Nat /\ (\A i \in 1..Len(got) : got[i] \in OutCell)
      /\ read \in 0..Len(got) /\ k \in 0..read
  BY LenProperties DEF Reads
<1>1. read \in k..Len(got) /\ k \in 0..Len(got) /\ k \in Nat /\ read \in Nat
  BY <1>0
<1>2. f \in Seq(OutCell) /\ Len(f) = read - k /\ \A i \in 1..read - k : f[i] = got[k + i]
  BY <1>1, PartOf DEF Reads
<1>3. ASSUME k < Len(got)
      PROVE  left \in Nat /\ left + 1 >= HeaderSize /\ got[k + 1].msg \in Message
  <2>1. k + 1 \in 1..Len(got)
    BY <1>0, <1>1, <1>3
  <2>2. got[k + 1] \in OutCell
    BY <1>0, <2>1
  <2>3. left \in Nat /\ got[k + 1].msg \in Message
    BY <2>2 DEF OutCell
  <2>4. \A i \in 1..1 : got[k + i].at = i
    <3>1. 1 \in Nat /\ k + 1 <= Len(got) /\ 1 <= left + 1 /\ (k = 0 \/ got[k].left = 0)
      BY <1>0, <1>1, <1>3, <2>3 DEF Reads
    <3>2. QED BY <1>1, <3>1, FrameCells
  <2>5. got[k + 1].at = 1
    BY <2>4
  <2>6. got[k + 1].at + got[k + 1].left >= HeaderSize
    BY <2>1 DEF Received, Headed
  <2>7. QED BY <2>3, <2>5, <2>6, SizesNat
<1>4. ASSUME NEW i \in 1..Len(f)
      PROVE  f[i].at = i /\ f[i].left = left + 1 - i /\ f[i].msg = f[1].msg
  <2>1. PICK n : n = read - k
    OBVIOUS
  <2>2. n \in Nat /\ k + n <= Len(got) /\ i \in 1..n /\ 1 \in 1..n /\ k < Len(got) /\ k < read
    BY <1>0, <1>1, <1>2, <1>4, <2>1
  <2>3. n <= left + 1 /\ (k = 0 \/ got[k].left = 0)
    BY <2>1, <2>2 DEF Reads
  <2>4. \A h \in 1..n : /\ got[k + h].at = h /\ got[k + h].left = left + 1 - h
                        /\ got[k + h].msg = got[k + 1].msg
    BY <1>1, <2>2, <2>3, FrameCells
  <2>5. f[i] = got[k + i] /\ f[1] = got[k + 1]
    BY <1>2, <2>1, <2>2
  <2>6. QED BY <2>2, <2>4, <2>5
<1>5. QED BY <1>1, <1>2, <1>3, <1>4

\* The server writes more.
LEMMA ReadsLonger ==
  ASSUME NEW got \in Seq(OutCell), NEW x \in Seq(OutCell), NEW u, u = got \o x,
         NEW seen, NEW f, NEW read, NEW k, Reads(got, seen, f, read, k)
  PROVE  Reads(u, seen, f, read, k)
<1>0. Len(got) \in Nat /\ Len(x) \in Nat /\ read \in 0..Len(got) /\ k \in 0..read
  BY LenProperties DEF Reads
<1>1. u \in Seq(OutCell) /\ Len(u) = Len(got) + Len(x) /\ \A i \in 1..Len(got) : u[i] = got[i]
  <2>1. u \in Seq(OutCell) /\ Len(u) = Len(got) + Len(x)
        /\ \A i \in 1..Len(got) + Len(x) : u[i] = IF i <= Len(got) THEN got[i] ELSE x[i - Len(got)]
    BY ConcatProperties
  <2>2. \A i \in 1..Len(got) : i \in 1..Len(got) + Len(x) /\ i <= Len(got)
    BY <1>0
  <2>3. QED BY <2>1, <2>2
<1>2. /\ read \in 0..Len(u) /\ k \in 0..Len(got) /\ k \in 0..Len(u) /\ 0 \in 0..Len(got)
      /\ 0 \in 0..Len(u) /\ read \in k..Len(got) /\ read \in k..Len(u) /\ k \in 0..read
      /\ k > 0 => k \in 1..Len(got) /\ 1 \in 1..Len(got)
      /\ k < read => k + 1 \in 1..Len(got)
      /\ \A i \in 1..read - k : k + i \in 1..Len(got)
      /\ \A i \in 1..k : i \in 1..Len(got)
  BY <1>0, <1>1
<1>3. SubSeq(u, k + 1, read) = SubSeq(got, k + 1, read)
  <2>1. PICK s, t : s = SubSeq(u, k + 1, read) /\ t = SubSeq(got, k + 1, read)
    OBVIOUS
  <2>2. /\ s \in Seq(OutCell) /\ Len(s) = read - k /\ \A i \in 1..read - k : s[i] = u[k + i]
        /\ t \in Seq(OutCell) /\ Len(t) = read - k /\ \A i \in 1..read - k : t[i] = got[k + i]
    BY <1>1, <1>2, <2>1, PartOf
  <2>3. QED BY <1>1, <1>2, <2>1, <2>2, SeqEqual
<1>4. SubSeq(u, 1, k) = SubSeq(got, 1, k)
  <2>1. PICK s, t : s = SubSeq(u, 1, k) /\ t = SubSeq(got, 1, k)
    OBVIOUS
  <2>2. /\ s \in Seq(OutCell) /\ Len(s) = k /\ \A i \in 1..k : s[i] = u[i]
        /\ t \in Seq(OutCell) /\ Len(t) = k /\ \A i \in 1..k : t[i] = got[i]
    BY <1>1, <1>2, <2>1, CutInTwo
  <2>3. QED BY <1>1, <1>2, <2>1, <2>2, SeqEqual
<1>5. k > 0 => u[k] = got[k] /\ u[1] = got[1]
  BY <1>1, <1>2
<1>6. k < read => u[k + 1] = got[k + 1]
  BY <1>1, <1>2
<1>7. k = 0 \/ k > 0
  BY <1>0
<1>8. QED BY <1>2, <1>3, <1>4, <1>5, <1>6, <1>7 DEF Reads

LEMMA FrameCell ==
  ASSUME NEW m, NEW payload, NEW i \in 1..HeaderSize + payload
  PROVE  Frame(m, payload)[i] = [msg |-> m, at |-> i, left |-> HeaderSize + payload - i]
BY Zenon DEF Frame

\* What the header says is what the rest of the message is.
LEMMA ReadsMissing ==
  ASSUME NEW got \in Seq(OutCell), Received(got), NEW seen, NEW f, NEW read, NEW k,
         Reads(got, seen, f, read, k), NEW left, left = got[k + 1].left, k < Len(got)
  PROVE  Missing(f) = IF Len(f) < HeaderSize THEN HeaderSize - Len(f) ELSE left + 1 - Len(f)
<1>1. /\ Len(f) \in Nat /\ left \in Nat /\ HeaderSize \in Nat /\ HeaderSize > 0
      /\ \A i \in 1..Len(f) : f[i].left = left + 1 - i
  <2>1. f \in Seq(OutCell) /\ left \in Nat /\ \A i \in 1..Len(f) : f[i].left = left + 1 - i
    BY ReadsCells
  <2>2. QED BY <2>1, SizesNat, LenProperties
<1>2. CASE Len(f) < HeaderSize
  BY <1>2 DEF Missing
<1>3. CASE ~(Len(f) < HeaderSize)
  <2>1. HeaderSize \in 1..Len(f)
    BY <1>1, <1>3
  <2>2. f[HeaderSize].left = left + 1 - HeaderSize
    BY <1>1, <2>1
  <2>3. HeaderSize + (left + 1 - HeaderSize) - Len(f) = left + 1 - Len(f)
    <3>1. \A h, l, t \in Nat : h + (l + 1 - h) - t = l + 1 - t
      OBVIOUS
    <3>2. QED BY <1>1, <3>1, Zenon
  <2>4. QED BY <1>3, <2>2, <2>3 DEF Missing, PayloadSize
<1>4. QED BY <1>2, <1>3

\* recv returns some more bytes.
LEMMA ReadsMore ==
  ASSUME NEW got \in Seq(OutCell), Received(got), NEW seen, NEW f, NEW read, NEW k,
         Reads(got, seen, f, read, k), NEW n \in Nat \ {0}, read + n <= Len(got),
         n <= Missing(f)
  PROVE  Reads(got, seen, f \o SubSeq(got, read + 1, read + n), read + n, k)
<1>0. PICK left : left = got[k + 1].left
  OBVIOUS
<1>1. Len(got) \in Nat /\ read \in 0..Len(got) /\ k \in 0..read
  BY LenProperties DEF Reads
<1>2. k < Len(got) /\ read + n \in 0..Len(got) /\ k \in 0..read + n /\ k \in 0..Len(got)
      /\ read \in k..Len(got) /\ read + n \in read..Len(got)
  BY <1>1
<1>3. Len(f) = read - k /\ left \in Nat /\ left + 1 >= HeaderSize
  BY SMTT(30), <1>0, <1>2, ReadsCells
<1>4. read + n - k <= left + 1
  <2>1. n <= IF Len(f) < HeaderSize THEN HeaderSize - Len(f) ELSE left + 1 - Len(f)
    BY <1>0, <1>2, ReadsMissing
  <2>2. QED BY <1>1, <1>3, <2>1, SizesNat
<1>5. f \o SubSeq(got, read + 1, read + n) = SubSeq(got, k + 1, read + n)
  <2>1. SubSeq(got, k + 1, read) \o SubSeq(got, read + 1, read + n) = SubSeq(got, k + 1, read + n)
    BY <1>2, PartsJoin
  <2>2. QED BY <2>1 DEF Reads
<1>6. QED BY <1>0, <1>2, <1>4, <1>5 DEF Reads

\* A response that is complete is a message of the stream.
LEMMA ReadsComplete ==
  ASSUME NEW got \in Seq(OutCell), Received(got), NEW seen, NEW f, NEW read, NEW k,
         Reads(got, seen, f, read, k), Len(f) >= HeaderSize, Missing(f) = 0
  PROVE  /\ Reads(got, Append(seen, f[1].msg), <<>>, read, read)
         /\ f[1].msg \in Message /\ seen \in Seq(Message)
         /\ (seen = <<>> => f[1].msg = got[1].msg)
<1>a. PICK left : left = got[k + 1].left
  OBVIOUS
<1>b. PICK m : m = f[1].msg
  OBVIOUS
<1>0. left = got[k + 1].left /\ m = f[1].msg
  BY <1>a, <1>b
<1>1. Len(got) \in Nat /\ read \in 0..Len(got) /\ k \in 0..read /\ k \in 0..Len(got) /\ k \in Nat
  <2>1. Len(got) \in Nat /\ read \in 0..Len(got) /\ k \in 0..read
    BY LenProperties DEF Reads
  <2>2. QED BY <2>1
<1>2. /\ f \in Seq(OutCell) /\ Len(f) = read - k
      /\ \A i \in 1..Len(f) : /\ f[i] = got[k + i] /\ f[i].at = i
                              /\ f[i].left = left + 1 - i /\ f[i].msg = m
  BY <1>0, ReadsCells
<1>3. k < Len(got) /\ 1 \in 1..Len(f)
  BY <1>1, <1>2, SizesNat
<1>4. left \in Nat /\ left + 1 >= HeaderSize /\ got[k + 1].msg \in Message
  BY <1>0, <1>3, ReadsCells
<1>5. m = got[k + 1].msg /\ m \in Message
  BY <1>0, <1>2, <1>3, <1>4
<1>6. Len(f) = left + 1
  <2>1. 0 = left + 1 - Len(f)
    BY <1>0, <1>3, ReadsMissing, SizesNat
  <2>2. QED BY <1>1, <1>2, <1>4, <2>1
<1>7. got[read].left = 0 /\ read > 0 /\ read \in 0..read /\ ~(read < read)
  <2>1. Len(f) \in 1..Len(f) /\ k + Len(f) = read /\ read > 0
    BY <1>1, <1>2, <1>4, <1>6
  <2>2. f[Len(f)].left = left + 1 - Len(f) /\ f[Len(f)] = got[k + Len(f)]
    BY <1>2, <2>1
  <2>3. QED BY <1>1, <1>4, <1>6, <2>1, <2>2
<1>8. PICK s, u : s = SubSeq(got, 1, k) /\ u = SubSeq(got, 1, read)
  OBVIOUS
<1>9. s \in Seq(OutCell) /\ seen = Whole(s) /\ u = s \o f
  <2>1. s \in Seq(OutCell)
    BY <1>1, <1>8, CutInTwo
  <2>2. 0 \in 0..Len(got) /\ k \in 0..Len(got) /\ read \in k..Len(got)
    BY <1>1
  <2>3. SubSeq(got, 0 + 1, k) \o SubSeq(got, k + 1, read) = SubSeq(got, 0 + 1, read)
    BY <2>2, PartsJoin
  <2>4. QED BY <1>8, <2>1, <2>3 DEF Reads
<1>10. Sent(s, u, m)
  <2>1. PICK payload : payload = left + 1 - HeaderSize
    OBVIOUS
  <2>2. payload \in Nat /\ HeaderSize + payload = Len(f)
    BY <1>4, <1>6, <2>1, SizesNat
  <2>3. PICK g : g = Frame(m, payload)
    OBVIOUS
  <2>4. g \in Seq(OutCell) /\ Len(g) = Len(f)
    BY <1>5, <2>2, <2>3, FrameType
  <2>5. ASSUME NEW i \in 1..Len(f)
        PROVE  f[i] = g[i]
    <3>1. f[i] \in OutCell
      BY <1>2, ElementOfSeq
    <3>2. PICK y, z, len : y = g[i] /\ z = f[i] /\ len = Len(f)
      OBVIOUS
    <3>3. i \in 1..HeaderSize + payload /\ HeaderSize + payload = len
      BY <2>2, <3>2
    <3>4. y = [msg |-> m, at |-> i, left |-> HeaderSize + payload - i]
      BY <2>3, <3>2, <3>3, FrameCell
    <3>5. y.msg = m /\ y.at = i /\ y.left = HeaderSize + payload - i /\ y \in OutCell
      <4>1. y \in OutCell
        BY <2>2, <2>4, <3>2, ElementOfSeq
      <4>2. QED BY <3>4, <4>1
    <3>6. z.at = i /\ z.left = left + 1 - i /\ z.msg = m /\ z \in OutCell
      BY <1>2, <3>1, <3>2
    <3>7. left + 1 - i = HeaderSize + payload - i
      <4>1. /\ left \in Nat /\ i \in Nat /\ HeaderSize \in Nat /\ payload \in Nat
            /\ HeaderSize + payload = left + 1
        BY <1>4, <1>6, <2>2, SizesNat
      <4>2. QED BY <4>1
    <3>8. y.left = z.left
      BY <3>5, <3>6, <3>7, Zenon
    <3>9. y = z
      BY <3>5, <3>6, <3>8 DEF OutCell
    <3>10. QED BY <3>2, <3>9
  <2>6. f = g
    BY <1>2, <2>4, <2>5, SeqEqual
  <2>7. QED BY <1>9, <2>2, <2>3, <2>6 DEF Sent
<1>11. Whole(u) = Append(seen, m) /\ seen \in Seq(Message)
  BY <1>5, <1>9, <1>10, WholeSent, WholeType
<1>12. <<>> = SubSeq(got, read + 1, read)
  BY <1>1, SubSeqEmpty
<1>13. Append(seen, m) # <<>> /\ Append(seen, m)[1] = got[1].msg
  <2>1. CASE seen = <<>>
    <3>1. k = 0
      BY <2>1 DEF Reads
    <3>2. m = got[1].msg
      BY <1>5, <3>1
    <3>3. QED BY <2>1, <3>2
  <2>2. CASE seen # <<>>
    <3>1. Len(seen) \in Nat /\ Len(seen) # 0 /\ seen[1] = got[1].msg
      BY <1>11, <2>2, EmptySeq, LenProperties DEF Reads
    <3>2. 1 \in 1..Len(seen) /\ Len(Append(seen, m)) = Len(seen) + 1
          /\ \A i \in 1..Len(seen) : Append(seen, m)[i] = seen[i]
      BY <1>5, <1>11, <3>1, AppendProperties
    <3>3. QED BY <3>1, <3>2, EmptySeq
  <2>3. QED BY <2>1, <2>2
<1>14. seen = <<>> => m = got[1].msg
  <2>1. seen = <<>> => k = 0
    BY DEF Reads
  <2>2. QED BY <1>5, <2>1
<1>15. Reads(got, Append(seen, m), <<>>, read, read)
  BY <1>1, <1>7, <1>8, <1>11, <1>12, <1>13 DEF Reads
<1>16. /\ Reads(got, Append(seen, f[1].msg), <<>>, read, read)
       /\ f[1].msg \in Message /\ (seen = <<>> => f[1].msg = got[1].msg)
  BY <1>0, <1>5, <1>14, <1>15
<1>17. QED BY <1>11, <1>16

\* What Understood says of a process.
LEMMA ReadsTell ==
  ASSUME NEW got \in Seq(OutCell), Received(got), NEW seen, NEW f, NEW read, NEW k,
         Reads(got, seen, f, read, k)
  PROVE  /\ Begins(seen, Whole(SubSeq(got, 1, read)))
         /\ \A i \in DOMAIN f : f[i].at = i /\ f[i].msg = f[1].msg
         /\ Len(f) <= HeaderSize \/ Missing(f) >= 0
<1>0. PICK left : left = got[k + 1].left
  OBVIOUS
<1>1. Len(got) \in Nat /\ read \in 0..Len(got) /\ k \in 0..read /\ k \in 0..Len(got)
  <2>1. Len(got) \in Nat /\ read \in 0..Len(got) /\ k \in 0..read
    BY LenProperties DEF Reads
  <2>2. QED BY <2>1
<1>2. /\ f \in Seq(OutCell) /\ Len(f) = read - k
      /\ \A i \in 1..Len(f) : f[i].at = i /\ f[i].msg = f[1].msg
  BY <1>0, ReadsCells
<1>3. Begins(seen, Whole(SubSeq(got, 1, read)))
  <2>1. PICK s, u : s = SubSeq(got, 1, k) /\ u = SubSeq(got, 1, read)
    OBVIOUS
  <2>2. /\ s \in Seq(OutCell) /\ Len(s) = k /\ \A i \in 1..k : s[i] = got[i]
        /\ u \in Seq(OutCell) /\ Len(u) = read /\ \A i \in 1..read : u[i] = got[i]
    BY <1>1, <2>1, CutInTwo
  <2>3. Len(s) <= Len(u) /\ \A i \in 1..Len(s) : u[i] = s[i]
    BY <1>1, <2>2
  <2>4. Len(Whole(s)) <= Len(Whole(u)) /\ SubSeq(Whole(u), 1, Len(Whole(s))) = Whole(s)
    BY <2>2, <2>3, WholeLonger
  <2>5. seen = Whole(s)
    BY <2>1 DEF Reads
  <2>6. QED BY <2>1, <2>4, <2>5 DEF Begins
<1>4. Len(f) <= HeaderSize \/ Missing(f) >= 0
  <2>1. CASE Len(f) > HeaderSize
    <3>1. k < read /\ k < Len(got)
      BY <1>1, <1>2, <2>1, SizesNat
    <3>2. read - k <= left + 1 /\ left \in Nat
      <4>1. read - k <= left + 1
        BY <1>0, <3>1 DEF Reads
      <4>2. left \in Nat
        BY <1>0, <3>1, ReadsCells
      <4>3. QED BY <4>1, <4>2
    <3>3. Missing(f) = left + 1 - Len(f)
      <4>1. ~(Len(f) < HeaderSize)
        BY <1>1, <1>2, <2>1, SizesNat
      <4>2. QED BY <1>0, <3>1, <4>1, ReadsMissing
    <3>4. QED BY <1>1, <1>2, <3>2, <3>3
  <2>2. QED BY <1>1, <1>2, <2>1, SizesNat
<1>5. DOMAIN f = 1..Len(f)
  BY <1>2, LenProperties
<1>6. QED BY <1>2, <1>3, <1>4, <1>5

-----------------------------------------------------------------------------
(* What a process has been sent.                                           *)

\* The replies in a stream, to a peer that makes the one request req.
RepliesTo(got, req) ==
  \A i \in 1..Len(got) :
    got[i].at = 1 /\ got[i].msg.kind = "reply" => got[i].msg.n = 1 /\ got[i].msg.type = req.type

GotInv ==
  \A c \in Clients : Received(sock[c].got) /\ RepliesTo(sock[c].got, proc[c].job.req)

\* What holds of all that was put out holds of what has been received of it.
LEMMA ReceivedPart ==
  ASSUME NEW got \in Seq(OutCell), NEW b \in Seq(OutCell),
         Chain(got \o b), Starts(got \o b), Headed(got \o b), Replying(got \o b)
  PROVE  Received(got)
<1>1. PICK u : u = got \o b
  OBVIOUS
<1>2. /\ Len(got) \in Nat /\ Len(u) \in Nat /\ Len(got) <= Len(u)
      /\ \A i \in 1..Len(got) : u[i] = got[i] /\ i \in 1..Len(u)
  <2>1. Len(got) \in Nat /\ Len(b) \in Nat /\ Len(u) = Len(got) + Len(b)
        /\ \A i \in 1..Len(got) + Len(b) : u[i] = IF i <= Len(got) THEN got[i] ELSE b[i - Len(got)]
    BY <1>1, ConcatProperties, LenProperties
  <2>2. \A i \in 1..Len(got) : i \in 1..Len(got) + Len(b) /\ i <= Len(got)
    BY <2>1
  <2>3. QED BY <2>1, <2>2
<1>3. Chain(u) /\ Starts(u) /\ Headed(u) /\ Replying(u)
  BY <1>1
<1>4. Chain(got)
  <2>1. SUFFICES ASSUME NEW i \in 1..Len(got) - 1
                 PROVE  Follows(got[i], got[i + 1])
    BY DEF Chain
  <2>2. i \in 1..Len(u) - 1 /\ i \in 1..Len(got) /\ i + 1 \in 1..Len(got)
    BY <1>2
  <2>3. Follows(u[i], u[i + 1])
    BY <1>3, <2>2 DEF Chain
  <2>4. u[i] = got[i] /\ u[i + 1] = got[i + 1]
    BY <1>2, <2>2
  <2>5. QED BY <2>3, <2>4
<1>5. ASSUME got # <<>>
      PROVE  u # <<>> /\ u[1] = got[1]
  <2>1. 1 \in 1..Len(got)
    BY <1>2, <1>5, EmptySeq
  <2>2. 1 \in 1..Len(u) /\ u[1] = got[1]
    BY <1>2, <2>1
  <2>3. u # <<>>
    BY <1>2, <2>2, EmptySeq
  <2>4. QED BY <2>2, <2>3
<1>6. Headed(got)
  BY <1>2, <1>3 DEF Headed
<1>7. QED BY <1>3, <1>4, <1>5, <1>6 DEF Received, Starts, Replying

LEMMA SameStreams ==
  /\ \A s : P!Chain(s) <=> Chain(s)
  /\ \A s : (P!Starts(s) <=> Starts(s)) /\ (P!Headed(s) <=> Headed(s))
            /\ (P!Replying(s) <=> Replying(s))
  /\ \A s, kind : P!Heads(s, kind) = Heads(s, kind)
  /\ \A s, asked, k : P!Replied(s, asked, k) <=> Replied(s, asked, k)
<1>1. \A s : P!Chain(s) <=> Chain(s)
  BY DEF P!Chain, Chain, P!Follows, Follows
<1>2. \A s : (P!Starts(s) <=> Starts(s)) /\ (P!Headed(s) <=> Headed(s))
             /\ (P!Replying(s) <=> Replying(s))
  BY DEF P!Starts, Starts, P!Headed, Headed, P!Replying, Replying
<1>3. \A s, kind : P!Heads(s, kind) = Heads(s, kind)
  BY DEF P!Heads, Heads
<1>4. \A s, asked, k : P!Replied(s, asked, k) <=> Replied(s, asked, k)
  BY <1>3 DEF P!Replied, Replied
<1>5. QED BY <1>1, <1>2, <1>3, <1>4

LEMMA RepliesAre ==
  ASSUME NEW got \in Seq(OutCell), NEW b \in Seq(OutCell), NEW req, NEW asked,
         asked = <<>> \/ asked = <<req>>, NEW k \in 0..Len(asked), Replied(got \o b, asked, k)
  PROVE  RepliesTo(got, req)
<1>1. PICK u : u = got \o b
  OBVIOUS
<1>2. \A i \in 1..Len(got) : u[i] = got[i] /\ i \in DOMAIN u
  <2>1. /\ Len(got) \in Nat /\ Len(b) \in Nat /\ Len(u) = Len(got) + Len(b) /\ u \in Seq(OutCell)
        /\ \A i \in 1..Len(got) + Len(b) : u[i] = IF i <= Len(got) THEN got[i] ELSE b[i - Len(got)]
    BY <1>1, ConcatProperties, LenProperties
  <2>2. \A i \in 1..Len(got) : i \in 1..Len(got) + Len(b) /\ i <= Len(got)
    BY <2>1
  <2>3. DOMAIN u = 1..Len(u)
    BY <2>1, LenProperties
  <2>4. QED BY <2>1, <2>2, <2>3
<1>3. Replied(u, asked, k)
  BY <1>1
<1>4. SUFFICES ASSUME NEW i \in 1..Len(got), got[i].at = 1, got[i].msg.kind = "reply"
               PROVE  got[i].msg.n = 1 /\ got[i].msg.type = req.type
  BY DEF RepliesTo
<1>5. i \in Heads(u, "reply") /\ u[i] = got[i]
  BY <1>2, <1>4 DEF Heads
<1>6. u[i].msg.n \in 1..k /\ u[i].msg.type = asked[u[i].msg.n].type
  BY <1>3, <1>5 DEF Replied
<1>7. asked = <<req>> /\ k \in {0, 1}
  <2>1. asked # <<>>
    <3>1. SUFFICES ASSUME asked = <<>> PROVE FALSE
      OBVIOUS
    <3>2. Len(asked) = 0
      BY <3>1
    <3>3. 1..k = {}
      BY <3>2
    <3>4. QED BY <1>6, <3>3
  <2>2. asked = <<req>>
    BY <2>1
  <2>3. Len(asked) = 1
    BY <2>2
  <2>4. k \in {0, 1}
    BY <2>3
  <2>5. QED BY <2>2, <2>4
<1>8. u[i].msg.n = 1
  <2>1. PICK n : n = u[i].msg.n
    OBVIOUS
  <2>2. n \in 1..k
    BY <1>6, <2>1
  <2>3. n = 1
    BY <1>7, <2>2
  <2>4. QED BY <2>1, <2>3
<1>9. asked[1] = req
  BY <1>7
<1>10. QED BY <1>5, <1>6, <1>8, <1>9

LEMMA GotFacts ==
  ASSUME WfInv, P!FramedInv, P!FirstInv, P!OneReplyPerRequest
  PROVE  GotInv
<1> SUFFICES ASSUME NEW c \in Clients
             PROVE  Received(sock[c].got) /\ RepliesTo(sock[c].got, proc[c].job.req)
  BY DEF GotInv
<1>1. PICK got, b, asked : got = sock[c].got /\ b = client[c].buf /\ asked = sock[c].asked
  OBVIOUS
<1>2. got \in Seq(OutCell) /\ b \in Seq(OutCell)
  BY <1>1 DEF WfInv, IInv, TypeOK, SockRec, ClientRec
<1>3. Typed
  BY DEF WfInv, IInv, TypeOK, Typed
<1>4. Wired[c].got = got /\ Wired[c].asked = asked
  BY <1>1, <1>3 DEF Wired, Typed, SockRec
<1>5. P!Chain(got \o b) /\ P!Starts(got \o b)
  BY <1>1, <1>4 DEF P!FramedInv, P!FramedRec, Wired
<1>6. P!Headed(got \o b) /\ P!Replying(got \o b)
  BY <1>1, <1>4 DEF P!FirstInv, P!FirstRec, Wired
<1>7. \E k \in 0..Len(asked) : P!Replied(got \o b, asked, k)
  <2>1. P!Out(c) = got \o b
    BY <1>1, <1>4 DEF P!Out, Wired
  <2>2. \E k \in 0..Len(Wired[c].asked) : P!Replied(P!Out(c), Wired[c].asked, k)
    BY Zenon DEF P!OneReplyPerRequest, Wired
  <2>3. QED BY <1>4, <2>1, <2>2
<1>8. asked = <<>> \/ asked = <<proc[c].job.req>>
  BY <1>1 DEF WfInv, StageRec
<1>9. Received(got)
  BY <1>2, <1>5, <1>6, SameStreams, ReceivedPart
<1>10. RepliesTo(got, proc[c].job.req)
  BY <1>2, <1>7, <1>8, SameStreams, RepliesAre
<1>11. QED BY <1>1, <1>9, <1>10

LEMMA GotInvariant == WfSpec => []GotInv
<1>1. WfInv /\ P!IInv /\ P!FramedInv /\ P!FirstInv /\ P!OneReplyPerRequest => GotInv
  BY GotFacts
<1>2. QED BY <1>1, WfInvariant, PeerInvariant, PTL

-----------------------------------------------------------------------------
(* What a process has made of it.                                          *)

\* Of its stream, process p has taken for responses what Reads says, and the
\* beginning of the next one is in its frame until it ends.
ReadRec(p, got) ==
  \E k, f : Reads(got, p.seen, f, p.read, k) /\ p.frame = IF p.stage = "exited" THEN <<>> ELSE f
ReadInv == \A c \in Clients : ReadRec(proc[c], sock[c].got)

\* Nothing new has been made of the stream.
AsRead(p, q) ==
  /\ q.seen = p.seen /\ q.read = p.read
  /\ (q.stage = "exited" /\ q.frame = <<>>)
       \/ (p.stage # "exited" /\ q.stage # "exited" /\ q.frame = p.frame)

LEMMA ReadsKept ==
  ASSUME NEW p, NEW q, NEW got, ReadRec(p, got), AsRead(p, q)
  PROVE  ReadRec(q, got)
BY DEF ReadRec, AsRead

\* The response that is complete: a message that begins in the stream.
LEMMA CompleteResponse ==
  ASSUME WfInv, GotInv, ReadInv, NEW c \in Clients, Complete(c), proc[c].stage # "exited",
         NEW m, m = proc[c].frame[1].msg
  PROVE  /\ Reads(sock[c].got, Append(proc[c].seen, m), <<>>, proc[c].read, proc[c].read)
         /\ m \in Message
         /\ \E i \in 1..Len(sock[c].got) : sock[c].got[i].at = 1 /\ sock[c].got[i].msg = m
<1>1. PICK got, seen, read : got = sock[c].got /\ seen = proc[c].seen /\ read = proc[c].read
  OBVIOUS
<1>2. got \in Seq(OutCell) /\ Received(got)
  BY <1>1 DEF WfInv, IInv, TypeOK, SockRec, GotInv
<1>3. PICK k, f : Reads(got, seen, f, read, k) /\ proc[c].frame = f
  BY <1>1 DEF ReadInv, ReadRec
<1>4. Len(f) >= HeaderSize /\ Missing(f) = 0 /\ m = f[1].msg
  BY <1>3 DEF Complete
<1>5. Reads(got, Append(seen, m), <<>>, read, read) /\ m \in Message
  BY <1>2, <1>3, <1>4, ReadsComplete
<1>6. \E i \in 1..Len(got) : got[i].at = 1 /\ got[i].msg = m
  <2>1. PICK left : left = got[k + 1].left
    OBVIOUS
  <2>2. /\ f \in Seq(OutCell) /\ Len(f) = read - k /\ read \in Nat /\ k \in Nat
        /\ \A i \in 1..Len(f) : f[i] = got[k + i] /\ f[i].at = i
    BY <1>2, <1>3, <2>1, ReadsCells
  <2>3. Len(f) >= 1 /\ read <= Len(got) /\ Len(got) \in Nat
    BY <1>2, <1>3, <1>4, <2>2, SizesNat, LenProperties DEF Reads
  <2>4. 1 \in 1..Len(f) /\ k + 1 \in 1..Len(got)
    BY <2>2, <2>3
  <2>5. f[1] = got[k + 1] /\ f[1].at = 1
    BY <2>2, <2>4
  <2>6. QED BY <1>4, <2>4, <2>5
<1>7. QED BY <1>1, <1>5, <1>6

\* recv returns some more of the response.
LEMMA ReadsOn ==
  ASSUME WfInv, GotInv, ReadInv, NEW c \in Clients, Recv(c)
  PROVE  ReadRec(proc'[c], sock[c].got)
<1>1. PICK got, seen, read : got = sock[c].got /\ seen = proc[c].seen /\ read = proc[c].read
  OBVIOUS
<1>2. got \in Seq(OutCell) /\ Received(got) /\ proc[c] \in ProcRec /\ proc[c].stage # "exited"
  BY <1>1 DEF WfInv, IInv, TypeOK, SockRec, GotInv, Recv, Receiving, Running
<1>3. PICK k, f : Reads(got, seen, f, read, k) /\ proc[c].frame = f
  BY <1>1, <1>2 DEF ReadInv, ReadRec
<1>4. PICK n \in 1..Missing(f) :
        /\ n <= Len(got) - read
        /\ proc' = [proc EXCEPT ![c].frame = f \o SubSeq(got, read + 1, read + n),
                                ![c].read = read + n]
  BY <1>1, <1>3 DEF Recv, Unread
<1>5. Len(got) \in Nat /\ read \in Nat
  BY <1>1, <1>2, LenProperties DEF ProcRec
<1>6. n \in Nat \ {0} /\ read + n <= Len(got) /\ n <= Missing(f)
  <2>1. PICK x : x = Missing(f)
    OBVIOUS
  <2>2. n \in 1..x /\ n <= Len(got) - read
    BY <1>4, <2>1
  <2>3. n \in Nat \ {0} /\ read + n <= Len(got) /\ n <= x
    BY <1>5, <2>2
  <2>4. QED BY <2>1, <2>3
<1>7. PICK g, r : g = f \o SubSeq(got, read + 1, read + n) /\ r = read + n
  OBVIOUS
<1>8. Reads(got, seen, g, r, k)
  BY <1>2, <1>3, <1>6, <1>7, ReadsMore
<1>9. proc'[c].frame = g /\ proc'[c].read = r /\ proc'[c].seen = seen /\ proc'[c].stage # "exited"
  BY <1>1, <1>2, <1>4, <1>7 DEF WfInv, ProcRec
<1>10. QED BY <1>1, <1>8, <1>9 DEF ReadRec

LEMMA RunsRead ==
  ASSUME WfInv, GotInv, ReadInv, NEW c \in Clients, Runs(c) \/ OutOfMemory(c) \/ Kill(c)
  PROVE  ReadRec(proc'[c], sock[c].got)
<1>0. proc \in [Clients -> ProcRec] /\ proc[c] \in ProcRec /\ ReadRec(proc[c], sock[c].got)
  BY DEF WfInv, ReadInv
<1>1. ASSUME NEW code, Exit(c, code)
      PROVE  ReadRec(proc'[c], sock[c].got)
  <2>1. proc' = [proc EXCEPT ![c].stage = "exited", ![c].ret = code, ![c].frame = <<>>,
                             ![c].seen = proc[c].seen]
    BY <1>1 DEF Exit, Leaves
  <2>2. AsRead(proc[c], proc'[c])
    BY <1>0, <2>1 DEF AsRead, ProcRec
  <2>3. QED BY <1>0, <2>2, ReadsKept
<1>2. ASSUME AsRead(proc[c], proc'[c])
      PROVE  ReadRec(proc'[c], sock[c].got)
  BY <1>0, <1>2, ReadsKept
<1>3. CASE Misused(c) \/ WriteFails(c) \/ RecvFails(c) \/ RecvTimesOut(c) \/ Kill(c) \/ OutOfMemory(c)
  BY <1>1, <1>3 DEF Misused, WriteFails, RecvFails, RecvTimesOut, Kill, OutOfMemory
<1>4. CASE OpenSocket(c)
  <2>1. CASE Exit(c, Aborted)
    BY <1>1, <2>1
  <2>2. ASSUME NEW e, proc' = [proc EXCEPT ![c].stage = "write_header", ![c].earlier = e]
        PROVE  ReadRec(proc'[c], sock[c].got)
    <3>1. proc[c].stage # "exited"
      BY <1>4 DEF OpenSocket, Running
    <3>2. AsRead(proc[c], proc'[c])
      BY <1>0, <2>2, <3>1 DEF AsRead, ProcRec
    <3>3. QED BY <1>2, <3>2
  <2>3. QED BY <1>4, <2>1, <2>2 DEF OpenSocket
<1>5. CASE WriteHeader(c)
  <2>1. AsRead(proc[c], proc'[c])
    BY <1>0, <1>5 DEF AsRead, ProcRec, WriteHeader, Running
  <2>2. QED BY <1>2, <2>1
<1>6. CASE WritePayload(c)
  <2>1. AsRead(proc[c], proc'[c])
    BY <1>0, <1>6 DEF AsRead, ProcRec, WritePayload, Running
  <2>2. QED BY <1>2, <2>1
<1>7. CASE Recv(c)
  BY <1>7, ReadsOn
<1>8. CASE HandleReply(c) \/ HandleEvent(c)
  <2>1. PICK m : m = proc[c].frame[1].msg
    OBVIOUS
  <2>2. Complete(c) /\ proc[c].stage = "recv"
    BY <1>8 DEF HandleReply, HandleEvent, Receiving
  <2>3. PICK read, seen : read = proc[c].read /\ seen = Append(proc[c].seen, m)
    OBVIOUS
  <2>4. Reads(sock[c].got, seen, <<>>, read, read)
    BY <2>1, <2>2, <2>3, CompleteResponse
  <2>5. HandleReply(c) => seen = <<m>>
    BY <2>3 DEF HandleReply
  <2>6. ASSUME proc' = [proc EXCEPT ![c].seen = seen, ![c].frame = <<>>]
                 \/ \E code : Leaves(c, seen, code)
        PROVE  ReadRec(proc'[c], sock[c].got)
    <3>1. proc'[c].seen = seen /\ proc'[c].frame = <<>> /\ proc'[c].read = read
      <4>1. CASE proc' = [proc EXCEPT ![c].seen = seen, ![c].frame = <<>>]
        BY <1>0, <2>3, <4>1 DEF ProcRec
      <4>2. ASSUME NEW code, proc' = [proc EXCEPT ![c].stage = "exited", ![c].ret = code,
                                                  ![c].frame = <<>>, ![c].seen = seen]
            PROVE  proc'[c].seen = seen /\ proc'[c].frame = <<>> /\ proc'[c].read = read
        BY <1>0, <2>3, <4>2 DEF ProcRec
      <4>3. QED BY <2>6, <4>1, <4>2 DEF Leaves
    <3>2. QED BY <2>4, <3>1 DEF ReadRec
  <2>7. CASE HandleReply(c)
    BY <2>1, <2>5, <2>6, <2>7 DEF HandleReply
  <2>8. CASE HandleEvent(c)
    BY <2>1, <2>3, <2>6, <2>8 DEF HandleEvent
  <2>9. QED BY <1>8, <2>7, <2>8
<1>9. QED BY <1>3, <1>4, <1>5, <1>6, <1>7, <1>8 DEF Runs

\* A step of a process changes nothing of another one, and not what the
\* server has written.
LEMMA RunsAlone ==
  ASSUME WfInv, NEW c \in Clients, Runs(c) \/ OutOfMemory(c) \/ Kill(c), NEW d \in Clients
  PROVE  sock'[d].got = sock[d].got /\ (d # c => proc'[d] = proc[d])
<1>0. proc \in [Clients -> ProcRec] /\ sock \in [Clients -> SockRec]
  BY DEF WfInv, IInv, TypeOK
<1>1. CASE \E seen \in Seq(Message), code \in Codes : Leaves(c, seen, code)
  BY <1>0, <1>1 DEF Leaves, SockRec
<1>2. CASE Connects(c)
  BY <1>0, <1>2 DEF Connects, PeerConnect
<1>3. CASE WriteHeader(c) \/ WritePayload(c)
  BY <1>0, <1>3 DEF WriteHeader, WritePayload, SockRec
<1>4. CASE GoesOn(c)
  BY <1>0, <1>4 DEF GoesOn, vars
<1>5. QED BY <1>1, <1>2, <1>3, <1>4, ProcCases

LEMMA ServerReads ==
  ASSUME WfInv, ReadInv, Serves \/ ServerStep, NEW d \in Clients
  PROVE  proc' = proc /\ ReadRec(proc[d], sock'[d].got)
<1>1. proc' = proc
  BY DEF Serves, ServerStep
<1>2. PICK got : got = sock[d].got
  OBVIOUS
<1>3. got \in Seq(OutCell) /\ sock[d] \in SockRec /\ sock \in [Clients -> SockRec]
      /\ client[d].buf \in Seq(OutCell)
  BY <1>2 DEF WfInv, IInv, TypeOK, SockRec, ClientRec
<1>4. PICK k, f : /\ Reads(got, proc[d].seen, f, proc[d].read, k)
                  /\ proc[d].frame = IF proc[d].stage = "exited" THEN <<>> ELSE f
  BY <1>2 DEF ReadInv, ReadRec
<1>5. CASE sock'[d].got = got
  BY <1>1, <1>4, <1>5 DEF ReadRec
<1>6. CASE ClientHandleWritable(d)
  <2>1. PICK written \in 1..Len(client[d].buf) :
          sock' = [sock EXCEPT ![d].got = @ \o SubSeq(client[d].buf, 1, written)]
    BY <1>6 DEF ClientHandleWritable, Written
  <2>2. PICK x, u : x = SubSeq(client[d].buf, 1, written) /\ u = got \o x
    OBVIOUS
  <2>3. x \in Seq(OutCell)
    <3>1. written \in 0..Len(client[d].buf)
      BY <1>3, LenProperties
    <3>2. QED BY <1>3, <2>2, <3>1, CutInTwo
  <2>4. sock'[d].got = u
    BY <1>2, <1>3, <2>1, <2>2 DEF SockRec
  <2>5. Reads(u, proc[d].seen, f, proc[d].read, k)
    BY <1>3, <1>4, <2>2, <2>3, ReadsLonger
  <2>6. QED BY <1>1, <1>4, <2>4, <2>5 DEF ReadRec
<1>7. QED BY <1>1, <1>2, <1>5, <1>6, ServerSock DEF WfInv

LEMMA ReadInit == WfInit => ReadInv
<1> SUFFICES ASSUME WfInit, NEW c \in Clients
             PROVE  ReadRec(proc[c], sock[c].got)
  BY DEF ReadInv
<1>1. sock[c].got = <<>>
  BY Zenon DEF WfInit, Init
<1>2. proc[c].seen = <<>> /\ proc[c].read = 0 /\ proc[c].frame = <<>> /\ proc[c].stage = "main"
  BY DEF WfInit
<1>3. Reads(<<>>, <<>>, <<>>, 0, 0)
  <2>1. PICK e : e = <<>>
    OBVIOUS
  <2>2. Len(e) = 0 /\ Whole(e) = e
    BY <2>1, EmptySeq, WholeEmpty
  <2>3. SubSeq(e, 1, 0) = e /\ SubSeq(e, 0 + 1, 0) = e
    BY <2>1, SubSeqEmpty
  <2>4. 0 \in 0..Len(e) /\ 0 \in 0..0 /\ ~(0 < 0)
    BY <2>2
  <2>5. Reads(e, e, e, 0, 0)
    BY <2>1, <2>2, <2>3, <2>4 DEF Reads
  <2>6. QED BY <2>1, <2>5
<1>4. QED BY <1>1, <1>2, <1>3 DEF ReadRec

LEMMA ReadStep ==
  ASSUME WfInv, GotInv, ReadInv, [WfNext]_wfVars
  PROVE  ReadInv'
<1> SUFFICES ASSUME NEW d \in Clients
             PROVE  ReadRec(proc'[d], sock'[d].got)
  BY DEF ReadInv
<1>1. CASE Serves \/ ServerStep
  BY <1>1, ServerReads
<1>2. ASSUME NEW c \in Clients, Runs(c) \/ OutOfMemory(c) \/ Kill(c)
      PROVE  ReadRec(proc'[d], sock'[d].got)
  <2>1. sock'[d].got = sock[d].got /\ (d # c => proc'[d] = proc[d])
    BY <1>2, RunsAlone
  <2>2. CASE d = c
    BY <1>2, <2>1, <2>2, RunsRead
  <2>3. CASE d # c
    BY <2>1, <2>3 DEF ReadInv
  <2>4. QED BY <2>2, <2>3
<1>3. CASE UNCHANGED wfVars
  BY <1>3 DEF wfVars, vars, ReadInv
<1>4. QED BY <1>1, <1>2, <1>3 DEF WfNext

LEMMA ReadInvariant == WfSpec => []ReadInv
<1>1. WfInit => ReadInv
  BY ReadInit
<1>2. WfInv /\ GotInv /\ ReadInv /\ [WfNext]_wfVars => ReadInv'
  BY ReadStep
<1>3. QED BY <1>1, <1>2, WfInvariant, GotInvariant, PTL DEF WfSpec

\* What a process takes for responses are the messages the server sent, whole
\* and in order, wherever ipc_recv_response was cut short between two recv's
\* and whatever the server wrote at a time.
THEOREM UnderstoodHolds == WfSpec => []Understood
<1>1. ASSUME WfInv, GotInv, ReadInv
      PROVE  Understood
  <2> SUFFICES ASSUME NEW c \in Clients
               PROVE  LET p == proc[c]
                      IN /\ Begins(p.seen, Whole(SubSeq(sock[c].got, 1, p.read)))
                         /\ \A i \in DOMAIN p.frame :
                              p.frame[i].at = i /\ p.frame[i].msg = p.frame[1].msg
                         /\ Len(p.frame) <= HeaderSize \/ Missing(p.frame) >= 0
    BY DEF Understood
  <2>1. PICK got, seen, read : got = sock[c].got /\ seen = proc[c].seen /\ read = proc[c].read
    OBVIOUS
  <2>2. got \in Seq(OutCell) /\ Received(got)
    BY <1>1, <2>1 DEF WfInv, IInv, TypeOK, SockRec, GotInv
  <2>3. PICK k, f : /\ Reads(got, seen, f, read, k)
                    /\ proc[c].frame = IF proc[c].stage = "exited" THEN <<>> ELSE f
    BY <1>1, <2>1 DEF ReadInv, ReadRec
  <2>4. /\ Begins(seen, Whole(SubSeq(got, 1, read)))
        /\ \A i \in DOMAIN f : f[i].at = i /\ f[i].msg = f[1].msg
        /\ Len(f) <= HeaderSize \/ Missing(f) >= 0
    BY <2>2, <2>3, ReadsTell
  <2>5. DOMAIN <<>> = {} /\ Len(<<>>) <= HeaderSize
    <3>1. Len(<<>>) = 0 /\ <<>> \in Seq(OutCell)
      BY EmptySeq
    <3>2. DOMAIN <<>> = {}
      OBVIOUS
    <3>3. QED BY <3>1, <3>2, SizesNat
  <2>6. CASE proc[c].frame = f
    BY <2>1, <2>4, <2>6
  <2>7. CASE proc[c].frame = <<>>
    BY <2>1, <2>4, <2>5, <2>7
  <2>8. QED BY <2>3, <2>6, <2>7
<1>2. QED BY <1>1, WfInvariant, GotInvariant, ReadInvariant, PTL

-----------------------------------------------------------------------------
(* The exit code.                                                          *)

\* The first response is the reply to the request.
LEMMA FirstIsReply ==
  ASSUME WfInv, GotInv, ReadInv, NEW c \in Clients, proc[c].seen # <<>>
  PROVE  /\ proc[c].seen[1].kind = "reply" /\ proc[c].seen[1].n = 1
         /\ proc[c].seen[1].type = proc[c].job.req.type
<1>1. PICK got, seen, read : got = sock[c].got /\ seen = proc[c].seen /\ read = proc[c].read
  OBVIOUS
<1>2. got \in Seq(OutCell) /\ Received(got) /\ RepliesTo(got, proc[c].job.req)
  BY <1>1 DEF WfInv, IInv, TypeOK, SockRec, GotInv
<1>3. PICK k, f : Reads(got, seen, f, read, k)
  BY <1>1 DEF ReadInv, ReadRec
<1>4. k \in 0..read /\ read \in 0..Len(got) /\ k > 0 /\ seen[1] = got[1].msg
  BY <1>1, <1>3 DEF Reads
<1>5. 1 \in 1..Len(got) /\ got # <<>>
  <2>1. Len(got) \in Nat
    BY <1>2, LenProperties
  <2>2. Len(got) > 0
    BY <1>4, <2>1
  <2>3. QED BY <1>2, <2>1, <2>2, EmptySeq
<1>6. got[1].at = 1 /\ got[1].msg.kind = "reply"
  BY <1>2, <1>5 DEF Received, Starts, Replying
<1>7. got[1].msg.n = 1 /\ got[1].msg.type = proc[c].job.req.type
  BY <1>2, <1>5, <1>6 DEF RepliesTo
<1>8. QED BY <1>1, <1>4, <1>6, <1>7

\* What process p has been told, and what it says of that when it ends.
Answer(p) == IF p.seen = <<>> THEN "none" ELSE Content(p.seen[1], p.job)
TellRec(p) ==
  /\ p.stage \in {"main", "write_header", "write_payload"} => p.seen = <<>>
  /\ p.stage = "recv" /\ p.seen # <<>> => p.job.req.type = "subscribe" /\ Answer(p) = "ok"
  /\ Len(p.seen) > 1 => p.job.req.type = "subscribe" /\ Answer(p) = "ok"
  /\ p.stage = "exited" =>
       /\ p.ret = 0 => Answer(p) = "ok"
       /\ p.ret = 1 => Answer(p) = "empty" \/ (p.job.monitor /\ p.job.req.type # "subscribe")
       /\ p.ret = 2 <=> Answer(p) = "failed"
TellInv == \A c \in Clients : TellRec(proc[c])

\* The process goes on with the same responses.
AsTold(p, q) ==
  /\ q.seen = p.seen /\ q.job = p.job /\ q.stage # "exited" /\ p.stage # "exited"
  /\ q.stage = "recv" => p.stage \in {"recv", "write_payload"}
  /\ p.stage = "recv" => q.stage = "recv"

LEMMA ToldKept ==
  ASSUME NEW p, NEW q, TellRec(p), AsTold(p, q), p.stage \in Stages, q.stage \in Stages
  PROVE  TellRec(q)
<1>1. Answer(q) = Answer(p)
  BY DEF AsTold, Answer
<1>2. q.stage = "recv" /\ q.seen # <<>> => p.stage = "recv"
  BY DEF AsTold, TellRec
<1>3. q.stage \in {"main", "write_header", "write_payload"} => q.seen = <<>>
  <2>1. q.stage # "recv" => p.stage \in {"main", "write_header", "write_payload"}
    BY DEF AsTold, Stages
  <2>2. QED BY <2>1 DEF AsTold, TellRec
<1>4. QED BY <1>1, <1>2, <1>3 DEF AsTold, TellRec

\* The process ends without another response: what it has seen is nothing,
\* or the acceptance of its subscription.
LEMMA ExitTold ==
  ASSUME WfInv, TellInv, NEW c \in Clients, NEW code, Exit(c, code), proc[c].stage # "exited",
         \/ code \in {Aborted, Killed}
         \/ code = 0 /\ proc[c].stage = "recv" /\ proc[c].seen # <<>>
         \/ code = 1 /\ proc[c].job.monitor /\ proc[c].job.req.type # "subscribe"
  PROVE  TellRec(proc'[c])
<1>1. PICK p, q : p = proc[c] /\ q = proc'[c]
  OBVIOUS
<1>2. p \in ProcRec /\ proc \in [Clients -> ProcRec] /\ TellRec(p)
  BY <1>1 DEF WfInv, TellInv
<1>3. q.stage = "exited" /\ q.ret = code /\ q.seen = p.seen /\ q.job = p.job
  BY <1>1, <1>2 DEF Exit, Leaves, ProcRec
<1>4. Answer(q) = Answer(p)
  BY <1>3 DEF Answer
<1>5. p.seen = <<>> \/ (p.stage = "recv" /\ p.job.req.type = "subscribe" /\ Answer(p) = "ok")
  <2>1. p.stage \in {"main", "write_header", "write_payload", "recv"}
    BY <1>1, <1>2 DEF ProcRec, Stages
  <2>2. QED BY <1>2, <2>1 DEF TellRec
<1>6. Answer(p) # "failed" /\ (p.seen # <<>> => Answer(p) = "ok")
  BY <1>5 DEF Answer
<1>7. (code = 0 => Answer(p) = "ok") /\ code # 2
  BY <1>1, <1>6 DEF Aborted, Killed
<1>8. code = 1 => p.job.monitor /\ p.job.req.type # "subscribe"
  BY <1>1 DEF Aborted, Killed
<1>9. Len(q.seen) > 1 => q.job.req.type = "subscribe" /\ Answer(q) = "ok"
  BY <1>2, <1>3, <1>4 DEF TellRec
<1>10. QED BY <1>1, <1>3, <1>4, <1>6, <1>7, <1>8, <1>9 DEF TellRec

LEMMA VerdictIs ==
  ASSUME NEW x \in Answers
  PROVE  /\ Verdict(x) = 0 <=> x = "ok"
         /\ Verdict(x) = 1 <=> x = "empty"
         /\ Verdict(x) = 2 <=> x = "failed"
<1>1. CASE x = "ok"
  BY <1>1 DEF Verdict
<1>2. CASE x = "empty"
  BY <1>2 DEF Verdict
<1>3. CASE x = "failed"
  BY <1>3 DEF Verdict
<1>4. QED BY <1>1, <1>2, <1>3 DEF Answers

LEMMA ReplyAnswers ==
  ASSUME WfInv, NEW c \in Clients, HandleReply(c)
  PROVE  TellRec(proc'[c])
<1>1. PICK p, q, m : p = proc[c] /\ q = proc'[c] /\ m = proc[c].frame[1].msg
  OBVIOUS
<1>2. p \in ProcRec /\ proc \in [Clients -> ProcRec] /\ p.stage = "recv" /\ p.job \in Job
  BY <1>1 DEF WfInv, ProcRec, HandleReply, Receiving
<1>3. PICK x : x = Content(m, p.job)
  OBVIOUS
<1>4. x \in Answers
  BY <1>2, <1>3 DEF Content, Answers, Job
<1>5. PICK seen : seen = <<m>>
  OBVIOUS
<1>6. seen # <<>> /\ seen[1] = m /\ Len(seen) = 1
  BY <1>5
<1>7. CASE Subscribes(c) /\ Verdict(x) = 0
  <2>1. proc' = [proc EXCEPT ![c].seen = seen, ![c].frame = <<>>]
    BY <1>1, <1>3, <1>5, <1>7 DEF HandleReply
  <2>2. q.seen = seen /\ q.job = p.job /\ q.stage = "recv"
    BY <1>1, <1>2, <2>1 DEF ProcRec
  <2>3. Answer(q) = "ok"
    BY <1>3, <1>4, <1>6, <1>7, <2>2, VerdictIs DEF Answer
  <2>4. q.job.req.type = "subscribe"
    BY <1>1, <1>7, <2>2 DEF Subscribes
  <2>5. QED BY <1>1, <2>2, <2>3, <2>4 DEF TellRec
<1>8. CASE ~(Subscribes(c) /\ Verdict(x) = 0)
  <2>1. Leaves(c, seen, Verdict(x))
    BY <1>1, <1>3, <1>5, <1>8 DEF HandleReply
  <2>2. q.seen = seen /\ q.job = p.job /\ q.stage = "exited" /\ q.ret = Verdict(x)
    BY <1>1, <1>2, <2>1 DEF ProcRec, Leaves
  <2>3. Answer(q) = x
    BY <1>3, <1>6, <2>2 DEF Answer
  <2>4. ~(Len(q.seen) > 1)
    <3>1. Len(q.seen) = 1
      BY <1>6, <2>2
    <3>2. QED BY <3>1
  <2>5. QED BY <1>1, <1>4, <2>2, <2>3, <2>4, VerdictIs DEF TellRec
<1>9. QED BY <1>7, <1>8

LEMMA EventAnswers ==
  ASSUME WfInv, GotInv, ReadInv, TellInv, NEW c \in Clients, HandleEvent(c)
  PROVE  TellRec(proc'[c])
<1>1. PICK p, q, m : p = proc[c] /\ q = proc'[c] /\ m = proc[c].frame[1].msg
  OBVIOUS
<1>2. /\ p \in ProcRec /\ proc \in [Clients -> ProcRec] /\ p.stage = "recv" /\ p.seen # <<>>
      /\ Complete(c) /\ TellRec(p)
  BY <1>1 DEF WfInv, HandleEvent, Receiving, TellInv
<1>3. Answer(p) = "ok" /\ p.job.req.type = "subscribe"
  BY <1>2 DEF TellRec
<1>4. m \in Message
        /\ \E i \in 1..Len(sock[c].got) : sock[c].got[i].at = 1 /\ sock[c].got[i].msg = m
  BY <1>1, <1>2, CompleteResponse
<1>5. m.kind = "reply" => m.type = "subscribe"
  BY <1>1, <1>3, <1>4 DEF GotInv, RepliesTo
<1>6. Content(m, p.job) # "empty"
  BY <1>5 DEF Content
<1>7. PICK seen : seen = Append(p.seen, m)
  OBVIOUS
<1>8. seen # <<>> /\ seen[1] = p.seen[1]
  <2>1. p.seen \in Seq(Message) /\ Len(p.seen) \in Nat /\ Len(p.seen) # 0
    BY <1>2, EmptySeq, LenProperties DEF ProcRec
  <2>2. 1 \in 1..Len(p.seen) /\ Len(seen) = Len(p.seen) + 1
        /\ \A i \in 1..Len(p.seen) : seen[i] = p.seen[i]
    BY <1>4, <1>7, <2>1, AppendProperties
  <2>3. QED BY <2>1, <2>2, EmptySeq
<1>9. q.seen = seen /\ q.job = p.job /\ (q.stage = "recv" \/ (q.stage = "exited" /\ q.ret = 0))
  <2>1. CASE proc' = [proc EXCEPT ![c].seen = seen, ![c].frame = <<>>]
    BY <1>1, <1>2, <2>1 DEF ProcRec
  <2>2. CASE Leaves(c, seen, 0)
    BY <1>1, <1>2, <2>2 DEF ProcRec, Leaves
  <2>3. QED BY <1>1, <1>6, <1>7, <2>1, <2>2 DEF HandleEvent
<1>10. Answer(q) = "ok" /\ q.job.req.type = "subscribe"
  BY <1>2, <1>3, <1>8, <1>9 DEF Answer
<1>11. QED BY <1>1, <1>9, <1>10 DEF TellRec

LEMMA RunsTold ==
  ASSUME WfInv, GotInv, ReadInv, TellInv, NEW c \in Clients, Runs(c) \/ OutOfMemory(c) \/ Kill(c)
  PROVE  TellRec(proc'[c])
<1>0. proc \in [Clients -> ProcRec] /\ proc[c] \in ProcRec /\ TellRec(proc[c])
  BY DEF WfInv, TellInv
<1>1. ASSUME NEW code \in {Aborted, Killed}, Exit(c, code), Running(c)
      PROVE  TellRec(proc'[c])
  BY <1>1, ExitTold DEF Running
<1>2. ASSUME AsTold(proc[c], proc'[c])
      PROVE  TellRec(proc'[c])
  <2>1. proc[c].stage \in Stages /\ proc' \in [Clients -> ProcRec]
    BY <1>0, WfStep DEF WfNext, WfInv, ProcRec
  <2>2. proc'[c].stage \in Stages
    BY <2>1 DEF ProcRec
  <2>3. QED BY <1>0, <1>2, <2>1, <2>2, ToldKept
<1>3. CASE Misused(c)
  BY <1>3, ExitTold DEF Misused, Running, Subscribes
<1>4. CASE OpenSocket(c)
  <2>1. CASE Exit(c, Aborted)
    BY <1>1, <1>4, <2>1 DEF OpenSocket
  <2>2. ASSUME NEW e, proc' = [proc EXCEPT ![c].stage = "write_header", ![c].earlier = e]
        PROVE  TellRec(proc'[c])
    <3>1. proc[c].stage = "main"
      BY <1>4 DEF OpenSocket
    <3>2. AsTold(proc[c], proc'[c])
      BY <1>0, <2>2, <3>1 DEF AsTold, ProcRec
    <3>3. QED BY <1>2, <3>2
  <2>3. QED BY <1>4, <2>1, <2>2 DEF OpenSocket
<1>5. CASE WriteHeader(c)
  <2>1. AsTold(proc[c], proc'[c])
    BY <1>0, <1>5 DEF AsTold, ProcRec, WriteHeader
  <2>2. QED BY <1>2, <2>1
<1>6. CASE WritePayload(c)
  <2>1. AsTold(proc[c], proc'[c])
    BY <1>0, <1>6 DEF AsTold, ProcRec, WritePayload
  <2>2. QED BY <1>2, <2>1
<1>7. CASE WriteFails(c) \/ RecvFails(c) \/ RecvTimesOut(c) \/ Kill(c)
  BY <1>1, <1>7 DEF WriteFails, RecvFails, RecvTimesOut, Kill, Receiving
<1>8. CASE OutOfMemory(c)
  <2>1. Running(c) /\ proc[c].stage = "recv"
    BY <1>8 DEF OutOfMemory, Receiving
  <2>2. CASE proc[c].seen = <<>>
    <3>1. Exit(c, Killed)
      BY <1>8, <2>2 DEF OutOfMemory
    <3>2. QED BY <1>1, <2>1, <3>1
  <2>3. CASE proc[c].seen # <<>>
    <3>1. Exit(c, 0)
      BY <1>8, <2>3 DEF OutOfMemory
    <3>2. QED BY <2>1, <2>3, <3>1, ExitTold DEF Running
  <2>4. QED BY <2>2, <2>3
<1>9. CASE Recv(c)
  <2>1. proc[c].stage = "recv"
    BY <1>9 DEF Recv, Receiving
  <2>2. PICK f, r : proc' = [proc EXCEPT ![c].frame = f, ![c].read = r]
    BY <1>0, <1>9 DEF Recv
  <2>3. AsTold(proc[c], proc'[c])
    BY <1>0, <2>1, <2>2 DEF AsTold, ProcRec
  <2>4. QED BY <1>2, <2>3
<1>10. CASE HandleReply(c)
  BY <1>10, ReplyAnswers
<1>11. CASE HandleEvent(c)
  BY <1>11, EventAnswers
<1>12. \/ Misused(c) \/ OpenSocket(c) \/ WriteHeader(c) \/ WritePayload(c)
       \/ WriteFails(c) \/ RecvFails(c) \/ RecvTimesOut(c) \/ Kill(c)
       \/ OutOfMemory(c) \/ Recv(c) \/ HandleReply(c) \/ HandleEvent(c)
  BY DEF Runs
<1>13. QED BY <1>3, <1>4, <1>5, <1>6, <1>7, <1>8, <1>9, <1>10, <1>11, <1>12

LEMMA TellInit == WfInit => TellInv
<1> SUFFICES ASSUME WfInit, NEW c \in Clients
             PROVE  TellRec(proc[c])
  BY DEF TellInv
<1>1. proc[c].seen = <<>> /\ proc[c].stage = "main"
  BY DEF WfInit
<1>2. Len(<<>>) = 0
  OBVIOUS
<1>3. QED BY <1>1, <1>2 DEF TellRec

LEMMA TellStep ==
  ASSUME WfInv, GotInv, ReadInv, TellInv, [WfNext]_wfVars
  PROVE  TellInv'
<1>1. CASE proc' = proc
  BY <1>1 DEF TellInv, TellRec, Answer
<1>2. ASSUME NEW c \in Clients, Runs(c) \/ OutOfMemory(c) \/ Kill(c)
      PROVE  TellInv'
  <2>1. ASSUME NEW d \in Clients, d # c
        PROVE  proc'[d] = proc[d]
    BY <1>2, <2>1, RunsAlone
  <2>2. TellRec(proc'[c])
    BY <1>2, RunsTold
  <2>3. ASSUME NEW d \in Clients
        PROVE  TellRec(proc'[d])
    <3>1. CASE d = c
      BY <2>2, <3>1
    <3>2. CASE d # c
      <4>1. proc'[d] = proc[d]
        BY <2>1, <3>2
      <4>2. TellRec(proc[d])
        BY DEF TellInv
      <4>3. QED BY <4>1, <4>2
    <3>3. QED BY <3>1, <3>2
  <2>4. QED BY <2>3 DEF TellInv
<1>3. QED BY <1>1, <1>2 DEF WfNext, Serves, ServerStep, wfVars

LEMMA TellInvariant == WfSpec => []TellInv
<1>1. WfInit => TellInv
  BY TellInit
<1>2. WfInv /\ GotInv /\ ReadInv /\ TellInv /\ [WfNext]_wfVars => TellInv'
  BY TellStep
<1>3. QED BY <1>1, <1>2, WfInvariant, GotInvariant, ReadInvariant, PTL DEF WfSpec

\* The exit code is about the reply to the request: nothing comes before it
\* on the connection, an event is taken for what it is, and a failure after
\* the acceptance of a subscription does not pass for another answer.
THEOREM ExitTellsHolds == WfSpec => []ExitTells
<1>1. ASSUME WfInv, GotInv, ReadInv, TellInv
      PROVE  ExitTells
  <2>1. ASSUME NEW c \in Clients
        PROVE  LET p == proc[c]
                   answer == IF p.seen = <<>> THEN "none" ELSE Content(p.seen[1], p.job)
               IN /\ p.seen # <<>> => /\ p.seen[1].kind = "reply" /\ p.seen[1].n = 1
                                      /\ p.seen[1].type = p.job.req.type
                  /\ p.stage = "exited" =>
                       /\ p.ret = 0 => answer = "ok"
                       /\ p.ret = 2 <=> answer = "failed"
                  /\ Monitoring(c) => answer = "ok"
                  /\ Len(p.seen) > 1 => Subscribes(c) /\ answer = "ok"
    <3>1. PICK p : p = proc[c]
      OBVIOUS
    <3>2. TellRec(p)
      BY <1>1, <3>1 DEF TellInv
    <3>3. p.seen # <<>> => /\ p.seen[1].kind = "reply" /\ p.seen[1].n = 1
                           /\ p.seen[1].type = p.job.req.type
      BY <1>1, <3>1, FirstIsReply
    <3>4. Subscribes(c) <=> p.job.req.type = "subscribe"
      BY <3>1 DEF Subscribes
    <3>5. Monitoring(c) <=> p.stage = "recv" /\ p.seen # <<>>
      BY <3>1 DEF Monitoring
    <3>6. QED BY <3>1, <3>2, <3>3, <3>4, <3>5 DEF TellRec, Answer
  <2>2. QED BY <2>1 DEF ExitTells
<1>2. QED BY <1>1, WfInvariant, GotInvariant, ReadInvariant, TellInvariant, PTL

================================================================================
