------------------------------ MODULE IpcServer ------------------------------
(***************************************************************************)
(* The i3-compatible IPC server of the Wayfire plugin                      *)
(* (src/ipc/server/i3-ipc-server.cpp, src/include/ipc/server.hpp): one     *)
(* listening UNIX socket, a list of clients, and for every client a        *)
(* non-blocking socket, the header of a half-received request, a           *)
(* subscription mask and a write buffer that is drained when the socket is *)
(* writable.  All of it runs on the compositor's event loop, so a handler  *)
(* is one step; the one exception is RUN_COMMAND, whose commands make the  *)
(* compositor emit signals, and therefore events, before the reply is      *)
(* queued (ExecuteCommand ... Publish ... CommandDone).                    *)
(*                                                                         *)
(* A byte is a cell.  An incoming cell says which request of its peer it   *)
(* belongs to and where it stands in it; an outgoing cell says the same of *)
(* the message it belongs to.  The server cuts the incoming stream by the  *)
(* lengths it has read, never by these labels.                             *)
(***************************************************************************)
EXTENDS Integers, Sequences, FiniteSets

CONSTANTS
  Clients,      \* the peers that may connect, each at most once
  NoClient,     \* not a peer
  Requests,     \* the requests a peer may send
  HeaderSize,   \* IPC_HEADER_SIZE
  InitBufSize,  \* the first size of a write buffer, 128 in the code
  MaxBufSize,   \* the largest size of a write buffer, 4e6 in the code
  Doublings,    \* a number of doublings that exceeds MaxBufSize
  SockBuf,      \* how many unread bytes the kernel keeps for a socket
  Backlog,      \* the second argument of listen, 3 in the code
  StatusLen,    \* the payload length of a status reply
  PayloadLens,  \* the payload lengths of every other message sent
  MayFail,      \* the peers that may hang up, or a system call on whose
                \*   socket, or an allocation for which, may fail
  MaxServes,    \* bound: how often serve() is called
  MaxRequests,  \* bound: requests per peer
  MaxEvents     \* bound: events raised by the compositor

(***************************************************************************)
(* Events are numbered in ipc.h:95-107; event_mask(ev) is                  *)
(* 1 << (ev & 0x8F), so what matters of a number are the bits of 0x8F.     *)
(***************************************************************************)
EventNo == [workspace |-> 0, output |-> 1, mode |-> 2, window |-> 3,
            binding |-> 5, shutdown |-> 6, tick |-> 7, input |-> 21]
Events == DOMAIN EventNo
EventBit(e) == (EventNo[e] % 16) + 128 * ((EventNo[e] \div 128) % 2)
Bits == {EventBit(e) : e \in Events}

\* The event names SUBSCRIBE knows, and those event_to_type knows.
SubscribeNames == {"workspace", "shutdown", "window", "tick", "input", "output"}
UnsubscribeNames == SubscribeNames \cup {"binding"}
\* The elements of a request's array: a name, or a JSON value of another type.
NotString == "not a string"

(***************************************************************************)
(* A request: its type, whether its magic is right, the length of its      *)
(* payload and, for SUBSCRIBE and UNSUBSCRIBE, the elements of the array   *)
(* the payload parses to, <<>> standing for an empty array, another JSON   *)
(* value and unparsable text alike.  "query" stands for the eight GET_*    *)
(* types, "other" for SYNC and the types the switch does not know.         *)
(***************************************************************************)
RequestTypes == {"command", "send_tick", "query", "subscribe", "unsubscribe", "other"}
Request == [type : RequestTypes, magic : BOOLEAN, len : Nat, arg : Seq(STRING)]

BufSizes == {s \in 1..MaxBufSize : \E j \in 0..Doublings : s = InitBufSize * 2^j}

ASSUME ClientsAssumption == NoClient \notin Clients /\ MayFail \subseteq Clients
ASSUME RequestsAssumption ==
  Requests \subseteq Request /\ \A r \in Requests : r.len = 0 => r.arg = <<>>
ASSUME SizesAssumption ==
  /\ HeaderSize \in Nat \ {0} /\ StatusLen \in Nat /\ PayloadLens \subseteq Nat
  /\ SockBuf \in Nat /\ Backlog \in Nat /\ MaxBufSize \in Nat /\ Doublings \in Nat
  /\ InitBufSize \in BufSizes
  /\ InitBufSize * 2^Doublings > MaxBufSize
ASSUME BoundsAssumption ==
  MaxServes \in Nat /\ MaxRequests \in Nat /\ MaxEvents \in Nat

VARIABLES
  server,     \* "down" | "listening" | "closed" | "exited": ipc_socket
  serves,     \* how often serve() has been called
  queue,      \* peers connected to ipc_socket and not accepted yet
  listed,     \* ipc_client_list
  client,     \* the i3_ipc_client of each peer
  sock,       \* the connection of each peer and what the peer did with it
  executing,  \* the client whose RUN_COMMAND is being executed, or NoClient
  nev         \* the number of events sent so far

vars == <<server, serves, queue, listed, client, sock, executing, nev>>

(***************************************************************************)
(* A message is a reply to the n-th request of its receiver, the n-th      *)
(* event sent, or the "first" tick that answers a subscription to tick.    *)
(***************************************************************************)
Message == [kind : {"reply", "event", "hello"}, type : RequestTypes \cup Events,
            ok : BOOLEAN, n : Nat]
OutCell == [msg : Message, at : Nat, left : Nat]
InCell == [n : Nat, off : Nat]

Frame(m, payload) ==
  [i \in 1..HeaderSize + payload |->
     [msg |-> m, at |-> i, left |-> HeaderSize + payload - i]]
Bytes(n, r) == [i \in 1..HeaderSize + r.len |-> [n |-> n, off |-> i]]

(***************************************************************************)
(* The life of an i3_ipc_client: its peer has not connected ("new"), waits *)
(* in the backlog ("queued"), is served ("open"), or has been disconnected *)
(* ("gone").  "touched" is a client that was used after client_disconnect  *)
(* deleted it: the program's behaviour is undefined from there on, and the *)
(* model takes no further step.                                            *)
(***************************************************************************)
Lives == {"new", "queued", "open", "gone", "touched"}
ClientRec == [life : Lives, subs : SUBSET Bits, pending : Nat,
              ptype : RequestTypes \cup {"none"}, hdr : Nat,
              buf : Seq(OutCell), size : BufSizes, writable : BOOLEAN]
SockRec == [asked : Seq(Requests), wire : Seq(InCell), inq : Seq(InCell),
            hup : BOOLEAN, got : Seq(OutCell)]

Fresh(life) ==
  [life |-> life, subs |-> {}, pending |-> 0, ptype |-> "none", hdr |-> 0,
   buf |-> <<>>, size |-> InitBufSize, writable |-> FALSE]

TypeOK ==
  /\ server \in {"down", "listening", "closed", "exited"}
  /\ serves \in Nat
  /\ queue \in Seq(Clients)
  /\ listed \in SUBSET Clients
  /\ client \in [Clients -> ClientRec]
  /\ sock \in [Clients -> SockRec]
  /\ executing \in Clients \cup {NoClient}
  /\ nev \in Nat

Init ==
  /\ server = "down"
  /\ serves = 0
  /\ queue = <<>>
  /\ listed = {}
  /\ client = [c \in Clients |-> Fresh("new")]
  /\ sock = [c \in Clients |->
               [asked |-> <<>>, wire |-> <<>>, inq |-> <<>>, hup |-> FALSE, got |-> <<>>]]
  /\ executing = NoClient
  /\ nev = 0

-----------------------------------------------------------------------------
(* send_reply and what is built on it. *)

\* client_disconnect: the buffer is freed, the sources are removed.
Disconnected(k) == Fresh("gone")

\* Broken form: the loop stops one doubling early (> for >=).
RoomySizes_OffByOne(k, payload) ==
  {s \in BufSizes : s >= k.size /\ Len(k.buf) + HeaderSize + payload <= s}

\* The sizes the doubling loop of send_reply may stop at: need < size.
RoomySizes(k, payload) ==
  {s \in BufSizes : s >= k.size /\ Len(k.buf) + HeaderSize + payload < s}

\* Broken form: without the test of the size against the limit.
SendReply_NoLimit(k, m, payload, oom) ==
  IF k.life # "open" THEN [k EXCEPT !.life = "touched"]
  ELSE IF oom THEN Disconnected(k)
  ELSE [k EXCEPT !.buf = @ \o Frame(m, payload), !.writable = TRUE,
                 !.size = IF RoomySizes(k, payload) = {} THEN 2 * @
                          ELSE CHOOSE s \in RoomySizes(k, payload) :
                                 \A t \in RoomySizes(k, payload) : s <= t]

\* send_reply to the client record k, whose reallocation may fail.
SendReply(k, m, payload, oom) ==
  IF k.life # "open"
    THEN [k EXCEPT !.life = "touched"]
  ELSE IF oom \/ RoomySizes(k, payload) = {}
    THEN Disconnected(k)
  ELSE [k EXCEPT !.buf = @ \o Frame(m, payload),
                 !.size = CHOOSE s \in RoomySizes(k, payload) :
                            \A t \in RoomySizes(k, payload) : s <= t,
                 !.writable = TRUE]

Reply(t, ok, n) == [kind |-> "reply", type |-> t, ok |-> ok, n |-> n]
Event(e, n) == [kind |-> "event", type |-> e, ok |-> TRUE, n |-> n]
FirstTick(n) == [kind |-> "hello", type |-> "tick", ok |-> TRUE, n |-> n]

SendStatus(k, t, ok, n, oom) == SendReply(k, Reply(t, ok, n), StatusLen, oom)

\* has_event_listeners
HasListeners(cs, e) == \E c \in listed : EventBit(e) \in cs[c].subs

\* Broken form: a client that is disconnected makes the loop skip the next.
SendEvent_Skips(cs, m, payload, oom) ==
  LET told == {c \in listed : EventBit(m.type) \in cs[c].subs}
      lost == {c \in told : SendReply(cs[c], m, payload, c \in oom).life # "open"}
      skipped == IF lost = {} THEN {} ELSE {CHOOSE c \in told : lost = told \/ c \notin lost}
  IN [c \in Clients |->
        IF c \in told \ skipped THEN SendReply(cs[c], m, payload, c \in oom) ELSE cs[c]]

\* send_event: one pass over the list, which a failing send_reply shortens.
SendEvent(cs, m, payload, oom) ==
  [c \in Clients |->
     IF c \in listed /\ EventBit(m.type) \in cs[c].subs
       THEN SendReply(cs[c], m, payload, c \in oom)
       ELSE cs[c]]

\* Broken form: client_disconnect leaves the list alone.
StillListed_Stale(cs) == listed

\* The list once the disconnected clients have been erased from it.
StillListed(cs) == {c \in listed : cs[c].life = "open"}

\* The effect of a handler that leaves the clients as cs.
ClientsBecome(cs) == client' = cs /\ listed' = StillListed(cs)

-----------------------------------------------------------------------------
(* The handlers of the requests: cs is the state of the clients once the   *)
(* request, the n-th of c, has been received.                              *)

\* RUN_COMMAND, up to the execution of its commands.
ExecuteCommand(cs, c) ==
  /\ ClientsBecome(cs)
  /\ executing' = c
  /\ UNCHANGED nev

\* send_tick: the event is sent if somebody listens.
TickSent(cs, payload, oom) ==
  IF HasListeners(cs, "tick")
    THEN SendEvent(cs, Event("tick", nev + 1), payload, oom)
    ELSE cs

\* SEND_TICK: send_tick, then the status.
SendTick(cs, c, n) ==
  \E payload \in PayloadLens, oom1 \in SUBSET MayFail, oom2 \in SUBSET MayFail :
    LET told == TickSent(cs, payload, oom1)
    IN /\ ClientsBecome([told EXCEPT
                            ![c] = SendStatus(@, "send_tick", TRUE, n, c \in oom2)])
       /\ nev' = IF HasListeners(cs, "tick") THEN nev + 1 ELSE nev
       /\ UNCHANGED executing

\* GET_*: the reply is a description of the compositor's state.
AnswerQuery(cs, c, n) ==
  \E payload \in PayloadLens, oom \in SUBSET MayFail :
    /\ ClientsBecome([cs EXCEPT
                         ![c] = SendReply(@, Reply("query", TRUE, n), payload, c \in oom)])
    /\ UNCHANGED <<executing, nev>>

\* The subscription mask after SUBSCRIBE for the names arg, and whether one
\* of them is unsupported, which empties the mask.
Unsupported(arg, names) == {i \in DOMAIN arg : arg[i] \notin names \cup {NotString}}
\* Broken form of Subscribed: an unsupported name ends the loop, no more.
Subscribed_Kept(subs, arg) ==
  subs \cup {EventBit(arg[i]) : i \in
    {j \in DOMAIN arg : arg[j] # NotString
       /\ \A u \in Unsupported(arg, SubscribeNames) : j < u}}
Subscribed(subs, arg) ==
  IF Unsupported(arg, SubscribeNames) # {}
    THEN {}
    ELSE subs \cup {EventBit(arg[i]) : i \in {j \in DOMAIN arg : arg[j] # NotString}}

\* Broken form: the first tick is sent before the status.
Subscribe_Swapped(cs, c, n, arg) ==
  \E payload \in PayloadLens :
    LET ok == arg # <<>> /\ Unsupported(arg, SubscribeNames) = {}
        k == [cs[c] EXCEPT !.subs = IF arg = <<>> THEN @ ELSE Subscribed(@, arg)]
        first == IF ok /\ \E i \in DOMAIN arg : arg[i] = "tick"
                   THEN SendReply(k, FirstTick(n), payload, FALSE) ELSE k
    IN /\ ClientsBecome([cs EXCEPT ![c] = SendStatus(first, "subscribe", ok, n, FALSE)])
       /\ UNCHANGED <<executing, nev>>

Subscribe(cs, c, n, arg) ==
  \E payload \in PayloadLens, oom1 \in SUBSET MayFail, oom2 \in SUBSET MayFail :
    LET ok == arg # <<>> /\ Unsupported(arg, SubscribeNames) = {}
        k == [cs[c] EXCEPT !.subs = IF arg = <<>> THEN @ ELSE Subscribed(@, arg)]
        told == SendStatus(k, "subscribe", ok, n, c \in oom1)
    IN /\ ClientsBecome([cs EXCEPT
             ![c] = IF ok /\ \E i \in DOMAIN arg : arg[i] = "tick"
                      THEN SendReply(told, FirstTick(n), payload, c \in oom2)
                      ELSE told])
       /\ UNCHANGED <<executing, nev>>

\* The mask after UNSUBSCRIBE: the names before the first unsupported one
\* have been removed.
Unsubscribed(subs, arg) ==
  subs \ {EventBit(arg[i]) :
            i \in {j \in DOMAIN arg :
                     /\ arg[j] # NotString
                     /\ \A u \in Unsupported(arg, UnsubscribeNames) : j < u}}

Unsubscribe(cs, c, n, arg) ==
  \E oom \in SUBSET MayFail :
    LET ok == arg # <<>> /\ Unsupported(arg, UnsubscribeNames) = {}
        k == [cs[c] EXCEPT !.subs = Unsubscribed(@, arg)]
    IN /\ ClientsBecome([cs EXCEPT
                            ![c] = SendStatus(k, "unsubscribe", ok, n, c \in oom)])
       /\ UNCHANGED <<executing, nev>>

\* Broken form: an unknown type is ignored.
Refuse_Silently(cs, c, n) == ClientsBecome(cs) /\ UNCHANGED <<executing, nev>>

\* SYNC and the unknown types.
Refuse(cs, c, n) ==
  \E oom \in SUBSET MayFail :
    /\ ClientsBecome([cs EXCEPT ![c] = SendStatus(@, "other", FALSE, n, c \in oom)])
    /\ UNCHANGED <<executing, nev>>

\* Broken form: the pending length is not reset.
ClientHandleCommand_StillPending(c, t, n, len, q) ==
  LET cs == [client EXCEPT ![c].ptype = t, ![c].hdr = n]
  IN /\ sock' = [sock EXCEPT ![c].inq = SubSeq(q, len + 1, Len(q))]
     /\ \/ t = "command" /\ ExecuteCommand(cs, c)
        \/ t = "query" /\ AnswerQuery(cs, c, n)
        \/ t \notin {"command", "query"} /\ Refuse(cs, c, n)
     /\ UNCHANGED <<server, serves, queue>>

\* ipc_client_handle_command: the payload is the first len cells of q.
ClientHandleCommand(c, t, n, len, q) ==
  LET arg == IF len = 0 THEN <<>> ELSE sock[c].asked[q[1].n].arg
      cs == [client EXCEPT ![c].pending = 0, ![c].ptype = t, ![c].hdr = n]
  IN /\ sock' = [sock EXCEPT ![c].inq = SubSeq(q, len + 1, Len(q))]
     /\ \/ t = "command" /\ ExecuteCommand(cs, c)
        \/ t = "send_tick" /\ SendTick(cs, c, n)
        \/ t = "query" /\ AnswerQuery(cs, c, n)
        \/ t = "subscribe" /\ Subscribe(cs, c, n, arg)
        \/ t = "unsubscribe" /\ Unsubscribe(cs, c, n, arg)
        \/ t = "other" /\ Refuse(cs, c, n)
     /\ UNCHANGED <<server, serves, queue>>

-----------------------------------------------------------------------------
(* The callbacks of the event loop.  None runs while a command executes,   *)
(* and a socket whose peer has hung up only reports the hang-up.           *)

\* No client has been used after its deletion: the guard of every action.
NeverTouched == \A c \in Clients : client[c].life # "touched"

Idle == NeverTouched /\ executing = NoClient
Dispatchable(c) == Idle /\ client[c].life = "open" /\ ~sock[c].hup

Disconnect(c) ==
  /\ ClientsBecome([client EXCEPT ![c] = Disconnected(@)])
  /\ UNCHANGED <<server, serves, queue, sock, executing, nev>>

\* The header is the first HeaderSize cells of the queue, if they are one.
IsHeader(c) ==
  LET q == sock[c].inq
  IN /\ \A i \in 1..HeaderSize : q[i] = [n |-> q[1].n, off |-> i]
     /\ sock[c].asked[q[1].n].magic

\* client_handle_readable with nothing pending and a whole header available.
ReadHeader(c) ==
  LET q == sock[c].inq
      n == q[1].n
      r == sock[c].asked[n]
      rest == SubSeq(q, HeaderSize + 1, Len(q))
  IN /\ Dispatchable(c) /\ client[c].pending = 0 /\ Len(q) >= HeaderSize
     /\ IF ~IsHeader(c)
          THEN Disconnect(c)
        ELSE IF Len(rest) >= r.len
          THEN ClientHandleCommand(c, r.type, n, r.len, rest)
        ELSE /\ client' = [client EXCEPT ![c].pending = r.len,
                                         ![c].ptype = r.type, ![c].hdr = n]
             /\ sock' = [sock EXCEPT ![c].inq = rest]
             /\ UNCHANGED <<server, serves, queue, listed, executing, nev>>

\* Broken form: the payload is awaited with > for >=.
ReadPayload_OneMore(c) ==
  /\ Dispatchable(c)
  /\ client[c].pending > 0 /\ Len(sock[c].inq) > client[c].pending
  /\ ClientHandleCommand(c, client[c].ptype, client[c].hdr, client[c].pending,
                         sock[c].inq)

\* client_handle_readable once the whole pending payload is available.
ReadPayload(c) ==
  /\ Dispatchable(c)
  /\ client[c].pending > 0 /\ Len(sock[c].inq) >= client[c].pending
  /\ ClientHandleCommand(c, client[c].ptype, client[c].hdr, client[c].pending,
                         sock[c].inq)

\* The effect of a write of some bytes that leaves the rest in the buffer.
Written(c, written, rest, armed) ==
  /\ client' = [client EXCEPT ![c].buf = rest, ![c].writable = armed]
  /\ sock' = [sock EXCEPT ![c].got = @ \o SubSeq(client[c].buf, 1, written)]

\* Broken forms: the memmove starts one byte late; a partial write empties
\* the buffer; the writable source stays registered.
ClientHandleWritable_Late(c) ==
  /\ Dispatchable(c) /\ client[c].writable
  /\ \E written \in 1..Len(client[c].buf) :
       LET rest == SubSeq(client[c].buf, written + 2, Len(client[c].buf))
       IN Written(c, written, rest, rest # <<>>)
  /\ UNCHANGED <<server, serves, queue, listed, executing, nev>>
ClientHandleWritable_Drops(c) ==
  /\ Dispatchable(c) /\ client[c].writable
  /\ \E written \in 1..Len(client[c].buf) : Written(c, written, <<>>, FALSE)
  /\ UNCHANGED <<server, serves, queue, listed, executing, nev>>
ClientHandleWritable_Armed(c) ==
  /\ Dispatchable(c) /\ client[c].writable
  /\ \E written \in 1..Len(client[c].buf) :
       Written(c, written, SubSeq(client[c].buf, written + 1, Len(client[c].buf)), TRUE)
  /\ UNCHANGED <<server, serves, queue, listed, executing, nev>>

\* Broken form: the writable source goes after a partial write.
ClientHandleWritable_Disarms(c) ==
  /\ Dispatchable(c) /\ client[c].writable
  /\ \E written \in 1..Len(client[c].buf) :
       Written(c, written, SubSeq(client[c].buf, written + 1, Len(client[c].buf)), FALSE)
  /\ UNCHANGED <<server, serves, queue, listed, executing, nev>>

\* client_handle_writable: a write of at least one byte.
ClientHandleWritable(c) ==
  /\ Dispatchable(c) /\ client[c].writable
  /\ \E written \in 1..Len(client[c].buf) :
       LET rest == SubSeq(client[c].buf, written + 1, Len(client[c].buf))
       IN Written(c, written, rest, rest # <<>>)
  /\ UNCHANGED <<server, serves, queue, listed, executing, nev>>

\* Either handler when the mask holds WL_EVENT_HANGUP.
HandleHangup(c) ==
  /\ Idle /\ client[c].life = "open" /\ sock[c].hup
  /\ Disconnect(c)

\* Either handler when the mask holds WL_EVENT_ERROR, or FIONREAD, recv or
\* write fails: the client is disconnected before anything else changes.
SocketError(c) ==
  /\ c \in MayFail /\ Idle /\ client[c].life = "open"
  /\ Disconnect(c)

\* handle_connection: accept takes the oldest connection of the backlog.
HandleConnection ==
  /\ Idle /\ server = "listening" /\ queue # <<>>
  /\ LET c == Head(queue)
     IN \/ /\ client' = [client EXCEPT ![c] = Fresh("open")]
           /\ listed' = listed \cup {c}
        \/ /\ c \in MayFail   \* fcntl fails
           /\ client' = [client EXCEPT ![c] = Fresh("gone")]
           /\ UNCHANGED listed
  /\ queue' = Tail(queue)
  /\ UNCHANGED <<server, serves, sock, executing, nev>>

-----------------------------------------------------------------------------
(* What the plugin does with the server. *)

\* serve(): the list is cleared, its clients are not disconnected; a socket
\* that was listening is forgotten together with its backlog.
Serve ==
  /\ NeverTouched /\ server # "exited" /\ serves < MaxServes
  /\ server' = "listening"
  /\ serves' = serves + 1
  /\ queue' = <<>>
  /\ listed' = {}
  /\ UNCHANGED <<client, sock, executing, nev>>

\* serve() when socket, fcntl, bind or listen fails: exit(-1).
ServeFails ==
  /\ NeverTouched /\ server # "exited" /\ serves < MaxServes /\ MayFail # {}
  /\ server' = "exited"
  /\ serves' = serves + 1
  /\ queue' = <<>>
  /\ listed' = {}
  /\ client' = [c \in Clients |->
                  IF client[c].life = "new" THEN client[c] ELSE Fresh("gone")]
  /\ executing' = NoClient
  /\ UNCHANGED <<sock, nev>>

\* The events the plugin signals: "tick" comes from SEND_TICK, and nothing
\* sends "mode" and "binding".
PluginEvents == {"workspace", "output", "window", "shutdown", "input"}

\* signal_event of the plugin: an event is sent when somebody listens.
Publish(e) ==
  /\ NeverTouched /\ server # "exited" /\ nev < MaxEvents /\ HasListeners(client, e)
  /\ \E payload \in PayloadLens, oom \in SUBSET MayFail :
       ClientsBecome(SendEvent(client, Event(e, nev + 1), payload, oom))
  /\ nev' = nev + 1
  /\ UNCHANGED <<server, serves, queue, sock, executing>>

\* RUN_COMMAND, once its commands have been executed: the reply.
CommandDone ==
  /\ NeverTouched /\ executing # NoClient
  /\ \E payload \in PayloadLens, oom \in SUBSET MayFail :
       ClientsBecome([client EXCEPT
         ![executing] = SendReply(@, Reply("command", TRUE, @.hdr), payload,
                                  executing \in oom)])
  /\ executing' = NoClient
  /\ UNCHANGED <<server, serves, queue, sock, nev>>

\* handle_display_destroy: the socket is closed, every listed client is
\* disconnected, one by one (module TeardownLoop), and the kernel resets the
\* connections of the backlog.
HandleDisplayDestroy ==
  /\ Idle /\ server = "listening"
  /\ server' = "closed"
  /\ queue' = <<>>
  /\ listed' = {}
  /\ client' = [c \in Clients |->
                  IF c \in listed \/ \E i \in DOMAIN queue : queue[i] = c
                    THEN Disconnected(client[c]) ELSE client[c]]
  /\ UNCHANGED <<serves, sock, executing, nev>>

-----------------------------------------------------------------------------
(* The peers and the kernel between them and the server. *)

Connected(c) == NeverTouched /\ client[c].life \in {"queued", "open"} /\ ~sock[c].hup

PeerConnect(c) ==
  /\ NeverTouched /\ server = "listening" /\ client[c].life = "new" /\ Len(queue) <= Backlog
  /\ client' = [client EXCEPT ![c] = Fresh("queued")]
  /\ queue' = Append(queue, c)
  /\ UNCHANGED <<server, serves, listed, sock, executing, nev>>

\* The peer starts to write its next request.
PeerSend(c) ==
  /\ Connected(c) /\ sock[c].wire = <<>> /\ Len(sock[c].asked) < MaxRequests
  /\ \E r \in Requests :
       sock' = [sock EXCEPT ![c].asked = Append(@, r),
                            ![c].wire = Bytes(Len(sock[c].asked) + 1, r)]
  /\ UNCHANGED <<server, serves, queue, listed, client, executing, nev>>

\* Some of what the peer writes reaches the receive queue of the socket.
Arrive(c) ==
  /\ Connected(c)
  /\ \E k \in 1..Len(sock[c].wire) :
       /\ Len(sock[c].inq) + k <= SockBuf
       /\ sock' = [sock EXCEPT
                     ![c].inq = @ \o SubSeq(sock[c].wire, 1, k),
                     ![c].wire = SubSeq(@, k + 1, Len(@))]
  /\ UNCHANGED <<server, serves, queue, listed, client, executing, nev>>

PeerHangup(c) ==
  /\ c \in MayFail /\ Connected(c)
  /\ sock' = [sock EXCEPT ![c].hup = TRUE, ![c].wire = <<>>]
  /\ UNCHANGED <<server, serves, queue, listed, client, executing, nev>>

-----------------------------------------------------------------------------
Handler(c) ==
  \/ ReadHeader(c) \/ ReadPayload(c) \/ ClientHandleWritable(c)
  \/ HandleHangup(c) \/ SocketError(c)
Peer(c) == PeerConnect(c) \/ PeerSend(c) \/ Arrive(c) \/ PeerHangup(c)
Plugin ==
  \/ Serve \/ ServeFails \/ HandleDisplayDestroy \/ HandleConnection \/ CommandDone
  \/ \E e \in PluginEvents : Publish(e)

Next ==
  \/ Plugin
  \/ \E c \in Clients : Handler(c)
  \/ \E c \in Clients : Peer(c)

Spec == Init /\ [][Next]_vars

(***************************************************************************)
(* The event loop is level-triggered: a ready callback is called again     *)
(* until it has nothing to do.  The kernel moves bytes whenever there is   *)
(* room, and a peer keeps reading what is written to it.                   *)
(***************************************************************************)
Fairness ==
  /\ WF_vars(HandleConnection)
  /\ WF_vars(CommandDone)
  /\ \A c \in Clients :
       /\ WF_vars(ReadHeader(c))
       /\ WF_vars(ReadPayload(c))
       /\ WF_vars(ClientHandleWritable(c))
       /\ WF_vars(HandleHangup(c))
       /\ WF_vars(Arrive(c))

FairSpec == Spec /\ Fairness
=============================================================================
