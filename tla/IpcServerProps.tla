---------------------------- MODULE IpcServerProps ----------------------------
(***************************************************************************)
(* What makes the IPC server correct: properties of module IpcServer.      *)
(***************************************************************************)
EXTENDS IpcServer

\* Everything the server has queued for a peer, oldest byte first: what has
\* been written to its socket, then what waits in the write buffer.
Out(c) == sock[c].got \o client[c].buf

\* Where the messages of a kind begin in a stream of cells.
Heads(s, kind) == {i \in DOMAIN s : s[i].at = 1 /\ s[i].msg.kind = kind}

(***************************************************************************)
(* Write interest: the writable source of a client is registered exactly   *)
(* while its buffer holds something.  Registered late, the reply is stuck  *)
(* (nothing else writes); left registered, the level-triggered loop spins. *)
(***************************************************************************)
WriteInterest ==
  \A c \in Clients :
    client[c].life = "open" => (client[c].writable <=> client[c].buf # <<>>)

(***************************************************************************)
(* The doubling loop of send_reply leaves the buffer larger than what it   *)
(* holds, and the check behind it keeps it below the limit: the two        *)
(* memcpys never write past write_buffer_size.                             *)
(***************************************************************************)
BoundedBacklog ==
  \A c \in Clients :
    Len(client[c].buf) < client[c].size /\ client[c].size <= MaxBufSize

(***************************************************************************)
(* Framing: whatever the partial writes were, a peer reads whole messages, *)
(* each byte in its place, and the last one begun is being completed as    *)
(* long as the client is served.                                           *)
(***************************************************************************)
Follows(x, y) ==
  IF x.left = 0 THEN y.at = 1
  ELSE y.msg = x.msg /\ y.at = x.at + 1 /\ y.left = x.left - 1

WellFramed ==
  \A c \in Clients :
    /\ \A i \in 1..Len(Out(c)) - 1 : Follows(Out(c)[i], Out(c)[i + 1])
    /\ Out(c) # <<>> => Out(c)[1].at = 1
    /\ client[c].buf # <<>> => client[c].buf[Len(client[c].buf)].left = 0

(***************************************************************************)
(* Synchronisation of the incoming stream: however the bytes arrived, the  *)
(* server looks for a header where the peer put one, and takes for the     *)
(* payload of a request the bytes that follow its own header.              *)
(***************************************************************************)
InSync ==
  \A c \in Clients :
    LET k == client[c]
        s == sock[c]
        next == IF k.pending > 0 THEN [n |-> k.hdr, off |-> HeaderSize + 1]
                                 ELSE [n |-> k.hdr + 1, off |-> 1]
    IN k.life = "open" =>
         /\ s.inq # <<>> => s.inq[1] = next
         /\ k.pending > 0 => /\ k.hdr \in DOMAIN s.asked
                             /\ k.pending = s.asked[k.hdr].len
                             /\ k.ptype = s.asked[k.hdr].type

(***************************************************************************)
(* Replies: the replies on a connection answer the first so many requests  *)
(* of its peer, each one once, in the order of the requests and with their *)
(* types, and while a client is served no request has been consumed        *)
(* without its reply, except the one whose payload is awaited and the      *)
(* RUN_COMMAND being executed.                                             *)
(***************************************************************************)
Busy(c) == client[c].pending > 0 \/ executing = c

\* The replies in the stream out are those to the first k requests.
Replied(out, asked, k) ==
  LET replies == Heads(out, "reply")
  IN /\ \A i, j \in replies : i < j => out[i].msg.n < out[j].msg.n
     /\ {out[i].msg.n : i \in replies} = 1..k
     /\ \A i \in replies : out[i].msg.type = asked[out[i].msg.n].type

OneReplyPerRequest ==
  \A c \in Clients : \E k \in 0..Len(sock[c].asked) :
    /\ Replied(Out(c), sock[c].asked, k)
    /\ client[c].life = "open" => client[c].hdr = IF Busy(c) THEN k + 1 ELSE k

(***************************************************************************)
(* The client list holds the served clients and no others, so that events  *)
(* reach all of them and the teardown disconnects all of them.  It is      *)
(* stated for a server that is started once: see IpcPlugin for restarts.   *)
(***************************************************************************)
ListedAreOpen == listed = {c \in Clients : client[c].life = "open"}

(***************************************************************************)
(* Events come asked for: an event or a first tick stands in the stream of *)
(* a client only behind the successful reply to a SUBSCRIBE that names it, *)
(* with no successful reply to an UNSUBSCRIBE that names it in between.    *)
(* The client knows its own requests and what it reads, nothing else; the  *)
(* mask, the bits the names share and the refusals are the server's.       *)
(***************************************************************************)
Granted(out, asked, i, t, e) ==
  {j \in Heads(out, "reply") :
     /\ j < i /\ out[j].msg.ok /\ out[j].msg.type = t
     /\ LET arg == asked[out[j].msg.n].arg IN \E x \in DOMAIN arg : arg[x] = e}

\* What the messages before the i-th cell say of event e.
AskedFor(out, asked, i, e) ==
  \E j \in Granted(out, asked, i, "subscribe", e) :
    \A m \in Granted(out, asked, i, "unsubscribe", e) : m < j

EventsAskedFor ==
  \A c \in Clients : \A i \in Heads(Out(c), "event") \cup Heads(Out(c), "hello") :
    AskedFor(Out(c), sock[c].asked, i, Out(c)[i].msg.type)

(***************************************************************************)
(* The other way round, and not so: what a client has asked for it gets,   *)
(* until it says itself that it does not want it any more.  The manual     *)
(* says: "A client can subscribe to any events it wants to be notified of  *)
(* changes for" (wayfire-ipc.7.scd:1419).  The mask forgets input when     *)
(* binding is given up, because event_mask maps both to one bit.           *)
(***************************************************************************)
SubscriptionsLast ==
  \A c \in Clients : client[c].life = "open" =>
    \A e \in Events :
      AskedFor(Out(c), sock[c].asked, Len(Out(c)) + 1, e) => EventBit(e) \in client[c].subs

(***************************************************************************)
(* Nor this: a SUBSCRIBE that names only events the manual lists as        *)
(* available (wayfire-ipc.7.scd:1419) succeeds.                            *)
(***************************************************************************)
ManualEvents == {"workspace", "mode", "window", "barconfig_update", "binding",
                 "shutdown", "tick", "bar_state_update", "input"}
ListedEventsGranted ==
  \A c \in Clients : \A i \in Heads(Out(c), "reply") :
    LET m == Out(c)[i].msg
        arg == sock[c].asked[m.n].arg
    IN m.type = "subscribe" /\ arg # <<>> /\ (\A x \in DOMAIN arg : arg[x] \in ManualEvents)
         => m.ok

(***************************************************************************)
(* These two; that no client is used after it was deleted; and, when       *)
(* serve() is called again, that every client is listed and so gets the    *)
(* events it has subscribed to.  A state in which SomeClaimHolds is false  *)
(* refutes all four.                                                       *)
(***************************************************************************)
SomeClaimHolds ==
  NeverTouched \/ SubscriptionsLast \/ ListedEventsGranted \/ ListedAreOpen

(***************************************************************************)
(* The stream to a peer only grows at its end: a step may append to it or, *)
(* disconnecting the client, cut off what has not been written, but what   *)
(* has been written stays and what is queued is neither changed nor lost.  *)
(***************************************************************************)
Begins(s, t) == Len(s) <= Len(t) /\ s = SubSeq(t, 1, Len(s))
StreamStep ==
  \A c \in Clients :
    /\ Begins(sock[c].got, sock'[c].got)
    /\ client'[c].life = "open" => Begins(Out(c), sock'[c].got \o client'[c].buf)
StreamOnlyGrows == [][StreamStep]_vars

(***************************************************************************)
(* An event reaches everybody who is subscribed to it and survives it, and *)
(* nobody else: the step that counts one more event, which somebody was    *)
(* listening to, extends the streams of the served subscribers by it, and  *)
(* of no other client by any event.  A client disconnected on the way must *)
(* not make send_event skip the next.                                      *)
(***************************************************************************)
EventStep ==
  nev' # nev =>
    \E e \in {x \in Events : HasListeners(client, x)} :
      \A c \in {d \in Clients : client'[d].life = "open"} :
        LET out == sock'[c].got \o client'[c].buf
            added == {i \in Heads(out, "event") : i > Len(Out(c))}
        IN IF EventBit(e) \in client[c].subs
             THEN \E i \in DOMAIN out : added = {i} /\ out[i].msg = Event(e, nev')
             ELSE added = {}
EventReachesSubscribers == [][EventStep]_vars

(***************************************************************************)
(* Progress.  A peer that neither hangs up nor fails and whose requests    *)
(* fit the receive queue gets the reply to each request it has begun to    *)
(* send, unless the server disconnects it.                                 *)
(***************************************************************************)
Answered(c, n) == \E i \in Heads(sock[c].got, "reply") : sock[c].got[i].msg.n = n
RequestsGetReplies ==
  \A c \in Clients \ MayFail : \A n \in 1..MaxRequests :
    (Len(sock[c].asked) >= n) ~> (Answered(c, n) \/ client[c].life \in {"gone", "touched"}
                                   \/ ~NeverTouched)

(***************************************************************************)
(* The server keeps the promise of module IpcDelivery: the log of a client *)
(* is what its stream of bytes says, the part it has seen what has been    *)
(* written to its socket as whole messages.                                *)
(***************************************************************************)
Whole(s) ==
  LET whole[i \in 0..Len(s)] ==
        IF i = 0 THEN <<>>
        ELSE IF s[i].left = 0 THEN Append(whole[i - 1], s[i].msg)
        ELSE whole[i - 1]
  IN whole[Len(s)]

Conn == [c \in Clients |-> CASE client[c].life \in {"new", "queued"} -> "off"
                            [] client[c].life = "open" -> "on"
                            [] OTHER -> "cut"]
Masks == [c \in Clients |-> client[c].subs]
Log == [c \in Clients |-> Whole(Out(c))]
Seen == [c \in Clients |-> Len(Whole(sock[c].got))]

Delivery == INSTANCE IpcDelivery WITH
  Topics <- Bits, Types <- RequestTypes, Topic <- EventBit,
  conn <- Conn, topics <- Masks, log <- Log, seen <- Seen, published <- nev
DeliverySpec == Delivery!Spec
===============================================================================
