------------------------------ MODULE IpcDelivery ------------------------------
(***************************************************************************)
(* What the IPC server promises to its peers, without bytes, buffers and   *)
(* partial reads and writes.  Every connected client has a log of whole    *)
(* messages, of which it has seen a prefix.  A step of the server may      *)
(* publish one event, which goes to everybody subscribed to its topic, and *)
(* may answer one request of one client; the messages a client gets in the *)
(* step are appended to its log in that order.  Instead of getting them a  *)
(* client may be cut off: then its log ends with what it has seen, and it  *)
(* gets nothing any more.                                                  *)
(***************************************************************************)
EXTENDS Integers, Sequences, FiniteSets

CONSTANTS Clients, Topics, Types, Events, Topic(_)

VARIABLES
  conn,       \* "off" | "on" | "cut"
  topics,     \* what a client is subscribed to
  log,        \* the messages a client gets
  seen,       \* how many of them it has
  published   \* the number of events published

vars == <<conn, topics, log, seen, published>>

Reply(n, t, ok) == [kind |-> "reply", type |-> t, ok |-> ok, n |-> n]
Event(e, n) == [kind |-> "event", type |-> e, ok |-> TRUE, n |-> n]
FirstTick(n) == [kind |-> "hello", type |-> "tick", ok |-> TRUE, n |-> n]

\* The number of requests of c that have been answered.
Answered(c) == Cardinality({i \in DOMAIN log[c] : log[c][i].kind = "reply"})

Init ==
  /\ conn = [c \in Clients |-> "off"]
  /\ topics = [c \in Clients |-> {}]
  /\ log = [c \in Clients |-> <<>>]
  /\ seen = [c \in Clients |-> 0]
  /\ published = 0

Connect(c) ==
  /\ conn[c] = "off"
  /\ conn' = [conn EXCEPT ![c] = "on"]
  /\ UNCHANGED <<topics, log, seen, published>>

Deliver(c) ==
  /\ conn[c] = "on"
  /\ \E k \in 1..Len(log[c]) :
       k > seen[c] /\ seen' = [seen EXCEPT ![c] = k]
  /\ UNCHANGED <<conn, topics, log, published>>

\* What a client gets when event e (or nothing, {}) is published.
EventFor(c, e) ==
  IF \E x \in e : Topic(x) \in topics[c]
    THEN <<Event(CHOOSE x \in e : TRUE, published + 1)>> ELSE <<>>

\* The possible answers to the next request of c.
AnswersFor(c) ==
  LET n == Answered(c) + 1
  IN {<<Reply(n, t, ok)>> : t \in Types, ok \in BOOLEAN}
     \cup {<<Reply(n, t, TRUE), FirstTick(n)>> : t \in Types}

\* The clients of cut are cut off; the others get event e and, if one is
\* being served, served gets an answer.  Only an answer changes topics.
Send(e, served, cut) ==
  /\ conn' = [c \in Clients |-> IF c \in cut THEN "cut" ELSE conn[c]]
  /\ published' = published + (IF e = {} THEN 0 ELSE 1)
  /\ UNCHANGED seen
  /\ \E answer \in IF served = {} THEN {<<>>}
                   ELSE UNION {AnswersFor(c) : c \in served} :
       log' = [c \in Clients |->
                 IF c \in cut THEN SubSeq(log[c], 1, seen[c])
                 ELSE IF conn[c] # "on" THEN log[c]
                 ELSE log[c] \o EventFor(c, e)
                        \o (IF c \in served THEN answer ELSE <<>>)]
  /\ \A c \in Clients :
       /\ c \in cut => topics'[c] = {}
       /\ c \notin cut \cup served => topics'[c] = topics[c]
  /\ topics' \in [Clients -> SUBSET Topics]

Next ==
  \/ \E c \in Clients : Connect(c) \/ Deliver(c)
  \/ \E e \in {{x} : x \in Events} \cup {{}},
        served \in {{c} : c \in Clients} \cup {{}},
        cut \in SUBSET Clients :
       Send(e, served, cut)

Spec == Init /\ [][Next]_vars
================================================================================
