-------------------------------- MODULE WfMsg --------------------------------
(***************************************************************************)
(* wf-msg (src/ipc/client/wf-msg.cpp) and the client library it is built   *)
(* on (src/ipc/client/i3-ipc-client.cpp), talking to the IPC server: every *)
(* peer of module IpcServer is a wf-msg process.  It connects, writes the  *)
(* header and the payload of one request with two blocking writes, reads   *)
(* one response, and exits with a code that says what became of it; a      *)
(* subscriber goes on reading events, one or, as a monitor, all of them.   *)
(*                                                                         *)
(* All calls block, and the receive timeout is the only way out of one     *)
(* whose other side does nothing.  A response is cut out of the stream by  *)
(* the length its header says; the labels of the cells are never looked at.*)
(***************************************************************************)
EXTENDS IpcServerProps

CONSTANTS
  Jobs,     \* for each process, the command lines it may have been given
  PeerBuf   \* how many unread bytes the kernel keeps for a process

(***************************************************************************)
(* A command line: the request it makes, whether it has --monitor, and     *)
(* what the reply to a command or query will say: a list of results or a   *)
(* description ("ok"), a list with a failed result ("failed"), or JSON     *)
(* without elements ("empty"), as for a command line without commands or   *)
(* GET_INPUTS without devices.                                             *)
(***************************************************************************)
Answers == {"ok", "failed", "empty"}
Job == [req : Requests, monitor : BOOLEAN, says : Answers]

ASSUME JobsAssumption ==
  Jobs \in [Clients -> SUBSET Job] /\ PeerBuf \in Nat \ {0} /\ MaxRequests > 0

VARIABLE
  proc  \* the wf-msg process of each peer

wfVars == <<vars, proc>>

(***************************************************************************)
(* Where a process is: in main before connect, about to write the header   *)
(* or the payload, in ipc_recv_response, or at its end.  Aborted is what   *)
(* exit(-1) gives, Killed the status of a process killed by a signal.      *)
(***************************************************************************)
Stages == {"main", "write_header", "write_payload", "recv", "exited"}
Aborted == 255
Killed == 128
ProcRec ==
  [job : Job, stage : Stages,
   sent : BOOLEAN,           \* has the write of the payload begun?
   frame : Seq(OutCell),     \* data, then payload, of ipc_recv_response
   read : Nat,               \* how much of the stream has been received
   seen : Seq(Message),      \* the responses received, in this order
   ret : {0, 1, 2, Aborted, Killed},
   earlier : SUBSET Clients] \* who was monitoring ticks when it connected

WfTypeOK == TypeOK /\ proc \in [Clients -> ProcRec]

WfInit ==
  /\ Init
  /\ \E job \in [Clients -> Job] :
       /\ \A c \in Clients : job[c] \in Jobs[c]
       /\ proc = [c \in Clients |->
                    [job |-> job[c], stage |-> "main", sent |-> FALSE,
                     frame |-> <<>>, read |-> 0, seen |-> <<>>, ret |-> 0,
                     earlier |-> {}]]

Subscribes(c) == proc[c].job.req.type = "subscribe"
Running(c) == NeverTouched /\ proc[c].stage # "exited"
ServerGone(c) == client[c].life = "gone"

\* A subscriber that has been told that its subscription succeeded.
Monitoring(c) == proc[c].stage = "recv" /\ proc[c].seen # <<>>
MonitorsTicks(c) ==
  Monitoring(c) /\ \E i \in DOMAIN proc[c].job.req.arg : proc[c].job.req.arg[i] = "tick"

\* The process ends, having seen these responses, and its socket is closed.
Leaves(c, seen, code) ==
  /\ proc' = [proc EXCEPT ![c].stage = "exited", ![c].ret = code, ![c].frame = <<>>,
                          ![c].seen = seen]
  /\ sock' = IF Connected(c) THEN [sock EXCEPT ![c].hup = TRUE, ![c].wire = <<>>]
                             ELSE sock
  /\ UNCHANGED <<server, serves, queue, listed, client, executing, nev>>
Exit(c, code) == Leaves(c, proc[c].seen, code)

-----------------------------------------------------------------------------
(* main, up to the request. *)

\* --monitor goes with subscribe only.
Misused(c) ==
  /\ Running(c) /\ proc[c].stage = "main"
  /\ proc[c].job.monitor /\ ~Subscribes(c)
  /\ Exit(c, 1)

\* ipc_open_socket: connect waits while the backlog is full.
OpenSocket(c) ==
  /\ Running(c) /\ proc[c].stage = "main"
  /\ proc[c].job.monitor => Subscribes(c)
  /\ \/ /\ PeerConnect(c)
        /\ proc' = [proc EXCEPT ![c].stage = "write_header",
                                ![c].earlier = {d \in Clients : MonitorsTicks(d)}]
     \/ server # "listening" /\ Exit(c, Aborted)

\* ipc_single_command: the header ...
WriteHeader(c) ==
  /\ Running(c) /\ proc[c].stage = "write_header" /\ Connected(c)
  /\ LET r == proc[c].job.req
     IN sock' = [sock EXCEPT ![c].asked = <<r>>,
                             ![c].wire = SubSeq(Bytes(1, r), 1, HeaderSize)]
  /\ proc' = [proc EXCEPT ![c].stage = "write_payload"]
  /\ UNCHANGED <<server, serves, queue, listed, client, executing, nev>>

\* Broken form: the write of the payload does not wait for that of the header.
WritePayload_Overlaps(c) ==
  /\ Running(c) /\ proc[c].stage = "write_payload" /\ Connected(c)
  /\ sock' = [sock EXCEPT ![c].wire = SubSeq(Bytes(1, proc[c].job.req), HeaderSize + 1,
                                             HeaderSize + proc[c].job.req.len)]
  /\ proc' = [proc EXCEPT ![c].stage = "recv", ![c].sent = TRUE]
  /\ UNCHANGED <<server, serves, queue, listed, client, executing, nev>>

\* ... and the payload, once the kernel has taken the header.
WritePayload(c) ==
  /\ Running(c) /\ proc[c].stage = "write_payload" /\ Connected(c) /\ sock[c].wire = <<>>
  /\ sock' = [sock EXCEPT ![c].wire = SubSeq(Bytes(1, proc[c].job.req), HeaderSize + 1,
                                             HeaderSize + proc[c].job.req.len)]
  /\ proc' = [proc EXCEPT ![c].stage = "recv", ![c].sent = TRUE]
  /\ UNCHANGED <<server, serves, queue, listed, client, executing, nev>>

\* The payload is being written and none of it has been taken.
NoneTaken(c) ==
  /\ proc[c].stage = "recv" /\ proc[c].job.req.len > 0
  /\ Len(sock[c].wire) = proc[c].job.req.len

\* A write to a connection the server has closed returns -1 or, with
\* SIGPIPE, does not return; one that was cut short counts as complete.
WriteFails(c) ==
  /\ Running(c) /\ ServerGone(c)
  /\ proc[c].stage \in {"write_header", "write_payload"} \/ NoneTaken(c)
  /\ Exit(c, Aborted) \/ Exit(c, Killed)

-----------------------------------------------------------------------------
(* ipc_recv_response. *)

\* The process is in recv: its last write has returned.
Receiving(c) ==
  /\ Running(c) /\ proc[c].stage = "recv" /\ ~NoneTaken(c)
  /\ sock[c].wire = <<>> \/ ServerGone(c)

\* Broken form: the NUL appended to the payload is counted.
PayloadSize_WithNul(frame) == frame[HeaderSize].left + 1

\* response->size, which the header says: what is left behind its last byte.
PayloadSize(frame) == frame[HeaderSize].left

\* How much the next recv asks for: the rest of the header or the payload.
Missing(frame) ==
  IF Len(frame) < HeaderSize THEN HeaderSize - Len(frame)
  ELSE HeaderSize + PayloadSize(frame) - Len(frame)

Unread(c) == Len(sock[c].got) - proc[c].read

\* A recv that returns something.
Recv(c) ==
  /\ Receiving(c) /\ Unread(c) > 0 /\ Missing(proc[c].frame) > 0
  /\ \E k \in 1..Missing(proc[c].frame) :
       /\ k <= Unread(c)
       /\ proc' = [proc EXCEPT
            ![c].frame = @ \o SubSeq(sock[c].got, proc[c].read + 1, proc[c].read + k),
            ![c].read = @ + k]
  /\ UNCHANGED vars

\* Broken form: the loop of the header goes on after 0, too.
RecvFails_Retried(c) ==
  /\ Receiving(c) /\ Unread(c) = 0 /\ Missing(proc[c].frame) > 0 /\ ServerGone(c)
  /\ sock[c].inq # <<>>
  /\ Exit(c, Aborted)

\* A recv that returns -1, or 0 in the loop of the header.  When the server
\* closes the connection with bytes of ours unread, it is reset.  In the loop
\* of the payload a recv that returns 0 is called again, for ever.
RecvFails(c) ==
  /\ Receiving(c) /\ Unread(c) = 0 /\ Missing(proc[c].frame) > 0 /\ ServerGone(c)
  /\ Len(proc[c].frame) < HeaderSize \/ sock[c].inq # <<>>
  /\ Exit(c, Aborted)

\* A recv that returns -1 after three seconds without anything to receive.
RecvTimesOut(c) ==
  /\ Receiving(c) /\ Unread(c) = 0 /\ Missing(proc[c].frame) > 0 /\ ~ServerGone(c)
  /\ proc[c].seen = <<>>
  /\ Exit(c, Aborted)

\* malloc fails behind the header: the caller uses the null pointer for the
\* first response, and leaves the loop, with ret as it is, for an event.
OutOfMemory(c) ==
  /\ c \in MayFail /\ Receiving(c) /\ Len(proc[c].frame) = HeaderSize
  /\ Exit(c, IF proc[c].seen = <<>> THEN Killed ELSE 0)

-----------------------------------------------------------------------------
(* What main makes of a response. *)

Complete(c) == Len(proc[c].frame) >= HeaderSize /\ Missing(proc[c].frame) = 0

\* The JSON of message m, for a process with this job.
Content(m, job) ==
  IF m.kind = "reply" /\ m.type \in {"command", "query"} THEN job.says
  ELSE IF m.ok THEN "ok" ELSE "failed"

\* success() and the tests around it.
Verdict(content) == CASE content = "empty" -> 1 [] content = "failed" -> 2 [] OTHER -> 0

\* Broken form: the JSON is not looked at.
HandleReply_Blind(c) ==
  /\ Receiving(c) /\ Complete(c) /\ proc[c].seen = <<>>
  /\ Leaves(c, <<proc[c].frame[1].msg>>, 0)

\* The first response is the reply; a subscriber it suits goes on.
HandleReply(c) ==
  /\ Receiving(c) /\ Complete(c) /\ proc[c].seen = <<>>
  /\ LET m == proc[c].frame[1].msg
         ret == Verdict(Content(m, proc[c].job))
     IN IF Subscribes(c) /\ ret = 0
          THEN /\ proc' = [proc EXCEPT ![c].seen = <<m>>, ![c].frame = <<>>]
               /\ UNCHANGED vars
          ELSE Leaves(c, <<m>>, ret)

\* Every later one is an event; a monitor takes all there are.
HandleEvent(c) ==
  /\ Receiving(c) /\ Complete(c) /\ proc[c].seen # <<>>
  /\ LET m == proc[c].frame[1].msg
         seen == Append(proc[c].seen, m)
     IN IF proc[c].job.monitor /\ Content(m, proc[c].job) # "empty"
          THEN /\ proc' = [proc EXCEPT ![c].seen = seen, ![c].frame = <<>>]
               /\ UNCHANGED vars
          ELSE Leaves(c, seen, IF Content(m, proc[c].job) = "empty" THEN 1 ELSE 0)

\* The user kills the process, the only way to end a monitor.
Kill(c) == c \in MayFail /\ Running(c) /\ Exit(c, Killed)

-----------------------------------------------------------------------------
(* The server, which writes as much as the kernel keeps for the process.   *)

\* A callback of the event loop is called, or bytes of a process arrive.
Serves ==
  /\ \/ HandleConnection \/ CommandDone
     \/ \E c \in Clients :
          \/ ReadHeader(c) \/ ReadPayload(c) \/ HandleHangup(c) \/ Arrive(c)
          \/ ClientHandleWritable(c) /\ Len(sock'[c].got) - proc[c].read <= PeerBuf
  /\ UNCHANGED proc

\* What does not have to happen: the plugin acts, a system call fails.
ServerStep ==
  /\ \/ Serve \/ ServeFails \/ HandleDisplayDestroy
     \/ \E e \in PluginEvents : Publish(e)
     \/ \E c \in Clients : SocketError(c)
  /\ UNCHANGED proc

\* What a process does of itself.
Runs(c) ==
  \/ Misused(c) \/ OpenSocket(c) \/ WriteHeader(c) \/ WritePayload(c) \/ WriteFails(c)
  \/ Recv(c) \/ RecvFails(c) \/ RecvTimesOut(c) \/ HandleReply(c) \/ HandleEvent(c)

WfNext ==
  \/ Serves
  \/ ServerStep
  \/ \E c \in Clients : Runs(c) \/ OutOfMemory(c) \/ Kill(c)

WfSpec == WfInit /\ [][WfNext]_wfVars

(***************************************************************************)
(* The event loop and the kernel do what there is to do, in any order, and *)
(* a process that can run runs, its timer being one of the things that     *)
(* make it.  Weaker than the fairness of IpcServer, handler by handler.    *)
(***************************************************************************)
WfFairness == WF_wfVars(Serves) /\ \A c \in Clients : WF_wfVars(Runs(c))

WfFairSpec == WfSpec /\ WfFairness

-----------------------------------------------------------------------------
(***************************************************************************)
(* However the stream was cut into pieces by the server's writes and the   *)
(* process's reads, what the process takes for responses are the messages  *)
(* the server sent, whole, in order and none left out, and what it has of  *)
(* the next one is the beginning of that.                                  *)
(***************************************************************************)
Understood ==
  \A c \in Clients :
    LET p == proc[c]
    IN /\ Begins(p.seen, Whole(SubSeq(sock[c].got, 1, p.read)))
       /\ \A i \in DOMAIN p.frame : p.frame[i].at = i /\ p.frame[i].msg = p.frame[1].msg
       /\ Len(p.frame) <= HeaderSize \/ Missing(p.frame) >= 0

(***************************************************************************)
(* The exit code says what the server answered, to this request and not to *)
(* anything else: 0 and 2 are given for its reply only, 0 if that is a     *)
(* success, and a process that has been monitoring has had its             *)
(* subscription accepted first.  No other message can come before.         *)
(***************************************************************************)
ExitTells ==
  \A c \in Clients :
    LET p == proc[c]
        answer == IF p.seen = <<>> THEN "none" ELSE Content(p.seen[1], p.job)
    IN /\ p.seen # <<>> => /\ p.seen[1].kind = "reply" /\ p.seen[1].n = 1
                           /\ p.seen[1].type = p.job.req.type
       /\ p.stage = "exited" =>
            /\ p.ret = 0 => answer = "ok"
            /\ p.ret = 2 <=> answer = "failed"
       /\ Monitoring(c) => answer = "ok"
       /\ Len(p.seen) > 1 => Subscribes(c) /\ answer = "ok"

(***************************************************************************)
(* A wf-msg process is a peer as module IpcServer assumes it, so that what *)
(* is shown of the server there holds here.  That module puts a request on *)
(* the wire at once: the payload not written yet counts as written.        *)
(***************************************************************************)
Unwritten(c) ==
  IF sock[c].asked # <<>> /\ ~proc[c].sent /\ ~sock[c].hup
    THEN SubSeq(Bytes(1, proc[c].job.req), HeaderSize + 1, HeaderSize + proc[c].job.req.len)
    ELSE <<>>
AsPeer == INSTANCE IpcServer WITH
  MayFail <- Clients,
  sock <- [c \in Clients |-> [sock[c] EXCEPT !.wire = @ \o Unwritten(c)]]
IsAPeer == AsPeer!Spec

(***************************************************************************)
(* Progress.  Every process but a subscriber comes to an end, whatever the *)
(* server does, with two exceptions: a payload that is longer than what    *)
(* the kernel queues, and a connection that ends inside a payload.         *)
(***************************************************************************)
CutInPayload(c) ==
  /\ ServerGone(c) /\ sock[c].inq = <<>> /\ Unread(c) = 0
  /\ Len(proc[c].frame) >= HeaderSize
Finishes ==
  <>(\A c \in Clients :
       \/ Subscribes(c) \/ proc[c].job.req.len > SockBuf
       \/ proc[c].stage = "exited" \/ CutInPayload(c) \/ ~NeverTouched)

(***************************************************************************)
(* Progress.  Who was told to be monitoring ticks before a send_tick began *)
(* that succeeded gets an event for it, unless it has ended or been        *)
(* disconnected.                                                           *)
(***************************************************************************)
TickSucceeded(c) ==
  proc[c].stage = "exited" /\ proc[c].ret = 0 /\ proc[c].job.req.type = "send_tick"
HasTick(d) ==
  \E i \in DOMAIN proc[d].seen :
    proc[d].seen[i].kind = "event" /\ proc[d].seen[i].type = "tick"
TickOnItsWay ==
  \E c, d \in Clients :
    /\ TickSucceeded(c) /\ d \in proc[c].earlier /\ ~HasTick(d)
    /\ proc[d].stage # "exited" /\ ~ServerGone(d) /\ NeverTouched
TickReachesMonitors == TickOnItsWay ~> ~TickOnItsWay
==============================================================================
