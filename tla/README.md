# Verification of wayfire-ipc

wayfire-ipc is a plugin for the Wayfire compositor. It serves the IPC protocol
of i3 and sway on a UNIX socket, executes the commands that arrive there, sends
events, and comes with a client (`wf-msg`) and a plugin for display power
management. This directory holds TLA+ models of it, TLC configurations that
check them on small instances and TLAPS proofs about them. Paths below are
relative to the repository's root.

## The system

| part | source | state | operations | what must hold |
|---|---|---|---|---|
| IPC server | `src/ipc/server/i3-ipc-server.cpp`, `src/include/ipc/server.hpp`, `src/include/ipc.h` | listening socket, client list, per client: header of a half-received request, subscription mask, write buffer, event sources | `serve`, `handle_connection`, `client_handle_readable`, `client_handle_writable`, `send_reply`, `send_event`, `client_disconnect`, `handle_display_destroy` and one handler per request type | both byte streams stay framed; one reply per request, in order; events reach exactly the subscribers, once; buffers stay within their limit; nothing uses a deleted client |
| IPC plugin | `src/ipc/ipc.cpp` | per output: connected signals; shared: the server, a listener for the display's end, a timer | `init`, `fini`, `handle_fini_timeout`, `handle_display_destroy`, a handler per compositor signal | the server lives as long as the compositor; every instance gets every signal; everything is torn down once |
| Client library, `wf-msg` | `src/ipc/client/` | a blocking socket, the exit code | `ipc_open_socket`, `ipc_single_command`, `ipc_recv_response`, monitoring | cuts the stream into the messages the server sent; the exit code says what was answered; ends |
| Command execution | `src/ipc/commands/command_impl.cpp`, `core.cpp` | position in the command list, matched containers, handler context | `execute_command`, `set_config_node` | each command is applied to the views its criteria or the focus select; results match commands |
| Criteria | `src/ipc/commands/criteria.cpp` | parsed criteria | `parse`, `matches_view`, `get_containers` | exactly the matching views are selected |
| View and workspace commands | `src/ipc/commands/*.cpp` | view and workspace state of the compositor | `workspace`, `scratchpad`, `fullscreen`, `sticky`, `opacity`, `kill`, `exit` | the state changes as the command says |
| Output commands | `src/ipc/commands/output.cpp`, `output/` | output configuration | sub-commands applied from left to right | what was applied when one fails |
| Power plugin | `src/plugins/power.cpp` | idle flag, timer, inhibitors, source of every output | activity, timeout, toggle, `output power` | outputs sleep when idle and wake up on activity |
| String helpers | `src/include/ipc/tools.hpp` | none | `argsep`, `split_args`, `strip_quotes`, `join_args` | agree on what is quoted and escaped |
| JSON descriptions | `src/ipc/json/ipc-json.cpp` | none | object to JSON | (pure) |

The parts meet in three ways. The compositor's event loop calls the callbacks of
server and plugins one at a time. The plugin calls the server (`serve`,
`send_event`, `handle_display_destroy`) from signal handlers; executing a command
that arrived through the server makes the compositor emit such signals, so
`send_event` runs inside `ipc_client_handle_command`. Server and client share
nothing but the byte streams of a socket: module `WfMsg` composes the two.

Hard to test are: a client that reads, times out, is killed or monitors while the
server writes; requests and replies that are read and written in pieces;
clients that stop reading, hang up or fail between two messages; the client list
changing under its own iteration; events raised while a command is being
executed; restarts of the server for further outputs; teardown by timer and by
display. PROJECT.json lists each at its line under `hazards`.

## Modules

`IpcServer` is the server. A byte of either stream is a *cell* that carries which
request or message it belongs to and its place in it; the server cuts the
incoming stream only by the lengths it has read, so losing synchronisation shows
as cells of the wrong request. A handler is one step, because the event loop runs
one callback at a time. The exception is RUN_COMMAND: `ExecuteCommand` stops
before the commands are executed, `Publish` steps (and `Serve`, if an output
appears) may follow, `CommandDone` queues the reply. Failure of a system call or
an allocation is a choice, for the peers of `MayFail`. A client used after
`client_disconnect` deleted it is marked `touched` and the model stops there: what
the program does then is undefined.

| definition | code |
|---|---|
| `client[c]` | the `i3_ipc_client` of peer c: `subs` is `subscribed_events`, `pending`/`ptype` are `pending_length`/`pending_type`, `buf`/`size` the write buffer, `writable` whether `writable_event_source` is set; `hdr` is the number of the last request whose header was read (bookkeeping) |
| `listed`, `server`, `queue` | `ipc_client_list`, the state of `ipc_socket`, its backlog |
| `sock[c]` | the connection: what the peer asked, what of it is on its way (`wire`) and in the receive queue (`inq`), what the server has written (`got`) |
| `executing` | the client inside `execute_command` |
| `ReadHeader`, `ReadPayload` | the two halves of `client_handle_readable`; both end in `ClientHandleCommand` |
| `ClientHandleWritable` | one `write` of any length and the `memmove` behind it |
| `SendReply`, `SendEvent` | the doubling loop, the limit, the copy, the registration; the pass over the list |
| `HandleHangup`, `SocketError` | the HANGUP branch; the ERROR branch and failing `ioctl`, `recv`, `write` |

`IpcServerProps` states its properties. `IpcDelivery` is what the server promises
without bytes and buffers: per client a log of whole messages of which it has
seen a prefix; a step publishes at most one event and answers at most one
request; whoever cannot be served is cut off, and his log ends with what he has
seen. The refinement is checked as property `DeliverySpec`.

`IpcServer` takes the loops over the client list as one step. Two modules show that
the list changing under them does no harm. `SendEventLoop` is the loop of
`send_event` iteration by iteration: walking the list by index while
`client_disconnect` erases from it computes what `SendEvent` says. `TeardownLoop` is
`client_disconnect` itself (event sources, the search for the client, erase, delete)
and the loop of `handle_display_destroy` that calls it for the last client until the
list is empty: it computes what `HandleDisplayDestroy` says. `IpcTeardown` puts the two
behind each other on one list: signals until the plugin has been unloaded, then
handlers that disconnect some of the clients that are left, then the display's end.

`IpcSignals` composes it with the signal handlers of the plugin: which instance is
connected how often to which output, view and to the core (`hooks`), how `init`,
`fini` and the handlers change that while outputs and views come and go, and how
many calls of `send_event` a signal causes (`pending`); `SignalEvent` begins a
call, the steps of `SendEventLoop` are its iterations. Whether an instance that is
initialised while the compositor announces its output gets that signal too is
up to the compositor, and a choice here.

`WfMsg` makes every peer of `IpcServer` a `wf-msg` process: the steps of `main`,
`ipc_single_command` and `ipc_recv_response` between two system calls, on top of the
server's own actions. The peers of `IpcServer` may do more, so the module shows that
its processes are among them (`IsAPeer`, a refinement of `IpcServer`), and what is
shown of the server there holds for them.

| definition | code |
|---|---|
| `proc[c].job` | the command line: request, `--monitor`, and what the JSON of the reply will amount to |
| `proc[c].stage` | where `main` is; `recv` begins with the write of the payload, which may still block (`NoneTaken`) |
| `frame`, `read`, `seen` | `data` and `payload` of `ipc_recv_response`; how much of the stream has been received and the responses it was cut into (bookkeeping) |
| `ret` | the exit code: 255 is `exit(-1)` of `client_abort`, 128 a signal |
| `RecvFails`, `RecvTimesOut` | `recv` returns -1 or 0; nothing arrives for 3 s, before the first response |
| `HandleReply`, `HandleEvent` | the JSON of the first response and of later ones; both leave `main` or go on reading |
| `Serves`, `ServerStep` | the server's actions, its writes limited by `PeerBuf` |

`CommandText` is the loop of `execute_command` on characters: `Argsep`, `SplitArgs`
and `StripQuotes` follow the C code position by position, and `Meaning` says
independently of them what a text means. `CommandList` takes the result, lists of
items, as given.

`IpcPlugin` is the life of the plugin around the server: `init` and `fini` per
output, the 100 ms timer of `fini`, the end of the display, clients that come and
go. What makes this delicate exists once although instances do not: the event
source of the socket, that of the timer, and two listeners in the display's
circular list. The list is modelled by its pointers, assignment by assignment, so
inserting or removing a node twice does to it what the C library does. `undefined`
is set when the program would do something whose effect is undefined (removing an
event source twice, following a pointer of a removed node), and the model stops
there. Nothing keeps instances, timers and the end of the display apart: an output
may come within the 100 ms of another's `fini`, and the display may end then.

`Power` is `wayfire_power` and the instances of its plugin: `Create` is
`create_power_timeout`, from which timer, wake-up and activity follow; `Signal` is
what every instance does when an inhibitor of whatever origin comes or goes, and
is called as often as there are instances. An instance listens only when its `init`
is over, so it misses the inhibitors it makes itself. `PowerCommandAll` and
`PowerCommandOne` are `output power`, for all outputs and for one; the second looks
at the id of every output, `crashed` when one of them is disabled.

`CommandList` is `execute_command`. It composes three modules of pure operators:
`Criteria` (parsing of tokens, `matches_view`, and the nodes `get_tree` lists),
`ViewCommands` (one operator per handler: the world and the context in, a status and
the world out) and `OutputCommands` (the sub-commands of `output`, which also
return how many words they used). A list is a sequence of items, each with
criteria, a command and the separator behind it.

| definition | code |
|---|---|
| `matched`, `usingCriteria`, `containers` | `matched_delim`, `using_criteria`, `containers` |
| `ctx` | `handler_context.container` and `.node_overridden` |
| `args` | `ctx->leftovers` |
| `Rest`, `NextWord`, `Blank` | what `argsep` passes over, and where it stops: at a command, or at a blank between two separators |
| `Split` | criteria, `argsep`, the new `matched_delim` |
| `Finish`, `RejectCriteria`, `IgnoreBlank`, `TakeCommand` | the four ways on from there: the end of the list, an error in criteria, a command of blanks, and the lookup of the handler, up to the call |
| `CallOnFocus`, `CallOnContainer` | the two branches that call it; `Handler` is the call |
| `SubCommand`, `SubCommandsDone` | the loop of `output_handler` |
| `world` | what handlers read and write of the compositor: per view sticky, full screen (confirmed and asked for), minimized, alpha and workspace; the current workspace; whether something has the focus |
| `segment`, `began`, `calls` | bookkeeping: where criteria were looked for last, the world at that time, and what was called with which context |

`MCIpcServer`, `MCWfMsg`, `MCCommandList` and `MCCommandText` give TLC the request sets, command
lines, command lists and texts.
Operators called *broken forms* in the modules are the definitions with a plausible
bug; they are used nowhere, and serve to show for each property that it can fail.

## Runs

| run | question | bounds |
|---|---|---|
| `IpcServer_requests` | Do both streams stay framed and synchronised, does every request get its one reply, are buffer and writable source right, and is an event only ever sent to who has asked for it, by what he himself can see? | 1 client that may fail, 3 requests of 10 kinds: without payload, with one cell and two, refused, garbage, ticks, name lists that are granted, refused, repeated and given up, `input` and `binding` among them; 1 event, receive queue of 4 cells, buffer 4 to 8 |
| `IpcServer_service` | Do events reach exactly the right clients; does the server implement `IpcDelivery`; are requests answered? | 2 clients (one may fail), 1 request each, commands and ticks included, 1 event |
| `IpcTeardown` | Does every instance get every signal, whatever came and went before; does each call of `send_event` reach every subscriber once; does `client_disconnect` release exactly its client, and does the loop at the display's end reach all? | 2 outputs, 1 view, every list of up to 3 clients, some of which handlers give up before the display ends |
| `WfMsg` | Does `wf-msg` understand the stream, exit with the right code, end, and get the ticks it monitors? | 2 processes with one of 3 and one of 5 command lines, 1 event, kernel queues of 3 cells in both directions |
| `CommandText` | Do `argsep`, `split_args` and `strip_quotes` find what is written? | 9331 texts of up to 5 characters of 6 kinds, and lists of up to 2 commands whose quoted words hold up to 2 of 7 characters |
| `IpcPlugin` | What can break the display's list of listeners, does the first teardown do nothing undefined, who is served as long as the list is whole? | 2 outputs, 3 instances one after the other or side by side, 2 clients; no bound on what happens within the 100 ms of `fini` |
| `Power` | Do outputs sleep and wake up as they should, whatever inhibits or disables idling in between? | 2 outputs; no other bound |
| `CommandList` | Does every command reach the views its criteria select, and can the results be understood? | 6728 lists of three items, commands, unknown ones and two kinds of empty ones, and 300 of `output` with two sub-commands, in 3 worlds with 4 views on 2 workspaces |

The bounds let each case happen at least once. A message is at least two cells,
so every read and write can be split; a buffer takes one message, must be doubled
for the second and is over the limit with the third; the receive queue takes a
header and a payload, and not two requests; one client fails while the other must
not notice. With three instances the plugin is loaded, unloaded and loaded again
after either way of tearing down, and for a second output while the first is there
or its timer runs. In `WfMsg` the queues take less than a message and its
successor, so both sides have to wait for each other, and one command is too long
for the queue. Five characters are enough for a quoted or escaped separator between
two words. Two outputs are enough for the signals of `IpcTeardown` because instances do not see each
other: one that is there and one that comes or goes. They are enough for `Power` because
instances differ only in who makes the change: one that is there for it and one
that comes or goes meanwhile. Three items are enough for criteria to be given,
kept or dropped over a command, an empty or a blank one, and for what they selected
to be changed before the last command; the four views are an ordinary window, its
dialog, one that is always on top and so listed twice, and a panel, which can be
active but is not described by `describe_view`.

Four runs are expected to find a violation: they show where the code differs from its
documentation or comments, whose lines PROJECT.json quotes under `findings`. Where
there are several such claims about a component, the run checks `SomeClaimHolds`, which
is their disjunction. Each claim is said of the program without a condition, so what
TLC finds, one behaviour in which all of them fail, refutes each.

* `IpcServer_claims`, four claims, in a state of the server with two clients:
  * `NeverTouched`: no client is used after it was deleted. Handlers that send two
    messages go on with a client that the first send may have deleted.
  * `SubscriptionsLast`: who subscribes to `input` and gives up `binding` gets no more
    `input`, since the two share a bit of the mask.
  * `ListedEventsGranted`: the manual lists `binding` among the available events,
    SUBSCRIBE refuses it and forgets all other subscriptions.
  * `ListedAreOpen`: a second call of `serve`, for a second output, clears the list of
    clients; those that are connected get no more events. (With one call the claim
    holds: `IpcServer_service`.)
* `IpcPlugin_twice`: if the display ends within the 100 ms of `fini`, both listeners
  and so the server's teardown run twice, and remove a removed event source.
* `Power_claims`, five claims, in a behaviour of the power plugin:
  * `TimerRuns`: the activity that wakes the outputs up does not set the timer, so if
    it is the last they stay on.
  * `DisabledSavesNothing`: the option set to -1 while the outputs sleep leaves them
    asleep.
  * `ToggledDisables`: with `disable_initially` the first instance makes its inhibitor
    before it listens for inhibitors, and the timer runs on.
  * `FullscreenDisables`: in the same way, a view that is full screen when the plugin
    is loaded does not stop the timer; nor does it when `power_timeout` changes.
  * `CommandsReturn`: `output <name> power` follows a null pointer while another output
    is disabled.
* `CommandList_claims`, two claims, after one list of commands:
  * `OverriddenBySelection`: without an active view, a command without criteria runs
    in the context that the criteria of an earlier command left, and may close or
    change a window nobody named.
  * `LastFailureWins`: a command that fails for one of several views is not tried for
    the rest: the first failure takes precedence, not the last.

Fairness. `IpcServer`: weak fairness of the callbacks, because the event loop is
level-triggered and calls a ready callback again until it has nothing to do, and
of the kernel moving bytes into a queue with room. The peer is assumed to read (a
write of at least one byte eventually succeeds); peers are never obliged to send.
Peers of `MayFail` are exempt from the progress property. `IpcPlugin`: the timer
fires, and the destruction of the display, once begun, goes on. `Power_claims`: the
timer fires. `WfMsg` assumes less
than `IpcServer`: some callback that is ready is called, and a process that can run
runs, its timer included; nothing is assumed of the user, of failing calls and of
the order of callbacks. `CommandList` and the loops in `IpcTeardown`: the code does
not stop between two steps of a function.

## Proofs

The proofs about the server are in three modules, each of which builds on the one
before. `IpcServerProofs` proves for any set of clients, any requests, sizes and
bounds:

* `TypeCorrect`: `Spec => []TypeOK`;
* `WriteInterestHolds`: a served client's writable source is registered exactly
  while its buffer holds something;
* `BoundedBacklogHolds`: the buffer is larger than what it holds and never larger
  than the limit.

All follow from `Invariant`, `Spec => []IInv`. `IInv` strengthens the type
invariant because neither is inductive alone: that a request in the receive queue
can be looked up needs that every cell on its way belongs to a request the peer
has made (`GoodSock`), and that the writable callback keeps its promise needs what
`send_reply` left (`GoodClient`). The proof has one lemma per operation; the one
about `send_reply` needs that a non-empty set of sizes has a least element
(`LeastNat`), which the doubling loop stops at.

The second half of the module follows the life of one client: `LifeInv` (who waits
in the backlog, or has not connected, is as new; whose command is executed is served
or gone; who is gone has no buffer and does not come back), what a handler does to
its own client and to the others, and `ListedAreOpenHolds`. Then the stream to a
peer: `FramedInv` says that what a peer has read together with what is buffered for
it is framed, and ends with a whole message while the client is served; from it
follows `WellFramedHolds`, and from the two ways of changing a buffer (one message at
its end, or emptied with the client) `StreamOnlyGrowsHolds`.

`IpcStreamProofs` is about both streams together. `SyncInv` is `InSync` for the whole
of what is on its way: from each cell on, the rest of its request follows, then the
next one, and the first is what `client_handle_readable` takes it for. `InSync` alone
is not inductive, because it speaks of the receive queue only. With it, and with the
number of replies a client has been sent as witness, `RepliesInv` gives
`OneReplyPerRequestHolds`. The whole messages of a stream are a recursive function,
`Whole`; that such a function exists, and is determined by its equations, is shown by
the least argument for which it would not be. `FirstInv` says that every
message of a stream has a header, that the first is a reply, and that who has been
sent nothing subscribes to nothing.

`IpcDeliveryProofs` is about who gets what. `EventReachesSubscribersHolds` is proved
step by step, over the handlers that send events. `EventsAskedForHolds` is about the
whole life of a stream: nothing is sent unasked, as far as a client can tell from its
own requests and what it has read. The code decides by the mask, the property speaks
of names and replies; between them stands `AskedInv`, that every event of the stream
was asked for when it was put there, and that each name whose bit is set in the mask
is asked for by the stream as it is. The names that share a bit are no exception,
because SUBSCRIBE refuses all but one of them. While a request is handled the mask is
already the new one and the reply not yet in the stream: `AskedHandled` is the lemma
for that.
`DeliveryHolds`, `Spec => DeliverySpec`, is the refinement. A log is the whole messages
of a stream; `LogInv` says that for a served client these have as many replies as its
stream has headers of replies. Then one lemma per handler says which step of
`IpcDelivery` it is: none, an answer, a publication, or a disconnection.

`ListedAreOpenHolds`, `EventReachesSubscribersHolds` and `DeliveryHolds` assume
`MaxServes <= 1`, a server that is started once: a second `serve` empties the list
under the clients that are served. `IpcServer_claims` shows it, and what the
plugin's restarts do is the subject of `IpcPlugin`.

Assumed of the constants: `ClientsAssumption`, `RequestsAssumption` (an empty
payload has no elements), `SizesAssumption` (the first size of a buffer is
permitted and doubling it exceeds the limit at some point), `BoundsAssumption`.

`WfMsgProofs` proves of `wf-msg`, for any number of processes, command lines, requests
and sizes:

* `IsAPeerHolds`: `WfSpec => IsAPeer`, a process is a peer as `IpcServer` assumes it;
* `UnderstoodHolds`: the responses a process cuts out of its stream are the messages
  the server sent, whole and in order;
* `ExitTellsHolds`: the exit code is that of the reply to the request.

The first is a refinement in the image `Wired`, in which the payload that is not
written yet is on the wire already: the write of the header is the peer's `PeerSend`,
that of the payload a stuttering step. It needs `WfInv`, which relates the stage of a
process to what its peer has asked and written (`StageRec`). A second proof that a
process is sent one reply, and before anything else, is then not needed: the theorems
about the server are instantiated with the image (`P`, `PeerInvariant`) and say of the
processes what they say of any peer, from which `GotInv` follows: what one receives is
framed, begins with a reply, and has no reply but that to its request. `ReadInv` is the loop
of `ipc_recv_response`: the stream up to `read` is the responses taken for complete
and the beginning of the next, in `frame`, whose length is never above what its header
announces. `TellInv` says what a process has been told at each of its stages; the
properties alone are not inductive, since they say nothing of a response that is not
complete. `JobsAssumption` says what the processes may be called with, and that
`MaxRequests > 0`, so that each may make its one request.

`IpcPluginProofs` proves of the plugin, for any outputs, clients and number of
instances, without a condition on what happens when:

* `TypeCorrect`;
* `ListenersKeptHolds`: nothing breaks the display's list but an `init` that calls
  `serve` while the listener of the server is in it;
* `FirstTeardownSafeHolds`: on a whole list, only a teardown after another does
  something undefined;
* `WholeListsServedHolds`: as long as the list is whole, who is served is listed.

Both exceptions occur: `serve` is called for every output, and `IpcPlugin_twice`
shows the second teardown. The
invariant distinguishes six situations. As long as no listener was inserted twice
(`Whole`) nothing is set up (`Idle`), an instance is there (`Up`), the timer is about
to tear down (`Grace`), or the display's end has torn down before the timer (`Ended`);
after the second teardown everything is undefined (`Twice`); and a list in which the
server was inserted twice leads to it, but not back (`Broken`), which no insertion or
removal repairs. In the first four it gives the list node by node, because unlinking
is assignments to pointers.

`PowerProofs` proves the invariants of `Power` for any finite set of outputs
(`OutputsAssumption`):

* `TypeCorrect`: `Spec => []TypeOK`;
* `OutputsResume`: outputs that the timer has put to sleep wake up with the next
  activity, or, if idling was inhibited or power saving disabled meanwhile, when
  that ends (`SleepersWake`);
* `InhibitorsRespected`: an inhibitor that comes, or goes while another is left, of any
  origin and on any output, stops the timer and the watch of activity, and so they
  stay unless the option changes (`InhibitorsStop`);
* `ActivityWatched`, `InactivityMeasured`: when the last one has gone, activity is
  watched and inactivity measured again, and the timer does not run while the outputs
  sleep (`WatchesWhenFree`, `TimerRunsOrWoken`);
* `DisabledSpared`: falling asleep and waking up leave disabled outputs disabled
  (`IdleSparesDisabled`), since whoever changes `idle` calls `set_state` from one of
  its two sources.

`Power.cfg` checks them for two outputs; the theorems bound neither the number of
instances a signal reaches nor that of the inhibitors that come or go in one
step. They follow from the inductive invariant `IInv`, which says of
`wayfire_power` at any time that it is `Sound` (typed, idle or armed but not
both, and nothing asleep but what is idle or known to be left so), and `Free`
(activity is watched, inactivity measured) while idling is not inhibited. What holds
while it *is* inhibited is no invariant, since an instance misses what happens
before it listens (`Power_claims`): `InhibitorsStop` is a
property of steps. The operators (`Create`, `Signal`, `Constructed`...) are shown to
preserve `Sound` whatever the rest of the state is; of a signal it is shown what it
establishes from any state, so an action has to account only for the case that
nobody is told.

`IpcSignalsProofs` proves `NothingIsMissed`, `SignalsSpec => []NoSignalMissed`, for
any outputs, views and clients, provided that an output, a view and the core are
different things (`SignalsAssumption`). The invariant is inductive together with
the types of what the handlers look at (`SceneOK`), of which one part matters: a
mapped view is on an output that is present or on none, so that a signal emitted
there reaches every instance. The proof has one lemma per handler. How many calls a
signal causes plays no part in it.

The module also proves what one call of `send_event` does, for lists of any
length: `ACallTells` for the loop alone and `EveryCallTells` for the calls that
signals cause (`Outcome`). The invariant `LoopInv` relates the list to that at the
beginning of the call: the part in front of the index is its handled part without
those who were erased, in order, the part behind is its rest, shifted by their
number.

`CommandListProofs` proves every safety property of `CommandList`, for any lists,
criteria, views, workspaces and configurations:

* `TypeCorrect`: whatever is executed, the compositor is in one of its states;
* `GovernedHolds`, `ReachedHolds`: a command is applied to the views that the
  criteria of its own segment select, and to all of them; without criteria to the
  active view, or, if there is none, to what the call before was applied to;
* `ResultsTellHolds`, `FailureChangesNothingHolds`: what a client may conclude from
  the results;
* `OutputWordsConsumedHolds`: the words of `output` are consumed exactly.

The first half shows what the pure definitions compute. `SelectedFound` is the
statement to look at: folding the parser over the tokens, flattening the tree and
matching its nodes (`GetContainers`) yields exactly the views every token of which
holds (`Selected`). Folds and flattening are recursive functions over sets or
numbers; that such a function exists, and what it yields, is shown for the set of
numbers for which it is so (`SetInduction`), one lemma for each of them: `FlattenIn`,
`EachIn`, `TreeIn`, `Parsed` (after n tokens each field of the record is what the
tokens of that name among them say). `HandlerFair` and `SubHandlerFair` say that
every handler returns a state of the compositor, and the same one when it fails.

The second half is four invariants of the loop, on top of the types (`TypeInv`, which
includes that in the phases with a command it is that of the item before `pos`).
`ScopeInv` relates the loop's variables to the list: the segment begins the list or
follows a semicolon and contains no command that a semicolon follows but the last,
`using_criteria` says whether it has criteria, the containers are those found when it
began, and the handler context is that of the last call.
Governed alone is not inductive, because it speaks of past calls only. `ReachInv`
says that the views the command has been applied to and those left to do are
together those of the containers; `ResultsInv` counts the commands passed
(`CommandsTo`), `WordsInv` says that what is left of the words of `output` is nothing
or begins with the name of a sub-command.

Assumed of the constants: `ViewsAssumption`, `NamesAssumption`, `WordsAssumption` (a
word is at most one of a number, a pair, and `--custom`), `ListsAssumption` (lists,
criteria and words are sequences, and the first worlds and configurations are
states of the compositor). That no `con_id` is that of a workspace, of the one
called `__i3_scratch` included, which the code does not see to, is a condition of the
property (`Understood`), not of the proof.

Left to TLC: `CommandText` (`SplitsAsMeant`), whose scanner is a recursive operator,
which the prover cannot reason about; and progress (`RequestsGetReplies`, `Finishes`,
`LoopsEnd`...), because liveness under fairness is outside its reach.

## Known deviations

Behaviour met while modelling that a reader may not expect. Where a property would
fail because of it, the property or the instance says so.

Server and plugin:
* `event_mask` drops a bit of the event number, so `input` and `binding` share a
  bit: `IpcServer_claims`. As SUBSCRIBE refuses `binding`, no event is sent unasked
  because of it.
* SEND_TICK reports success also when the tick could not be sent.
* A payload larger than what the kernel queues is never read: the server waits for
  all of it to be available. RequestsGetReplies speaks of requests that fit.
* SUBSCRIBE refuses `binding`, which the manual lists, and several others it does not
  (`IpcServer_claims`).
* With several outputs `fini` of one sends SHUTDOWN and stops the server although
  the compositor goes on and the other instances still need it. The end of the
  display, or another `fini`,
  within the 100 ms of `fini` tears the server down twice (`IpcPlugin_twice`).
* Every instance reports every signal it gets, so with n outputs a client gets each
  event n times. A view that exists unmapped when an instance is made is connected
  twice once it is mapped, and reported twice.
* `on_workspace_grid_changed` leaves `old_viewport` uninitialised; "old" of a
  `reload` event is any workspace, or missing.

`wf-msg`:
* When the server closes the connection inside a payload, `recv` returns 0 for ever
  and the loop does not end (`CutInPayload` in `Finishes`).
* A payload that is longer than what the kernel queues blocks: the client in
  `write`, which has no timeout, the server until all of it has arrived.
* It exits with 255 when it cannot connect, send or receive, and after the timeout;
  the manual (`src/ipc/client/wf-msg.1.scd:98`) says 1 of the first. `ExitTells` says
  nothing of it; the model does what the code does (`OpenSocket`). The command it
  gave up on may still be
  executed.
* A reply that is an empty array, such as that to GET_INPUTS without devices or to a
  command line without commands, counts as unparsable: exit code 1.
* SUBSCRIBE without `--monitor` waits for one event, without a timeout.
* When `malloc` fails the null response is dereferenced; a monitor exits with 0.

Commands:
* An escaped quote or separator followed by another quote, backslash or separator
  makes argsep take that one for escaped, too, unlike split_args (`EscapeRunsOn`).
* Workspace 2 of output 1 has the id 12, and so may a view; criteria that name the
  id select both, and a command such as `kill` fails for the workspace; in the same
  way the id of `__i3_scratch`. The instances keep ids apart.
* `scratchpad show` without criteria asks for the opposite of what its log messages
  say (a view to be hidden is shown, one to be focused is minimized).
* A dialog is listed by itself and below its parent, so a command with criteria is
  applied to it twice: `toggle` has no effect. So is a view in the layers above the
  workspaces, which is listed as one of `floating_nodes`, too.
* The `workspace` criterion looks at the workspace of the last *other* view;
  `con_mark` matches every view, `tiling` none. `Understood` leaves these out.
* `__focused__` without an active view matches everything, as a `shell` nothing;
  alone as `con_id` it is an empty criterion and an error.
* `argsep` passes over separators in front of a command and reports the one behind
  it, so that neither the semicolon in `[c] a,; b` nor the one in `[c] ; b` ends the
  scope of `c`. Blanks between two of them are a command, which the loop ignores but
  whose separator counts: in `[c], ; b` the scope ends. Yet blanks right behind
  criteria or a command's separator are skipped before, so that in `[c] a, ; b` it
  does not. The manual says nothing of it.
* `fullscreen toggle` reads the state the client has confirmed, so two of them in
  one list ask for the same.
* `position 10,20` is split at the comma unless it is quoted. `workspace <name>`
  with a name that is not a number throws. `mode --custom` without a size reads a
  null pointer. The instances do not contain the last two.

Power:
* Setting the timeout to zero or unloading the plugin while the outputs sleep
  leaves them asleep (`Power_claims`; those that unloading leaves are `left`).
* An option that changes, or an instance that is made, while idling is inhibited
  starts the timer (`Power_claims`).
* `toggle` only ever inhibits; `toggle_state` is not used.
* Waking up also wakes outputs that a command switched off.

## Not modelled

JSON and its wording: a reply is a message of some length, a subscription is the
list of names its text parses to, everything unparsable is the empty list. Of
`get_tree` only the nodes and their ids are modelled. The environment variables
and paths of `serve`. A peer that shuts down one direction only. Characters,
quotes and escapes in criteria: a regular expression is the set of names it matches.
`unescape_string`, `strip_whitespace` and `split_string`. Of `wf-msg` the parsing of
options, the search for the socket path and the pretty printer; a `write` that is cut
short by the end of the connection counts as complete or as failed. What the JSON of
events says. Grids of workspaces of more than
one row; commands on several outputs at a time; flipped transforms and refresh
rates. What the compositor does after a request (minimizing, closing, switching
workspaces) is a change of `world`, taken from how the handlers use it. A client
that is not in the list although it is served (after a second `serve`) can occur in
`IpcServer`: `IpcServer_claims` shows it, the passing runs have one `serve`.

## Plan

1. `IpcServer`, `IpcDelivery`, `SendEventLoop`, `TeardownLoop`, `IpcPlugin`, `Power`,
   `CommandList` with `Criteria`, `ViewCommands` and `OutputCommands`, `WfMsg`,
   `IpcSignals`, `IpcTeardown`, `CommandText`: done.
2. Proofs of the server, its refinement of `IpcDelivery`, the loop of `send_event`,
   the plugin, the signals, `Power` and `CommandList`: done.
3. Proofs of `WfMsg`, its refinement of `IpcServer` and what follows from it: done.
4. Open: the scanner of `CommandText` as a fold over its input, so that `SplitsAsMeant`
   can be proved, too.
