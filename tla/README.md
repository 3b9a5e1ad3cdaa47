# TLA+ specifications of evlpc

evlpc is a collection of event-loop and messaging programs in C and C++. Its own
logic is a small request/reply system over TCP: a message framing with a
callback table (`libcmn2`, `appcmn1`), a table of outbound sessions (`appcmn1`),
a configuration agent that is the client of several servers (`cfgagent`), and a
service monitor that launches processes and answers requests
(`service_monitor`). Around it stand experiments with libuv, libev, epoll,
nanomsg and UNIX sockets.

This directory has TLA+ modules for that system, configurations that check them
with TLC, and proofs for TLAPS. Paths below are relative to the root of the
repository; `PROJECT.json` maps every definition to the lines it models.

## Inventory

| component | state | operations | interacts with |
| --- | --- | --- | --- |
| **session table** `src/appcmn1/session.cpp` | `free_list`, `used_list`, `current_max_sid`, the vector `ob_sessions` of 1000 elements | `make_new_session`, `find_stored_session`, `return_sid`, `find_free_sid`, `create_free_sids` | called by the agent to send, by `handle_std_reply` on an answer; calls the callback a session holds |
| **framing** `src/libcmn2/appcommon.cpp`, `src/appcmn1/pbcommon.cpp` | per connection a buffer of 65536 bytes and `leftover_data_size`; the table `pbcbs` | `allocBuffer`, `readData`, `client_close_cb`, `process_msg`, `cbfuncs`, `register_cb` | libuv calls it for every read; it calls one handler per message |
| **delayed-response service** `src/appcmn1/pbcommon.cpp` | a timer per request, with its session id, magic and connection; the log level `LL_C` | `handle_delayed_response_req`, `start_new_timer`, `delayed_response_cb`, `send_a_std_reply`, `handle_glc_req`, `handle_publish_req` | every program that calls `register_all_cbs` serves it: the agent and the service monitor, not `ca_log` |
| **configuration agent** `src/cfgagent/cfgagent_main.cpp` | `gconnections`, the handle of each connection, the listener of its timer | timer callbacks, `on_client_connect`, `delayed_response_test`, `get_service_monitor_connection` | client of all servers of its configuration file |
| **event loop, application** `src/libcmn2/appcommon.cpp` | the loop's handles, `timer1Listener`, `defaultListener` | `run`, `initTimer1`, `reinitTimer1`, `addDefaultServerPort`, `onNewConnection` | owned by every program; libuv runs one callback at a time |
| **service monitor** `src/service_monitor/service_monitor_main.cpp` | groups of processes, each with its `uv_process_t` | `read_config_xml`, `launch_all_processes`, `on_exit`, `normal_terminate_pgroups` (compiled out) | starts the servers; is itself a server |
| **epoll event loop** `src/libcommon/libcommon.cpp` | 64 slots: descriptor, token, listener; what epoll watches | `addFd`, `deleteFromEventLoop`, `run` | calls the listeners of `nanomsg_server1` |
| **pitch and catch** `src/blogsender`, `src/blogserver` | the position of each process in its dialogue | `send_data`, `recv_data` | each other, over one UNIX stream socket per transfer |
| **echo server and client** `src/proto_ev_server1`, `src/proto_ev_client1` | one watcher per client; of the text nothing outlives a call of `read_cb` | `accept_cb`, `read_cb`, the loop of the client | each other, over TCP |
| **in-progress slots** `src/libutils1/inprogress.cpp` | table of slots | `alloc_slot`, `return_slot` | nothing yet |
| **log sockets** `src/af_unix_wrapper`, `src/logtx`, `src/logrx` | a datagram socket each, and its name in the file system | `log_open`, `log_close`, `logtx`, `logrx` | each other |
| **configuration files** `src/libutils1/ini.c`, the handlers of `cfgagent` and `ca_log` | the configuration record, the port | `ini_parse`, `handler`, `main` | read before the server starts |
| nanomsg and libuv experiments, utilities, protocol files | none of their own | | |

### What is hard in it

*One thread, many orders.* Each program is one event loop, so callbacks exclude
each other, but their order is free: replies come back in the order timers
expire (the delay is `rand()`), connections complete, fail and break at any
moment, and a session id is given to a new request as soon as its reply came.

*Bytes are not messages.* A read ends anywhere in the stream. What is left has
to be kept, found again, and never taken for more than it is.

*Nothing times out.* There is no retry, no reconnection and no timeout, so a
lost message is lost for good; the model has to show exactly what is lost and
what is not.

*Undefined behaviour is close.* `ob_sessions[sid]` is not range-checked, one
function returns a pointer it may not have set, a table is read one past its
end, and a buffer is read past what was received.

*Memory has two owners.* libuv keeps pointers to handles, requests and bytes
that the program frees, or leaves on the stack, by rules of its own.

*Numbers are used again.* Descriptors, session ids and slots come back under the
same number while something still refers to the one before.

### What makes each component correct

- **Session table**: an id is free once or in use, never both, never lost; a
  reply is matched to the request that holds the id *now*; a callback runs at
  most once; the vector is overrun only if all its elements are taken.
- **Framing**: handlers get the messages that were sent, in order, whole and
  once; the leftover is never more than there is; the copy stays in the buffer.
- **Agent and servers**: the ids in use are those of the requests that are on
  their way, in a timer or lost; every request is answered or lost; a broken
  connection is noticed.
- **Service monitor**: the processes of the file are started in its order, each
  once, and none is left out before one that was tried; every end is told.
- **Epoll loop**: what epoll watches is in the slot it was given; an event is
  given to the listener of the file it is about; nobody waits for ever.
- **Pitch and catch**: both sides agree at every moment on how much is still to
  be said; they never wait for each other; every transfer ends if nothing is
  killed, and only one known loop hangs if something is.
- **Echo**: a client gets back what it sent, all of it and in order, however it
  was cut up; who waits is answered, but for two known cases.
- **Log sockets**: messages are not doubled and do not change places; a message
  is missed for one of two known reasons; no sender is blocked for ever.
- **Log configuration and publishing**: a request is answered once and in its turn.
- **Configuration files**: the agent listens on the port of its own entry; a
  server is listed under a header of its section; a string is the text's words.
- **Memory**: a reply finds the handle it is for; libuv's list has no freed
  handle but for two known places; a request is freed; a slot has one user as long
  as only its user returns it.

`PROJECT.json` lists the hazards one by one, each at its line, with the
properties that cover it.

## Modules

| module | what it is | code |
| --- | --- | --- |
| `SessionLease` | abstract: a request holds an id of its own, its callback runs at most once | |
| `Session` | the session table: state and operations | `session.cpp`, `handle_std_reply` |
| `SessionPeer` | the table with a peer that repeats and reorders answers | `delayed_response_test`, `handle_std_reply` |
| `Framing`, `MCFraming` | one connection, read by read and message by message | `allocBuffer`, `readData`, `process_msg` |
| `FramingProofs` | theorems about `Framing` | |
| `Link` | a TCP connection as the callbacks see it (external) | libuv |
| `CfgAgent` | the agent; extends `Session` and `Link` | `cfgagent_main.cpp` |
| `DelayedReply` | the servers; extends `Link` | `pbcommon.cpp` |
| `Rpc`, `MCRpc` | agent, connections and servers composed | `onNewConnection` |
| `SessionProofs` | theorems about `SessionPeer` and `Rpc` | |
| `LogConfig` | log configurations and publishing between the agent, servers and itself; extends `Link` | `cfgagent_main.cpp`, `pbcommon.cpp` |
| `IniConfig` | arguments, configuration file and port of two programs | `ini.c`, `cfgagent_main.cpp`, `ca_log` |
| `ReadString` | the strings of the service monitor's file | `service_monitor_main.cpp` |
| `MCConfig` | instance of the last three | |
| `ConfigProofs` | theorems about the three | |
| `ServiceMonitor`, `MCServiceMonitor` | the list of processes, its launch, the ends of processes | `service_monitor_main.cpp` |
| `ServiceMonitorProofs` | theorems about `ServiceMonitor` | |
| `LoopHandles` | the memory of connections and timers | `appcommon.cpp`, `pbcommon.cpp` |
| `WriteQueue` | the memory behind what is written | `cfgagent_main.cpp`, `pbcommon.cpp` |
| `InProgress` | the table of requests in progress | `inprogress.cpp` |
| `MCMemory` | instance of `LoopHandles`, `WriteQueue` and `InProgress` | |
| `MemoryProofs` | theorems about the three | |
| `EpollLoop` | slots, batches of events, callbacks | `libcommon.cpp` |
| `EpollProofs` | theorems about `EpollLoop` | |
| `PitchCatch`, `MCPitchCatch` | a pitch and a child of catch for every transfer, over sockets that block | `blogsender`, `blogserver` |
| `PitchCatchProofs` | theorems about `PitchCatch` | |
| `LogSocket` | senders and receivers of log messages | `af_unix_wrapper`, `logtx`, `logrx` |
| `EvEcho` | the echo server and its clients | `proto_ev_server1`, `proto_ev_client1` |
| `MCSockets` | instance of `LogSocket` and `EvEcho` | |
| `SocketsProofs` | theorems about the two | |

`Session` instantiates `SessionLease` as `Lease`, with `lease <- {[sid, req]}` over
the ids in `used_list` and `answers <- calls`. `LeaseSpec` is checked, and proved,
of both specifications that use the table: `PeerSpec` of `SessionPeer` and `Spec` of
`Rpc`.

### Session, SessionPeer

State: `free_list` is a sequence, `used_list` the set of its elements (only
membership in it is ever used), `current_max_sid` and `ob_sessions` as in the
code. An element of `ob_sessions` keeps the magic and `data`, the argument of
the callback; `data` is the number of the request, so that a callback that runs
for another request shows. `made` and `calls` are history. The `inited` branch
of `make_new_session` runs once, before anything else, and is part of
`SessionInit`.

`make_new_session` and `handle_std_reply` are one action each with all they
call: `find_free_sid` with its refill, `find_stored_session` with its
invalidation, the callback, `return_sid`. After a write past the end of
`ob_sessions` (`overrun`) anything may happen, so the behaviour ends there;
`OverrunOnlyWhenFull` says what must be true when it does.

`SessionPeer` sends any id and magic it was ever given, any number of times, in
any order, which includes all a correct server does. Two draws of `rand()` are
left out, each in a named place: 0 (`MagicAssumption`), which
`find_stored_session` cannot tell from an invalidated session, and a number
that the same id was used with before (`MagicFresh`), with which an old reply
cannot be told from a new one. Both have probability 2^-31; with either,
`NoForeignReply` is false.

### Framing

A cell stands for a group of bytes; a header is `Header` cells, the first the
length and the second the type. `Read(n)` is `allocBuffer`, the read and
`readData` up to the listener; each turn of the loop of `process_msg` is a
step (`EmptyMessage`, `Dispatch`, `OffByOne`); `Finish` is the end of
`process_msg` with the copy in `readData`. The peer sends whole messages with
right lengths (`MessageAssumption`: `make_msg` computes the length, and a
message is at most 2500 bytes and a header) and may vanish in the middle of
one. Memory never written holds anything (`Junk`), and so does memory past the
buffer. `memcpy` with overlapping operands is undefined; `Copies` has the two
orders a copy may run in.

As the address `readData` passes on is wrong after a leftover, the model
records in `torn` that a read began with a leftover. What follows is then as
arbitrary as in the code: lengths and types are read from the wrong places. The
properties separate what holds always (`CopyInBounds`) from what holds until
then (`FramedWhenAligned`, `AbortsOnlyWhenTorn`, `Delivered`). `Handled(sent)[k]` is
what the first `k` messages sent should reach the handlers as, and `Size(sent)[k]`
how many cells they are: recursive functions, which the proofs can use.

### Link, CfgAgent, DelayedReply, Rpc

In `Rpc` a message arrives whole: requests of some 40 bytes, far apart in time,
are read one packet at a time, and what happens otherwise is the subject of
`Framing`. A message is its session id, its magic and, as history, its request.
`Link` keeps the two directions of each connection; when a connection breaks, a
prefix of each still arrives and the rest goes to `lost`. Writing to a broken
connection succeeds, as it does with TCP; writing to a closed handle fails, and
the code ignores that.

The agent's timer alternates between two listeners (`timer1Listener`). A burst
of `delayed_response_test` is one callback: its sends are separate steps, but
while `burst > 0` no other step of the agent happens (`InLoop`), while the
servers go on. `get_service_monitor_connection` returns what the code returns:
the monitor's connection, or the last one; with no connection, a pointer never
set, which `PingUnconnected` turns into a crash or, by not happening, into the
skipped test.

A server is any program that calls `register_all_cbs`. Its timers are a set:
they expire in any order. `ServerExit` takes its timers and its unread input
with it, and it is not started again, as `on_exit` of the service monitor only
closes the handle.

### ServiceMonitor

State: the root element of the file, the cursors of the loops, the list as the
code builds it (`head`, `current`, `next`), and what became of each `child_req`.
A turn of a loop is a step. A node is named by the position of its element, so
the order of the file can be compared with the order of the launch.
`read_pgroups` gets the root element and looks at its siblings; a well-formed
file has no other element there, so the model has one group or none, though the
loops over groups could do more. `uv_spawn` fails only if the process cannot be
made (a program that is missing is a process that ends at once), and stops the
launch of the group. The timer expires once, the port the monitor listens on
keeps the loop going, and the termination by a second timer is compiled out. A
skipped element leaks its node, which no property is about.

### PitchCatch

Every transfer has two processes, a pitch and the child that catch forks for it.
Each is at one of the calls of its dialogue, with what is left of it
(`buflen`) and of the data (`more`); a turn of the loop of `send_data` or
`recv_data` moves any number of units from 1 to what there is. The socket is
external: `Capacity` units in each direction, an end that is closed with
unread input resets the other (as UNIX sockets do), and connections wait in a
backlog. The last `send` of the child is not in a loop, but a socket that blocks
takes the whole bullet. `recv` at the end of the stream returns 0, which the
loops take for a turn that moved nothing: it changes no variable, so it is the
state `Spins` and no action. The check of the magic always passes, since only a
pitch connects to the name.

### LogConfig, IniConfig, ReadString

`LogConfig` is the traffic of two messages that `Rpc` leaves out. It goes over the
same connections (`Link`), one of which the agent makes to itself (`Self`), and
either end answers what the other sends if both have registered the handlers.
`ca_log`, to which the agent connects by its file, never does: the entries of
`Silent` are read and nothing is answered, and what is promised is promised for
the others. The answer to a log configuration is made by a constructor that gives
it the type of a request, so the two ends answer each other without end and set
each other's level; `ConfigsNeverSettle` and `LevelBecomesCritical` say what
that amounts to, and `PublishedOnceInOrder` that publishing does not suffer from
it. A message is its type, its level and, as history, which sending it goes back
to. The calls of both senders are commented out at this commit.

`IniConfig` follows `main` of the agent and of `ca_log`: the port argument, which
`ca_log` cuts to 16 bits before it looks at it, the file, and the port that is
listened on, which the agent takes from its file unchecked. A piece is what one
`fgets` returns, with the kind its characters make it, because a line of more
than 199 characters comes in several: the rest of a long comment is read as an
entry. The text in a piece is one of a few values, each with the number `atoi`
gives for it and with what `strncpy` keeps of it.

`ReadString` is `read_element_string` and `read_attribute_string` over all texts of
up to `MaxLen` letters and blanks, with what the stack may have held, in the
buffer and behind it up to some `"0"` (`Beyond`). Fields are zeroed with their
node, but for `group_id_str` on the stack, and may be as long as the buffer, as
`common_args` is. A string without an end goes on behind the buffer, where
`trimwhitespace` may also write its terminator (`Terminated`). What is read is
compared with `Words`, which says in one piece what reading is for: a value that
fits with its end is read as meant; what the stack held shows, in the `n - 1`
characters that are copied, only after blanks in front of a longer value, and
behind them if the field was not zeroed; and memory behind the buffer is written
only if the value and the rest of the buffer have no end.

### LoopHandles, WriteQueue, InProgress

`LoopHandles` has a handle for each connection and each timer, whether it is
allocated (`memory`), and whether libuv has it in its list (`known`). Two places
free a handle that libuv knows: `delayed_response_cb`, which never closes its
timer, and `onNewConnection` after `uv_accept` failed. From then on a change of
the list may read freed memory; what follows is as before or `corrupted`, where
the behaviour ends. `OnlyThoseAreMissed` says that harm comes from these two
places alone, and `RepliesFindTheirHandle` that a timer that outlives its
connection finds the handle, which holds because `client_close_cb` frees nothing.

`WriteQueue` is the other memory libuv keeps pointers to: the `uv_write_t` of each
message, and bytes inside an object that is gone when the function returns. What
the socket takes at once is right; what has to wait is read later, when the
stack has another use (a unit 0). That a burst waits needs a peer that does not
read; `OnlyDeferredIsSpoilt` says that nothing else is affected.

`InProgress` has users that return any number at any time: what they hold, what
they returned before, what another holds, and numbers past the table.
`return_slot` frees the slot whoever calls it, so one that another than its
holder returned (`revoked`) is given out again and shared. `SlotsAreKept` says that
this is the only way to share a slot, that it ends when all to whom the slot was
given have returned it, and that no slot is lost but those in use when the table,
memory nobody cleared, was made (`stray`).

### EpollLoop

State: the table (`fds`, `listeners`), what epoll knows (`watch`, and the list of
`ready` files, which `epoll_wait` hands out from the front and appends to the end
again), and the rest of the batch. Descriptors are used again, lowest first;
files are not, so an event remembers which file it was about. `main` and the
callbacks may open, add, read, close and delete in any order.
`deleteFromEventLoop` is private and nothing calls it yet; it is modelled as a
call the callbacks make. A listener without a callback would drop its event; all
listeners of the repository have one, and the test is left out. Descriptor 0 marks a free slot: once a program adds it
(`zero`) the promises end.

### LogSocket, EvEcho

A receiver of `LogSocket` removes the name and binds its own socket to it, in two
steps, between which others run. A sender looks the name up for each message,
may wait for room in the socket it found, and looks again if that socket is
closed meanwhile. The loops in `logtx` and `logrx` take one turn, since a datagram
is sent whole and both programs use messages of one length.

In `EvEcho` a byte is a unit; `recv` returns any number of them, and the blocking
`send` of the server takes what room there is. The client waits for text after
each line it sends, also after an empty one, and goes when it reads `q`. At the
end of its input `gets` leaves the buffer alone and the client sends again what it
holds, for ever (`TypeAgain`). The
descriptor of a client is never closed, so after `MaxSockets` of them none is
accepted.

## Runs

| run | shows |
| --- | --- |
| `session` | `SidsConserved`, `NoForeignReply`, `OverrunOnlyWhenFull`, `LeaseSpec` with the repeating peer |
| `framing` | `CopyInBounds`, `FramedWhenAligned`, `AbortsOnlyWhenTorn`, `Delivered` for all splits of the stream |
| `framing_split` | violated: `Reassembled`, what comments say of a message in two reads |
| `rpc` | `PoolMatchesTraffic`, `LeaseSpec`, `EveryRequestSettles`, `BreakNoticed` with failing links and servers |
| `rpc_target` | violated: `OnlyMonitorIsAsked`, what the caller takes for granted |
| `rpc_expire` | violated: `LostSessionsExpire`, what a header's comment and a message say |
| `monitor` | `StartedInOrder`, `AllStarted`, `EveryEndIsTold` for every small file, with failures |
| `pitch` | `InStep`, `NeverBothWait`, `TransfersComplete`, `HangsComeFromRecvZero` with two transfers, signals and failing forks |
| `epoll` | `WatchedInTheirSlots`, `EventsReachTheirListener`, `ReadyIsDispatched` with descriptors that are closed and used again in the middle of a batch |
| `sockets` | log sockets: `OnceAndInOrder`, `NothingElseIsMissed`, `AllSendersFinish`, `QueuedIsReceived`; echo: `EchoInOrder`, `WaitingIsAnswered`, `EndedIsForgotten` |
| `config` | messages: `PublishedOnceInOrder`, `ConfigsNeverSettle`, `LevelBecomesCritical`; files: `OwnPortIsListed`, `ServersUnderTheirHeader`; strings: `StringsAreRead` |
| `memory` | handles: `RepliesFindTheirHandle`, `OnlyThoseAreMissed`; writes: `OnlyDeferredIsSpoilt`, `TakenIsFreed`; slots: `SlotsAreKept` |

The last three runs put small components side by side: a variable `part` says
which one runs, and the others stay in their initial state. They share nothing,
so this is the union of their behaviours and no interaction is lost; the
modules stand for themselves and are instantiated unchanged.

No run spends its time on a type invariant: those are theorems (`TypeCorrect` and
`...TypeCorrect`), one for each module with state. The three violated properties are findings:
each quotes a comment or a message of the code and is refuted by what the code
does (`PROJECT.json`, "findings").

### Bounds

- `session.cfg`: chunks of 2 ids, 4 elements, 6 requests, 2 magics. There are
  two refills, the vector fills and is overrun, and an id is used twice, once with
  each magic (`MagicFresh`).
- `framing.cfg`: a buffer of 5 cells, messages of 2 (empty), 3 and 4 cells, 3
  of them: messages and headers are split at every place, the buffer fills, two
  messages come in one read, and payload cells (1, 2, 3, 6) are plausible lengths
  and types, 6 being longer than the buffer and 2 the type one past the table.
- `rpc.cfg`: 2 servers, one of which is the monitor, bursts of 2, 4 requests, 2
  elements: two bursts, so timers and replies of one overlap with the next,
  on the same or on another connection, and the third outstanding request
  overruns. One magic is enough here, as servers answer once.
- `monitor.cfg`: every sequence of up to 3 elements of the 3 kinds, below a root
  with another name, without a group id, and with ids on both sides of 1 and 16:
  gaps at the beginning, in the middle and at the end of the list. The theorems
  are for any length.
- `pitch.cfg`: two transfers with a backlog of one, so a pitch waits to connect
  and another to be accepted; blocks of 2, a bullet of 2 and 3 or 0 units of data,
  so the last block is short and a block, like a bullet, may be moved in one
  turn or two; two faults, so catch and a child, or both ends, can be killed.

- `epoll.cfg`: three descriptors and batches of 2, so a ready file is left out of
  a batch and has to come in a later one; a descriptor is closed and used again
  while an event for its former file may still be in the batch; three slots, so a
  slot is left to a closed file, or all are taken; one broken file at a time, which
  ends the program. Descriptor 0 is left out here and in the theorems' hypothesis
  `zero`.
- `sockets.cfg`: two receivers that take the name from each other, two senders of
  two messages, a queue of one, so senders wait, and a receiver that stops after
  three; three clients for two descriptors, one place in the backlog and one
  unit in a socket, so sends block and clients are left out; a line is empty, `q`
  or three units: once its client has received one of them and is back at its
  prompt, the second fills the socket and the server waits with the third, while
  another client may wait for the answer to the second line of the behaviour.
- `config.cfg`: the monitor, `ca_log` and the agent's own port, and two sendings, so a
  configuration circles while publish requests pass; files of up to 4 of 12
  pieces: headers that are right, wrong, open or indented, pairs that are indented
  or left over from a long line, numbers that are right, too big or too long;
  ports 0 (none), 80, 7002 and 67536 = 2000 + 65536; texts of up to 6 letters and
  blanks for fields of 4 and 6 and a buffer of 6, with 3 characters behind it, the
  last an end.
- `memory.cfg`: three connections and three timers, so a connection is refused and
  another one used by two timers; bursts of 3 of at most 5 messages of 2 units to
  a socket with room for 3, so a message is sent whole, in part or later; 3 users
  of 3 slots, who return any of them at any time, and the numbers 3 and 4.

The only bounds in guards are `made < MaxRequests`, `Len(sent) < MaxSent`,
`faults < MaxFaults`, `opened < MaxFiles`, `Cardinality(broken) < MaxBroken`, `typed < MaxLines`, `sends < MaxSends`,
`Len(file) < MaxPieces`, and `written` against `MaxMessages`.
Deadlock checking is off where the system really stops: after an abort, after a
close, after the last request, when all processes have ended, when a
process is in the loop at the end of a stream, when a client waits for text
after an empty line, and when memory is corrupted.

### Fairness

- `Framing`: weak fairness of a turn of `process_msg`, since a callback that runs
  returns; strong fairness of a read that finds something, since TCP delivers
  what was sent while the connection stays up, though libuv may also be told
  that nothing has arrived yet.
- `Rpc`: weak fairness of the callbacks of both loops (a readable stream is read,
  the end of a stream is seen, a timer expires) and of the sends of a burst.
  Weak fairness suffices: each of these stays enabled until it happens, or is
  disabled for a while only by a burst, of which there are finitely many.
  None for connecting, for a connection that breaks or for a process that ends.
- `ServiceMonitor`: weak fairness of the program, which is one thread that its
  loop never leaves idle while something is due. None for failures and for
  processes that end.
- `PitchCatch`: weak fairness of every call that can return, and strong fairness of
  a `connect` that blocks: the room in the backlog comes and goes with other
  connections, and the kernel wakes those who wait in turn. None for signals or
  failing forks.
- `EpollLoop`: weak fairness of a callback's return and of the loop (`Forget`,
  `epoll_wait`, `Dispatch`): one thread that never waits for anything else. None for
  what callbacks do, or for data that arrives.
- `LogSocket`: weak fairness of `logtx` and of a receiver that has begun: processes
  run, and a datagram socket wakes a sender when there is room. None for receivers
  that start or are killed. `MCSockets` states it again as `LogFairness`, since a
  part that does not run must not be made to.
- `EvEcho`: strong fairness of `accept_cb` and of `read_cb` for each client: they are
  disabled while the server is in `send` for another, and libev reports a
  descriptor that is ready again and again until it is served. Weak fairness of
  `send` and `recv`, which return when they can. Nobody has to type, or leave.
- `LogConfig`: weak fairness of reading what has arrived.
- `WriteQueue`: weak fairness of the running callback, of libuv and of the peer's
  reading.
- None for `LoopHandles`, `InProgress`, `IniConfig` and `ReadString`, of which only
  safety is asked.

## Proofs

Every invariant that a passing run checks is a theorem, for every value of the
constants that satisfies the assumptions, and so is the refinement `LeaseSpec`, of
both specifications it is checked of. Beyond these, the type of every variable of every
module with state is a theorem, and two invariants no run checks are:
`CalledBackOnce` of `WriteQueue` and `CleanNeverStuck` of `PitchCatch`, which TLC finds
to hold on the same instances. The listed theorems are the ones named below.

`SessionProofs`, the table and the peer: `PeerInv` is `TableInv /\ echo \subseteq Echoes /\ History`
with `TableInv == SessionTypeOK /\ SidsConserved /\ Capacity /\ Table`.
`SidsConserved` is inductive only with the others: that a reply is accepted only for
an id in use needs that the magic of an id not in use is 0 (`Table`), and that it
is for the right request needs that the peer knows at most one request of an id
with a given magic, and that the session of an id in use is one the peer was told
(`History`); `OverrunOnlyWhenFull` needs that `current_max_sid` is a multiple of the
chunk and so meets the end of the vector exactly (`Capacity`). `PeerTypeCorrect`,
`SidsAreConserved`, `RepliesReachTheirRequest` and `OverrunNeedsFullTable` follow.
`TableImplementsLease`: initial states map to initial states, and each step to
`Grant`, `Answer` or a stutter.

`SessionProofs`, the composition: `RpcInv` is
`TypeOK /\ TableInv /\ Apart /\ Made /\ PoolMatchesTraffic`. The ids in use are those of
the messages outstanding, so a step that moves a message keeps them; but a step that
takes a message away must take the only one with its id.  That holds since
a message is what the session of its id holds (`PoolMatchesTraffic`), and since each
is in one place only, and once: on the way to a server, in its timers, on the
way back or lost (`Apart`).
With it `TypeCorrect`, `PoolFollowsTraffic` and `AgentImplementsLease` follow, the
last from the same lemmas about the table as for the peer.

`FramingProofs`: `CopyInBounds` is inductive with `TypeOK`, whatever the lengths read
(`TypeCorrect`, `CopyStaysInBounds`). `FramingIsExact` and `OnlyTornAborts` need
`FInv == TypeOK /\ CopyInBounds /\ (~torn => Aligned)`: what is in the buffer from the
read position on, followed by what is in the socket, is the tail of the stream of
messages that begins after the `k` messages handled. A stream that begins with
the rest of whole messages has its length and type where `process_msg` looks for
them. `Handled` and `Size` are recursive functions; what they give for one more
message is proved by looking at the smallest number of messages for which it
fails (`SmallestNumber`, from the well-foundedness of the numbers).

`ServiceMonitorProofs`: `TypeCorrect`, `ProcessesStartInOrder` and `WholeFileStarts`, for
files of any length. The inductive invariant says that the list has the elements
read so far in their order without a gap (`Ordered`), that `current` is its last node
while it grows (`Growing`), and that all before `current` was started while it
is walked (`Walked`); that the order of the launch is the order of the file is
what the three say together.

`PitchCatchProofs`: `TypeCorrect`, `TransfersStayInStep` and `EndsNeverBothWait`, for any
number of transfers, sizes and capacities. A step changes the two processes and two
sockets of one transfer, so most lemmas are about the values of one transfer. The
inductive part (`Sound`) says for each direction that what the sender has still
to send and what is in the socket is what the receiver has still to receive,
unless the receiving end was reset. That both wait for each other with empty
sockets then gives two different sums. `Queued` says that what waits in the
backlog has not been accepted, which the step needs that resets the backlog.
`CleanTransfersGoOn` is the part of `TransfersComplete` that is not about fairness: before the first fault an end is open
until its process is done (`Fresh`), since by the sums a process that is done has read
everything, so closing its socket resets nothing; what has connected is accepted
or in the backlog (`Clean`); and so no call fails, and of each transfer that is
not complete one call can go on.

`EpollProofs`: `TypeCorrect`, `WatchedKeepTheirSlots` and `EventsFindTheirListener`. A
watched file is watched once (`WatchedOnce`), its slot is marked by a descriptor that
is not 0, so `addFd` does not take it (`SlotsTaken`), and the slots of the rest of a
batch keep their listeners but for those freed since `epoll_wait` (`BatchStands`).
Closing a file frees no slot, which is what makes events in the batch safe.

`SocketsProofs`, log sockets: `TypeCorrect`, `MissedOnlyByRefusalOrEnd` and
`ReceivedOnceInOrder`. Each message up to the sender's number is accounted for
(`Accounted`), a sender that waits has a next one (`SendsTheNext`), and each socket
has messages in their order, none newer than its sender and none in common with
another (`Ordered`). Echo: `TextComesBackInOrder`. `EchoInOrder` is inductive with the
types once it is known that nobody has heard of a client that is new
(`NewIsUntouched`) and that buffers hold text, which is sent again at the end of
the input (`TypedAgain`). `EchoTypeCorrect` adds the capacities.

`ConfigProofs`, messages: `TypeCorrect`, `PublishedInTurn` and `ConfigsGoOn`, from an invariant of the
values of one connection (`Connection`): the messages on both ways go back to
different sendings; publish requests stand in their order, replies before the
requests still on the way; none is skipped; and nothing is missing as long as
the connection is up. `Cardinality` of the places of a message is then 0 or 1. Files:
`IniTypeCorrect`, `AgentListensOnItsPort` and `ServersAreUnderTheirHeader` are inductive with
`SectionIsLast`, that `section` is the name of the last header that is not broken.
Strings: `StringsReadAsMeant`. The invariant is what the field holds after reading;
the work is in the lemmas: what `trimwhitespace` returns is `Words`
(`TrimTakesWords`), what a field gives back is the start of what was copied to it
(`FieldRead`), a buffer with room for the end of a value holds the value
(`ShortBuffer`), and what follows a longer one is past what the field takes unless
blanks were in front (`LongValue`).

`MemoryProofs`, handles: `TypeCorrect`, `LateRepliesAreHarmless` and `OnlyKnownPlacesHarm`
need that a connection that was open stays in memory (`Kept`), and that a timer that
runs was started by such a connection (`PendingHold`). Writes: `OnlyDeferredAreSpoilt`
says of the sequence of all units that arrive, read or not, what is true when one
more message is added to it whole, in part, or later (`Right`).
`RequestsAreFreedOnce`: the writes that libuv still has to call back for, those whose
callback is due followed by those queued, are in the order of the writes
(`Called`); writing adds one at the end, a callback takes the first, and the loop
and a close move writes from one part to the other and keep the whole.
`WritesTypeCorrect` follows from both. Slots:
`TableTypeCorrect` and `SlotsAreSharedByWrongReturns`, whose invariant `TableInv`
is the type and the three parts of `SlotsAreKept`: `alloc_slot` takes a slot that is not in use, so
one that nobody holds or that was revoked.

Assumptions: `SessionAssumption` (the vector's size is a multiple of the chunk,
1000 and 10 in the code), `MagicAssumption`, `AgentAssumption` (a burst is not empty),
`FramingAssumption`, `MessageAssumption`, `ServiceMonitorAssumption` (what a root
element looks like), `PitchCatchAssumption`, `EpollAssumption`, `LogAssumption`,
`InProgressAssumption` (the table is not empty, and other numbers are past it),
`HandlesAssumption` (a timer is not a connection), `LogConfigAssumption` (the agent is
not one of the servers and is not without handlers), `IniAssumption` (`atoi` gives a number for each value, and the
program's name is not `host`), `ReadStringAssumption` (a field is not longer
than the buffer, and some place behind the buffer is an end), `WritesAssumption` (sizes are not 0) and `EchoAssumption` (a line fits the
buffer).

Only model-checked: the liveness properties, which the prover cannot do, and the
fairness the runs assume for them. The bounds on the length of a behaviour are
constants, and the theorems hold for any of them.

## Not modelled

- Real time: a timer may expire at any moment.
- The paths and argument lists `launch_processes` makes for the processes it starts:
  text of fixed sizes, joined.
- The clock and the reports of pitch and catch, and the signals they send to a
  process that counts.
- Contents of protobuf messages, beyond the level in a log configuration.
- The timers of the echo server, which count and print.
- The connected mode of `log_open`, which no program uses.
- The nanomsg programs and the first experiments with libuv: set-up in a straight
  line and calls of a library, with no state of their own that anything reads.
- The small utilities (`strlcpy`, constants) and the protocol definitions, whose
  code protoc generates.
- Handlers declared `int` that end without `return` (`handle_std_reply`,
  `start_new_timer`, `register_cb`): undefined in C++, but the value is used
  nowhere.
- `ib_sessions`, `session_map`, timestamps, the magic and the data of a slot:
  written or declared, never read.
- Code nothing calls: `validate_pb_msg_common`, `launch_processes_custom_fork`.

## Plan

What is left, in this order:

1. What an echo client gets as a refinement of a queue, and the same for `Framing` as
   long as no read is torn.
2. `LoopHandles` and `WriteQueue` composed with `Rpc`, so that a reply, its timer and
   its handle are one state.
3. The order in which `launch_processes` fills a process's arguments, if a use of it
   appears that depends on more than the text.
