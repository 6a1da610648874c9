# A TLA+ model of flockwave-conn

This directory holds TLA+ modules that model the connections, listeners, channels,
factories and the supervision of `flockwave-conn` (`src/src/flockwave`), the TLC configurations
that check them, and TLAPS proofs of what matters most for every number of
tasks. Paths below are relative to `src/src/flockwave`.

## The system

`flockwave-conn` gives a uniform interface to connections (sockets, streams,
serial ports, files, processes) in programs written with Trio.

| Component | State | Operations | Interacts with |
|---|---|---|---|
| state machine (`connections/base.py`, `ConnectionBase`) | `_state`, the flags `_is_connected`, `_is_disconnected` | `open()`, `close()`, `wait_until_...()`, `_set_state()` | base class of every connection; any task may call any of it |
| task connections (`TaskConnectionBase`) | `_nursery`, `_cancel_scope`, `_closed_event`, a background task | `assign_nursery()`, `_open()`, `_close()`, the task | the task calls `close()` when it ends |
| socket connections (`connections/socket.py`) | `_socket`, addresses | `_open()`, `_close()`, `read()`, `write()`, `accept()`, broadcasts | `read()` and `write()` call `close()` |
| stream connections (`connections/stream.py`) | `_stream` | `_open()`, `_close()`, `read()`, `write()` | `read()` calls `close()` |
| supervision (`connections/supervision.py`) | `_entries`, the command queue, the phase of each `supervise()` loop | `add()`, `remove()`, `run()`, `supervise()` | opens and closes connections, asks the policy |
| listeners (`listeners/base.py`, `listeners/socket.py`) | the state machine again, `_cancel_scope`, `_task_exited`, a background task | `open()`, `close()`, the task | the task starts a second task that calls `close()` |
| descriptors and files (`FDConnectionBase`, `connections/file.py`) | file object, file handle | `_open()`, `_close()`, `read()`, `write()` | |
| processes (`connections/process.py`) | process, pipes, exit code | `_open()`, `_close()` with terminate, wait, kill | the operating system |
| serial ports (`connections/serial.py`) | the stream, `_resolved_path` | `_create_stream()`, `_close()`, `receive_some()` | a stream connection; the reader may close the stream below it |
| loopback connections (`connections/channel.py`) | `_tx`, `_rx`, the ends of two memory channels | `_close()`, `read()`, `write()` | the other end of the pair |
| message channels (`channels/message.py`, `channels/parser.py`) | `_pending` | `receive()`, `send()`, `broadcast()` | a connection below, an application or an RPC session above |
| RPC (`channels/rpc.py`) | pending requests, the outbound queue, two tasks | `serve_rpc_requests()`, `send_request()` | a message channel below, a handler above |
| factories (`connections/factory.py`, `listeners/factory.py`) | the registries of classes and of middleware | `register()`, `unregister()`, `use()`, `create()` | any code that makes connections |
| middleware (`connections/middleware/`) | the wrapped connection | `read()`, `write()` | stand between a connection and its user |
| servers (`connections/servers.py`) | the socket and the file of a UNIX domain socket | `_create()`, `aclose()` | the listeners above, the file system and other processes below |

What is hard about this code:

* *Interleavings.* Trio tasks are cooperative: the code between two checkpoints
  is atomic, and every `await` is a place where others run. `open()` and
  `close()` look at the state once and act on it after an `await`.
* *Failure and cancellation.* `_open()`, `_close()`, a background task or a whole
  nursery may fail or be cancelled at any checkpoint.
* *Late actors.* Readers, background tasks and close tasks call `close()` on a
  connection that others may have closed and reopened since.
* *Wake-ups.* Raising a flag makes its waiters runnable; they run later, in any
  order, when the flag may be down again.
* *Several users of one thing.* Tasks that share a message channel, contexts that
  override the same name, processes that use the same path for their sockets.

The hazards, with their lines, are listed in `PROJECT.json`.

## The modules

`ConnectionStates` has the four states. `ConnectionLifecycle` is the abstract
specification: what a connection promises (`Connection.open()` and
`Connection.close()`).

**`ConnectionBase`** models the state machine. Its variables are the attributes
`_state`, `_is_connected`, `_is_disconnected`, the place `pc` of each task inside
the methods, and `woken`, the tasks that a raised flag has made runnable but that
have not run yet (this is how `AsyncBool.wait_value()` of `trio_util` behaves:
a waiter that is released does not look at the value again). A call either
*joins* an attempt of its own kind (it waits and returns), *queues* behind an
attempt of the other kind (it waits and then goes on to its own attempt without
looking at the state again: `base.py` lines 290-293 and 315-318), or starts an
attempt. `OpenStarts`/`OpenEnds` and `CloseStarts`/`CloseEnds` are the two halves
of an attempt around its `await`, the second with the `finally` block;
`OpenAtOnce` and `CloseAtOnce` are attempts without a checkpoint.

The *discipline* (`Disciplined = TRUE`): while a call waits in the queue, no other
call of the same kind is made that would start or await an attempt of its own.
Without it another call may get between the end of the attempt and the resumption of the
queued one, which then goes on in the wrong state; the finding
`SocketConnectionClosedTwice` shows this for `close()`. The code does not enforce it; programs in
which one task owns a connection follow it by themselves.

**`SocketConnection`**, **`StreamConnection`**, **`TaskConnection`** and
**`TrioListener`** each INSTANCE `ConnectionBase` and compose its actions with what
the class adds. `SocketConnection` has the socket and the set `live` of sockets
open in the operating system, and calls that wait on a socket and may end with a
`close()`. `StreamConnection` has the stream and the readers; `supply` tells apart the
connections that make a stream whenever they are opened (`TCPStreamConnection`,
`StreamConnection`), once (`IncomingTCPStreamConnection`) or never, because they are born
open (`StreamWrapperConnection`). `TaskConnection` and
`TrioListener` have the background tasks ("runs"): a run is `starting` until it
calls `started()`, then `running`, and finally over; `scope` and `event` say which
run the cancel scope and the event of the connection belong to. `ListenerBase` is
`ConnectionBase` under other names, so that `TrioListener` uses the same actions. A listener
that was not given a nursery refuses every `open()` (`nursery`). Disciplined callers of a
listener also let the close task of an earlier run finish before they open it again
(`NothingLeftOver`). They have no means to see that task, so this is an assumption about the
program around them and no rule that they could follow; the finding `TrioListenerLeftover` shows
what happens otherwise.

**`UDPListener`** extends `SocketConnection` with the addresses of
`UDPListenerConnection` and its subclasses: the broadcast address that is inferred when
the socket is bound, the one that the user has set, and the broadcast port, which is
taken from the first socket that the connection had and kept for the later ones
(`connections/socket.py:700`).

**`ProcessConnection`** models `connections/process.py`: a `ConnectionBase` that owns a
process. `_close()` takes the process out of the connection, asks it to terminate,
waits, kills it when the time is up, and stores its exit code. The process may end by
itself at any time, obey, or resist until it is killed.

**`Supervision`** models the loop of `supervise()` per connection (`phase`), the
`_entries` and commands of the `ConnectionSupervisor`, tasks started with
`start_soon()` that have not run yet (`spawned`), cancelled scopes, and the
`close()` after the loop (`closing`), which runs inside the scope that `remove()`
cancels. A connection is either under the supervisor or under a direct call of
`supervise()` (`direct`). Others act on the same connections: readers close a connection whose peer is
gone, at once or, if its `_close()` has a checkpoint, in two steps during which it is DISCONNECTING and
after which it may be CONNECTED again; and the owner of a connection in `Owned` opens it, which makes it
CONNECTING for a while (`others`). The loop waits for such an attempt or joins it, and a task that is
to raise an exception waits for somebody else's `close()` first (`joined`). Commands come in any order:
callers cannot see when a command has had its effect, and nothing is assumed of them. Listener connections accept clients, whose tasks run in the
nursery of the supervisor (`clients`). The policy is a set of answers, each of which may be
given at any time.

**`RpcSession`** models `serve_rpc_requests()` over a channel whose peer may answer a
request late, twice or never and may send requests of its own. Its variables are
the place of each call of `send_request()` (`call`), the futures of
`pending_requests`, the queue of length zero with the senders blocked in it, what the
inbound and the outbound task are doing, and whether the body of the context manager,
its cancel scope and the nursery are alive. A handler may make calls, too, which
blocks the inbound task until they end. Trio ends a wait in two steps: the deadline or a cancellation
makes the call runnable with an exception (`TimesOut`, `Cancelled`), and the call removes its future
when it runs again (`GivesUp`). In between the inbound task may still find the future in the map and
set it, which does not help the call any more. `FutureMap` is not part of the repository: it
is modelled as its use suggests, `new()` registers the future at once and leaving
the context removes it. The time limit is taken to be longer than one turn of Trio's scheduler, so that
a call whose future is set when it comes to wait gets the answer.

**`SerialPort`** extends `StreamConnection` with serial ports (`supply = "port"`): the
path of the device that was found, which is stored before the port is opened, and the
reader that closes the stream by itself when the second attempt to read fails
(`connections/serial.py:172-180`), one checkpoint before `StreamConnectionBase.read()`
closes the connection. Nothing waits while a port is opened, so that an `open()` is one
step. The stream is that of POSIX systems.

**`MessageChannel`** extends `ConnectionBase` and has two kinds of behaviours. If
`loopback` is false, this is any connection: the steps are those of `ConnectionBase`,
by all tasks. If it is true, the connection is a `ChannelConnection`, one end of a
loopback pair, whose `_close()` closes two channel ends with a checkpoint after each;
the memory channel below it has a buffer, the data of a blocked sender and the receivers
in the order of their arrival; and `receive()` of `MessageChannel` (or `ParserChannel`, which
has the same code) reads data until the parser finds a message, and keeps the rest in
`_pending`. A datum is named by its number and a message by its place in it. The parser
is a choice: a datum has no message, two messages, or it is garbage, on which the parser
raises, maybe after its first message has been added to `_pending` already.

**`UnixListener`** extends `TrioListener` with the socket file of `UnixSocketListener`.
Each run is a server that puts its socket at the path (created under a temporary name and
renamed, in a thread), and that closes its socket, tries to connect to the path,
compares the inodes and unlinks the file when it is stopped. If the event loop is kept busy for a
second after the socket was closed, the deadline of `aclose()` passes and the rest is skipped
(`MissesDeadline`). The last three are system calls
with no checkpoint between them: the tasks of the listener are blocked meanwhile, but
another process may act between them. The other process has a server of the same kind,
which may crash and come back.

**`ConnectionFactory`** models the registries and the `use()` contexts of `Factory`, and
`create()`: the class and the middleware that the names stand for are looked up first,
then the stack is made. The names in `Shared` are used by several tasks, whose contexts may overlap;
the contexts of the other names are nested, and those names are not registered or
unregistered within their contexts. **`ScopedNames`** is the abstract specification of
that: a name means what its innermost context says.

`MCSocketConnection`, `MCUDPListener` and `MCSupervision` add what TLC needs for these
three (symmetry and a set of answers); the other specifications are checked as they are.
The proofs are in modules of their own: `ConnectionBaseProofs`, `UDPListenerProofs`,
`SerialPortProofs`, `ProcessConnectionProofs`, `UnixListenerProofs`, `KeptOpenProofs` (task
connections and the supervisor), `ChannelProofs` (message channels and factories) and
`RpcSessionProofs`. Each extends the modules that it is about.
Operators marked "Mutant" are variants of the definition below them with a
plausible mistake; they are not used by the specifications and serve to show that
the properties notice the mistake.

Two refinements are stated: the connections implement `ConnectionLifecycle`
(`ImplementsLifecycle`, checked with a UDP listener and proved), and the factory implements
`ScopedNames` (`ImplementsScopedNames`, checked and proved). The mapping of the latter drops the shared names and
takes what a name was registered for outside of its contexts from its outermost context.

### Scheduling assumptions

A step is the code between two checkpoints. Two rules of Trio's scheduler are
used beyond that: tasks that are runnable run before the events that complete a
network operation are looked for (`Settled` in `StreamConnection`), and a task
started with `start_soon()` runs before a `nursery.start()` that was called later
returns (`OpenSucceeds` in `TrioListener`).

## The runs

| Run | Shows | Bounds |
|---|---|---|
| `MessageChannel` | Any connection: no transitional state without a task that ends it, no waiter left on a raised flag, and every raised flag gets its waiters going. A loopback connection in addition: every message is in one place, is delivered once, and is delivered as long as receivers keep calling `receive()`; messages of one datum keep their order; a connection closed half way is not DISCONNECTED. | 3 tasks (one attempt, one call that waits, one that overtakes it), of which 2 use the loopback connection; 2 receivers, a buffer of 1, 2 data of two messages each: one in the buffer or held by a receiver while the other waits or is parsed |
| `UDPListener` | No socket is leaked, CONNECTED means there is an open socket, a connection without a socket has no inferred broadcast address (unless it is a multicast connection, see below), and the lifecycle is implemented. | 4 tasks, 4 sockets (while one task opens, the others hold at most three), 2 ports |
| `SocketConnectionClosedTwice` | *Violation*: a `close()` that waited for an `open()` tears down a connection that another `close()` has closed before it ran again. | 3 tasks |
| `SerialPort` | No stream is leaked; CONNECTED means an open stream, except after a `close()` that failed and between the two halves of a reader's work; the address is that of the open port and goes with it; all calls come back. | 3 tasks, 3 streams, 2 paths; every kind of stream connection above, and serial ports |
| `Supervision` | The loop, the `close()` after it, readers and owners never open or close a connection at the same time; lost connections come back; `remove()` closes sockets and ends the loop in every phase; once it is cancelled or crashes, `run()` returns. | a listener, and a stream with an owner; 1 command and 1 starting task in flight (every phase of a loop meets every command, and an "add" the entry of an earlier one), 1 client |
| `SupervisionRemoved` | *Violation*: `remove()` does not close a stream. | 1 connection |
| `TaskConnection` | The task of a closed connection is over or on its way out, tasks never overlap, an open connection is served or about to be closed, nobody waits forever. | 2 callers, 2 runs: the current one and one that a cancelled `close()` left behind |
| `UnixListener` | The same for listeners; the server that was started last can be reached as long as it listens, except if its file is unlinked right after `os.stat()`; no run that cleans up in time leaves a stale file. | 2 callers, 2 runs and the server of another process |
| `ProcessConnection` | No process is lost except by a cancelled `close()`, the exit code is never that of an earlier process, every `close()` ends, also with a process that ignores its termination. | 3 tasks, 3 processes: the current one and two left behind by cancelled `close()` calls |
| `RpcSession` | An answer that came before the deadline never ends in a timeout, the first answer counts, nobody waits in a queue that is not emptied, every call ends unless both peers are jammed, the end of the channel ends the session. | a request and a notification of the body, a request of the handler: two requests in flight and two senders in the queue |
| `ConnectionFactory` | Private names mean what their innermost context says and `create()` makes what its names mean. | 3 names (one shared), 2 open contexts, up to 3 layers of middleware, 2 classes |
| `TrioListenerLeftover` | *Violation*: the close task of an earlier run closes a listener that is being served. | 1 caller, 3 runs |

Names of sockets, streams and runs that nothing refers to any more are used
again, so that these bounds do not limit the length of a behaviour, only how many
of them exist at the same time.

Fairness. Trio runs every runnable task, so that woken tasks, spawned tasks and
cancelled tasks make their step (weak fairness). Attempts end: `_open()` and
`_close()` return or raise, which is a demand on the operating system that the
code makes, too (its TODO comments miss the timeouts). In `Supervision` an
`open()` that is tried again and again succeeds in the end (strong fairness);
without that nobody can promise a connection. Attempts of others end, too, but may always fail. `started()` is called by every
`_run()`, which its documentation demands. In `MessageChannel` the receivers call `receive()`
again and again. In `UnixListener` a run whose scope is cancelled closes its socket, since
the clean-up is shielded; the other process may stop at any point. In `ProcessConnection`, time
passes and a killed process ends; a terminated one may stay. In `RpcSession`, time passes and
handlers return. The peer may be a session of the same kind, whose inbound task stops reading
while it waits to write: a write ends if our own inbound task comes back to reading again and
again (strong fairness), or when the channel ends. If it does not, both sessions may wait for
each other (`Jammed`), and no timeout helps, since it starts only after the request was sent
(`channels/rpc.py:266`); `CallsEnd` says that this is the only way for a call not to end.

### What the runs found

The three violations are reported as findings in `PROJECT.json`. In addition,
modelling showed these, which no run is spent on:

* Two `open()` calls that queue behind one `close()` both open the connection, and
  the resource of the first is overwritten (`connections/base.py:318`).
* A reader that runs late closes a stream that was opened since
  (`connections/stream.py:56`).
* A task that raises leaves a `TaskConnectionBase` open
  (`connections/base.py:616`), contrary to its documentation ("closed when the task
  stopped for any reason"); `OpenMeansRunning` of `TaskConnection` names this
  exception. A listener whose nursery is cancelled stays open as well, and a later
  `close()` waits forever (`listeners/base.py:347`).
* After a cancelled `close()` of a `TaskConnectionBase` the next one does not wait
  for the task (`connections/base.py:596`); `ClosedMeansStopped` names the
  exception: such a task may still be on its way out. When it ends, it sets the event
  of its successor (`connections/base.py:614`), so that the `close()` of the successor
  does not wait, either.
* The assertion of `ConnectionSupervisor.supervise()` (`connections/supervision.py:157`) fails if a
  connection is added while it has an entry: two `add()` calls, or a `remove()` followed by an `add()`
  that is handled before the task has ended. It stops the supervisor with all its connections
  (`AssertionFails`; `RunEnds` shows that everything ends then). A `remove()` that is handled
  before the task of its `add()` has started finds no entry and is lost (line 132).
* A loop that joins an `open()` of the owner waits until the connection is open: if that `open()` fails,
  the policy is not asked and nobody tries again (`connections/base.py:314`); `LostIsReopened` exempts it.
* `ConnectionSupervisor` ignores the policy given to `add()`
  (`connections/supervision.py:173`); an exception that a policy raises when it is
  told of a successful `open()` is handed to the policy itself (line 276); and
  `supervise()` does not close the connection when the policy says so (line 282).
* The broadcast port of a UDP listener comes from its first socket and is kept when the
  connection is reopened on another port (`connections/socket.py:700`), although its
  documentation speaks of the port that the socket is bound to. A multicast
  connection that cannot join its group keeps the broadcast address that it has
  stored before (`connections/socket.py:944`); `AddressNeedsSocket` names the exception.
* A cancelled `close()` of a `ProcessConnection` leaves the process alive and unknown
  to the connection (`connections/process.py:135`).
* Two RPC sessions that answer requests of each other over full pipes wait for each other
  for good (see the fairness of `RpcSession`). A future is stored under `str()` of the id of its request
  (`channels/rpc.py:258`) and looked up under the id of the response as it is (line 165): with
  ids that are not strings, no response is ever found. `RpcSession` assumes
  strings (`StringIds`).
* `use()` puts back what its name stood for when it was entered. If two tasks
  override one name at the same time, leaving the first context restores a class that the second
  still overrides, and leaving the second brings back a class whose context is over, or raises
  a `KeyError` (`connections/factory.py:308-315`). The shared name of `ConnectionFactory` does this.
* `broadcast()` is not known to the middleware and reaches the connection below it: it is neither
  stopped by `rd`, which "disables writing to the connection, making it read-only"
  (`connections/factory.py:347`), nor logged by `log` (`channels/message.py:195`). This is by inspection.
* A loopback connection that was closed cannot be used again, but `open()` succeeds: it is
  CONNECTED with both of its channel ends closed (`connections/channel.py:32`).
* With several receivers on one message channel, the messages of different data may be
  delivered in another order than they were sent in, and messages may stay in `_pending` while a
  receiver waits for more data; they are delivered when somebody calls `receive()` again
  (`channels/message.py:96`). A datum that is empty is taken for the end of the channel (line 154).
* A reader of a serial port that was told of an error closes the stream, and the
  connection later, if it is not cancelled in between; until then the connection is CONNECTED with a
  closed stream (`connections/serial.py:176`), which `ConnectedHasPort` names, together with the
  connection that a failed or cancelled `close()` leaves CONNECTED without a stream
  (`connections/stream.py:40`). Since an `open()` of a port
  never waits, a late reader may close the port that was opened since.
* `address` of a serial port is documented as "`None` if the serial port is not connected"
  (`connections/serial.py:273-275`); after an `open()` that failed it is the path that could not be opened,
  until the next `open()` or `close()` (line 308). `AddressIsCurrent` claims nothing about it then (`failed`).
* The socket file of a server may be unlinked by another server if it is put at the path
  between `os.stat()` and `os.unlink()` (`connections/servers.py:117`); `robbed` records this. A server whose clean-up misses its
  deadline leaves its file behind (line 94; `forgotten`). The
  umask is set for the whole process while the socket is bound (line 66), as its comment says.
* `EncoderChannel` keeps `writer.writer` instead of `writer.write` when it is given a connection
  (`channels/encoder.py`), by inspection.
* `FDConnectionBase` stores whether it owns its file handle and never looks at it:
  `_close()` detaches the file without closing it (`connections/base.py:433`).
* A client whose task raises, and a listener that was added without a task, stop the
  supervisor with all its connections (`connections/supervision.py:191` and 164). A
  client that is accepted while `run()` is ending is neither served nor closed, and
  `IncomingTCPStreamConnection` does not close a stored socket that was never opened.

## The proofs

`ConnectionBaseProofs` proves, for every set of tasks and every set of failures:

* `TypeCorrect`: the type invariant, which is only proved.
* `NoOrphans`: `NoOrphanTransition`. It is inductive together with the type
  invariant: a task that starts an attempt is inside it, and it leaves with the
  state set by the `finally` block.
* `NoWakeupIsLost`: `NoLostWakeup`. The strengthening `FlagsMirrorState` says that
  each flag is up exactly in its own state; without it a flag that is already up
  could be "raised" without releasing anybody.
* `OneAttempt` and `Refinement`, for disciplined callers: attempts never overlap and
  `ConnectionBase` implements `ConnectionLifecycle`. The inductive invariant says
  that there is an attempt exactly in the transitional states and that it is the
  only one, that at most one call waits in each queue, and that a released call in
  the queue finds the state it has waited for.

### What is built on a connection

The modules of connections and listeners have the same first part: every step is a step of the
`ConnectionBase` inside or leaves it alone, so that what `ConnectionBaseProofs` says of
disciplined callers (`DisciplineInv`) holds there too. The lemma `StateIsAsFound` is what the rest
needs of it: a call that is past its dispatch, even one that comes from the queue, finds the state
that it was made for. The second part is an invariant of the resource.

`UDPListenerProofs`, for every set of tasks, sockets and ports:

* `SocketRefinement`, for disciplined callers: a UDP listener connection implements
  `ConnectionLifecycle`, although its readers and writers call `close()` themselves
  (`SocketStep`, `UDPListenerIsConnection`). The lemmas `SameConnection` and `SameLifecycle` say
  that the instance of `ConnectionBase` in `SocketConnection` and the one that the proofs are about
  are the same, definition by definition.
* `SocketsDoNotLeak` (`NoSocketLeak`) and `SocketIsThere` (`ConnectedHasSocket`), for disciplined
  callers. `SocketInv` makes both inductive: the state tells whether there is a socket, and
  DISCONNECTING is never seen because `_close()` has no checkpoint.
* `AddressHasSocket` (`AddressNeedsSocket`), for callers of any kind.

`SerialPortProofs`, for disciplined callers and every supply of streams and ports:
`StreamsDoNotLeak` (`NoStreamLeak`), `StreamIsThere` (`ConnectedHasPort`) and
`AddressesAreCurrent` (`AddressIsCurrent`). `StreamInv` says that only the current stream can be
open, and only while the connection is CONNECTED: `aclose()` closes it before its checkpoint; and that a
connection is CONNECTED without a stream only if its last `close()` failed. Wrapped
streams are open from the start, so that the invariant of `ConnectionBase` is established for
them anew instead of being carried over with its specification. `AddressInv` needs that a
stream from outside never passes through CONNECTING.

`ProcessConnectionProofs`, for disciplined callers and every supply of processes:
`ProcessesDoNotLeak` (`NoProcessLeak`) and `ExitCodesAreCurrent` (`ExitCodeIsCurrent`). The
strengthening `HoldersMatchPlaces` says that a task holds a process exactly while it is inside
`_open()` or `_close()`; together with the single attempt this leaves one holder at a time.

`UnixListenerProofs`, for every set of callers and runs:

* `LatestServerIsReachable` and `NoStaleFiles` (`LatestIsReachable`, `NoStaleFile`), for callers of
  any kind: only the calls of the operating system matter, whoever makes them. `FileInv` adds
  that the latest server listens and that no server takes a file for its own that is not.
* `ClosedListenerIsStopped` (`ClosedMeansStopped` of `TrioListener`), for disciplined callers,
  whose `close()` may even be cancelled. `RunInv` says that an active run is the one that is
  being opened or the one whose event the listener has, and that the event for which `close()`
  waits is set by the end of this run only.
* `OpenListenerIsServed` (`OpenMeansRunning` of `TrioListener`), for disciplined callers whose
  `close()` is not cancelled (`"close"` is not in `Failures`): a cancelled `close()` leaves a
  listener OPEN that was told to stop. `ServeInv` follows the run from `started()` to the OPEN
  listener, and its close task through the queue.
`KeptOpenProofs`, for every set of callers and runs of a task connection:

* `ClosedConnectionIsStopped` (`ClosedMeansStopped` of `TaskConnection`), for disciplined callers,
  whatever fails or is cancelled. A connection, unlike a listener, may lose track of a run, which
  then sets the event of another. `TaskInv` says how far that goes: a run that was not left behind
  is being opened or is the one whose event the connection has (`ServingRunIsKnown`); this event
  is set only by the end of its run or by a run that was left behind, and then its run counts as
  left behind, too (`SetMeansOver`); and an open connection lacks its scope only after a
  cancelled `close()`, so that `CloseAtOnce` abandons nothing that was not abandoned before
  (`HoldersAgree`).
* `OpenConnectionIsKept` (`OpenMeansRunning` of `TaskConnection`), for disciplined callers, whatever
  fails or is cancelled. `KeptInv` follows the run from `started()` to the open connection: a run
  that ends while `open()` has not returned yet queues up to close, and leaves the queue for its own
  attempt or crashes with its nursery.

`ChannelProofs`, for callers of any kind, every set of users and receivers and every size
of the buffer:

* `HalfClosedCountsAsOpen` (`HalfClosedIsOpen`). `EndsInv` says why without any discipline: as long as
  both ends are open nobody has tried to close, so that there is one attempt to open at most, and
  an open() gets past a half closed connection only after a `close()` that closed both ends.
* `PartsAreInOrder` (`PartsInOrder`). `OrderInv` says that each pending message follows its
  predecessor, and the first one a message that was received.
* `MessagesAreUnique` (`EachMessageOnce`). `OnceInv` counts without numbers: a message lies in the
  buffer at one place or is held by one receiver or is settled, never two of these, and a receiver
  waits at most once and with empty hands. The lemmas say what adding a datum, handing it to a
  receiver, taking it out and letting it go do to that. The cardinalities of the property follow at
  the end.

### The other components

`RpcSessionProofs`, for every set of calls:

* `QueuesAreServed` (`QueueIsServed`). The inductive part is `QueueAgrees`: the queue holds exactly those
  who wait for it, and it is empty when its task is idle or gone.
* `NoFutureOutlivesItsCall` (`FuturesAreRemoved`). `FutureInv` adds that a future is in the map as
  long as its call is in progress and has an answer only if the request was written.
* `NoTimeoutAfterAnswer` (`AnswerBeatsTimeout`), for protocols that identify requests by strings
  (`StringIds`); for others the property says nothing. An answer that comes between the deadline and the
  resumption of the call is too late, and the call ends in a timeout.
* `FirstAnswerDecides` (`FirstAnswerCounts`), an action property, from the same invariants.

`KeptOpenProofs`, for every set of supervised connections, every policy and any number of commands:

* `AttemptsExclude` (`OneAttemptAtATime`), for any commands of the callers and any attempts of others.
  `LoopInv` adds that only what is in a loop is cancelled or supervised directly (`ScopesMatchLoops`).
* `RemovedSocketsAreClosed` (`SocketRemovedIsClosed`), an action property, from that invariant.

`ChannelProofs`, for every set of names, classes and middleware, every registry and
every number of contexts and layers:

* `NamesAreScoped` (`ImplementsScopedNames`). `NestingInv` says that each context of a name that is
  not shared remembers what the one around it says, and that the registry has what the
  innermost one says; then the meaning of the name in `ScopedNames` is its entry
  (`MeansItsEntry`), restoring the old entry brings back the old meaning (`LeaveStep`), and
  `create()` looks up what its names mean (`MadeIsMeant`). Steps of shared names, in whatever order
  their contexts are left, are invisible (`SharedStep`). `Wrapped` is a recursive function over the
  layers of a stack. What it computes is proved in two steps (`WrappedInOrder`): the closed form
  satisfies the recursion equation, so that a function that does exists, and every function
  that does agrees with it on each layer, by induction. The induction is over sets of numbers and
  not over predicates: a set of numbers that is not all of Nat has a least element outside of it
  (`WFMin` of the library; `SetInduction`, `IntervalInduction`).

### Assumptions

Beyond the discipline of the callers and what is named above, the assumptions on the constants say
that different things are different: `None` is no socket, port, process, stream, run, call or
datum, `Nothing` is no class, middleware or result of `create()`, `Reply` is no call, a caller is
no run, and the server of the other process is none of the listener's. They are named `...Assumption` in the modules that declare the constants.

### Only model-checked

Liveness, which is out of reach of the prover: `RaisedFlagReleases`, `CallsReturn`,
`WrittenIsReceived`, `CloseEndsInTime`, `CallsEnd`, `SessionEnds`, `LostIsReopened`, `RemovalEnds`,
`RunEnds` and the two `StoppedRunCloses`. Every invariant, action property and refinement that a
passing run checks is proved as well.

## Not modelled

* Socket bindings, hexdumps, the parsing of URLs and the matching of USB properties: look-ups in
  tables of the operating system, or conversions.
* File descriptor connections: what happens to a detached descriptor is up to the garbage
  collector.
* The methods of the middleware: they forward, drop or log a call and have no state.
* The descriptor of pySerial: the stream works on a duplicate of it (`connections/serial.py:155`) and closes
  only that one; the original is closed when pySerial's object is collected. A stream counts as closed
  when the duplicate is.
* The threaded serial stream of Windows: a port that is closed by one thread while another reads
  from it, whose behaviour is that of the driver.
* Signals: blinker handlers run inside `_set_state()` and belong to the applications. One that raises
  leaves the state changed and the flags as they were (`connections/base.py:257`).
* Sockets that were created and not stored when binding or connecting them fails: they are left to
  the garbage collector (`connections/socket.py:391`).
* Encoders and parsers (conversions) and the lossy channel, which drops messages at random.
* Waiting for data, which is a step that may happen at any time.

## Maintenance

When a method changes, its action changes with it (`PROJECT.json` maps the lines to the definitions);
then the run of its module tells cheaply whether the properties still hold, and the step
of the proof that is named after the action is the one to look at. A property that fails for a
good reason is a change of the promise to the users of the class and belongs in its documentation
first.
