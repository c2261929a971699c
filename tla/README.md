# Gd_rpc: a TLA+ model with proofs

Gd_rpc is a C++ RPC framework: a reactor network library (`gdrpc/net`), an
asynchronous logger and a time wheel (`gdrpc/util`), a message codec
(`gdrpc/protocol`) and an RPC layer with service discovery (`gdrpc/rpc`).
This directory models the parts of it that carry state across threads,
callbacks and time, checks them with TLC on small instances and proves the
central properties with TLAPS for all values of the constants.

## Inventory

| component | state | operations | interacts through |
|---|---|---|---|
| `EventLoop` | `quit_`, `looping_`, `calling_pending_functors_`, `pending_functors_` (mutex), eventfd | `loop`, `quit`, `runInLoop`, `queueInLoop`, `wakeup`, `runAfter` | every thread queues functors; the poller's channels call back |
| `EPollPoller`, `Channel` | registered channels, `events_`, `state_`, `tie_` | `poll`, `updateChannel`, `removeChannel`, `handleEvent` | called on the loop thread only |
| `TimeWheel` | slots of tasks, `currentSlot_`, `starttime_` | `addTask`, `delTask`, `tick`, `takeAllTimeout` | `EventLoop::doScheduledFunctors`; tasks add tasks |
| `TcpConnection` | `state_` (atomic), input and output `Buffer`, its channel | `send`, `shutdown`, `forceClose`, `connectEstablished`, `connectDestroyed`, handlers | any thread that holds a `shared_ptr`; the owner's close callback |
| `TcpConnection::Buffer` | vector, `readerIndex_`, `writerIndex_` | `append`, `makeSpace`, `readFd`, `retrieve` | its connection |
| `AsyncLogging` | `currentBuffer_`, `nextBuffer_`, `buffers_` (mutex), `running_`, `latch_` | `append`, `threadFunc`, `stop` | any thread appends, one background thread writes |
| `LogFile` | current file, `lastRoll_`, `lastFlush_` | `append`, `rollFile`, `flush` | `AsyncLogging`'s thread |
| `Connector`, `TcpClient` | `connect_`, `state_`, `channel_`, `retryDelayMs_`; `connection_` | `start`, `stop`, `restart`, `retry`; `connect`, `disconnect`, `stop`, `removeConnection` | loop, timers, user threads |
| `TcpServer`, `Acceptor` | `connections_`, `nextConnId_` | `start`, `newConnection`, `removeConnectionInLoop` | main loop and sub-loops |
| `EventLoopThread(Pool)` | `loop_`, `exiting_`, `thread_`; `loops_`, `next_` | `startLoop`, `threadFunc`, destructor; `start`, `getNextLoop` | owns the sub-loops |
| `ProtocolCodec` | none (the connection's input buffer) | `send`, `onMessage` | `rpcChannelCli`, `RpcServer` |
| `rpcChannelCli`, `RpcServer` | `outstandings_`, `id_`; `services_` | `CallMethod`, `onRpcHeader`; `Run`, `SendRpcResponse` | client and server ends of a call |
| `ZkClient` | session | `Start`, `Append`, `GetData` | ZooKeeper, shared by all servers |
| `RpcCluster`, `RoundRobin` | backends and weights | `call`, `Add`, `Next` | `ZkClient`, clients |

What is hard in this code, in short (PROJECT.json lists each place): the
wakeup protocol between queueing threads and a sleeping loop; functors queued
by functors; tasks that change the wheel while it ticks; partial writes;
`shutdown`, `forceClose`, the peer and the owner ending one connection at
once; `state_` tested on one thread and acted on by another; the exchange of
buffers between `append` and the writer; members used by a thread that starts
before they are constructed; retries that race their own timers; a close that
crosses from a sub-loop to the main loop; destructors that queue functors on
loops which then quit; a condition variable and a semaphore between the user's
thread and the loop; files named by a clock that may be set back; servers that
read, extend and write one znode at once.

## Modules

| module | models | role |
|---|---|---|
| `EventLoop` | `net/eventLoop.cpp`, `poll` of `net/epoll_poller.cpp` | loop thread and callers, one action per step between two points where another thread can interfere |
| `TaskQueue` | - | what the loop promises its callers: a FIFO, each task started once |
| `TimeWheel` | `util/timingWheel.*` | wheel, iterator of `tick`, re-entrant tasks, the clock |
| `CountdownTimers` | - | what a timer facility promises: each timer fires in its own tick |
| `TcpConnection` | `net/tcpConnection.cpp`, `net/channel.cpp`, `updateChannel`, the owner's part of `net/tcpServer.cpp` | one connection with its loop, queue, owner, user threads, kernel socket and peer |
| `Buffer` | `TcpConnection::Buffer` | byte-accurate vector with its two indices |
| `ByteQueue` | - | what a buffer promises: bytes in order |
| `Connector` | `net/connector.cpp`, `net/tcpClient.cpp` | attempts, retries, hand-over and loss of a connection, calls from other threads |
| `AsyncLogging` | `util/async_log.*` without `LogFile` | buffers, background thread, construction and `stop` |
| `LogFile` | `AsyncLogging::LogFile` in `util/async_log.*`, the clock of `util/timestamp.cpp` | files, names, counters, roll and flush decisions |
| `TcpServer` | `net/tcpServer.cpp`, `net/acceptor.cpp`, `net/eventLoop_thread*.cpp`, `net/eventLoop_threadPool.*`, `main` of the echo server | main loop, pool loops, connections, destructor |
| `EchoClient` | `net/tcpClient.cpp`, `example/example_echoclient.cpp`, `net/eventLoop_thread.cpp` | a session: main thread against loop thread, loss and reconnection, destructors |
| `ServiceRegistry` | `rpc/zkClient.cpp`, `Run` of `rpc/rpcServer.cpp` | registration by several servers with sessions, watchers and crashes |
| `MC*` | - | constants of the TLC runs |
| `*Proofs` | - | theorems, one module for each component; `AsyncLoggingProofs` has those of `LogFile` too |

`TcpConnection` composes with `EventLoop` through `TaskQueue`: it uses a queue
with a swapped batch, which `EventLoop` is shown to implement. `TcpServer` and
`EchoClient` compose several loops of that kind with the threads that own them;
a connection is reduced there to what crosses the threads. `EchoClient` sees the
attempts of `Connector` as two flags: one is scheduled or under way, and a retry
timer is set.

### How the models correspond to the code

*EventLoop.* `pc` is the position of the loop thread in `loop()`. `queueInLoop`
is two actions, the push under `mutex_` and the test with `wakeup()`; so is
`quit()`. The eventfd counter is reduced to "readable". `poll` may return for a
timeout, an event or an error. `queuedEarly` marks functors the owner queued
before `loop()`: those are not covered by a wakeup in the code and wait for the
first poll's timeout.

*TimeWheel.* `slot[t]` is the list a task is in, `visited` the part of the
current list the iterator has passed; the order of a list is any order, which
includes the code's. `executing` is the task inside `exec()`, during which user
code may call `addTask` and `delTask`. `times_` of a new task is any value of
`Garbage`, since the constructor leaves it uninitialised. `lag` is the clock
minus `starttime_`; it may be set back. `addTask` takes an `int64_t` and `Task`
keeps `int`s: `ToInt` is that conversion, and `TimeoutAssumption` leaves out the
timeouts that do not survive it (more than 2^31 - 1 ms, 24 days; the callers in
the repository ask for at most 30 s). With one of them `FiresOnTime` is false of
the code.

*TcpConnection.* Handlers of the loop thread are atomic with respect to each
other, callbacks into user code end an action; calls from other threads are two
steps (the test or exchange of `state_`, then `queueInLoop`). `chan`,
`inEpoll`, `reading` and `writing` are the channel's registration. A message is
two bytes so that a write can take half of one. `kept` stands for the local vector
of `doPendingFunctors`: a functor that has run keeps its `shared_ptr` to the end
of the batch (`Holds`, `Alive`). The owner may be destroyed wherever the loop
thread runs user code: in a timer, in the handler of another channel, in a
callback, in a functor. If that is between the poll and this channel's handlers,
`connectDestroyed` comes first, and `handleRead` then reports the end again if
somebody else still holds the connection (`due`, `DownOnce`); if nobody does, the
handlers run on freed memory (`HandleEventFreed`). Assumed: SIGPIPE is ignored;
`LOG_FATAL` only logs, as in `util/log.cpp`; no high-water callback (nothing
sets one); reading is never disabled, so the HUP-without-IN branch of
`handleEventWithGuard` is unreachable.

*Connector.* The record `s` is what only the loop thread touches, plus the
queue; the functions `retry`, `connecting`, `handleWrite` and so on take it and
return the new one, under the names of the methods. `connect_` and `wanted`
are the two atomic flags (`Connector::connect_`, `TcpClient::connect_`), and
each store of another thread is a step. A channel is named by its descriptor;
`socket()` returns the lowest free number, so that closing a number twice can
hit a new socket. `active` is what `poll` reported and has not been handled;
an event whose channel is destroyed in between becomes `"dangling"`, and
handling it ends the behaviour, as does a null `channel_`. Restart is three
steps (the test in `removeConnection`, the stores, `startInLoop`), since
`stop()` may come in between. `disconnect()`'s shutdown shows as the peer's
close, which may come at any time; `TcpConnection` has the details. A timer may
fire again, which covers the repeated one-shot tasks of `TimeWheel`.

*Buffer.* Modelled byte by byte, with `InitialSize` and `ExtraSize` as
parameters. `peak` is a history variable.

*AsyncLogging.* A buffer is the sequence of its lines and `Size` their lengths.
`file` is what `file_` was given, buffer by buffer (`Given`: an empty buffer
writes nothing), so that it and the buffers still to be written form one
sequence, `Pipeline`, in which the order of the lines is stated.
`wait_for` may end at any time (its timeout), `notified` says whether it ends
at once. `Garbage` is what the not yet constructed `latch_` may hold: 0, or 1 for
a count that lets `acquire` pass. In that case the thread may go on before the
constructor has made the members (`thread_` is declared before them), although
the comment at `acquire` says that it blocks until then; if it locks `mutex_`
too early, that is `UsesUnconstructed`, and the model ends there.
`AssertionsHold` says that nothing else than an unconstructed `latch_` (`early`)
leads to it.

*LogFile.* A buffer is a number and a length; a file is the set of the buffers
under its name. `RollFile`, `CheckFlush` and `Due` are the parts of `append`;
`refused` and `lost` are history. Opening a name again truncates it, which is
why `rollFile` compares seconds. The clock may be set to any time between two
calls. The behaviours are those of `LogSpec`; the names differ from those of
`AsyncLogging` because one module proves about both.

*TcpServer.* Each thread has a phase: the loops test `quit_`, handle events or
run the batch they swapped. `runInLoop` is inline on the loop's own thread and a
functor otherwise. The lambda of the close callback captures `connPtr` by
reference. On the main loop it runs while `connPtr` is there. From a sub-loop it
runs later, and what was `connPtr` may then be any `shared_ptr` that frames of
that loop's thread have left there, of a connection of that loop, in use or not,
or nothing usable (`RunLambda`; `took` is history). `LiveStays` says how far the
damage can go.
`~EventLoopThread` is `QuitThread`
and the wait for `phase = "exited"`.

*EchoClient.* `main` is the position of the main thread, from `connect()` to the
end of `~EventLoopThread`; `handler` is the position of the loop thread inside a
callback, cut where the main thread can come between (`connection_` is set,
the state is set, `conn_` is set, the latch is released). `retry()` schedules the
next attempt at once and by a timer (`AttemptRefused`): the timer's attempt may
succeed when the client has a connection already, and `newConnection` then
replaces `connection_` and `conn_` (`surplus` counts these). What the first
connection carries is lost for the session, and a shutdown queued for it may find
it destroyed; the properties say `surplus = 0` where they need it. `active` is what
the poll reported, `kept` as in `TcpConnection`. The client is a local of
`main()`, so its memory is still there while the loop runs on: code that uses it
after its destructor finds the old members or ends the process (`Uses`). The last
part of the session is a race in the code: the lambdas of `~TcpClient` use the
client after it is gone, or a `connection_` that has become null; the model
reaches these ends and no property denies them. `forceClose()` does nothing to a
connection that `disconnect()` has shut down, so that the server's answer, or
the end of the loop, closes it.

*ServiceRegistry.* One action per call of the ZooKeeper client library. A call
succeeds while the session is connected; a write whose connection is lost may or
may not have been done. A znode is a sequence of lines with the offsets at which they
end, because `Append` reads it into `buf[1024]`: what lies behind `Capacity` is cut
off, in the middle of a line where one crosses it (`Cut`), and is not written back.
Where `zoo_get` failed the buffer is full of `Junk`, and is written back with the
server's line behind it; from then on every append drops the line of the one
before, so that only the last server to append is in the znode, behind garbage,
until the znode is gone. `since` (who is missing in what I have read, or has
written since) and `excused` are history; `Listed` is who can be read, which a line
behind garbage or half a line cannot. `Size` is what `RpcServer::Run` writes for a
server. A
crashed run's session ends after its timeout, and with it the znodes it created,
with every server's line in them; nobody registers again.

## Runs

| run | instance | shows |
|---|---|---|
| `event_loop` | 2 threads, 2 functors, 3 pending | no lost wakeup of a functor or of `quit`; refinement of `TaskQueue` with its liveness; `quit` stops the loop; polling is not starved |
| `time_wheel` | 3 slots, 2 tasks, timeouts -1, 2, 3, lag 2, one set-back | refinement of `CountdownTimers`; every task runs |
| `tcp_connection` | 1 thread, 2 messages of 2 bytes, 1 inbound chunk | stream, FIN after the buffer, one report of the end (two if the owner goes while a read is due), epoll registration; shutdown completes, close is noticed, connection is released |
| `tcp_connection_lifetime` | as above | *violation*: `shutdownInLoop` runs on a destroyed connection |
| `connector` | 1 thread, 1 `connect()`, 1 `stop()`, any `disconnect()`, 2 queued starts | `Inv` (no descriptor leaks, epoll knows only live channels), a wanted connection is never abandoned, `stop()` ends an attempt |
| `connector_stop` | as above | *violation*: `stopInLoop` dereferences a null `channel_` |
| `async_logging` | 5 lines, buffers of 3, at most 2 buffers, any `latch_` | assertions, constructor against thread, order and completeness, flushing, `stop` |
| `buffer` | sizes 3 and 2, chunks of 0 to 4 bytes, 5 readable | size bound, refinement of `ByteQueue` |
| `log_file` | 4 seconds, buffers of 1, 2 and 4, roll size 3, 5 appends | nothing is lost to a file opened twice, names sort like contents, size of a file |
| `tcp_server` | 0 to 2 pool threads, 3 connections | `Inv` (reports in order and once, no dead channel in a poller, turns of the pool), live connections stay owned but for those another close takes, closed ones are released, the destructor reports, threads are joined |
| `echo_client` | 3 messages, 1 loss, 1 surplus connection | `Inv` (`shutdown()` finds its connection, the count of the latch, connections only after a loss or by the timer), the latch opens on a usable connection, a notified main has its data, a waiting one is woken, the session ends |
| `registry` | 3 servers, 1 service, 1 fault, a buffer for two lines | `Inv` (no third listing, one line beyond the buffer), who may be missing from a znode and why, every server comes to serve, a dead service is forgotten |

The modules `Connector`, `TcpServer`, `EchoClient` and `ServiceRegistry` name
their type invariant and their plainer invariants together as `Inv`. The
inductive invariants (`Inv`) of the other modules are proved, see below, and the
runs check the properties that follow from them.

Why the bounds are enough. Two foreign threads and the loop thread reach every
combination of a push, a swap and a wakeup in flight; three pending functors
give a batch and newcomers at once. Three slots separate "before", "at" and
"after" the current slot, a timeout of 3 is a full turn, two tasks let one
change the other. Two messages of two bytes give a half-written message with
another behind it. Five lines fill more than the two buffers that are kept,
so buffers are dropped. In `connector`, two queued starts let a retry timer
run between a `resetChannel` and the `startInLoop` behind it, the order on which
everything depends; a second start only repeats this. `NotAbandoned` is a
property of clients that one thread calls. With two (`Threads = {t1, t2}`) TLC
finds it violated: the `wanted` stored by one thread's `connect()` survives the
other's `stop()`, which clears `connect_`; an attempt is given up without another
being scheduled, a connection closes in the same phase, `restart()` makes a new
channel, and the `resetChannel` still queued for the old one destroys it. For one
thread and any number of calls it is proved, see below. In `log_file` a buffer above
the roll size and two below it give every decision, and four seconds a clock
that goes on, back and on again. In `tcp_server` two pool threads and three
connections put two connections on one loop, which is what the dangling reference
needs, and one on another. In `time_wheel` `MaxInt` is 3, the longest timeout.
In `echo_client` a loss and a surplus connection give two connections of a client
one after the other and at once, and let the latch exceed its maximum; the third
connection is the first that can find it so. In `registry` a buffer of 5 and lines
of 3, 2 and 2 give a znode that fits, that fills the buffer and that is cut in the
middle of a line, which in the code takes some forty servers or one failed read;
three servers are needed for one to write between a second one's read and
write while a third reads the result; one fault is a crash or a lost connection
at any step. Part of the safety properties is also proved without bounds, see
below.

Some facts of the code that were met while modelling and have no run: a task
added by `addTask` may be repeated, because its `times_` is never initialised
(`time_wheel` allows for it); `handleWrite` sends the FIN on `kDisconnecting`
although data accepted by `send()` is still queued in the loop (`FinAfterBuffer`
is about `outputBuffer_` only); `Append` passes version -1 to `zoo_set`, so it
overwrites what came after its read, and reads no more than 1024 bytes
(`ListedUnlessExcused` names both); a client whose first attempt was refused may
replace a good connection when the retry timer fires (`surplus`); the lambda of a
close may remove a connection in use (`took`); a server destroyed between the poll
and the handlers may report a connection down twice (`due`).

`CHECK_DEADLOCK FALSE`: an event loop that has quit, a connection that is
released, a client whose loop has crashed, a session that has ended or waits for
a notification that has gone by, servers that serve or are dead, and a logger
that has stopped have nothing left to do.

### Fairness

* `EventLoop`: the loop thread is scheduled and `poll` returns after
  `kPollTimeMs`; a thread inside `queueInLoop` or `quit` finishes the call;
  functors return.
* `TimeWheel`: the loop keeps calling `takeAllTimeout`, time passes, task
  functions return. Timeouts of zero are left out of the run: with them user
  code can keep one tick going for ever by adding a task from a task.
* `TcpConnection`: the loop runs, a thread inside a call finishes it, and
  strong fairness of a poll that reports the socket writable: a live peer reads
  again and again.
* `Connector`: the loop runs and leaves each phase, a thread inside a call
  finishes it, and strong fairness of a poll that reports what is ready
  (`epoll_wait` is level-triggered). Nothing is assumed of the network or of
  the timers.
* `AsyncLogging`: the background thread is scheduled and `wait_for` times out;
  a thread inside `stop` goes on; the constructor finishes.
* `TcpServer`: every loop goes on, and so does the thread in `start()` or in the
  destructor. Clients need not do anything.
* `EchoClient`: both threads are scheduled and the server echoes what it gets. No
  attempt has to succeed, no connection has to be lost, the timer need not make a
  surplus one, `wait` need not wake up spuriously, and the server need not close.
* `ServiceRegistry`: a run takes its steps, the library connects and calls the
  watcher, and the server ends the session of a dead run. Nothing is assumed of
  lost connections and crashes.

## Proofs

All theorems hold for every value of the constants that satisfies the named
assumptions in the modules.

* `EventLoopProofs`. `Inv` extends "no sleep on queued work" from `poll` to the
  whole part of the iteration that leads to it (`WakeupInv`): a functor queued
  after the swap needs a wakeup that this iteration's `handleRead` cannot take,
  because events are handled before the swap. `ControlInv` says where each flag
  may be set. `NoLostWakeup` and `QuitWakesPoll` follow, and `Refinement` maps
  `functors \o pending_functors_` to the queue.
* `TimeWheelProofs`. `Inv` fixes the iterator's position. `Refinement` maps
  slot, rotations and iterator to "ticks left"; the arithmetic of `%` and the
  case of a task the iterator has passed in this tick are lemmas.
* `TcpConnectionProofs`. The stated properties together with `DispatchInv`
  (which handlers may still be due in which state) are inductive; each property
  is then a theorem of its own. They need each other: `ClosedNotPolled` needs
  that a handler due after a close cannot write, `DownOnce` needs
  `DestroyedOnce`, and that a read can be due on a closed connection only when the
  owner has gone in between.
* `AsyncLoggingProofs`. `SpareInv` accounts for the spare buffers: a missing
  `nextBuffer_` implies a full buffer in `buffers_`, which is why two buffers
  are left to recycle even after dropping, and places the thread while the
  constructor is not done. `AssertionsHold` follows.
  `LinesInOrder` rests on `OrderInv`, which adds that the appended lines are
  distinct and that neither they nor the dropped ones are still to be appended
  (`HistoryOK`). The order of
  the lines is stated by positions, so that no induction over the buffers is
  needed: appending changes the last position of `Pipeline`, taking and writing
  leave every position's contents (`Given`), dropping takes whole buffers out
  and puts the notice before the two that stay.
  For `LogFile`, `LogInv` says that nothing is stored under a name still to
  come and that what is pending is younger than what the files hold.
  `NothingLost` follows for every clock; `NamesInOrder` needs `LogInv` for the
  file that is opened; `FileBounded` is proved with an invariant that relates
  `curLen`, which rolling clears even when it is refused, to `fileLen`.
* `TcpConnectionProofs`, second part: `Buffer`. `AppendFacts` says elementwise what `append` does in its three
  cases; `Puts` is the common effect of `append` and `readFd`, from which the
  index invariant, the size bound and the refinement follow.
* `ServiceRegistryProofs`. All theorems are for any `Capacity` and `Size`.
  `ListedUnlessExcused` is not inductive: what counts
  is the value a server has read and is about to write back. `ReadOK` says that
  everybody who has registered is in that value, is in `since`,
  or is excused; `PathOK` that a server inside an append is not through with
  that service. `CallEffects` restates the three calls one variable at a time.
  `InvTheorem` bounds the listings of a server: `Times` counts them, and the
  invariant ties the count in a value that was read, and in the znode, to how far
  the server has come, so that only the one write that creates a znode adds a
  second; the lines of a buffer end within `Capacity`, so that `OneBehind` follows.
* `TcpServerProofs`. `IInv` follows a connection through the threads. The
  functors of a loop are its batch and its queue, one after the other (`Work`);
  `Good` says what each functor may find of its connection, `Owned` that a
  connection in a poller, or about to enter one, is in `connections_` or has its
  `connectDestroyed` before it, `InTurn` which loop the pool names next, from which `Balanced`
  follows by counting. `LiveStays` rests on `took`: a close takes one connection,
  of its own loop. The bounds only have to be numbers (`BoundsAssumption`).
* `ConnectorProofs`. `Healthy` is an invariant of the record `s` alone: what is
  open and what is registered belongs to `channel_`, `connection_` or a
  connection about to be destroyed, and these are three different descriptors;
  an event that waits belongs to a registered channel. That closing a descriptor
  twice is harmless is part of it: `channel_` may name a number that is closed,
  but no other owner can have it before `connecting()` replaces the channel.
  One lemma for each method of the class says what it returns from a healthy
  record. `NotAbandonedTheorem` (`Threads = {t}`, any number of calls) adds
  `JInv`: a queued `resetChannel` has a `startInLoop` behind it while an attempt
  is wanted (`ResetsCovered`); a channel that is not registered has a
  `resetChannel` on its way (`ChannelCovered`); something is scheduled or under
  way (`UnderWay`). The first needs that `wanted` implies `connect_`, unless the
  same thread is about to store it: this is what a second thread breaks.
* `EchoClientProofs`. The theorems are about sessions in which the retry timer
  makes no surplus connection (`surplus = 0`): `surplus` never shrinks
  (`SurplusGrows`), so that it is enough to prove `IInv` preserved by the steps that
  leave it at zero (`Plain`). `IInv` places the two threads inside each other's
  calls. `MainOK` says what is still ahead at each station of `main()`; `ConnOK`
  that connections follow each other, and that up to `disconnect()` each is lost
  before the next; `FirstOK` what the callbacks on the loop thread have done for
  the first connection while nothing is lost. `StartOK`, `CloseOK`, `ShutdownOK`,
  `SendOK` and `DeliverOK` say what each functor in `Work` (batch and queue) will
  find, and `StreamOK` that only the last connection carries anything: a shutdown finds `connection_`, or the copy `main()` holds, or a
  `forceClose` or `connectDestroyed` behind it that keeps the connection alive.
  `NothingDropped` is stated by positions. Instead of an induction over what is
  under way, `CarriedOK` says that carried messages lie at least as far apart as
  their places, so that a message that arrives at place `Messages` has all others
  before it: this is `WokenMeansSame`. `CompleteOK` says that every message written
  is carried or has its functor.

Only model-checked: the liveness properties (out of the prover's reach).
`StopInAnyThread` and `NoUseAfterFree` are violated, so there is
nothing to prove.

## Not modelled

The RPC layer above the connections cannot be modelled as behaviour, because the
code of this commit has none beyond the first step:

* `ProtocolCodec::onMessage` parses into a header pointer that was never
  allocated (`protocol/protocol.cpp`, the first complete frame), so a server or
  client that receives a frame ends there.
* `rpcChannelCli` installs no message callback, its `id_` stays 0, and it reads
  `conn_` in the caller's thread while the loop thread replaces it; no call ever
  completes.
* `RpcServer`'s constructor is defined with parameters that its declaration does
  not have. Its registration, `Run`, does not depend on that and is in
  `ServiceRegistry`; the dispatch of requests lies behind the codec.
* `RpcCluster` and `RoundRobin` (`rpc/clusterCli.hpp`) do not compile: they index
  a `std::list`, call `add` on a balancer that has `Add`, and call `make_shared`
  without its type. `ZkClient::GetData` has no other caller.

Left out for good: socket and address wrappers, log formatting, class helpers
(no state of their own), `jsonCodec` (unused), `RpcController` (a record of
setters nothing reads), the growth of the poller's event array, an `accept` that
fails (it is logged).
