# A verification project for the muduo_epoll network library

`src/Mymuduo` is a C++ rendering of the muduo reactor library: an event loop per
thread over epoll, a pool of such loops, and a TCP server on top. This directory
holds TLA+ modules that model its core, TLC configurations that check them on small
instances, and TLAPS proofs of what matters most for every instance.

## How the source is read

The repository does not compile as it stands: names are misspelt (`std::cop`, `kDisconnectioned`,
`EventLoopThradPool`), a semicolon sits inside an argument list, methods lack their
class (`void shutdownWrite()` in Socket.cc). Two rules decide what such code means:

1. a token that does not compile is read as the name it evidently stands for, and
   nothing else about it is changed;
2. an expression that does compile is taken literally, also where it looks like a
   slip. Three matter: `index == KNew || KDeleted` (EPollPoller.cc:78) is always
   true; `state_ = kDisconnecting` (TcpConnection.cc:261) is an assignment;
   `revents_ * (EPOLLERR)` (Channel.cc:78) is a product.

The same rule repairs what is missing: `creatNonblocking` (Acceptor.cc:11-18) makes a
socket and returns nothing, and is read as returning it. `started_` (TcpServer.h:63)
is declared and never initialized, which does compile: the model starts with either.

There are no tests and no design documents. The comments in the source (in Chinese)
are the only statement of intent; the findings below quote them.

`Socket::accept` leaves the connection's socket in blocking mode (Socket.cc:36).
A `write()` on it may block and then return everything, or return less after a
signal. The models say how many bytes the call took when it returned, any prefix,
none included; that a blocking call also stops its loop meanwhile is not modelled.

## The system

| component | state | operations | talks to |
|---|---|---|---|
| EventLoop | `looping_`, `quit_`, `pendingFunctors_` under `mutex_`, `callingPendingFunctors_`, eventfd, `activeChannels_` | `loop`, `quit`, `runInLoop`, `queueInLoop`, `wakeup`, `doPendingFunctors` | its Poller, its channels, callers on any thread |
| Channel | `events_`, `revents_`, `index_`, `tie_` | enable/disable reading and writing, `disableAll`, `remove`, `handleEvent` | EventLoop (to the poller), callbacks of its owner |
| EPollPoller | `Channels_` map, epoll set, `events_` array | `poll`, `updateChannel`, `removeChannel` | kernel, channels by raw pointer |
| TcpConnection | `state_`, channel, socket, `inputBuffer_`, `outputBuffer_`, `highWaterMark_` | `send`, `shutdown`, `connectEstablished`, `connectDestroyed`, four event handlers | its I/O loop, user callbacks, `closeCallback_` to the server |
| Buffer | vector, `readerIndex_`, `writeIndex_` | `append`, `readFd`, `writeFd`, `retrieve` | TcpConnection |
| TcpServer | `connections_`, `nextConnId_`, `started_` | `start`, `newConnection`, `removeConnection(InLoop)`, destructor | Acceptor, thread pool, connections |
| Acceptor, Socket | listening socket and its channel | `listen`, `handleRead` (one `accept`) | main loop, `TcpServer::newConnection` |
| EventLoopThread, Thread | `loop_` under `mutex_`, `cond_`; semaphore, `joined_` | `startLoop`, `threadFunc`, destructor | EventLoop on the new thread |
| EventLoopThreadPool | `loops_`, `next_` | `start`, `getNextLoop` | EventLoopThread, TcpServer |
| Logger, Timestamp, InetAddress, CurrentThread, DefaultPoller | log level; none | formatting, thread id, choice of poller | everyone |

How a connection lives. The acceptor's channel becomes readable in the main loop;
`newConnection` picks an I/O loop, creates the connection, puts it in `connections_`
and has `connectEstablished` run in the I/O loop. There the channel is tied to the
connection and registered. From then on the I/O thread handles its events; user
threads call `send` and `shutdown`, which test `state_` and queue a functor. A close
noticed on the I/O loop (`handleClose`) tells the user and calls `removeConnection`,
which queues `removeConnectionInLoop` on the main loop, which erases the map entry
and queues `connectDestroyed` back on the I/O loop, which removes the channel.

What is hard about it:

- the eventfd protocol: enqueue under a lock, decide and write outside it;
- `state_` is atomic but tested and set in separate steps from several threads;
- the same fact in four copies: `events_`, `index_`, the poller's map, the kernel's set;
- a removal that crosses threads twice while level-triggered events keep coming;
- lifetime by reference counting, with some functors holding only a raw pointer;
- a stream assembled from direct writes, partial writes and a buffer;
- quitting and destroying loops while others still hand them work.

What makes each part correct:

- EventLoop: a functor queued is run, once, in order, without waiting for the poll
  timeout; a running loop can be ended.
- Channel and EPollPoller: the copies of the registration agree; no event reaches a
  channel that is removed or dead.
- TcpConnection: bytes leave in order, each once; the write side is not shut over
  buffered output; no message after the connection is down; a closed connection is
  reaped.
- Buffer: a byte queue, whatever the mix of growth and compaction.
- TcpServer: a connection leaves `connections_` when it closes, and the channel
  leaves the poller before the connection dies.
- EventLoopThread, pool: `startLoop` returns a live loop, the destructor returns.
- Acceptor: what waits is accepted or dropped; running out of descriptors is survived.

## The modules

| module | what it is |
|---|---|
| `TaskQueue` | abstract: what an EventLoop promises to those who give it functors |
| `EventLoop` | the loop and its poll, one action per critical section or step of EventLoop.cc |
| `EventLoopThread` | a loop in its thread: EventLoop composed with EventLoopThread.cc and Thread.cc |
| `Channel` | operators on a record: channel, poller bookkeeping and kernel registration |
| `TcpConnection` | one connection, with its I/O loop, users, server, socket and peer |
| `ConnectionLife` | abstract: the life of one connection, as server and loop have it between them |
| `ByteQueue` | abstract: a queue of bytes with puts and takes |
| `Buffer` | the vector and its two indices |
| `TcpServer` | the server with its acceptor, its pool of loops and all its connections |
| `*Proofs` | the theorems about the module of that name; `TcpConnectionCourseProofs` those about the order of a connection's calls, `TcpConnectionLifeProofs` and `TcpServerLifeProofs` those about `ConnectionLife` and what is on its way |
| `MC*` | what TLC needs beside them: symmetry sets |

Each module stands on what another has established. EventLoopThread extends
EventLoop and composes the two whole. TcpConnection uses a loop as TaskQueue
describes it, and so does TcpServer, for several; TcpServer takes from TcpConnection
that a closed connection goes on being reported until its channel is removed, and
from EventLoopThread that `startLoop` returns a loop about to be run.

**ConnectionLife.** What server and loop agree on without a common lock: a connection
is listed when accepted, established once, closed, struck off the list because it was
closed or because the server ends, and destroyed only then. TcpServer implements it for
all connections at once (`LifeOf(c)`, where `stage` is the connection's and `listed` is
being in `connections_`), the loops' queues, the hand-over and `~TcpServer` included.
TcpConnection implements it for one, seen from its loop (`Life`, where the stage is read
off the callbacks and the poller's map). So the two detailed modules, which abstract
from one another, are held to one account of what goes on between them.

**EventLoop.** `pc` is the loop thread's place in `loop()`; its two opening stores,
`looping_ = true` and `quit_ = false`, are two steps (`StartLoop`, `ResetQuit`), since
a quit from another thread can come between them. `PastReset` is that both are
done. `functors` is
`doPendingFunctors`' local vector, `notifying` the threads between the unlock of
`queueInLoop` and its end, so the lost-wakeup window is explicit. The mutex guards
single statements only, so a critical section is one step. A callback or functor
being run (`pc` = callback, functor, or init for the thread-init callback) may call
every method of the loop. `ioReady` is what the kernel would report besides the
eventfd. `PollEvents` is `EPollPoller::poll`: all that is ready, or as much of it as
`events_` has room for, whichever the kernel picks, and the array doubles when it was
filled. `PollTimeout` is a return with nothing (timeout or EINTR). `ran` is history.

**EventLoopThread.** `owner` is the place in `startLoop` or the destructor, `thread`
that of the new thread in the lambda of `Thread::start` and in `threadFunc`.
`sem` is the semaphore on the starter's stack; the test of `loop_` and `cond_.wait`
are one step because they are one under `mutex_`; the wait may also end by itself.
`published` is "`loop_` is not null": it stays set after the loop is gone, since the
reset of lines 42-43 comes after the return. Any user with the pointer may call the
loop's methods (`Use`), and so may the thread-init callback. The destructor runs when
no such call is under way, the usual duty of an owner.

**Channel.** A record with `events`, `index`, and the outside world's view:
`mapped` (the poller's map), `registered` and `interest` (the kernel's epoll set).
`TakesAddBranch` is line 78 as written. `epoll_ctl` fails as in the kernel: ADD of a
registered fd and MOD or DEL of an unregistered one change nothing, and `update`
only logs. `HandleEvent(revents)` is the list of callbacks, in order.

**TcpConnection.** The loop is used through what EventLoop and TaskQueue establish:
batches, in order, taken after the events of an iteration. `work` is the loop
thread's stack of calls still to make: the handler `handleRead` puts `message` or
`close` in front, `handleClose` puts `connection` and then `closed`. While a user's
callback is at the head it may call `send` and `shutdown`. A user thread's call is
split where another thread can come in: test of `state_`, setting it, queueing.
The loop thread's calls are steps from one callback to the next; so in
`connectDestroyed` the test of `state_` (line 197) and the set (line 200) are one
step. A foreign `shutdown` that set `kDisconnecting` between them would be overwritten
and the connection reported down; the model has that shutdown's set before the test
or after the set.
`pending`, `functors` and `work` also are what keeps the connection alive: every item
but the two bound to raw `this` holds a `shared_ptr` (`Alive`). `functors` keeps its
items until the batch ends because the vector does. The server is `inMap`,
`removals` (functors on the main loop) and `serverGone`. The peer may send, close,
or reset. `inputBuffer_` is abstracted to whether data waits in the socket
(`unread`). `wire`, `accepted`, `ups`, `downs` and `closes` are history.

**Buffer.** As in Buffer.h; `buffer_[i + 1]` is element `i`. `input` and `output`
record what the last call put in or took out, so that the refinement to `ByteQueue`
speaks of the bytes and not of lengths only. `writeFd` changes nothing but the
socket: what it sent is then passed to `retrieve`.

**TcpServer.** Loop 0 is the base loop, loops 1 to `threads` are the pool's. A
connection is its name, its loop and its stage: `new` until `connectEstablished` has
run, `up`, `closed` after `handleClose`, `destroyed` after `connectDestroyed`. A loop
is its `phase` in `loop()` (`TestQuit` is the `while(!quit_)`, passed before the first
iteration as after each), the ready channels still to handle (`active`), and its
`queue`, of which the first `batch` items were swapped out. `getNextLoop` with its
wrap is part of `newConnection`; `Acceptor::handleRead` is one accept, which takes
the connection, loses it (`len` uninitialized) or fails for want of a descriptor
(`AcceptFails`). A descriptor is held as long as its connection is alive, that is in
the map or in some functor. The destructor is a step per connection
(`ClearConnection`), then for each I/O thread its quit and its join, then the
acceptor. The public interface is used as its comments ask: `setThreadNum` and
`start` on the base loop's thread before `loop()`, the destructor there as well,
before `loop()` or after it has returned.

In each module, a definition called a "variant with a bug" is the mutated form of
the definition next to it, kept to show that the properties notice it.

## The runs

| run | instance | shows |
|---|---|---|
| loop | loop thread, 2 foreign threads, 3 functors, 2 I/O channels, `events_` of 1 | types; the loop never sleeps on work; it implements TaskQueue, progress included; every ready channel is served; a quit that comes after the reset of `quit_` ends it |
| thread | owner, 1 more user, 2 functors, 1 channel | `startLoop` returns a live loop; whoever waits in it is still owed the notification; the thread id is known; the thread ends before its owner; `startLoop` returns, and the destructor if its quit comes after the reset of `quit_` |
| thread_join | owner, 1 functor | **violated**: the destructor's `join` returns |
| server | 0 to 2 I/O loops, 3 connections and 1 descriptor or 2 and 2 | one pool, even shares; a registered connection has an owner; a closed one is on its way out; each implements ConnectionLife; nobody calls a dead server; backlog served, closed connections released, the destructor returns |
| server_end | 1 loop, 1 connection | **violated**: every `connectDestroyed` is run |
| conn | 1 user, 2 messages, one loop and two, fair loops | types, graceful close, no message after down, registration, no removal inside a handler, down reported, an up connection watched, who disconnects, no send lost on its way; closes reaped, peer's close noticed, sends reach the stream |
| conn_lifetime | no users, 2 messages of 2 bytes, 2 removals outstanding | channel removed before the connection dies; ConnectionLife; stream |
| conn_drain | no users, peer reads | **violated**: buffered output drains |
| conn_regress | 1 user | **violated**: kDisconnected is final |
| conn_removed | 1 user | **violated**: a removed channel stays removed |
| conn_arguments | strings and connection dropped early | **violated**: a queued task finds its connection and its bytes |
| buffer_queue | prepend 1, initial 2, extrabuf 2, up to 4 bytes | the buffer is a byte queue; indices; growth |

Each violated run is a disagreement between a comment and the code; `findings` in
PROJECT.json quotes both.

- `OutputDrains`: after the first `enableReading` no later change of interest
  reaches the kernel (EPollPoller.cc:78), so buffered output waits for an OUT that is
  not registered. Written `index == KNew || index == KDeleted`, that is with
  `TakesAddBranch(c) == c.index \in {KNew, KDeleted}`, `OutputDrains` holds on the
  instance of its run. For the same reason a closed connection keeps reporting its
  end of stream, and `handleClose` runs again, until the channel is removed.
- `OnlyShutdownDisconnects` holds for that reason, too: the assignment of
  TcpConnection.cc:261 is never reached while the connection is up. With line 78
  repaired, every buffer that drains would shut the connection's write side.
- `DisconnectedIsFinal` and `RemovedForGood` fail only through a foreign thread that is
  between two steps of `shutdown` or of `send`. What `shutdown` overwrites is the
  `kDisconnected` of `handleClose`, or that of `connectDestroyed` after `~TcpServer`;
  TLC's shortest trace has the second, and with `ServerDestroyed` left out of the
  server's actions it finds the first. Without such threads both are proved
  (`DisconnectionIsFinal`, `RemovalIsForGood`).
- `JoinReturns`: a loop quit after `startLoop`'s return and before the store
  `quit_ = false` forgets it, be it also that `looping_` is true by then.
  `DestroyReturns` says that a quit which finds the loop past that store is enough.
- `CleanupRuns`: `~TcpServer` queues `connectDestroyed` and then quits the loop; what
  came after the last swap is never run. No harm is done to memory, as
  `RegisteredIsAlive` and `CallbacksFindServer` show, but the user is not told.
- `TaskFindsArguments`: `shutdown` and `send` bind the raw `this`, and `send` a
  pointer into its caller's string.

One more disagreement has no run of its own. The comment of `queueInLoop`
(EventLoop.cc:126) says that it wakes the loop's thread. What the thread-init callback
(EventLoopThread.cc:53) gives to `queueInLoop` before `loop()` is entered wakes
nobody, since the caller is the loop's own thread and no batch is being run, and the
first `epoll_wait` sleeps on it. With `QueueBeforeLoop = TRUE` in `EventLoop_loop.cfg`
TLC finds `NoLostWakeup` violated so: `QueueInLoop`, `WakeupIfNeeded`, `StartLoop`,
`ResetQuit`, `EnterIteration`. The run loop and the theorem `WakeupNeverLost` are for
loops to which nothing is given that early. The runs of EventLoopThread have
`QueueBeforeLoop = TRUE` and do not state the property.

### Bounds, and why they are enough

- *Functors, messages*: each is submitted once, which bounds queues and histories.
  Three functors allow one to run, one to wait in its batch and one to arrive
  meanwhile; two messages allow one to overtake another, which is what the stream can get wrong.
- *Threads*: two foreign callers can be in the unlock window together. In
  EventLoopThread the owner and one more user are enough for a call that overlaps the
  destructor's quit.
- *KInitEventListSize* is 1 against three channels that can be ready (two and the
  eventfd), so the array fills, a poll passes over channels, and it doubles twice.
- *MessageLength* 2 cuts a message at every place; 1 is used where only the order of
  messages matters. *HighWaterMark* is 2 or 3, so it is crossed by the second
  message and not by the first.
- *MaxRemovals*: how many `removeConnectionInLoop` functors of one connection may
  wait. With the kernel's interest stuck, each poll while the peer is closed adds one.
  In TcpConnection the loop's poll is held back while the bound is reached, in
  TcpServer no further one is queued. Two are enough for removals that overlap; in
  TcpServer one waits and is overtaken by others already in the batch.
- *MaxThreads* 2 with three connections makes the round robin wrap and its wrapped
  index choose a loop; with no threads, connections live on the base loop. *MaxFds* 1 or
  2 lets a connection find no descriptor until another is released. *MaxLoad* 4 allows
  three connections, one after the other, where there is one descriptor, and two, which
  can be open at once on one loop or on two, where there are two.
- *ups, downs, closes* count to 2 and stay there, *started_* to 1.
- *BufferOutlivesSend* and *UsersKeepConnection* are assumptions about the users,
  each switched both ways by some run; whether server and connections share a loop
  (`singleLoop`) is chosen in `Init`.
- *MaxContent* 4, *MaxData* 3 against room for 2 make the buffer fill, grow,
  compact, wrap and spill into extrabuf, and stop growing at six elements.

`CHECK_DEADLOCK FALSE` is set everywhere but for the buffer: the system may really
stop. A loop that has left `loop()` does nothing more; a connection that has been
removed and dropped, or a server that is gone, has no step left.

### Fairness

- `FairSpec` of EventLoop: weak fairness of the loop thread's steps, where
  `epoll_wait` is obliged to return only for something ready, and of a thread
  finishing `queueInLoop`. The ten-second timeout is not counted on, so progress
  means being woken. Callbacks are assumed to return. Nothing is assumed of which
  ready channels the kernel prefers.
- `PollTimesOut`, the premise of `QuitEndsLoop`, adds that `epoll_wait` returns in
  the end (`kTimeMs`), without which a `quit` from another thread takes no effect:
  `quit()` does not call `wakeup()`.
- `ThreadFairSpec`: both threads run, calls in progress finish, `epoll_wait` times
  out. The owner need neither start nor destroy, and `cond_` need not wake without a
  notification.
- `FairSpec` of TcpServer: every loop's thread runs and its poll returns for an
  event, a wakeup or its timeout, and a destructor that has begun goes on. The
  network, the peers and the user do as they like; what depends on the base loop
  says so, as its user may never run it or may quit it.
- `FairSpec` of TcpConnection: both loops run, and a user's call in progress
  finishes. Nothing is assumed of the peer, of further calls, or of the server's end.
- `DrainSpec` adds strong fairness of polls that find the socket writable: the peer
  keeps reading. It is used by the run that shows the output is stuck all the same.

## The proofs

`tlapm` checks all of these for every value of the constants that meets the modules'
assumptions (`LoopAssumption`, `OwnerAssumption`, `ConnectionAssumption`,
`BufferAssumption`, `ServerAssumption`).

*EventLoopProofs*

- `TypeCorrect`.
- `WakeupNeverLost`, if `~QueueBeforeLoop`: `NoLostWakeup` is not inductive. The
  strengthening `WakeupInv` adds `Placed` (`callingPendingFunctors_` is true exactly
  while the batch is run, and where the loop thread can be when it is in
  `queueInLoop`) and `Sleepless`: at every place from which the loop reaches
  `epoll_wait` without another swap, pending work means that the eventfd is readable
  or that a thread which must write it is about to. Work queued by the loop's own
  thread in a functor is woken for by the second operand of line 135, and work queued
  in an I/O callback is taken by the swap that follows.
- `RefinesTaskQueue`: initial states and steps map to TaskQueue under
  `queue <- functors \o pendingFunctors_`. `RunHere` is `RunNow`; the swap and all
  other steps stutter.

*EventLoopThreadProofs*

- `LoopIsEventLoop`: every behaviour of the composition is one of EventLoop, so all
  that is proved there holds of a loop in its thread.
- `ThreadTypeCorrect`, `TidIsKnown`, `LoopStaysLive`, `ThreadEndsBeforeOwner` and
  `StartIsOwed` (nobody blocks in `startLoop` after what it waits for is past) from one invariant, `InStep`: how far owner and thread can be from one another, by the
  semaphore until the id is set, by `loop_` until the loop is published, by the join
  until the thread has ended.

*TcpConnectionProofs*

- `TypeCorrect`, by `Typed`, one lemma per group of actions.
- `PollerStaysConsistent`, from lemmas on `UpdateChannel` and `RemoveChannel`.
- `StreamIsIntact` and `CloseIsGraceful`, from one invariant `StreamInv`:
  `StreamIntegrity`, `GracefulClose`, and `Watched`: until the connection goes down,
  buffered output implies that the channel's `events_` has OUT. That is what makes
  `shutdownInLoop`'s test of `isWriting` a test of the buffer, and what keeps
  `sendInLoop` from writing past what is buffered.

*TcpConnectionCourseProofs*

- None of the four properties is inductive: each is about what may still be on its way.
  `CourseInv` says it, in four parts.
- `InLine`: which call can stand where in the loop thread's work and in which phase.
  `connectDestroyed` stands alone and only in a batch, never among event handlers;
  that is `HandlerKeepsChannel`.
- `Once` and `Unborn`: `connectEstablished` runs once, before anything else the loop
  does for the connection, and until then nobody has it.
- `Stated`: a `kConnected` connection has been reported up and not down, its channel
  is registered, and the kernel was not asked for OUT. The one registration it made
  was for reading, and a later `EPOLL_CTL_ADD` of a registered fd changes nothing. So
  `handleWrite` is never called on it; `RemovalFollowsDown` is one conjunct.
- `Silent`: once the down callback has been called, `events_` lacks IN, no message is
  to come, and either the socket has been read to its end (`Drained`), or the channel
  cannot report IN (`Deaf`), or it is removed before the next poll. The first is the case
  that matters: `disableAll` does not reach the kernel, so the fd goes on being
  reported readable, and what keeps `handleRead` from delivering a message is that
  it was end of stream that closed the connection. It gives `DownIsSilent`.
- `PollerOutlived` assumes that no foreign thread uses connections (`User = {}`), like
  the run `conn_lifetime`. With such threads it is false: a `sendInLoop` run after the
  removal registers the fd again (the run `conn_removed`), and its caller may then be the
  last to let the connection go. Its invariant `Kept`: a connection in the poller is in
  the map, or its `connectDestroyed` is queued, in the batch, or at work.

*TcpConnectionLifeProofs*

For any users, beside `CourseInv`:

- `ShutdownAloneDisconnects`. A connected connection is covered by `Stated`; the hard
  case is one that has closed, where `handleWrite` would set `kDisconnecting` too. `Calm`
  says that a disconnected connection's `events_` lacks OUT.
- `UpKeepsWatch`, by `Watch`: until the down callback `events_` has IN, and so has the
  kernel if the fd is registered. `WatchKept` is the lemma about the channel's operators:
  none that a live connection uses takes IN away, though the kernel's copy is never
  modified and a channel that was removed is registered anew with what `events_` then is.
- `CloseReachesServer`, by `UnderWay`: from `handleClose` on, the call of
  `closeCallback_` is in `work`, or a removal is counted, or the connection is off the
  map, whichever of the repeated closes the removal belongs to.
- `SendIsHandedOn`: a step property of one message's places, in four lemmas, one per
  hand (`CallHandsOn`, `QueueHandsOn`, `BatchHandsOn`, `WorkHandsOn`). It says for every
  instance what `SendReachesStream` says in the end under fairness: nothing between
  `send` and the stream drops a message of a working connection. The exceptions it
  names are the findings' (a string destroyed too soon) and the broken connection.

With no foreign thread holding the connection (`User = {}`, as in `conn_lifetime`):

- `ConnectionLivesOrderly`: TcpConnection implements ConnectionLife. `LifeInv` has what
  the map needs: a removal is only queued after a close, the destruction only after the
  connection left the map, which it leaves for a close or the server's end, and a listed
  connection's channel is in the poller.
- `RemovalIsForGood` follows from it and `DisconnectionIsFinal` from `Calm`. The
  assumption is needed: the runs `conn_removed` and `conn_regress` show the two to fail
  with one user.

*BufferProofs*

- `AppendIsRight` is about the operator: wherever the indices are, an append keeps
  what is readable, adds the data behind it, and leaves room. From it
  `IndicesStayInRange`, `GrowthIsNeeded`, and `RefinesByteQueue`, whose three cases
  are an append, a read that fits or spills into extrabuf, and a retrieve.

*TcpServerProofs*

- None of the properties is inductive. `Inv` adds: `Life`, where loops, threads and
  destructor are to one another; `Handled`, that what a loop has still to handle is
  as the poll found it; `Named`, that names are not used twice; `AllPlaced`, that a
  functor is on the right loop at the right time of its connection's life; `Ordered`,
  that nothing of a connection is queued before its `connectEstablished`; and `Kept`.
- `RegisteredStaysAlive` is `Kept`: a connection not destroyed is in the map, or its
  `connectDestroyed` is queued on its own loop. The hard case is the hand-over in
  `removeConnectionInLoop`, which may run late, or twice, or never when the base loop
  has ended and it is `~TcpServer` that empties the map.
- `OpenStaysListed` needs `Placed`: a queued removal is of a closed connection.
- `ShareIsEven` from `LastInTurn`, the place of each of the last `threads`
  connections relative to `next_`, cyclically.
- `CallbacksStayValid` from `Life`: when the server is gone no loop runs or will.

*TcpServerLifeProofs*

- `ConnectionsLiveOrderly`: every step of the server, of any loop or of the destructor
  is, for each connection, a step of ConnectionLife or leaves it alone. `Inv` says where
  a queued functor can be; `OnItsWay` adds what must be queued: `connectEstablished` for
  a new connection (`Awaited`), a removal or the destruction for a closed one
  (`Expected`), no destruction of a listed connection (`Erased`), and no destroyed
  connection in the map (`Gone`). All steps that work on a connection are one operator,
  `Works`, so that the refinement is proved once for it and once for `newConnection`.
- `ClosedKeepsLeaving` is `Expected`.

Only model-checked: liveness, since fairness and ENABLED are outside the prover's reach,
the liveness half of `ImplementsTaskQueue` included. For much of it the safety half is
proved for every instance, that what must happen is always owed by somebody:
`WakeupNeverLost` under `ImplementsTaskQueue`, `StartIsOwed` under `StartReturns`,
`ClosedKeepsLeaving` and `CloseReachesServer` under `CloseReleases` and `CloseReaped`,
`UpKeepsWatch` under `PeerCloseNoticed`, `SendIsHandedOn` under `SendReachesStream`. What
TLC adds is that whoever owes it gets its turn. `IoServed`, `QuitEndsLoop`,
`DestroyReturns`, `BacklogServed` and `DestructorReturns` rest on TLC alone. Every safety property that a passing run checks
is stated by a theorem. Some are stated only by one, where TLC's runs have what
includes or follows from them: `OpenIsListed` (ImplementsLife has a connection
listed until it closes, the theorem has it under its own name), `CloseIsUnderWay`
(`ClosedIsLeaving`, which sees the queues), and, without foreign users,
`DisconnectedIsFinal` and `RemovedForGood`, whose runs have a user and violate them. No module uses RECURSIVE operators.

## Not modelled

- *Logger, Timestamp*: they write lines. The Logger's level is one `int` set and read
  by every thread without a lock; no behaviour depends on it.
- *InetAddress*: conversions of addresses to text, without state.
- *DefaultPoller, noncopyable*: a choice made once (the `MUDUO_USE_POLL` branch returns
  null), and a base class that only deletes two members.
- *Socket*'s setters, `bind` and `listen`: options of the kernel's socket. `accept`,
  the half-close and the release of the descriptor are in TcpServer and TcpConnection.
- *EventLoopThreadPool::getAllLoop*: no caller, and one of its branches has no return.
- *The read of `len` beyond what is readable* in `retrieveAsString(len)`: no caller
  passes such a `len`.
- *A write that blocks its loop*, and what a send to a socket in blocking mode costs
  the loop's other connections.
- *Urgent data*: the kernel never reports EPOLLPRI, though channels ask for it.
- *Abuse of an interface*: calls that overlap the destructor of what they are called
  on, a server destroyed from a callback of its own base loop, a second loop in one
  thread (which the constructor answers by ending the process).
- Build files.
