------------------------------ MODULE TcpServer ------------------------------
(***************************************************************************)
(* A TcpServer (TcpServer.cc) with its Acceptor (Acceptor.cc), its pool of *)
(* I/O loops (EventLoopThreadPool.cc) and all of its connections: how they *)
(* are accepted, shared out, named, removed, and what the end of the       *)
(* server does to those that are left.                                     *)
(*                                                                         *)
(* A connection is only where it is in its life; module TcpConnection has  *)
(* the rest.  A loop is what module EventLoop makes of it: iterations that *)
(* handle the ready channels and then the functors pending at the swap,    *)
(* until a quit is seen at the loop's test.  Module EventLoopThread has    *)
(* the start of the threads: startLoop returns a loop whose thread is      *)
(* about to call loop().                                                   *)
(***************************************************************************)
EXTENDS Naturals, Sequences, FiniteSets, Functions

CONSTANTS
  MaxThreads,     \* bound: setThreadNum's argument
  MaxConn,        \* bound: connections that arrive
  MaxFds,         \* bound: descriptors the process has left for connections
  MaxLoad,        \* bound: connections that arrive and descriptors, together
  MaxRemovals     \* bound: removals of one connection queued on the base loop

ASSUME ServerAssumption ==
  /\ {MaxThreads, MaxConn, MaxLoad} \subseteq Nat
  /\ {MaxFds, MaxRemovals} \subseteq Nat \ {0}

VARIABLES
  numThreads_,
  started_,       \* 0 or not: whether start() was called; not initialized
  threads,        \* the I/O loops made: loops 1 to threads
  next_,
  nextConnId_,
  connections_,   \* the map from names to connections
  conns,          \* all connections ever made, in order
  fds,            \* descriptors the process has left; never changes
  listening,      \* the listening socket is in the base loop's poller
  backlog,        \* connections waiting to be accepted
  arrivals,       \* connections that have arrived
  peerClosed,     \* connections whose peer has closed
  phase,          \* of each loop: before, in or after loop(), and where in it
  quit,           \* quit_ of each loop
  active,         \* of each loop: the ready channels it has still to handle
  queue,          \* pendingFunctors_ of each loop, after what is left of its batch
  batch,          \* how many functors of queue are in the batch being run
  server,         \* alive, or how far ~TcpServer has come
  joined          \* I/O threads the pool's destructor has joined

poolVars == <<numThreads_, started_, threads, next_>>
connVars == <<nextConnId_, connections_, conns>>
netVars == <<fds, listening, backlog, arrivals, peerClosed>>
loopVars == <<phase, quit, active, queue, batch>>
endVars == <<server, joined>>
vars == <<poolVars, connVars, netVars, loopVars, endVars>>

Loop == 0 .. MaxThreads      \* 0 is the base loop, the server's loop_
Conn == 1 .. MaxConn
Acceptor == 0                \* among the channels; the others are the connections

\* new: connectEstablished has still to run; destroyed: connectDestroyed has run.
Stage == {"new", "up", "closed", "destroyed"}
ConnType == [name : Nat, loop : Loop, stage : Stage]
Task == [op : {"connectEstablished", "connectDestroyed", "removeConnectionInLoop"},
         conn : Conn]

TypeOK ==
  /\ numThreads_ \in 0 .. MaxThreads /\ threads \in 0 .. MaxThreads
  /\ started_ \in 0 .. 1
  /\ next_ \in Nat /\ (next_ = 0 \/ next_ < threads)
  /\ nextConnId_ \in Nat
  /\ conns \in Seq(ConnType) /\ Len(conns) <= arrivals
  /\ \A n \in DOMAIN connections_ : connections_[n] \in 1 .. Len(conns)
  /\ fds \in 1 .. MaxFds
  /\ listening \in BOOLEAN
  /\ arrivals \in 0 .. MaxConn /\ backlog \in 0 .. arrivals
  /\ peerClosed \subseteq Conn
  /\ phase \in [Loop -> {"init", "test", "poll", "handle", "run", "done"}]
  /\ quit \in [Loop -> BOOLEAN]
  /\ active \in [Loop -> SUBSET (Conn \cup {Acceptor})]
  /\ queue \in [Loop -> Seq(Task)]
  /\ batch \in [Loop -> Nat] /\ \A l \in Loop : batch[l] <= Len(queue[l])
  /\ server \in {"alive", "clearing", "joining", "gone"}
  /\ joined \in 0 .. threads

\* The constructor does not initialize started_, whose every value but 0 is shown as 1.
Init ==
  /\ numThreads_ = 0 /\ started_ \in {0, 1} /\ threads = 0 /\ next_ = 0
  /\ nextConnId_ = 1 /\ connections_ = <<>> /\ conns = <<>>
  /\ fds \in 1 .. MaxFds
  /\ listening = FALSE /\ backlog = 0 /\ arrivals = 0 /\ peerClosed = {}
  /\ phase = [l \in Loop |-> "init"]
  /\ quit = [l \in Loop |-> FALSE]
  /\ active = [l \in Loop |-> {}]
  /\ queue = [l \in Loop |-> <<>>]
  /\ batch = [l \in Loop |-> 0]
  /\ server = "alive" /\ joined = 0

------------------------------------------------------------------------------
\* Lifetime: the map and the functors hold a shared_ptr; the functors of an I/O loop
\* that has ended are gone with it.
Tasks == UNION {Range(queue[l]) : l \in {k \in Loop : k = 0 \/ phase[k] # "done"}}
Alive(c) == c \in Range(connections_) \cup {task.conn : task \in Tasks}

\* accept fails with EMFILE.
Exhausted == Cardinality({c \in DOMAIN conns : Alive(c)}) >= fds

Do(op, c) == [op |-> op, conn |-> c]
Enqueue(q, l, task) == [q EXCEPT ![l] = Append(@, task)]
Insert(map, name, c) ==
  [n \in DOMAIN map \cup {name} |-> IF n = name THEN c ELSE map[n]]
Erase(map, name) == [n \in DOMAIN map \ {name} |-> map[n]]
SetStage(c, stage) == conns' = [conns EXCEPT ![c].stage = stage]

------------------------------------------------------------------------------
\* What the user calls, on the base loop's thread before loop().

BeforeLoop == phase[0] = "init" /\ server = "alive"

setThreadNum(n) ==
  /\ BeforeLoop
  /\ numThreads_' = n
  /\ UNCHANGED <<started_, threads, next_, connVars, netVars, loopVars, endVars>>

\* EventLoopThreadPool::start: one thread with its loop after the other.
StartThreads == threads' = threads + numThreads_

\* Acceptor::listen; runInLoop makes it a plain call on this thread.
listen == listening' = TRUE

\* Variant with a bug: started_ is set and not tested.
FirstStartAlways == TRUE

FirstStart == started_ = 0

start ==
  /\ BeforeLoop
  /\ started_' = 1
  /\ IF FirstStart THEN StartThreads /\ listen ELSE UNCHANGED <<threads, listening>>
  /\ UNCHANGED <<numThreads_, next_, connVars, fds, backlog, arrivals, peerClosed,
                 loopVars, endVars>>

\* The user runs the base loop, once, while the server exists ...
RunLoop ==
  /\ BeforeLoop
  /\ phase' = [phase EXCEPT ![0] = "test"]
  /\ UNCHANGED <<poolVars, connVars, netVars, quit, active, queue, batch, endVars>>

\* ... and quits it.
QuitLoop ==
  /\ phase[0] \notin {"init", "done"}
  /\ quit' = [quit EXCEPT ![0] = TRUE]
  /\ UNCHANGED <<poolVars, connVars, netVars, phase, active, queue, batch, endVars>>

------------------------------------------------------------------------------
\* The network.

Arrives ==
  /\ listening /\ arrivals < MaxConn /\ arrivals + fds < MaxLoad
  /\ arrivals' = arrivals + 1
  /\ backlog' = backlog + 1
  /\ UNCHANGED <<poolVars, connVars, fds, listening, peerClosed, loopVars, endVars>>

PeerCloses(c) ==
  /\ c \in DOMAIN conns
  /\ peerClosed' = peerClosed \cup {c}
  /\ UNCHANGED <<poolVars, connVars, fds, listening, backlog, arrivals, loopVars, endVars>>

------------------------------------------------------------------------------
\* One iteration of loop l.

\* The connections of loop l that epoll reports: closed by the peer and registered.
\* disableAll does not reach the kernel (module TcpConnection), so a connection is
\* reported until connectDestroyed has removed it.
ReadyConns(l) ==
  {c \in peerClosed : conns[c].loop = l /\ conns[c].stage \in {"up", "closed"}}

Ready(l) ==
  ReadyConns(l) \cup (IF l = 0 /\ listening /\ backlog > 0 THEN {Acceptor} ELSE {})

\* The thread of an I/O loop calls loop(), which forgets an earlier quit.
EnterLoop(l) ==
  /\ l \in 1 .. threads /\ phase[l] = "init"
  /\ phase' = [phase EXCEPT ![l] = "test"]
  /\ quit' = [quit EXCEPT ![l] = FALSE]
  /\ UNCHANGED <<poolVars, connVars, netVars, active, queue, batch, endVars>>

\* while(!quit_).
TestQuit(l) ==
  /\ phase[l] = "test"
  /\ phase' = [phase EXCEPT ![l] = IF quit[l] THEN "done" ELSE "poll"]
  /\ UNCHANGED <<poolVars, connVars, netVars, quit, active, queue, batch, endVars>>

\* epoll_wait returns for a ready channel, a wakeup or its timeout; a timeout with
\* nothing to do and no quit to see changes nothing and is left out.
Poll(l) ==
  /\ phase[l] = "poll"
  /\ Ready(l) # {} \/ queue[l] # <<>> \/ quit[l]
  /\ phase' = [phase EXCEPT ![l] = "handle"]
  /\ active' = [active EXCEPT ![l] = Ready(l)]
  /\ UNCHANGED <<poolVars, connVars, netVars, quit, queue, batch, endVars>>

Handling(l, channel) ==
  /\ phase[l] = "handle" /\ channel \in active[l]
  /\ active' = [active EXCEPT ![l] = @ \ {channel}]

\* Variant with a bug: the last loop is never chosen.
NextAfterShort(n) == IF n + 1 >= threads - 1 THEN 0 ELSE n + 1

NextAfter(n) == IF n + 1 >= threads THEN 0 ELSE n + 1

\* getNextLoop: the base loop if the pool has none, else loops_[next_].
NextLoop == IF threads = 0 THEN 0 ELSE next_ + 1
getNextLoop == next_' = IF threads = 0 THEN next_ ELSE NextAfter(next_)

\* Variant with a bug: ++nextConnId_ is missing.
TakeNameAgain == UNCHANGED nextConnId_

TakeName == nextConnId_' = nextConnId_ + 1

\* newConnection; connectEstablished runs at once on the base loop.
newConnection ==
  LET c == Len(conns) + 1
  IN  /\ getNextLoop
      /\ TakeName
      /\ connections_' = Insert(connections_, nextConnId_, c)
      /\ conns' = Append(conns, [name |-> nextConnId_, loop |-> NextLoop,
                                 stage |-> IF NextLoop = 0 THEN "up" ELSE "new"])
      /\ queue' = IF NextLoop = 0 THEN queue
                  ELSE Enqueue(queue, NextLoop, Do("connectEstablished", c))

\* Socket::accept passes an uninitialized len: if it is negative the kernel drops the
\* connection it took, and fails.
Dropped == UNCHANGED <<next_, connVars, queue>>

\* Acceptor::handleRead takes one connection.
handleRead ==
  /\ Handling(0, Acceptor)
  /\ ~Exhausted
  /\ backlog' = backlog - 1
  /\ newConnection \/ Dropped
  /\ UNCHANGED <<numThreads_, started_, threads, fds, listening, arrivals,
                 peerClosed, phase, quit, batch, endVars>>

\* Variant with a bug: out of descriptors, the acceptor stops listening.
AcceptFailsForGood ==
  /\ Handling(0, Acceptor)
  /\ Exhausted
  /\ listening' = FALSE
  /\ UNCHANGED <<poolVars, connVars, fds, backlog, arrivals, peerClosed, phase, quit, queue,
                 batch, endVars>>

\* Out of descriptors: the error is logged and the connection left in the backlog.
AcceptFails ==
  /\ Handling(0, Acceptor)
  /\ Exhausted
  /\ UNCHANGED <<poolVars, connVars, netVars, phase, quit, queue, batch, endVars>>

\* Variant with a bug: the connection is erased, its connectDestroyed never queued.
removeForgets(c, q) ==
  /\ connections_' = Erase(connections_, conns[c].name)
  /\ queue' = q

\* removeConnectionInLoop, on the base loop, with q the queues as it finds them.
removeConnectionInLoop(c, q) ==
  /\ connections_' = Erase(connections_, conns[c].name)
  /\ queue' = Enqueue(q, conns[c].loop, Do("connectDestroyed", c))

\* Variant with a bug: no closeCallback_ is set on a connection.
MayQueueRemovalNever(c) == FALSE

MayQueueRemoval(c) ==
  Cardinality({i \in DOMAIN queue[0] : queue[0][i] = Do("removeConnectionInLoop", c)})
    < MaxRemovals

\* handleClose of a connection, whose closeCallback_ is removeConnection.
handleClose(l, c) ==
  /\ Handling(l, c) /\ c # Acceptor
  /\ SetStage(c, "closed")
  /\ IF l = 0
     THEN removeConnectionInLoop(c, queue)
     ELSE /\ queue' = IF MayQueueRemoval(c)
                      THEN Enqueue(queue, 0, Do("removeConnectionInLoop", c)) ELSE queue
          /\ UNCHANGED connections_
  /\ UNCHANGED <<poolVars, nextConnId_, netVars, phase, quit, batch, endVars>>

Swap(l) ==
  /\ phase[l] = "handle" /\ active[l] = {}
  /\ phase' = [phase EXCEPT ![l] = "run"]
  /\ batch' = [batch EXCEPT ![l] = Len(queue[l])]
  /\ UNCHANGED <<poolVars, connVars, netVars, quit, active, queue, endVars>>

Running(l, task) ==
  /\ phase[l] = "run" /\ batch[l] > 0
  /\ task = Head(queue[l])
  /\ batch' = [batch EXCEPT ![l] = @ - 1]
Dequeued(l) == [queue EXCEPT ![l] = Tail(@)]

RunFunctor(l) ==
  /\ \E c \in Conn :
       \/ /\ Running(l, Do("connectEstablished", c))
          /\ SetStage(c, "up")
          /\ queue' = Dequeued(l)
          /\ UNCHANGED connections_
       \/ /\ Running(l, Do("connectDestroyed", c))
          /\ SetStage(c, "destroyed")
          /\ queue' = Dequeued(l)
          /\ UNCHANGED connections_
       \/ /\ Running(l, Do("removeConnectionInLoop", c))
          /\ removeConnectionInLoop(c, Dequeued(l))
          /\ UNCHANGED conns
  /\ UNCHANGED <<poolVars, nextConnId_, netVars, phase, quit, active, endVars>>

EndBatch(l) ==
  /\ phase[l] = "run" /\ batch[l] = 0
  /\ phase' = [phase EXCEPT ![l] = "test"]
  /\ UNCHANGED <<poolVars, connVars, netVars, quit, active, queue, batch, endVars>>

------------------------------------------------------------------------------
\* ~TcpServer, on the base loop's thread, while that is not in loop().

DestroyServer ==
  /\ server = "alive" /\ phase[0] \in {"init", "done"}
  /\ server' = "clearing"
  /\ UNCHANGED <<poolVars, connVars, netVars, loopVars, joined>>

\* One round of the destructor's loop: runInLoop(connectDestroyed).
ClearConnection(n) ==
  /\ server = "clearing" /\ n \in DOMAIN connections_
  /\ connections_' = Erase(connections_, n)
  /\ LET c == connections_[n]
         l == conns[c].loop
     IN  IF l = 0
         THEN SetStage(c, "destroyed") /\ UNCHANGED queue
         ELSE queue' = Enqueue(queue, l, Do("connectDestroyed", c)) /\ UNCHANGED conns
  /\ UNCHANGED <<poolVars, nextConnId_, netVars, phase, quit, active, batch, endVars>>

\* Variant with a bug: the pool joins its threads without quitting their loops.
QuitThreadForgets ==
  /\ server = "clearing" /\ DOMAIN connections_ = {} /\ joined < threads
  /\ server' = "joining"
  /\ UNCHANGED <<poolVars, connVars, netVars, loopVars, joined>>

\* Then the members: the pool's EventLoopThreads one after the other ...
QuitThread ==
  /\ server = "clearing" /\ DOMAIN connections_ = {} /\ joined < threads
  /\ server' = "joining"
  /\ quit' = [quit EXCEPT ![joined + 1] = TRUE]
  /\ UNCHANGED <<poolVars, connVars, netVars, phase, active, queue, batch, joined>>

\* Variant with a bug: the pool's threads are quit and not joined.
JoinThreadUnwaited ==
  /\ server = "joining"
  /\ server' = "clearing"
  /\ joined' = joined + 1
  /\ UNCHANGED <<poolVars, connVars, netVars, loopVars>>

JoinThread ==
  /\ server = "joining" /\ phase[joined + 1] = "done"
  /\ server' = "clearing"
  /\ joined' = joined + 1
  /\ UNCHANGED <<poolVars, connVars, netVars, loopVars>>

\* ... and the acceptor, which leaves the poller and closes its socket.
ServerGone ==
  /\ server = "clearing" /\ DOMAIN connections_ = {} /\ joined = threads
  /\ server' = "gone"
  /\ listening' = FALSE
  /\ UNCHANGED <<poolVars, connVars, fds, backlog, arrivals, peerClosed, loopVars, joined>>

------------------------------------------------------------------------------
LoopStep(l) ==
  \/ EnterLoop(l)
  \/ TestQuit(l)
  \/ Poll(l)
  \/ l = 0 /\ (handleRead \/ AcceptFails)
  \/ \E c \in Conn : handleClose(l, c)
  \/ Swap(l)
  \/ RunFunctor(l)
  \/ EndBatch(l)

Destructor ==
  \/ \E n \in DOMAIN connections_ : ClearConnection(n)
  \/ QuitThread
  \/ JoinThread
  \/ ServerGone

Next ==
  \/ \E n \in 0 .. MaxThreads : setThreadNum(n)
  \/ start
  \/ RunLoop
  \/ QuitLoop
  \/ Arrives
  \/ \E c \in Conn : PeerCloses(c)
  \/ \E l \in Loop : LoopStep(l)
  \/ DestroyServer
  \/ Destructor

Spec == Init /\ [][Next]_vars

\* Every loop thread runs; its poll returns for an event, a wakeup or by its timeout.
\* A destructor that has begun goes on.  The user and the network do as they like.
FairSpec ==
  /\ Spec
  /\ \A l \in Loop : WF_vars(LoopStep(l))
  /\ WF_vars(Destructor)

------------------------------------------------------------------------------
\* Any threads connections in a row are on different loops of the pool: round robin
\* shares them evenly, drops and failures of accept notwithstanding (getNextLoop).
EvenShare ==
  \A i, j \in DOMAIN conns :
    i < j /\ j - i < threads => conns[i].loop # conns[j].loop

\* While the server lives, a connection that is not closed is found in connections_
\* under its name: names are not reused, and a removal that comes late or twice
\* erases nobody else's entry (newConnection, removeConnectionInLoop).
OpenIsListed ==
  server = "alive" =>
    \A c \in DOMAIN conns :
      conns[c].stage \in {"new", "up"} =>
        conns[c].name \in DOMAIN connections_ /\ connections_[conns[c].name] = c

\* A connection whose channel is in a loop's poller is alive as long as the loop
\* runs, from the map to the functor that removes it (removeConnectionInLoop,
\* ~TcpServer, and the order in which a loop runs what it is given).
RegisteredIsAlive ==
  \A c \in DOMAIN conns :
    conns[c].stage \in {"up", "closed"} /\ phase[conns[c].loop] # "done" => Alive(c)

\* A closed connection is never forgotten: its removal is queued on the base loop, or
\* already its destruction on its own (removeConnection, removeConnectionInLoop).
ClosedIsLeaving ==
  \A c \in DOMAIN conns :
    conns[c].stage = "closed" =>
      \/ Do("removeConnectionInLoop", c) \in Range(queue[0])
      \/ Do("connectDestroyed", c) \in Range(queue[conns[c].loop])

\* Once the server is gone nobody calls its removeConnection or runs its
\* removeConnectionInLoop, though closeCallback_ and the queued functor hold its
\* raw pointer: the pool joins the I/O threads first.
CallbacksFindServer == [][server = "gone" => UNCHANGED <<queue, connections_>>]_vars

\* Each connection lives as module ConnectionLife has it, however late, often or out
\* of turn its functors run on the two loops: it is established once, struck off the
\* list only when closed or when the server ends, and destroyed only after that.
LifeOf(c) == INSTANCE ConnectionLife WITH
  stage <- IF c \in DOMAIN conns THEN conns[c].stage ELSE "none",
  listed <- c \in Range(connections_),
  ending <- server # "alive"
ImplementsLife ==
  /\ \A c \in Conn : LifeOf(c)!Init
  /\ [][\A c \in Conn : [LifeOf(c)!Next]_(LifeOf(c)!vars)]_vars

\* What waits in the backlog is accepted, or dropped by accept, as soon as there are
\* descriptors, also after running out of them (Acceptor::handleRead).
BacklogServed == backlog > 0 ~> (backlog = 0 \/ Exhausted \/ phase[0] \in {"init", "done"})

\* A connection whose peer closes is removed from its poller and destroyed, which
\* releases its descriptor, if the base loop goes on: through both loops and back.
Released == {c \in DOMAIN conns : conns[c].stage = "destroyed" /\ ~Alive(c)}
CloseReleases ==
  \A c \in Conn : c \in peerClosed ~> (c \in Released \/ phase[0] \in {"init", "done"})

\* ~TcpServer returns, whatever the I/O loops are doing, as long as each is in loop()
\* when it is quit (~EventLoopThread; the other case is EventLoopThread's JoinReturns).
DestructorReturns ==
  (server = "clearing" /\ \A l \in 1 .. threads : phase[l] # "init") ~> server = "gone"

\* TcpServer.cc:42: connectDestroyed is handed to the connection's I/O thread, which
\* does the final cleanup.
CleanupRuns ==
  \A l \in Loop, c \in Conn :
    phase[l] = "done" => Do("connectDestroyed", c) \notin Range(queue[l])
==============================================================================
