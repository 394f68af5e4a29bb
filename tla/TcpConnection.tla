---------------------------- MODULE TcpConnection ----------------------------
(***************************************************************************)
(* One accepted connection (TcpConnection.cc) from newConnection to its    *)
(* removal, with the three parties that race over it:                      *)
(*   - the I/O loop's thread, which handles the channel's events and runs  *)
(*     the functors queued on the loop in batches (EventLoop.cc);          *)
(*   - user threads that hold the connection and call send and shutdown;   *)
(*   - the server (TcpServer.cc), whose main loop removes the connection.  *)
(* The peer and the socket are the kernel's (external).                    *)
(*                                                                         *)
(* The loop is used through what module EventLoop establishes: functors    *)
(* run in queue order, in batches taken after the events of an iteration,  *)
(* and the loop does not sleep while one is pending.                       *)
(***************************************************************************)
EXTENDS Channel

CONSTANTS
  User,                  \* threads other than the loop's that use the connection
  Message,               \* the messages sent, each at most once
  NoMessage,
  MessageLength,         \* bytes in a message
  HighWaterMark,         \* highWaterMark_
  MaxRemovals,           \* bound: how far the main loop falls behind
  BufferOutlivesSend,    \* the caller of send keeps its string until it is sent
  UsersKeepConnection    \* users keep the connection while a call of theirs is queued

ASSUME ConnectionAssumption ==
  /\ NoMessage \notin Message
  /\ MessageLength \in Nat \ {0}
  /\ HighWaterMark \in Nat \ {0}
  /\ MaxRemovals \in Nat \ {0}
  /\ {BufferOutlivesSend, UsersKeepConnection} \subseteq BOOLEAN

VARIABLES
  state_,
  channel_,          \* the channel and its registration (module Channel)
  outputBuffer_,     \* readable bytes
  phase,             \* the I/O loop: polling, handling events, running functors
  work,              \* calls the loop thread has still to make, innermost first
  functors,          \* the batch being run; destroyed only when all have run
  next,              \* index in functors of the first that has not started
  pending,           \* pendingFunctors_
  call,              \* the call each user thread is in
  unsent,            \* messages nobody has sent yet
  freed,             \* messages whose caller has destroyed its string
  held,              \* users hold a shared_ptr
  singleLoop,        \* no I/O threads: the server's loop is the I/O loop; never changes
  inMap,             \* the server's connections_ has the connection
  removals,          \* removeConnectionInLoop functors queued on the main loop
  serverGone,        \* ~TcpServer has begun; its main loop has ended
  peer,              \* the other end: open, has sent FIN, has reset
  unread,            \* received data is waiting in the socket
  soError,           \* SO_ERROR is set
  writeShut,         \* shutdown(SHUT_WR) was called
  wire,              \* history: bytes the kernel accepted
  accepted,          \* history: bytes sendInLoop took charge of
  ups, downs,        \* history: connectionCallback_ calls, up and down (0..2)
  closes             \* history: handleClose calls (0..2)

loopVars == <<phase, work, functors, next, pending>>
userVars == <<call, unsent, freed, held>>
serverVars == <<singleLoop, inMap, removals, serverGone>>
socketVars == <<peer, unread, soError, writeShut, wire>>
historyVars == <<accepted, ups, downs, closes>>
vars == <<state_, channel_, outputBuffer_, loopVars, userVars, serverVars,
          socketVars, historyVars>>

StateE == {"kConnecting", "kConnected", "kDisconnecting", "kDisconnected"}

\* What a loop thread is to call: a functor of the loop, a callback of the channel,
\* the second half of a function, or user code.
Functor == {"connectEstablished", "connectDestroyed", "sendInLoop",
            "shutdownInLoop", "writeComplete", "highWaterMark"}
UserCode == {"connection", "message", "writeComplete", "highWaterMark"}
Op == Functor \cup UserCode \cup {"close", "error", "read", "write", "closed", "remove"}
Item == [op : Op, msg : Message \cup {NoMessage}]

Do(op) == [op |-> op, msg |-> NoMessage]
DoAll(ops) == [i \in DOMAIN ops |-> Do(ops[i])]

Byte == (Message \cup {NoMessage}) \X (1 .. MessageLength)
Bytes(m) == [i \in 1 .. MessageLength |-> <<m, i>>]

CallType == [op : {"none", "send", "shutdown", "stop"}, msg : Message \cup {NoMessage}]

TypeOK ==
  /\ state_ \in StateE
  /\ channel_ \in ChannelType
  /\ outputBuffer_ \in Seq(Byte) /\ wire \in Seq(Byte) /\ accepted \in Seq(Byte)
  /\ phase \in {"poll", "handle", "run"}
  /\ work \in Seq(Item) /\ functors \in Seq(Item) /\ pending \in Seq(Item)
  /\ next \in 1 .. Len(functors) + 1
  /\ call \in [User -> CallType]
  /\ unsent \subseteq Message /\ freed \subseteq Message
  /\ {held, singleLoop, inMap, serverGone, unread, soError, writeShut} \subseteq BOOLEAN
  /\ removals \in 0 .. MaxRemovals
  /\ peer \in {"open", "fin", "reset"}
  /\ ups \in 0 .. 2 /\ downs \in 0 .. 2 /\ closes \in 0 .. 2

\* newConnection has made the connection, put it in connections_ and called
\* runInLoop(connectEstablished): inline when the loops are one.
Init ==
  /\ state_ = "kConnecting"
  /\ channel_ = NewChannel
  /\ outputBuffer_ = <<>>
  /\ singleLoop \in BOOLEAN
  /\ IF singleLoop
     THEN phase = "handle" /\ work = <<Do("connectEstablished")>> /\ pending = <<>>
     ELSE phase = "poll" /\ work = <<>> /\ pending = <<Do("connectEstablished")>>
  /\ functors = <<>>
  /\ next = 1
  /\ call = [u \in User |-> Do("none")]
  /\ unsent = Message
  /\ freed = {}
  /\ held = FALSE
  /\ inMap = TRUE
  /\ removals = 0
  /\ serverGone = FALSE
  /\ peer = "open"
  /\ unread = FALSE
  /\ soError = FALSE
  /\ writeShut = FALSE
  /\ wire = <<>>
  /\ accepted = <<>>
  /\ ups = 0
  /\ downs = 0
  /\ closes = 0

------------------------------------------------------------------------------
\* Lifetime.  send and shutdown bind the raw this pointer; every other functor
\* binds the shared_ptr, and handleEvent holds one while the callbacks run.
\* Variant with a bug: connectDestroyed is bound to the raw pointer too.
RawFunctorAll == {"sendInLoop", "shutdownInLoop", "connectDestroyed"}

RawFunctor == {"sendInLoop", "shutdownInLoop"}
Holds(items) == \E i \in DOMAIN items : items[i].op \notin RawFunctor
Alive == held \/ inMap \/ removals > 0 \/ Holds(work) \/ Holds(functors) \/ Holds(pending)

RawQueued ==
  \E items \in {work, functors, pending} :
    \E i \in DOMAIN items : items[i].op \in RawFunctor

Count(n) == IF n < 2 THEN n + 1 ELSE n

------------------------------------------------------------------------------
\* The socket.

\* Writing fails with EPIPE or ECONNRESET.
Broken == writeShut \/ peer = "reset"

\* What epoll_wait reports for the channel: level-triggered, HUP and ERR always.
Readable == unread \/ peer # "open"
Revents(writable) ==
  (IF Readable THEN {"IN"} \cap channel_.interest ELSE {})
    \cup (IF writable THEN {"OUT"} \cap channel_.interest ELSE {})
    \cup (IF peer = "reset" \/ (peer = "fin" /\ writeShut) THEN {"HUP"} ELSE {})
    \cup (IF soError THEN {"ERR"} ELSE {})

PeerSends ==
  /\ peer = "open" /\ ~unread
  /\ unread' = TRUE
  /\ UNCHANGED <<state_, channel_, outputBuffer_, loopVars, userVars, serverVars,
                 peer, soError, writeShut, wire, historyVars>>

PeerCloses ==
  /\ peer = "open"
  /\ peer' = "fin"
  /\ UNCHANGED <<state_, channel_, outputBuffer_, loopVars, userVars, serverVars,
                 unread, soError, writeShut, wire, historyVars>>

PeerResets ==
  /\ peer # "reset"
  /\ peer' = "reset"
  /\ unread' = FALSE
  /\ soError' = TRUE
  /\ UNCHANGED <<state_, channel_, outputBuffer_, loopVars, userVars, serverVars,
                 writeShut, wire, historyVars>>

------------------------------------------------------------------------------
\* The loop thread: events, then the functors pending at the swap, then again.

Poll(writable) ==
  /\ phase = "poll"
  /\ LET revents == IF channel_.registered /\ Alive THEN Revents(writable) ELSE {}
     IN  /\ revents # {} \/ pending # <<>>
         /\ removals < MaxRemovals \/ serverGone
         /\ work' = DoAll(HandleEvent(revents))
  /\ phase' = "handle"
  /\ UNCHANGED <<state_, channel_, outputBuffer_, functors, next, pending, userVars,
                 serverVars, socketVars, historyVars>>

SwapPending ==
  /\ phase = "handle" /\ work = <<>>
  /\ phase' = "run"
  /\ functors' = pending
  /\ next' = 1
  /\ pending' = <<>>
  /\ UNCHANGED <<state_, channel_, outputBuffer_, work, userVars, serverVars,
                 socketVars, historyVars>>

StartFunctor ==
  /\ phase = "run" /\ work = <<>> /\ next <= Len(functors)
  /\ work' = <<functors[next]>>
  /\ next' = next + 1
  /\ UNCHANGED <<state_, channel_, outputBuffer_, phase, functors, pending, userVars,
                 serverVars, socketVars, historyVars>>

\* Variant with a bug: what was queued while the batch ran is dropped.
EndBatchClears ==
  /\ phase = "run" /\ work = <<>> /\ next > Len(functors)
  /\ phase' = "poll"
  /\ functors' = <<>>
  /\ next' = 1
  /\ pending' = <<>>
  /\ UNCHANGED <<state_, channel_, outputBuffer_, work, userVars, serverVars,
                 socketVars, historyVars>>

EndBatch ==
  /\ phase = "run" /\ work = <<>> /\ next > Len(functors)
  /\ phase' = "poll"
  /\ functors' = <<>>
  /\ next' = 1
  /\ UNCHANGED <<state_, channel_, outputBuffer_, work, pending, userVars, serverVars,
                 socketVars, historyVars>>

At(op) == work # <<>> /\ Head(work).op = op

\* The call at the head of work has made its own changes; calls come next.
Then(calls) == work' = DoAll(calls) \o Tail(work)

connectEstablished ==
  /\ At("connectEstablished")
  /\ state_' = "kConnected"
  /\ channel_' = EnableReading(channel_)
  /\ ups' = Count(ups)
  /\ held' = (User # {})
  /\ Then(<<"connection">>)
  /\ UNCHANGED <<outputBuffer_, phase, functors, next, pending, call, unsent, freed,
                 serverVars, socketVars, accepted, downs, closes>>

\* Variant with a bug: a connection destroyed while connected is removed unreported.
connectDestroyedSilent ==
  /\ At("connectDestroyed")
  /\ channel_' = RemoveChannel(channel_)
  /\ Then(<<>>)
  /\ UNCHANGED <<state_, outputBuffer_, phase, functors, next, pending, userVars, serverVars,
                 socketVars, historyVars>>

\* Its test of state_ and the set after it are one step.
connectDestroyed ==
  /\ At("connectDestroyed")
  /\ IF state_ = "kConnected"
     THEN /\ state_' = "kDisconnected"
          /\ channel_' = DisableAll(channel_)
          /\ downs' = Count(downs)
          /\ Then(<<"connection", "remove">>)
     ELSE /\ channel_' = RemoveChannel(channel_)
          /\ Then(<<>>)
          /\ UNCHANGED <<state_, downs>>
  /\ UNCHANGED <<outputBuffer_, phase, functors, next, pending, userVars, serverVars,
                 socketVars, accepted, ups, closes>>

\* connectDestroyed's last statement, after the user's callback has returned.
RemoveAfterCallback ==
  /\ At("remove")
  /\ channel_' = RemoveChannel(channel_)
  /\ Then(<<>>)
  /\ UNCHANGED <<state_, outputBuffer_, phase, functors, next, pending, userVars,
                 serverVars, socketVars, historyVars>>

\* readFd returns the data, then 0 at end of stream; a pending error comes first.
handleRead ==
  /\ At("read")
  /\ \/ /\ unread
        /\ unread' = FALSE
        /\ Then(<<"message">>)
        /\ UNCHANGED soError
     \/ /\ ~unread /\ soError
        /\ soError' = FALSE
        /\ Then(<<"error">>)
        /\ UNCHANGED unread
     \/ /\ ~unread /\ ~soError
        /\ Then(<<"close">>)
        /\ UNCHANGED <<unread, soError>>
  /\ UNCHANGED <<state_, channel_, outputBuffer_, phase, functors, next, pending,
                 userVars, serverVars, peer, writeShut, wire, historyVars>>

\* getsockopt(SO_ERROR) takes the error.
handleError ==
  /\ At("error")
  /\ soError' = FALSE
  /\ Then(<<>>)
  /\ UNCHANGED <<state_, channel_, outputBuffer_, phase, functors, next, pending,
                 userVars, serverVars, peer, unread, writeShut, wire, historyVars>>

handleClose ==
  /\ At("close")
  /\ state_' = "kDisconnected"
  /\ channel_' = DisableAll(channel_)
  /\ downs' = Count(downs)
  /\ closes' = Count(closes)
  /\ Then(<<"connection", "closed">>)
  /\ UNCHANGED <<outputBuffer_, phase, functors, next, pending, userVars, serverVars,
                 socketVars, accepted, ups>>

\* Variant with a bug: the connection is erased, its connectDestroyed never queued.
removeConnectionForgets == inMap' = FALSE /\ UNCHANGED pending

\* removeConnectionInLoop, on the main loop: erase, then queueInLoop.
removeConnectionInLoop ==
  /\ inMap' = FALSE
  /\ pending' = Append(pending, Do("connectDestroyed"))

\* Variant with a bug: with one loop connectDestroyed runs at once.
removeConnectionAtOnce ==
  /\ At("closed")
  /\ inMap' = FALSE
  /\ Then(<<"connectDestroyed">>)
  /\ UNCHANGED <<state_, channel_, outputBuffer_, phase, functors, next, pending, userVars,
                 singleLoop, removals, serverGone, socketVars, historyVars>>

\* closeCallback_ is TcpServer::removeConnection, which runs the above in the main
\* loop: at once if that is this loop, queued otherwise.
removeConnection ==
  /\ At("closed")
  /\ IF singleLoop
     THEN removeConnectionInLoop /\ UNCHANGED removals
     ELSE /\ removals' = IF removals < MaxRemovals THEN removals + 1 ELSE removals
          /\ UNCHANGED <<inMap, pending>>
  /\ Then(<<>>)
  /\ UNCHANGED <<state_, channel_, outputBuffer_, phase, functors, next, userVars,
                 singleLoop, serverGone, socketVars, historyVars>>

\* Variant with a bug: the removal runs once more than it was queued.
MainLoopRemovesTwice ==
  /\ ~serverGone
  /\ removals' = removals - 1
  /\ removeConnectionInLoop
  /\ UNCHANGED <<state_, channel_, outputBuffer_, phase, work, functors, next, userVars,
                 singleLoop, serverGone, socketVars, historyVars>>

MainLoopRemoves ==
  /\ removals > 0 /\ ~serverGone
  /\ removals' = removals - 1
  /\ removeConnectionInLoop
  /\ UNCHANGED <<state_, channel_, outputBuffer_, phase, work, functors, next, userVars,
                 singleLoop, serverGone, socketVars, historyVars>>

\* ~TcpServer, in the main thread once its loop has ended: every connection still
\* in the map has connectDestroyed queued on its loop.
ServerDestroyed ==
  /\ ~singleLoop /\ ~serverGone
  /\ serverGone' = TRUE
  /\ inMap' = FALSE
  /\ pending' = IF inMap THEN Append(pending, Do("connectDestroyed")) ELSE pending
  /\ UNCHANGED <<state_, channel_, outputBuffer_, phase, work, functors, next, userVars,
                 singleLoop, removals, socketVars, historyVars>>

------------------------------------------------------------------------------
\* Sending and closing, in the loop thread.

\* The write-complete callback, queued when complete holds.
Completion(complete) == IF complete THEN <<Do("writeComplete")>> ELSE <<>>

Crosses(old, new) == new >= HighWaterMark /\ old < HighWaterMark

WritesDirectly == ~IsWriting(channel_) /\ outputBuffer_ = <<>>

\* Variant with a bug: a partial write is forgotten and all of data buffered.
RemainingAll(data, n) == IF n < Len(data) THEN data ELSE <<>>

\* What is left of data once n bytes are written.
Remaining(data, n) == SubSeq(data, n + 1, Len(data))

\* sendInLoop of data, which leaves work alone.  write() takes a prefix of data,
\* empty when it would block or is interrupted.
SendInLoop(data) ==
  LET giveUp == state_ = "kDisconnected"
      fault  == ~giveUp /\ WritesDirectly /\ Broken
  IN
  IF giveUp \/ fault
  THEN /\ soError' = (soError /\ ~fault)
       /\ UNCHANGED <<channel_, outputBuffer_, pending, wire, accepted>>
  ELSE \E n \in 0 .. (IF WritesDirectly THEN Len(data) ELSE 0) :
         LET remaining == Remaining(data, n)
             old == Len(outputBuffer_)
         IN  /\ wire' = wire \o SubSeq(data, 1, n)
             /\ outputBuffer_' = outputBuffer_ \o remaining
             /\ accepted' = accepted \o data
             /\ channel_' = IF remaining # <<>> /\ ~IsWriting(channel_)
                            THEN EnableWriting(channel_) ELSE channel_
             /\ pending' = pending
                  \o Completion(remaining = <<>>)
                  \o (IF remaining # <<>> /\ Crosses(old, old + Len(remaining))
                      THEN <<Do("highWaterMark")>> ELSE <<>>)
             /\ UNCHANGED soError

\* The queued sendInLoop reads the bytes through the pointer the caller left it:
\* anything at all if the string is gone.
SendFunctor ==
  /\ At("sendInLoop") /\ Alive
  /\ \E data \in {Bytes(Head(work).msg)} \cup
                 (IF Head(work).msg \in freed THEN {Bytes(NoMessage)} ELSE {}) :
       SendInLoop(data)
  /\ Then(<<>>)
  /\ UNCHANGED <<state_, phase, functors, next, userVars, serverVars, peer, unread,
                 writeShut, ups, downs, closes>>

\* Variant with a bug: the write side is shut over buffered output.
shutdownAtOnce == writeShut' = TRUE

shutdownInLoop == writeShut' = (writeShut \/ ~IsWriting(channel_))

ShutdownFunctor ==
  /\ At("shutdownInLoop") /\ Alive
  /\ shutdownInLoop
  /\ Then(<<>>)
  /\ UNCHANGED <<state_, channel_, outputBuffer_, phase, functors, next, pending,
                 userVars, serverVars, peer, unread, soError, wire, historyVars>>

\* handleWrite, on a socket epoll found writable; the test of TcpConnection.cc:261 is
\* an assignment, so draining the buffer always disconnects.
handleWrite ==
  /\ At("write")
  /\ Then(<<>>)
  /\ \/ /\ IsWriting(channel_) /\ ~Broken
        /\ \E n \in 1 .. Len(outputBuffer_) :
             /\ wire' = wire \o SubSeq(outputBuffer_, 1, n)
             /\ outputBuffer_' = SubSeq(outputBuffer_, n + 1, Len(outputBuffer_))
        /\ IF outputBuffer_' = <<>>
           THEN /\ channel_' = DisableWriting(channel_)
                /\ pending' = pending \o Completion(TRUE)
                /\ state_' = "kDisconnecting"
                /\ writeShut' = (writeShut \/ ~IsWriting(channel_'))
           ELSE UNCHANGED <<channel_, pending, state_, writeShut>>
        /\ UNCHANGED soError
     \/ /\ IsWriting(channel_) => (Broken \/ outputBuffer_ = <<>>)
        /\ soError' = (soError /\ ~IsWriting(channel_))
        /\ UNCHANGED <<channel_, outputBuffer_, pending, state_, writeShut, wire>>
  /\ UNCHANGED <<phase, functors, next, userVars, serverVars, peer, unread,
                 historyVars>>

\* User code running in the loop thread may call send and shutdown, then returns.
InUserCode == work # <<>> /\ Head(work).op \in UserCode

SendInCallback(m) ==
  /\ InUserCode
  /\ m \in unsent
  /\ unsent' = unsent \ {m}
  /\ IF state_ = "kConnected"
     THEN SendInLoop(Bytes(m))
     ELSE UNCHANGED <<channel_, outputBuffer_, pending, soError, wire, accepted>>
  /\ UNCHANGED <<state_, phase, work, functors, next, call, freed, held, serverVars,
                 peer, unread, writeShut, ups, downs, closes>>

ShutdownInCallback ==
  /\ InUserCode
  /\ state_ = "kConnected"
  /\ state_' = "kDisconnecting"
  /\ shutdownInLoop
  /\ UNCHANGED <<channel_, outputBuffer_, loopVars, userVars, serverVars, peer, unread,
                 soError, wire, historyVars>>

CallbackReturns ==
  /\ InUserCode
  /\ Then(<<>>)
  /\ UNCHANGED <<state_, channel_, outputBuffer_, phase, functors, next, pending,
                 userVars, serverVars, socketVars, historyVars>>

------------------------------------------------------------------------------
\* Calls of the user threads: the test of state_ is one step, what follows another.

InCall(u, op) == call[u].op = op
Goto(u, op, m) == call' = [call EXCEPT ![u] = [op |-> op, msg |-> m]]

Send(u, m) ==
  /\ held /\ InCall(u, "none")
  /\ m \in unsent
  /\ unsent' = unsent \ {m}
  /\ IF state_ = "kConnected" THEN Goto(u, "send", m) ELSE UNCHANGED call
  /\ UNCHANGED <<state_, channel_, outputBuffer_, loopVars, freed, held, serverVars,
                 socketVars, historyVars>>

SendQueues(u) ==
  /\ InCall(u, "send")
  /\ pending' = Append(pending, [op |-> "sendInLoop", msg |-> call[u].msg])
  /\ Goto(u, "none", NoMessage)
  /\ UNCHANGED <<state_, channel_, outputBuffer_, phase, work, functors, next, unsent,
                 freed, held, serverVars, socketVars, historyVars>>

Shutdown(u) ==
  /\ held /\ InCall(u, "none")
  /\ state_ = "kConnected"
  /\ Goto(u, "shutdown", NoMessage)
  /\ UNCHANGED <<state_, channel_, outputBuffer_, loopVars, unsent, freed, held,
                 serverVars, socketVars, historyVars>>

ShutdownSets(u) ==
  /\ InCall(u, "shutdown")
  /\ state_' = "kDisconnecting"
  /\ Goto(u, "stop", NoMessage)
  /\ UNCHANGED <<channel_, outputBuffer_, loopVars, unsent, freed, held, serverVars,
                 socketVars, historyVars>>

ShutdownQueues(u) ==
  /\ InCall(u, "stop")
  /\ pending' = Append(pending, Do("shutdownInLoop"))
  /\ Goto(u, "none", NoMessage)
  /\ UNCHANGED <<state_, channel_, outputBuffer_, phase, work, functors, next, unsent,
                 freed, held, serverVars, socketVars, historyVars>>

\* send has returned and its caller destroys the string it passed.
FreeBuffer(m) ==
  /\ ~BufferOutlivesSend
  /\ m \notin unsent \cup freed
  /\ \A u \in User : call[u].msg # m
  /\ freed' = freed \cup {m}
  /\ UNCHANGED <<state_, channel_, outputBuffer_, loopVars, call, unsent, held,
                 serverVars, socketVars, historyVars>>

UsersRelease ==
  /\ held
  /\ \A u \in User : InCall(u, "none")
  /\ UsersKeepConnection => ~RawQueued
  /\ held' = FALSE
  /\ UNCHANGED <<state_, channel_, outputBuffer_, loopVars, call, unsent, freed,
                 serverVars, socketVars, historyVars>>

------------------------------------------------------------------------------
LoopStep ==
  \/ \E writable \in BOOLEAN : Poll(writable)
  \/ SwapPending
  \/ StartFunctor
  \/ EndBatch
  \/ connectEstablished
  \/ connectDestroyed
  \/ RemoveAfterCallback
  \/ handleRead
  \/ handleError
  \/ handleClose
  \/ handleWrite
  \/ removeConnection
  \/ SendFunctor
  \/ ShutdownFunctor
  \/ CallbackReturns

UserStep(u) ==
  \/ \E m \in Message : Send(u, m)
  \/ SendQueues(u)
  \/ Shutdown(u)
  \/ ShutdownSets(u)
  \/ ShutdownQueues(u)

Next ==
  \/ LoopStep
  \/ \E m \in Message : SendInCallback(m)
  \/ ShutdownInCallback
  \/ MainLoopRemoves
  \/ ServerDestroyed
  \/ \E u \in User : UserStep(u)
  \/ \E m \in Message : FreeBuffer(m)
  \/ UsersRelease
  \/ PeerSends
  \/ PeerCloses
  \/ PeerResets

Spec == Init /\ [][Next]_vars

\* The scheduler runs both loops and lets a call in progress finish.  Nothing is
\* promised of the peer, of the users' next call or of the server's end.
Fairness ==
  /\ WF_vars(LoopStep)
  /\ WF_vars(MainLoopRemoves)
  /\ \A u \in User : WF_vars(SendQueues(u) \/ ShutdownSets(u) \/ ShutdownQueues(u))

FairSpec == Spec /\ Fairness

\* The peer reads what it is sent: as often as the loop polls, it finds room.
DrainSpec == FairSpec /\ SF_vars(Poll(TRUE))

------------------------------------------------------------------------------
\* Properties that hold.

\* The bytes the kernel took, then the bytes buffered, are the bytes sendInLoop took
\* charge of: none lost, repeated or overtaken, whichever of write() and
\* outputBuffer_ each message went through (sendInLoop, handleWrite).
StreamIntegrity == wire \o outputBuffer_ = accepted

\* Until the connection goes down the write side is not shut over buffered output,
\* and nothing is buffered behind it (shutdownInLoop, sendInLoop, handleWrite).
GracefulClose == writeShut /\ downs = 0 => outputBuffer_ = <<>>

\* Once the user was told the connection is down, messageCallback_ is never called
\* again, although the fd stays in the epoll set after disableAll (handleClose,
\* connectDestroyed, EPollPoller::removeChannel).
NoMessageAfterDown == downs > 0 => ~At("message")

\* The poller's map, the channel's index and the kernel's epoll set agree on whether
\* the fd is registered (EPollPoller::updateChannel, removeChannel).
PollerConsistent ==
  /\ channel_.registered <=> channel_.index = KAdded
  /\ channel_.mapped <=> channel_.index # KNew

\* A channel is not removed from the poller while the loop is handling its events,
\* even with one loop for the server and its connections: removeConnectionInLoop
\* queues connectDestroyed, it does not run it.
NotRemovedInHandler == phase = "handle" /\ work # <<>> /\ ups > 0 => channel_.registered

\* The connection is destroyed only after its channel has left the poller, so that
\* no event is delivered to a dead channel (the shared_ptr of connectDestroyed).
RemovedBeforeDeath == ~Alive => ~channel_.mapped

\* A connection that was reported up is reported down before its channel leaves the
\* poller, unless a shutdown got in first: the removal of a kDisconnecting connection
\* reports nothing (connectDestroyed, handleClose).
DownIsReported == ups > 0 /\ ~channel_.mapped => downs > 0 \/ state_ = "kDisconnecting"

\* The end of the stream begins with a call of shutdown alone: handleWrite's assignment
\* to state_ is not reached by a connection that nobody is shutting down.
OnlyShutdownDisconnects ==
  [][state_ # "kDisconnecting" /\ state_' = "kDisconnecting"
       => \/ InUserCode /\ state_ = "kConnected"
          \/ \E u \in User : InCall(u, "shutdown")]_vars

\* A connection that is up hears of its peer's close: as long as it is in the epoll set,
\* that has it with EPOLLIN (enableReading, and what update() makes of every change).
UpIsWatched == ups > 0 /\ downs = 0 /\ channel_.registered => "IN" \in channel_.interest

\* A closed connection that is still in connections_ is on its way out: the loop thread
\* has still to call closeCallback_, or the main loop to run removeConnectionInLoop.
CloseIsUnderWay ==
  closes > 0 /\ inMap => removals > 0 \/ \E i \in DOMAIN work : work[i].op = "closed"

\* A message whose send() found the connection up is on its way to the stream ...
SendTask(m) == [op |-> "sendInLoop", msg |-> m]
Sending(m) ==
  \/ \E u \in User : call[u] = [op |-> "send", msg |-> m]
  \/ \E i \in DOMAIN pending : pending[i] = SendTask(m)
  \/ \E i \in next .. Len(functors) : functors[i] = SendTask(m)
  \/ \E i \in DOMAIN work : work[i] = SendTask(m)
Sent(m) == \E i \in DOMAIN accepted : accepted[i][1] = m

\* ... and stays so, from thread to thread and queue to queue, until it is in the stream:
\* only a broken or disconnected connection drops it, or the caller who destroyed its
\* string too soon (send, queueInLoop, doPendingFunctors, sendInLoop).
NoSendLost ==
  [][\A m \in Message :
       Sending(m) => Sending(m)' \/ Sent(m)'
                     \/ Broken \/ state_ = "kDisconnected" \/ m \in freed]_vars

\* Without foreign users the connection lives as module ConnectionLife has it; with
\* them a removed channel may be registered again (RemovedForGood below).
Stage ==
  IF ups = 0 THEN "new"
  ELSE IF ~channel_.mapped THEN "destroyed"
  ELSE IF closes > 0 THEN "closed" ELSE "up"
Life == INSTANCE ConnectionLife WITH stage <- Stage, listed <- inMap, ending <- serverGone
ImplementsLife == Life!Spec

\* While the server lives, a closed connection leaves connections_ and its channel
\* leaves the poller (handleClose, removeConnection, connectDestroyed).
CloseReaped == closes > 0 ~> ((~inMap /\ ~channel_.mapped) \/ serverGone)

\* The peer's close or reset takes the connection down, unless the channel was
\* removed first by the server's end or the connection is gone.
PeerCloseNoticed ==
  (ups > 0 /\ peer # "open") ~> (downs > 0 \/ ~channel_.registered \/ ~Alive)

\* A message whose send() found the connection up reaches the stream, unless the
\* connection is down or broken by then (send, sendInLoop, doPendingFunctors).
SendReachesStream ==
  \A u \in User, m \in Message :
    (InCall(u, "send") /\ call[u].msg = m)
      ~> (Sent(m) \/ Broken \/ state_ = "kDisconnected")

------------------------------------------------------------------------------
\* What comments of the source say and the code does not do.

\* TcpConnection.cc:148: with write events enabled the poller notices that the socket
\* is writable and handleWrite sends what is buffered.
OutputDrains ==
  (outputBuffer_ # <<>> /\ Alive) ~> (outputBuffer_ = <<>> \/ Broken \/ downs > 0 \/ serverGone)

\* TcpConnection.cc:158: shutdown acts only on a connection that is connected.
DisconnectedIsFinal == [][state_ = "kDisconnected" => state_' = "kDisconnected"]_vars

\* TcpConnection.cc:206: connectDestroyed removes the channel from the poller for good.
RemovedForGood == [][ups > 0 /\ ~channel_.mapped => ~channel_'.mapped]_vars

\* TcpConnection.cc:77,163: send and shutdown hand their work to the I/O thread, for
\* thread safety: the queued task finds its connection, and its message as it was given.
TaskFindsArguments ==
  At("sendInLoop") \/ At("shutdownInLoop") => Alive /\ Head(work).msg \notin freed
==============================================================================
