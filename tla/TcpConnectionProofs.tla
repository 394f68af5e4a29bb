------------------------- MODULE TcpConnectionProofs -------------------------
(***************************************************************************)
(* Proofs about TcpConnection, for any number of users and messages, any   *)
(* message length, high-water mark and bound, one loop or several.         *)
(***************************************************************************)
EXTENDS TcpConnection, SequenceTheorems, TLAPS

------------------------------------------------------------------------------
(***************************************************************************)
(* The channel operators.                                                  *)
(***************************************************************************)

\* PollerConsistent for a channel c.
Consistent(c) ==
  /\ c.registered <=> c.index = KAdded
  /\ c.mapped <=> c.index # KNew

\* After EPOLL_CTL_ADD the fd is in the epoll set, whether it was there before or not.
LEMMA AddProperties ==
  ASSUME NEW c \in ChannelType, c.index = KAdded, c.mapped
  PROVE  /\ EpollAdd(c) \in ChannelType
         /\ Consistent(EpollAdd(c))
         /\ EpollAdd(c).events = c.events
<1>1. CASE c.registered
  BY <1>1 DEF EpollAdd, Consistent, KNew, KAdded
<1>2. CASE ~c.registered
  <2> DEFINE d == [c EXCEPT !.registered = TRUE, !.interest = c.events]
  <2>1. d \in ChannelType /\ d.events = c.events /\ d.index = c.index /\ d.mapped = c.mapped
    BY DEF ChannelType
  <2>2. d.registered
    BY DEF ChannelType
  <2>3. EpollAdd(c) = d
    BY <1>2 DEF EpollAdd
  <2> HIDE DEF d
  <2>4. Consistent(d)
    BY <2>1, <2>2 DEF Consistent, KNew, KAdded
  <2>5. QED
    BY <2>1, <2>3, <2>4
<1>3. QED
  BY <1>1, <1>2

\* updateChannel leaves the channel mapped and registered, whatever it was before.
LEMMA UpdateProperties ==
  ASSUME NEW c \in ChannelType, Consistent(c)
  PROVE  /\ UpdateChannel(c) \in ChannelType
         /\ Consistent(UpdateChannel(c))
         /\ UpdateChannel(c).events = c.events
<1> DEFINE d == [c EXCEPT !.mapped = @ \/ c.index = KNew, !.index = KAdded]
<1>1. d \in ChannelType /\ d.events = c.events /\ d.index = KAdded
  BY DEF ChannelType
<1>2. d.mapped
  BY DEF ChannelType, Consistent
<1>3. UpdateChannel(c) = EpollAdd(d)
  BY DEF UpdateChannel, TakesAddBranch, KDeleted
<1>4. QED
  <2> HIDE DEF d
  <2>1. QED
    BY <1>1, <1>2, <1>3, AddProperties

LEMMA EventsProperties ==
  ASSUME NEW c \in ChannelType, NEW e \in SUBSET (KReadEvent \cup KWriteEvent),
         Consistent(c)
  PROVE  LET d == UpdateChannel([c EXCEPT !.events = e])
         IN  d \in ChannelType /\ Consistent(d) /\ d.events = e
<1>1. [c EXCEPT !.events = e] \in ChannelType /\ Consistent([c EXCEPT !.events = e])
       /\ [c EXCEPT !.events = e].events = e
  BY DEF ChannelType, Consistent
<1>2. QED
  BY <1>1, UpdateProperties

LEMMA RemoveProperties ==
  ASSUME NEW c \in ChannelType, Consistent(c)
  PROVE  /\ RemoveChannel(c) \in ChannelType
         /\ Consistent(RemoveChannel(c))
         /\ RemoveChannel(c).events = c.events
<1> DEFINE d == [(IF c.index = KAdded THEN EpollDel(c) ELSE c)
                   EXCEPT !.mapped = FALSE, !.index = KNew]
<1>1. d \in ChannelType /\ d.events = c.events /\ d.index = KNew /\ ~d.mapped
  BY DEF EpollDel, ChannelType, KNoneEvent
<1>2. ~d.registered
  <2>1. CASE c.index = KAdded
    BY <2>1 DEF EpollDel, ChannelType
  <2>2. CASE c.index # KAdded
    BY <2>2 DEF ChannelType, Consistent
  <2>3. QED
    BY <2>1, <2>2
<1>3. RemoveChannel(c) = d
  BY DEF RemoveChannel
<1> HIDE DEF d
<1>4. Consistent(d)
  BY <1>1, <1>2 DEF Consistent, KNew, KAdded
<1>5. QED
  BY <1>1, <1>3, <1>4

\* The five operations a connection uses: typing, consistency, and what is left of
\* the interest in writing.
LEMMA ChannelProperties ==
  ASSUME NEW c \in ChannelType, Consistent(c)
  PROVE  /\ \A d \in {EnableReading(c), EnableWriting(c), DisableWriting(c),
                      DisableAll(c), RemoveChannel(c)} :
              d \in ChannelType /\ Consistent(d)
         /\ IsWriting(EnableReading(c)) <=> IsWriting(c)
         /\ IsWriting(RemoveChannel(c)) <=> IsWriting(c)
         /\ IsWriting(EnableWriting(c))
         /\ ~IsWriting(DisableWriting(c))
         /\ ~IsWriting(DisableAll(c))
<1>1. c.events \in SUBSET (KReadEvent \cup KWriteEvent)
  BY DEF ChannelType
<1> USE <1>1 DEF KReadEvent, KWriteEvent, KNoneEvent
<1>2. /\ EnableReading(c) \in ChannelType /\ Consistent(EnableReading(c))
      /\ EnableReading(c).events = c.events \cup KReadEvent
  BY EventsProperties DEF EnableReading
<1>3. /\ EnableWriting(c) \in ChannelType /\ Consistent(EnableWriting(c))
      /\ EnableWriting(c).events = c.events \cup KWriteEvent
  BY EventsProperties DEF EnableWriting
<1>4. /\ DisableWriting(c) \in ChannelType /\ Consistent(DisableWriting(c))
      /\ DisableWriting(c).events = c.events \ KWriteEvent
  BY EventsProperties DEF DisableWriting
<1>5. /\ DisableAll(c) \in ChannelType /\ Consistent(DisableAll(c))
      /\ DisableAll(c).events = KNoneEvent
  BY EventsProperties DEF DisableAll
<1>6. QED
  BY <1>2, <1>3, <1>4, <1>5, RemoveProperties DEF IsWriting

------------------------------------------------------------------------------
(***************************************************************************)
(* Sequences of items and of bytes.                                        *)
(***************************************************************************)
LEMMA DoType ==
  ASSUME NEW op \in Op
  PROVE  Do(op) \in Item
  BY DEF Do, Item

LEMMA DoAllType ==
  ASSUME NEW ops \in Seq(Op)
  PROVE  DoAll(ops) \in Seq(Item)
<1>1. \A i \in 1 .. Len(ops) : Do(ops[i]) \in Item
  BY DoType, ElementOfSeq
<1>2. DoAll(ops) = [i \in 1 .. Len(ops) |-> Do(ops[i])] /\ Len(ops) \in Nat
  BY LenProperties DEF DoAll
<1>3. DoAll(ops) \in [1 .. Len(ops) -> Item]
  BY <1>1, <1>2
<1>4. QED
  BY <1>2, <1>3, SeqDef

LEMMA CallsType ==
  ASSUME NEW revents
  PROVE  HandleEvent(revents) \in Seq(Op)
<1>1. \A callback \in Op : \A condition : Calls(callback, condition) \in Seq(Op)
  BY EmptySeq DEF Calls
<1>2. {"close", "error", "read", "write"} \subseteq Op
  BY DEF Op
<1>3. QED
  BY <1>1, <1>2, ConcatProperties DEF HandleEvent

\* What the loop thread has still to do after a call.
LEMMA ThenType ==
  ASSUME work \in Seq(Item), work # <<>>, NEW ops \in Seq(Op), Then(ops)
  PROVE  work' \in Seq(Item)
  BY DoAllType, HeadTailProperties, ConcatProperties DEF Then

LEMMA BytesType ==
  ASSUME NEW m \in Message \cup {NoMessage}
  PROVE  Bytes(m) \in Seq(Byte)
<1>1. Bytes(m) \in [1 .. MessageLength -> Byte]
  BY DEF Bytes, Byte
<1>2. QED
  BY <1>1, SeqDef, ConnectionAssumption

\* A write of n bytes splits the data in two.
LEMMA SplitProperties ==
  ASSUME NEW data \in Seq(Byte), NEW n \in 0 .. Len(data)
  PROVE  /\ SubSeq(data, 1, n) \in Seq(Byte)
         /\ SubSeq(data, n + 1, Len(data)) \in Seq(Byte)
         /\ SubSeq(data, 1, n) \o SubSeq(data, n + 1, Len(data)) = data
<1>1. Len(data) \in Nat
  BY LenProperties
<1>2. SubSeq(data, 1, n) \in Seq(Byte) /\ SubSeq(data, n + 1, Len(data)) \in Seq(Byte)
  BY <1>1, SubSeqProperties, ElementOfSeq
<1>3. 1 \in 1 .. Len(data) + 1 /\ n \in 1 - 1 .. Len(data) /\ Len(data) \in n .. Len(data)
  BY <1>1
<1>4. SubSeq(data, 1, n) \o SubSeq(data, n + 1, Len(data)) = SubSeq(data, 1, Len(data))
  BY <1>3, ConcatAdjacentSubSeq
<1>5. QED
  BY <1>2, <1>4, SubSeqFull
------------------------------------------------------------------------------
(***************************************************************************)
(* sendInLoop, whoever calls it: what it does to the connection.           *)
(***************************************************************************)
LEMMA SendTypes ==
  ASSUME TypeOK, PollerConsistent, NEW data \in Seq(Byte), SendInLoop(data)
  PROVE  /\ channel_' \in ChannelType /\ Consistent(channel_')
         /\ outputBuffer_' \in Seq(Byte) /\ wire' \in Seq(Byte) /\ accepted' \in Seq(Byte)
         /\ pending' \in Seq(Item)
         /\ soError' \in BOOLEAN
<1>1. channel_ \in ChannelType /\ Consistent(channel_)
  BY DEF TypeOK, PollerConsistent, Consistent
<1>2. CASE state_ = "kDisconnected" \/ (WritesDirectly /\ Broken)
  BY <1>1, <1>2 DEF SendInLoop, TypeOK
<1>3. CASE ~(state_ = "kDisconnected" \/ (WritesDirectly /\ Broken))
  <2>1. PICK n \in 0 .. (IF WritesDirectly THEN Len(data) ELSE 0) :
          LET remaining == SubSeq(data, n + 1, Len(data))
              old == Len(outputBuffer_)
          IN  /\ wire' = wire \o SubSeq(data, 1, n)
              /\ outputBuffer_' = outputBuffer_ \o remaining
              /\ accepted' = accepted \o data
              /\ channel_' = IF remaining # <<>> /\ ~IsWriting(channel_)
                             THEN EnableWriting(channel_) ELSE channel_
              /\ pending' = pending
                   \o Completion(remaining = <<>>)
                   \o (IF remaining # <<>> /\ Crosses(old, old + Len(remaining))
                       THEN <<Do("highWaterMark")>> ELSE <<>>)
              /\ UNCHANGED soError
    BY <1>3 DEF SendInLoop, Remaining
  <2>2. n \in 0 .. Len(data)
    BY <2>1, LenProperties
  <2>3. outputBuffer_' \in Seq(Byte) /\ wire' \in Seq(Byte) /\ accepted' \in Seq(Byte)
    BY <2>1, <2>2, SplitProperties, ConcatProperties DEF TypeOK
  <2>4. <<Do("highWaterMark")>> \in Seq(Item) /\ <<Do("writeComplete")>> \in Seq(Item)
    BY DoType DEF Op, Functor
  <2>5. \A complete : Completion(complete) \in Seq(Item)
    BY <2>4, EmptySeq DEF Completion
  <2>6. pending' \in Seq(Item)
    BY <2>1, <2>4, <2>5, EmptySeq, ConcatProperties DEF TypeOK
  <2>7. channel_' \in ChannelType /\ Consistent(channel_')
    BY <1>1, <2>1, ChannelProperties
  <2>8. QED
    BY <2>1, <2>3, <2>6, <2>7 DEF TypeOK
<1>4. QED
  BY <1>2, <1>3
------------------------------------------------------------------------------
(***************************************************************************)
(* Typing, with the poller's consistency, which the channel operators need.*)
(***************************************************************************)
Typed == TypeOK /\ PollerConsistent

LEMMA InitTyped == Init => Typed
<1> SUFFICES ASSUME Init
             PROVE  Typed
  OBVIOUS
<1>1. channel_ \in ChannelType /\ PollerConsistent
  BY DEF Init, NewChannel, ChannelType, PollerConsistent, KNew, KAdded, KDeleted, KNoneEvent
<1>2. work \in Seq(Item) /\ pending \in Seq(Item)
  <2>1. <<Do("connectEstablished")>> \in Seq(Item)
    BY DoType DEF Op, Functor
  <2>2. <<>> \in Seq(Item)
    BY EmptySeq
  <2>3. QED
    BY <2>1, <2>2, Zenon DEF Init
<1>3. call \in [User -> CallType]
  BY DEF Init, Do, CallType
<1>4. functors \in Seq(Item) /\ next \in 1 .. Len(functors) + 1
  BY EmptySeq DEF Init
<1>5. outputBuffer_ \in Seq(Byte) /\ wire \in Seq(Byte) /\ accepted \in Seq(Byte)
  BY EmptySeq DEF Init
<1>6. phase \in {"poll", "handle", "run"}
  BY Zenon DEF Init
<1>7. removals \in 0 .. MaxRemovals
  BY ConnectionAssumption DEF Init
<1>8. {held, singleLoop, inMap, serverGone, unread, soError, writeShut} \subseteq BOOLEAN
  BY Zenon DEF Init
<1>9. /\ state_ \in StateE /\ peer \in {"open", "fin", "reset"}
      /\ unsent \subseteq Message /\ freed \subseteq Message
  BY DEF Init, StateE
<1>10. ups \in 0 .. 2 /\ downs \in 0 .. 2 /\ closes \in 0 .. 2
  BY DEF Init
<1>11. QED
  BY <1>1, <1>2, <1>3, <1>4, <1>5, <1>6, <1>7, <1>8, <1>9, <1>10, Zenon DEF Typed, TypeOK

\* The loop's own bookkeeping.
LEMMA LoopTyped ==
  ASSUME Typed,
         (\E writable \in BOOLEAN : Poll(writable))
           \/ SwapPending \/ StartFunctor \/ EndBatch \/ CallbackReturns
  PROVE  Typed'
<1> USE DEF Typed, TypeOK, PollerConsistent, userVars, serverVars, socketVars, historyVars
<1>1. ASSUME NEW writable \in BOOLEAN, Poll(writable)
      PROVE  Typed'
  <2>1. work' \in Seq(Item)
    BY <1>1, CallsType, DoAllType DEF Poll
  <2>2. QED
    BY <1>1, <2>1 DEF Poll
<1>2. CASE SwapPending
  <2>1. next' \in 1 .. Len(functors') + 1 /\ pending' \in Seq(Item)
    BY <1>2, LenProperties, EmptySeq DEF SwapPending
  <2>2. QED
    BY <1>2, <2>1 DEF SwapPending
<1>3. CASE StartFunctor
  <2>1. functors[next] \in Item
    BY <1>3, ElementOfSeq, LenProperties DEF StartFunctor
  <2>2. next' \in 1 .. Len(functors') + 1
    BY <1>3, LenProperties DEF StartFunctor
  <2>3. work' \in Seq(Item)
    BY <1>3, <2>1 DEF StartFunctor
  <2>4. QED
    BY <1>3, <2>2, <2>3 DEF StartFunctor
<1>4. CASE EndBatch
  <2>1. functors' \in Seq(Item) /\ next' \in 1 .. Len(functors') + 1
    BY <1>4, EmptySeq DEF EndBatch
  <2>2. QED
    BY <1>4, <2>1 DEF EndBatch
<1>5. CASE CallbackReturns
  <2>1. work' \in Seq(Item)
    BY <1>5, ThenType, EmptySeq DEF CallbackReturns, InUserCode
  <2>2. QED
    BY <1>5, <2>1 DEF CallbackReturns
<1>6. QED
  BY <1>1, <1>2, <1>3, <1>4, <1>5
LEMMA ThenTypes ==
  ASSUME work \in Seq(Item), work # <<>>,
         \/ Then(<<>>)
         \/ \E a \in Op : Then(<<a>>)
         \/ \E a, b \in Op : Then(<<a, b>>)
  PROVE  work' \in Seq(Item)
<1>1. <<>> \in Seq(Op)
  BY EmptySeq
<1>2. \A a, b \in Op : <<a>> \in Seq(Op) /\ <<a, b>> \in Seq(Op)
  OBVIOUS
<1>3. QED
  BY <1>1, <1>2, ThenType

LEMMA CountType == \A n \in 0 .. 2 : Count(n) \in 1 .. 2
  BY DEF Count

LEMMA QueueType ==
  ASSUME NEW queue \in Seq(Item), NEW op \in Op
  PROVE  Append(queue, Do(op)) \in Seq(Item)
  BY DoType, AppendProperties

\* The calls the loop thread makes on the connection.
LEMMA LifeTyped ==
  ASSUME Typed, connectEstablished \/ connectDestroyed \/ RemoveAfterCallback \/ handleClose
  PROVE  Typed'
<1>1. channel_ \in ChannelType /\ Consistent(channel_)
  BY DEF Typed, TypeOK, PollerConsistent, Consistent
<1>2. channel_' \in ChannelType /\ PollerConsistent'
  <2>1. channel_' \in {EnableReading(channel_), DisableAll(channel_), RemoveChannel(channel_)}
    BY DEF connectEstablished, connectDestroyed, RemoveAfterCallback, handleClose
  <2>2. channel_' \in ChannelType /\ Consistent(channel_')
    BY <1>1, <2>1, ChannelProperties
  <2>3. QED
    BY <2>2 DEF PollerConsistent, Consistent
<1>3. work' \in Seq(Item)
  <2>1. work \in Seq(Item) /\ work # <<>>
    BY DEF Typed, TypeOK, connectEstablished, connectDestroyed, RemoveAfterCallback,
           handleClose, At
  <2>2. {"connection", "closed", "remove"} \subseteq Op
    BY DEF Op, UserCode
  <2>3. Then(<<>>) \/ Then(<<"connection">>) \/ Then(<<"connection", "closed">>)
          \/ Then(<<"connection", "remove">>)
    BY DEF connectEstablished, connectDestroyed, RemoveAfterCallback, handleClose
  <2>4. QED
    BY <2>1, <2>2, <2>3, ThenTypes
<1>4. state_' \in StateE
  BY DEF Typed, TypeOK, StateE, connectEstablished, connectDestroyed,
         RemoveAfterCallback, handleClose, historyVars
<1>5. ups' \in 0 .. 2 /\ downs' \in 0 .. 2 /\ closes' \in 0 .. 2
  BY CountType DEF Typed, TypeOK, connectEstablished, connectDestroyed,
     RemoveAfterCallback, handleClose, historyVars
<1>6. held' \in BOOLEAN
  BY Zenon DEF Typed, TypeOK, connectEstablished, connectDestroyed,
     RemoveAfterCallback, handleClose, userVars
<1>7. UNCHANGED <<outputBuffer_, wire, accepted, phase, functors, next, pending, call,
                  unsent, freed, serverVars, socketVars>>
  BY DEF connectEstablished, connectDestroyed, RemoveAfterCallback, handleClose,
         userVars, historyVars, socketVars
<1>8. QED
  BY <1>2, <1>3, <1>4, <1>5, <1>6, <1>7 DEF Typed, TypeOK, serverVars, socketVars

LEMMA ReadTyped ==
  ASSUME Typed, handleRead \/ handleError \/ removeConnection
  PROVE  Typed'
<1> USE DEF Typed, TypeOK, PollerConsistent, userVars, serverVars, socketVars, historyVars
<1>1. {"message", "error", "close"} \subseteq Op
  BY DEF Op, UserCode
<1>2. work' \in Seq(Item)
  <2>1. work # <<>>
    BY DEF handleRead, handleError, removeConnection, At
  <2>2. Then(<<>>) \/ Then(<<"message">>) \/ Then(<<"error">>) \/ Then(<<"close">>)
    BY DEF handleRead, handleError, removeConnection
  <2>3. QED
    BY <1>1, <2>1, <2>2, ThenTypes
<1>3. CASE handleRead
  BY <1>2, <1>3 DEF handleRead
<1>4. CASE handleError
  BY <1>2, <1>4 DEF handleError
<1>5. CASE removeConnection
  <2>1. pending' \in Seq(Item)
    BY <1>5, QueueType DEF removeConnection, removeConnectionInLoop, Op, Functor
  <2>2. inMap' \in BOOLEAN
    BY <1>5, Zenon DEF removeConnection, removeConnectionInLoop
  <2>3. removals' \in 0 .. MaxRemovals
    BY <1>5, ConnectionAssumption DEF removeConnection
  <2>4. QED
    BY <1>2, <1>5, <2>1, <2>2, <2>3 DEF removeConnection
<1>6. QED
  BY <1>3, <1>4, <1>5
LEMMA SendTyped ==
  ASSUME Typed, SendFunctor \/ \E m \in Message : SendInCallback(m)
  PROVE  Typed'
<1>1. CASE SendFunctor
  <2>1. work # <<>> /\ work \in Seq(Item)
    BY <1>1 DEF SendFunctor, At, Typed, TypeOK
  <2>2. Head(work).msg \in Message \cup {NoMessage}
    <3>1. Head(work) \in Item
      BY <2>1, HeadTailProperties
    <3>2. QED
      BY <3>1 DEF Item
  <2>3. \E data \in Seq(Byte) : SendInLoop(data)
    BY <1>1, <2>2, BytesType DEF SendFunctor
  <2>4. work' \in Seq(Item)
    BY <1>1, <2>1, ThenTypes DEF SendFunctor
  <2>5. QED
    BY <1>1, <2>3, <2>4, SendTypes
       DEF SendFunctor, Typed, TypeOK, PollerConsistent, Consistent, userVars, serverVars
<1>2. ASSUME NEW m \in Message, SendInCallback(m), state_ = "kConnected"
      PROVE  Typed'
  <2>1. \E data \in Seq(Byte) : SendInLoop(data)
    BY <1>2, BytesType DEF SendInCallback
  <2>2. QED
    BY <1>2, <2>1, SendTypes
       DEF SendInCallback, Typed, TypeOK, PollerConsistent, Consistent, serverVars
<1>3. ASSUME NEW m \in Message, SendInCallback(m), state_ # "kConnected"
      PROVE  Typed'
  BY <1>3 DEF SendInCallback, Typed, TypeOK, PollerConsistent, serverVars
<1>4. QED
  BY <1>1, <1>2, <1>3

LEMMA WriteTyped ==
  ASSUME Typed, handleWrite
  PROVE  Typed'
<1>1. channel_ \in ChannelType /\ Consistent(channel_)
  BY DEF Typed, TypeOK, PollerConsistent, Consistent
<1>2. work' \in Seq(Item)
  BY ThenTypes DEF handleWrite, At, Typed, TypeOK
<1>3. CASE UNCHANGED <<channel_, outputBuffer_, pending, state_, writeShut, wire>>
             /\ soError' = (soError /\ ~IsWriting(channel_))
  BY <1>2, <1>3 DEF handleWrite, Typed, TypeOK, PollerConsistent, userVars, serverVars,
                    historyVars
<1>4. ASSUME NEW n \in 1 .. Len(outputBuffer_),
             wire' = wire \o SubSeq(outputBuffer_, 1, n),
             outputBuffer_' = SubSeq(outputBuffer_, n + 1, Len(outputBuffer_)),
             UNCHANGED soError,
             IF outputBuffer_' = <<>>
             THEN /\ channel_' = DisableWriting(channel_)
                  /\ pending' = pending \o Completion(TRUE)
                  /\ state_' = "kDisconnecting"
                  /\ writeShut' = (writeShut \/ ~IsWriting(channel_'))
             ELSE UNCHANGED <<channel_, pending, state_, writeShut>>
      PROVE  Typed'
  <2>1. outputBuffer_' \in Seq(Byte) /\ wire' \in Seq(Byte)
    <3>1. outputBuffer_ \in Seq(Byte) /\ wire \in Seq(Byte) /\ n \in 0 .. Len(outputBuffer_)
      BY LenProperties DEF Typed, TypeOK
    <3>2. QED
      BY <1>4, <3>1, SplitProperties, ConcatProperties
  <2>2. pending' \in Seq(Item)
    <3>1. Completion(TRUE) \in Seq(Item)
      BY DoType DEF Completion, Op, Functor
    <3>2. pending' = pending \/ pending' = pending \o Completion(TRUE)
      BY <1>4, Zenon
    <3>3. QED
      BY <3>1, <3>2, ConcatProperties DEF Typed, TypeOK
  <2>3. channel_' \in ChannelType /\ Consistent(channel_')
    <3>1. channel_' = channel_ \/ channel_' = DisableWriting(channel_)
      BY <1>4, Zenon
    <3>2. QED
      BY <1>1, <3>1, ChannelProperties
  <2>4. state_' \in StateE /\ writeShut' \in BOOLEAN
    BY <1>4 DEF Typed, TypeOK, StateE
  <2>5. QED
    BY <1>2, <1>4, <2>1, <2>2, <2>3, <2>4
       DEF handleWrite, Typed, TypeOK, PollerConsistent, Consistent, userVars, serverVars,
           historyVars
<1>5. QED
  BY <1>3, <1>4 DEF handleWrite

LEMMA ShutdownTyped ==
  ASSUME Typed, ShutdownFunctor \/ ShutdownInCallback
  PROVE  Typed'
<1> USE DEF Typed, TypeOK, PollerConsistent, StateE, shutdownInLoop, loopVars, userVars,
            serverVars, historyVars
<1>1. CASE ShutdownFunctor
  <2>1. work' \in Seq(Item)
    BY <1>1, ThenTypes DEF ShutdownFunctor, At
  <2>2. QED
    BY <1>1, <2>1 DEF ShutdownFunctor
<1>2. CASE ShutdownInCallback
  BY <1>2 DEF ShutdownInCallback
<1>3. QED
  BY <1>1, <1>2

\* The server's loop, the users' threads and the peer.
LEMMA ServerTyped ==
  ASSUME Typed, MainLoopRemoves \/ ServerDestroyed
  PROVE  Typed'
<1> USE DEF Typed, TypeOK, PollerConsistent, userVars, socketVars, historyVars
<1>1. Append(pending, Do("connectDestroyed")) \in Seq(Item)
  BY QueueType DEF Op, Functor
<1>2. CASE MainLoopRemoves
  <2>1. removals' \in 0 .. MaxRemovals
    BY <1>2, ConnectionAssumption DEF MainLoopRemoves
  <2>2. pending' \in Seq(Item) /\ inMap' = FALSE
    BY <1>1, <1>2 DEF MainLoopRemoves, removeConnectionInLoop
  <2>3. QED
    BY <1>2, <2>1, <2>2 DEF MainLoopRemoves
<1>3. CASE ServerDestroyed
  BY <1>1, <1>3 DEF ServerDestroyed
<1>4. QED
  BY <1>2, <1>3

\* A user thread's new place in its call has the type of one.
LEMMA GotoTyped ==
  ASSUME call \in [User -> CallType], NEW u \in User,
         NEW op \in {"none", "send", "shutdown", "stop"}, NEW m \in Message \cup {NoMessage},
         Goto(u, op, m)
  PROVE  call' \in [User -> CallType]
<1>1. [op |-> op, msg |-> m] \in CallType
  BY DEF CallType
<1>2. QED
  BY <1>1 DEF Goto

LEMMA UserTyped ==
  ASSUME Typed, \/ \E u \in User : UserStep(u)
                \/ \E m \in Message : FreeBuffer(m)
                \/ UsersRelease
  PROVE  Typed'
<1> USE DEF Typed, TypeOK, PollerConsistent, loopVars, userVars, serverVars, socketVars,
            historyVars, Goto, InCall, CallType
<1>1. ASSUME NEW u \in User, NEW m \in Message, Send(u, m)
      PROVE  Typed'
  <2>1. call' \in [User -> CallType]
    <3>1. CASE Goto(u, "send", m)
      <4>1. "send" \in {"none", "send", "shutdown", "stop"} /\ m \in Message \cup {NoMessage}
        OBVIOUS
      <4>2. call \in [User -> CallType]
        BY DEF Typed, TypeOK
      <4> HIDE DEF Typed, TypeOK, Goto, CallType
      <4>3. QED
        BY <3>1, <4>1, <4>2, GotoTyped
    <3>2. CASE UNCHANGED call
      BY <3>2
    <3>3. QED
      BY <1>1, <3>1, <3>2 DEF Send
  <2>2. unsent' \subseteq Message
    BY <1>1 DEF Send
  <2>3. QED
    BY <1>1, <2>1, <2>2 DEF Send
<1>2. ASSUME NEW u \in User, SendQueues(u)
      PROVE  Typed'
  <2>1. [op |-> "sendInLoop", msg |-> call[u].msg] \in Item
    BY DEF Item, Op, Functor
  <2>2. pending' \in Seq(Item)
    BY <1>2, <2>1, AppendProperties DEF SendQueues
  <2>3. QED
    BY <1>2, <2>2 DEF SendQueues
<1>3. ASSUME NEW u \in User, Shutdown(u) \/ ShutdownSets(u)
      PROVE  Typed'
  <2>1. \A op \in {"shutdown", "stop"} : Goto(u, op, NoMessage) => call' \in [User -> CallType]
    OBVIOUS
  <2>2. call' \in [User -> CallType] /\ state_' \in StateE
    BY <1>3, <2>1 DEF Shutdown, ShutdownSets, StateE
  <2>3. QED
    BY <1>3, <2>2 DEF Shutdown, ShutdownSets
<1>4. ASSUME NEW u \in User, ShutdownQueues(u)
      PROVE  Typed'
  <2>1. pending' \in Seq(Item)
    BY <1>4, QueueType DEF ShutdownQueues, Op, Functor
  <2>2. QED
    BY <1>4, <2>1 DEF ShutdownQueues
<1>5. ASSUME NEW m \in Message, FreeBuffer(m)
      PROVE  Typed'
  BY <1>5 DEF FreeBuffer
<1>6. CASE UsersRelease
  BY <1>6 DEF UsersRelease
<1>7. QED
  BY <1>1, <1>2, <1>3, <1>4, <1>5, <1>6 DEF UserStep

LEMMA PeerTyped ==
  ASSUME Typed, PeerSends \/ PeerCloses \/ PeerResets
  PROVE  Typed'
  BY DEF PeerSends, PeerCloses, PeerResets, Typed, TypeOK, PollerConsistent, loopVars,
         userVars, serverVars, socketVars, historyVars

LEMMA NextTyped == Typed /\ [Next]_vars => Typed'
<1>1. CASE UNCHANGED vars
  BY <1>1 DEF vars, Typed, TypeOK, PollerConsistent, loopVars, userVars, serverVars,
              socketVars, historyVars
<1>2. QED
  BY <1>1, LoopTyped, LifeTyped, ReadTyped, SendTyped, WriteTyped, ShutdownTyped,
     ServerTyped, UserTyped, PeerTyped DEF Next, LoopStep

LEMMA AlwaysTyped == Spec => []Typed
  BY InitTyped, NextTyped, PTL DEF Spec

\* Every variable of a connection stays in its type.
THEOREM TypeCorrect == Spec => []TypeOK
<1>1. Typed => TypeOK
  BY DEF Typed
<1>2. QED
  BY <1>1, AlwaysTyped, PTL

\* updateChannel and removeChannel never leave the poller's map, the channel's index
\* and the kernel's epoll set in disagreement (EPollPoller.cc:73-117).
THEOREM PollerStaysConsistent == Spec => []PollerConsistent
<1>1. Typed => PollerConsistent
  BY DEF Typed
<1>2. QED
  BY <1>1, AlwaysTyped, PTL
------------------------------------------------------------------------------
(***************************************************************************)
(* The stream.  GracefulClose is not inductive: shutdownInLoop looks at    *)
(* isWriting, not at the buffer, so Watched is needed to know that the two *)
(* agree until the connection goes down; StreamIntegrity needs only that a *)
(* direct write finds the buffer empty.                                    *)
(***************************************************************************)
Watched ==
  /\ IsWriting(channel_) => outputBuffer_ # <<>>
  /\ outputBuffer_ # <<>> /\ downs = 0 => IsWriting(channel_)

StreamInv == Typed /\ StreamIntegrity /\ Watched /\ GracefulClose

\* What a step leaves alone when it has nothing to do with the stream.
StreamFrame ==
  UNCHANGED <<wire, outputBuffer_, accepted, channel_, writeShut, downs>>

LEMMA FrameStream ==
  ASSUME StreamInv, StreamFrame
  PROVE  StreamIntegrity' /\ Watched' /\ GracefulClose'
  BY DEF StreamInv, StreamFrame, StreamIntegrity, Watched, GracefulClose, IsWriting

\* Bytes written directly, or buffered behind those already there, extend the stream.
LEMMA Associative ==
  \A a, b, c \in Seq(Byte) : (a \o b) \o c = a \o (b \o c)
  BY ConcatAssociative

LEMMA DirectAlgebra ==
  ASSUME NEW w \in Seq(Byte), NEW data \in Seq(Byte), NEW n \in 0 .. Len(data)
  PROVE  (w \o SubSeq(data, 1, n)) \o (<<>> \o SubSeq(data, n + 1, Len(data)))
           = (w \o <<>>) \o data
<1>1. /\ SubSeq(data, 1, n) \in Seq(Byte)
      /\ SubSeq(data, n + 1, Len(data)) \in Seq(Byte)
      /\ SubSeq(data, 1, n) \o SubSeq(data, n + 1, Len(data)) = data
  BY SplitProperties
<1>2. <<>> \o SubSeq(data, n + 1, Len(data)) = SubSeq(data, n + 1, Len(data))
       /\ w \o <<>> = w
  BY <1>1, ConcatEmptySeq
<1>3. (w \o SubSeq(data, 1, n)) \o SubSeq(data, n + 1, Len(data))
       = w \o (SubSeq(data, 1, n) \o SubSeq(data, n + 1, Len(data)))
  BY <1>1, Associative, Zenon
<1>4. QED
  BY <1>1, <1>2, <1>3

LEMMA BufferAlgebra ==
  ASSUME NEW w \in Seq(Byte), NEW b \in Seq(Byte), NEW data \in Seq(Byte)
  PROVE  (w \o SubSeq(data, 1, 0)) \o (b \o SubSeq(data, 0 + 1, Len(data)))
           = (w \o b) \o data
<1>1. SubSeq(data, 1, 0) = <<>> /\ SubSeq(data, 0 + 1, Len(data)) = data
  BY SubSeqEmpty, SubSeqFull
<1>2. w \o <<>> = w
  BY ConcatEmptySeq
<1>3. w \o (b \o data) = (w \o b) \o data
  BY ConcatAssociative
<1>4. QED
  BY <1>1, <1>2, <1>3

LEMMA SendStream ==
  ASSUME StreamInv, NEW data \in Seq(Byte), SendInLoop(data), UNCHANGED <<writeShut, downs>>
  PROVE  StreamIntegrity' /\ Watched' /\ GracefulClose'
<1>1. /\ channel_ \in ChannelType /\ Consistent(channel_)
      /\ wire \in Seq(Byte) /\ outputBuffer_ \in Seq(Byte)
  BY DEF StreamInv, Typed, TypeOK, PollerConsistent, Consistent
<1>2. CASE state_ = "kDisconnected" \/ (WritesDirectly /\ Broken)
  BY <1>2, FrameStream DEF SendInLoop, StreamFrame
<1>3. CASE ~(state_ = "kDisconnected" \/ (WritesDirectly /\ Broken))
  <2>1. PICK n \in 0 .. (IF WritesDirectly THEN Len(data) ELSE 0) :
          LET remaining == SubSeq(data, n + 1, Len(data))
          IN  /\ wire' = wire \o SubSeq(data, 1, n)
              /\ outputBuffer_' = outputBuffer_ \o remaining
              /\ accepted' = accepted \o data
              /\ channel_' = IF remaining # <<>> /\ ~IsWriting(channel_)
                             THEN EnableWriting(channel_) ELSE channel_
    BY <1>3 DEF SendInLoop, Remaining
  <2> DEFINE remaining == SubSeq(data, n + 1, Len(data))
  <2>2. n \in 0 .. Len(data) /\ remaining \in Seq(Byte)
    BY <2>1, LenProperties, SplitProperties
  <2>3. StreamIntegrity'
    <3>1. CASE WritesDirectly
      BY <1>1, <2>1, <2>2, <3>1, DirectAlgebra DEF WritesDirectly, StreamInv, StreamIntegrity
    <3>2. CASE ~WritesDirectly
      <4>1. n = 0
        BY <2>1, <3>2
      <4>2. QED
        BY <1>1, <2>1, <4>1, BufferAlgebra DEF StreamInv, StreamIntegrity
    <3>3. QED
      BY <3>1, <3>2
  <2>4. outputBuffer_' = <<>> <=> outputBuffer_ = <<>> /\ remaining = <<>>
    BY <1>1, <2>1, <2>2, ConcatEqualIffEmpty
  <2>5. Watched'
    <3>1. CASE remaining = <<>>
      BY <2>1, <2>4, <3>1 DEF StreamInv, Watched
    <3>2. CASE remaining # <<>>
      <4>1. IsWriting(channel_')
        BY <1>1, <2>1, <3>2, ChannelProperties
      <4>2. QED
        BY <2>4, <3>2, <4>1 DEF Watched
    <3>3. QED
      BY <3>1, <3>2
  <2>6. GracefulClose'
    BY <1>3 DEF StreamInv, Watched, GracefulClose, WritesDirectly, Broken
  <2>7. QED
    BY <2>3, <2>5, <2>6
<1>4. QED
  BY <1>2, <1>3

LEMMA WriteStream ==
  ASSUME StreamInv, handleWrite
  PROVE  StreamIntegrity' /\ Watched' /\ GracefulClose'
<1>1. /\ channel_ \in ChannelType /\ Consistent(channel_)
      /\ wire \in Seq(Byte) /\ outputBuffer_ \in Seq(Byte)
  BY DEF StreamInv, Typed, TypeOK, PollerConsistent, Consistent
<1>2. CASE UNCHANGED <<channel_, outputBuffer_, pending, state_, writeShut, wire>>
  BY <1>2, FrameStream DEF handleWrite, StreamFrame, historyVars
<1>3. ASSUME IsWriting(channel_), ~Broken,
             NEW n \in 1 .. Len(outputBuffer_),
             wire' = wire \o SubSeq(outputBuffer_, 1, n),
             outputBuffer_' = SubSeq(outputBuffer_, n + 1, Len(outputBuffer_)),
             IF outputBuffer_' = <<>>
             THEN /\ channel_' = DisableWriting(channel_)
                  /\ writeShut' = (writeShut \/ ~IsWriting(channel_'))
             ELSE UNCHANGED <<channel_, writeShut>>
      PROVE  StreamIntegrity' /\ Watched' /\ GracefulClose'
  <2>1. accepted' = accepted /\ downs' = downs
    BY DEF handleWrite, historyVars
  <2>2. StreamIntegrity'
    <3>1. n \in 0 .. Len(outputBuffer_)
      BY <1>1, LenProperties
    <3>2. (wire \o SubSeq(outputBuffer_, 1, n)) \o SubSeq(outputBuffer_, n + 1, Len(outputBuffer_))
            = wire \o outputBuffer_
      <4>1. /\ SubSeq(outputBuffer_, 1, n) \in Seq(Byte)
            /\ SubSeq(outputBuffer_, n + 1, Len(outputBuffer_)) \in Seq(Byte)
            /\ SubSeq(outputBuffer_, 1, n) \o SubSeq(outputBuffer_, n + 1, Len(outputBuffer_))
                 = outputBuffer_
        BY <1>1, <3>1, SplitProperties
      <4>2. (wire \o SubSeq(outputBuffer_, 1, n)) \o SubSeq(outputBuffer_, n + 1, Len(outputBuffer_))
             = wire \o (SubSeq(outputBuffer_, 1, n) \o SubSeq(outputBuffer_, n + 1, Len(outputBuffer_)))
        BY <1>1, <4>1, Associative, Zenon
      <4>3. QED
        BY <4>1, <4>2
    <3>3. QED
      BY <1>3, <2>1, <3>2 DEF StreamInv, StreamIntegrity
  <2>3. CASE outputBuffer_' = <<>>
    BY <1>1, <1>3, <2>2, <2>3, ChannelProperties DEF Watched, GracefulClose
  <2>4. CASE outputBuffer_' # <<>>
    BY <1>3, <2>2, <2>4 DEF Watched, GracefulClose, Broken
  <2>5. QED
    BY <2>3, <2>4
<1>4. QED
  BY <1>2, <1>3 DEF handleWrite

\* connectEstablished changes no interest in writing; the closing calls drop it, and
\* say so to the user first.
LEMMA LifeStream ==
  ASSUME StreamInv,
         connectEstablished \/ connectDestroyed \/ RemoveAfterCallback \/ handleClose
  PROVE  StreamIntegrity' /\ Watched' /\ GracefulClose'
<1>1. channel_ \in ChannelType /\ Consistent(channel_) /\ downs \in 0 .. 2
  BY DEF StreamInv, Typed, TypeOK, PollerConsistent, Consistent
<1>2. UNCHANGED <<outputBuffer_, wire, accepted, writeShut>>
  BY DEF connectEstablished, connectDestroyed, RemoveAfterCallback, handleClose,
         socketVars, historyVars
<1>3. CASE channel_' \in {EnableReading(channel_), RemoveChannel(channel_)} /\ downs' = downs
  <2>1. IsWriting(channel_') <=> IsWriting(channel_)
    BY <1>1, <1>3, ChannelProperties
  <2>2. QED
    BY <1>2, <1>3, <2>1 DEF StreamInv, StreamIntegrity, Watched, GracefulClose
<1>4. CASE channel_' = DisableAll(channel_) /\ downs' = Count(downs)
  <2>1. ~IsWriting(channel_') /\ downs' # 0
    BY <1>1, <1>4, ChannelProperties, CountType
  <2>2. QED
    BY <1>2, <2>1 DEF StreamInv, StreamIntegrity, Watched, GracefulClose
<1>5. QED
  BY <1>3, <1>4
     DEF connectEstablished, connectDestroyed, RemoveAfterCallback, handleClose, historyVars

LEMMA ShutdownStream ==
  ASSUME StreamInv, ShutdownFunctor \/ ShutdownInCallback
  PROVE  StreamIntegrity' /\ Watched' /\ GracefulClose'
<1>1. UNCHANGED <<channel_, outputBuffer_, wire, accepted, downs>>
  BY DEF ShutdownFunctor, ShutdownInCallback, historyVars
<1>2. writeShut' = (writeShut \/ ~IsWriting(channel_))
  BY DEF ShutdownFunctor, ShutdownInCallback, shutdownInLoop
<1>3. QED
  BY <1>1, <1>2 DEF StreamInv, StreamIntegrity, Watched, GracefulClose

LEMMA NextStream ==
  ASSUME StreamInv, [Next]_vars
  PROVE  StreamIntegrity' /\ Watched' /\ GracefulClose'
<1>1. CASE UNCHANGED vars
  BY <1>1, FrameStream DEF StreamFrame, vars, socketVars, historyVars
<1>2. CASE SendFunctor \/ \E m \in Message : SendInCallback(m)
  <2>1. UNCHANGED <<writeShut, downs>>
    BY <1>2 DEF SendFunctor, SendInCallback
  <2>2. (\E data \in Seq(Byte) : SendInLoop(data)) \/ StreamFrame
    <3>1. CASE SendFunctor
      <4>1. work \in Seq(Item) /\ work # <<>>
        BY <3>1 DEF SendFunctor, At, StreamInv, Typed, TypeOK
      <4>2. Head(work) \in Item
        BY <4>1, HeadTailProperties
      <4>3. Head(work).msg \in Message \cup {NoMessage}
        BY <4>2 DEF Item
      <4>4. QED
        BY <3>1, <4>3, BytesType DEF SendFunctor
    <3>2. ASSUME NEW m \in Message, SendInCallback(m)
          PROVE  (\E data \in Seq(Byte) : SendInLoop(data)) \/ StreamFrame
      BY <3>2, BytesType DEF SendInCallback, StreamFrame
    <3>3. QED
      BY <1>2, <3>1, <3>2
  <2>3. QED
    BY <2>1, <2>2, SendStream, FrameStream
<1>3. CASE \/ \E writable \in BOOLEAN : Poll(writable)
           \/ SwapPending \/ StartFunctor \/ EndBatch \/ CallbackReturns
  <2>1. StreamFrame
    BY <1>3 DEF Poll, SwapPending, StartFunctor, EndBatch, CallbackReturns, StreamFrame,
                socketVars, historyVars
  <2>2. QED
    BY <2>1, FrameStream
<1>4. CASE handleRead \/ handleError \/ removeConnection \/ MainLoopRemoves \/ ServerDestroyed
  <2>1. StreamFrame
    BY <1>4 DEF handleRead, handleError, removeConnection, MainLoopRemoves, ServerDestroyed,
                StreamFrame, socketVars, historyVars
  <2>2. QED
    BY <2>1, FrameStream
<1>5. CASE \/ \E u \in User : UserStep(u)
           \/ \E m \in Message : FreeBuffer(m)
           \/ UsersRelease
  <2>1. StreamFrame
    BY <1>5 DEF UserStep, Send, SendQueues, Shutdown, ShutdownSets, ShutdownQueues,
                FreeBuffer, UsersRelease, StreamFrame, socketVars, historyVars
  <2>2. QED
    BY <2>1, FrameStream
<1>6. CASE PeerSends \/ PeerCloses \/ PeerResets
  <2>1. StreamFrame
    BY <1>6 DEF PeerSends, PeerCloses, PeerResets, StreamFrame, historyVars
  <2>2. QED
    BY <2>1, FrameStream
<1>7. QED
  BY <1>1, <1>2, <1>3, <1>4, <1>5, <1>6, WriteStream, LifeStream, ShutdownStream
     DEF Next, LoopStep

LEMMA AlwaysStream == Spec => []StreamInv
<1>1. Init => StreamInv
  BY InitTyped, ConcatEmptySeq, EmptySeq
     DEF Init, StreamInv, StreamIntegrity, Watched, GracefulClose, NewChannel, IsWriting,
         KNoneEvent
<1>2. StreamInv /\ [Next]_vars => StreamInv'
  BY NextTyped, NextStream DEF StreamInv
<1>3. QED
  BY <1>1, <1>2, PTL DEF Spec

\* Whatever the interleaving of send, the loop and the closing of the connection, the
\* kernel is given the bytes sendInLoop took charge of, in order, none lost or
\* repeated (TcpConnection.cc:88-154 and 233-280).
THEOREM StreamIsIntact == Spec => []StreamIntegrity
<1>1. StreamInv => StreamIntegrity
  BY DEF StreamInv
<1>2. QED
  BY <1>1, AlwaysStream, PTL

\* Until the connection goes down, the write side is never shut over buffered output
\* (TcpConnection.cc:170-180).
THEOREM CloseIsGraceful == Spec => []GracefulClose
<1>1. StreamInv => GracefulClose
  BY DEF StreamInv
<1>2. QED
  BY <1>1, AlwaysStream, PTL
==============================================================================
