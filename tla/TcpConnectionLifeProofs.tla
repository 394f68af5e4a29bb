----------------------- MODULE TcpConnectionLifeProofs -----------------------
(***************************************************************************)
(* What a connection and its server owe one another, for any users,        *)
(* messages and loops: a close reaches the server, a message the stream,   *)
(* and who is up is watched.  A connection nobody but its server and its   *)
(* loop holds also lives as module ConnectionLife has it, and stays down   *)
(* and removed once it is.                                                 *)
(***************************************************************************)
EXTENDS TcpConnectionCourseProofs

------------------------------------------------------------------------------
(***************************************************************************)
(* The removal, from handleClose to connectDestroyed: each stage of it has *)
(* the one before behind it.                                               *)
(***************************************************************************)
Removal == removeConnection \/ MainLoopRemoves \/ ServerDestroyed

CloseFirst == removals > 0 \/ OpIn(work, {"closed"}) => closes > 0
UnlistedFirst == LoopHolds => ~inMap
ReasonFirst == ~inMap => closes > 0 \/ serverGone
ListedIsMapped == ups # 0 /\ inMap => channel_.mapped

LifeInv ==
  /\ closes > 0 => ups # 0
  /\ CloseFirst /\ UnlistedFirst /\ ReasonFirst /\ ListedIsMapped

LEMMA InitLife == Init => LifeInv
<1> SUFFICES ASSUME Init
             PROVE  LifeInv
  OBVIOUS
<1>1. /\ closes = 0 /\ ups = 0 /\ removals = 0 /\ inMap
      /\ Len(<<>>) = 0 /\ functors = <<>> /\ next = 1
      /\ work \in {<<>>, <<Do("connectEstablished")>>}
      /\ pending \in {<<>>, <<Do("connectEstablished")>>}
  BY EmptySeq DEF Init
<1>2. \A ops : "connectEstablished" \notin ops => ~OpIn(work, ops) /\ ~OpIn(pending, ops)
  BY <1>1 DEF OpIn, Do
<1>3. ~LoopHolds /\ ~OpIn(work, {"closed"})
  BY <1>1, <1>2 DEF LoopHolds
<1>4. QED
  BY <1>1, <1>3 DEF LifeInv, CloseFirst, UnlistedFirst, ReasonFirst, ListedIsMapped

\* The server is told of a close by handleClose alone.
LEMMA ClosedComes ==
  ASSUME Typed, QueuesHoldFunctors, Next, OpIn(work', {"closed"})
  PROVE  OpIn(work, {"closed"}) \/ handleClose
<1>1. /\ work \in Seq(Item) /\ functors \in Seq(Item) /\ next \in Nat \ {0}
      /\ Len(functors) \in Nat
  BY LenProperties DEF Typed, TypeOK
<1>2. CASE Aside
  BY <1>2, AsideKeepsWork
<1>3. CASE Finishing
  BY <1>1, <1>3, FinishingFacts, OpsNow, OpsNone
<1>4. CASE connectEstablished \/ handleRead
  <2>1. /\ work # <<>> /\ \E a \in {"connection", "message", "error", "close"} : Then(<<a>>)
        /\ {"connection", "message", "error", "close"} \subseteq Op
    BY <1>4 DEF connectEstablished, handleRead, At, Op, UserCode
  <2>2. QED
    BY <1>1, <2>1, OpsNow, OpsOne
<1>5. CASE connectDestroyed
  <2>1. /\ work # <<>> /\ (Then(<<>>) \/ Then(<<"connection", "remove">>))
        /\ "connection" \in Op /\ "remove" \in Op
    BY <1>5 DEF connectDestroyed, At, Op, UserCode
  <2>2. QED
    BY <1>1, <2>1, OpsNow, OpsNone, OpsTwo
<1>6. ASSUME NEW writable \in BOOLEAN, Poll(writable)
      PROVE  FALSE
  BY <1>6, PollCalls DEF OpIn
<1>7. CASE StartFunctor
  <2>1. work' = <<functors[next]>> /\ next \in 1 .. Len(functors)
    BY <1>1, <1>7 DEF StartFunctor
  <2>2. Len(work') = 1 /\ work'[1].op \in Functor
    BY <2>1 DEF QueuesHoldFunctors
  <2>3. QED
    BY <2>2 DEF OpIn, Functor
<1>8. CASE SwapPending \/ EndBatch
  BY <1>8 DEF SwapPending, EndBatch
<1>9. QED
  BY <1>2, <1>3, <1>4, <1>5, <1>6, <1>7, <1>8 DEF Next, LoopStep, Aside, Finishing

\* connectDestroyed is queued by what takes the connection off the list alone.
LEMMA DestroyComes ==
  ASSUME Typed, QueuesHoldFunctors, Next, LoopHolds'
  PROVE  LoopHolds \/ ~inMap'
<1> SUFFICES ASSUME inMap', ~LoopHolds
             PROVE  FALSE
  OBVIOUS
<1>1. /\ work \in Seq(Item) /\ functors \in Seq(Item) /\ pending \in Seq(Item)
      /\ Len(functors) \in Nat /\ Len(pending) \in Nat /\ next \in Nat \ {0}
      /\ Len(<<>>) = 0
  BY LenProperties, EmptySeq DEF Typed, TypeOK
<1>2. ~OpIn(pending', {"connectDestroyed"})
  <2>1. CASE SwapPending
    BY <1>1, <2>1 DEF SwapPending, OpIn
  <2>2. CASE MorePending(Told) \/ MorePending(RawFunctor)
    <3>1. "connectDestroyed" \notin Told /\ "connectDestroyed" \notin RawFunctor
      BY DEF Told, RawFunctor
    <3>2. \A i \in 1 .. Len(pending) : pending[i].op # "connectDestroyed"
      BY DEF LoopHolds, OpIn
    <3>3. Len(pending') \in Nat
      BY NextTyped, LenProperties DEF Typed, TypeOK
    <3>4. \A i \in 1 .. Len(pending') :
            i \in 1 .. Len(pending) \/ i \in Len(pending) + 1 .. Len(pending')
      BY <1>1, <3>3
    <3>5. QED
      BY <2>2, <3>1, <3>2, <3>4 DEF MorePending, OpIn
  <2>3. QED
    BY <2>1, <2>2, PendingGrows
<1>3. ~ \E i \in next' .. Len(functors') : functors'[i].op = "connectDestroyed"
  <2>1. CASE SwapPending
    BY <1>1, <2>1 DEF SwapPending, LoopHolds, OpIn
  <2>2. CASE EndBatch
    BY <1>1, <2>2 DEF EndBatch
  <2>3. CASE StartFunctor
    BY <1>1, <2>3 DEF StartFunctor, LoopHolds
  <2>4. CASE UNCHANGED <<functors, next>>
    BY <2>4 DEF LoopHolds
  <2>5. QED
    BY <2>1, <2>2, <2>3, <2>4, BatchStep
<1>4. ~OpIn(work', {"connectDestroyed", "remove"})
  <2>1. work # <<>> => /\ Head(work).op \notin {"connectDestroyed", "remove"}
                       /\ ~Behind({"connectDestroyed", "remove"})
    BY <1>1, OpsNow DEF LoopHolds
  <2>2. ~connectDestroyed /\ ~RemoveAfterCallback
    BY <2>1 DEF connectDestroyed, RemoveAfterCallback, At
  <2>3. CASE StartFunctor
    <3>1. /\ work' = <<functors[next]>>
          /\ next \in next .. Len(functors) /\ next \in 1 .. Len(functors)
      BY <1>1, <2>3 DEF StartFunctor
    <3>2. Len(work') = 1 /\ work'[1].op # "connectDestroyed"
      BY <3>1 DEF LoopHolds
    <3>3. work'[1].op # "remove"
      BY <3>1 DEF QueuesHoldFunctors, Functor
    <3>4. QED
      BY <3>2, <3>3 DEF OpIn
  <2>4. ASSUME NEW writable \in BOOLEAN, Poll(writable)
        PROVE  ~OpIn(work', {"connectDestroyed", "remove"})
    BY <2>4, PollCalls DEF OpIn
  <2>5. CASE work' = work
    BY <2>5 DEF LoopHolds
  <2>6. QED
    BY <2>1, <2>2, <2>3, <2>4, <2>5, HeadSteps
<1>5. QED
  BY <1>2, <1>3, <1>4 DEF LoopHolds

\* Which step changes what the stages are made of.
LEMMA ListStep ==
  ASSUME Next
  PROVE  \/ UNCHANGED <<inMap, removals, serverGone>>
         \/ Removal /\ UNCHANGED <<channel_, ups, closes>>
<1>1. CASE Removal
  BY <1>1 DEF Removal, removeConnection, MainLoopRemoves, ServerDestroyed, historyVars
<1>2. CASE \/ \E writable \in BOOLEAN : Poll(writable)
           \/ SwapPending \/ StartFunctor \/ EndBatch \/ connectEstablished
           \/ connectDestroyed \/ RemoveAfterCallback \/ handleRead \/ handleError
           \/ handleClose \/ handleWrite \/ SendFunctor \/ ShutdownFunctor \/ CallbackReturns
  BY <1>2 DEF Poll, SwapPending, StartFunctor, EndBatch, connectEstablished, connectDestroyed,
     RemoveAfterCallback, handleRead, handleError, handleClose, handleWrite, SendFunctor,
     ShutdownFunctor, CallbackReturns, serverVars
<1>3. ASSUME NEW u \in User, UserStep(u)
      PROVE  UNCHANGED <<inMap, removals, serverGone>>
  BY <1>3 DEF UserStep, Send, SendQueues, Shutdown, ShutdownSets, ShutdownQueues, serverVars
<1>4. CASE \/ \E m \in Message : SendInCallback(m) \/ FreeBuffer(m)
           \/ ShutdownInCallback \/ UsersRelease \/ PeerSends \/ PeerCloses \/ PeerResets
  BY <1>4 DEF SendInCallback, FreeBuffer, ShutdownInCallback, UsersRelease, PeerSends,
     PeerCloses, PeerResets, serverVars
<1>5. QED
  BY <1>1, <1>2, <1>3, <1>4 DEF Next, LoopStep, Removal

LEMMA CountStep ==
  ASSUME Next
  PROVE  /\ ups' = ups \/ (connectEstablished /\ ups' = Count(ups))
         /\ closes' = closes \/ (handleClose /\ closes' = Count(closes))
<1>1. CASE \/ \E writable \in BOOLEAN : Poll(writable)
           \/ SwapPending \/ StartFunctor \/ EndBatch \/ connectEstablished
           \/ connectDestroyed \/ RemoveAfterCallback \/ handleRead \/ handleError
           \/ handleClose \/ handleWrite \/ SendFunctor \/ ShutdownFunctor \/ CallbackReturns
  BY <1>1 DEF Poll, SwapPending, StartFunctor, EndBatch, connectEstablished, connectDestroyed,
     RemoveAfterCallback, handleRead, handleError, handleClose, handleWrite, SendFunctor,
     ShutdownFunctor, CallbackReturns, historyVars
<1>2. ASSUME NEW u \in User, UserStep(u)
      PROVE  UNCHANGED <<ups, closes>>
  BY <1>2 DEF UserStep, Send, SendQueues, Shutdown, ShutdownSets, ShutdownQueues, historyVars
<1>3. CASE \/ \E m \in Message : SendInCallback(m) \/ FreeBuffer(m)
           \/ ShutdownInCallback \/ UsersRelease \/ PeerSends \/ PeerCloses \/ PeerResets
           \/ Removal
  BY <1>3 DEF SendInCallback, FreeBuffer, ShutdownInCallback, UsersRelease, PeerSends,
     PeerCloses, PeerResets, Removal, removeConnection, MainLoopRemoves, ServerDestroyed,
     historyVars
<1>4. QED
  BY <1>1, <1>2, <1>3 DEF Next, LoopStep, Removal

\* The poller's map loses the channel through removeChannel alone.
LEMMA MappedStays ==
  ASSUME Typed, Next, channel_.mapped
  PROVE  channel_'.mapped \/ connectDestroyed \/ RemoveAfterCallback
<1>1. channel_ \in ChannelType /\ Consistent(channel_)
  BY ConsistentNow
<1>2. \A d \in {EnableReading(channel_), EnableWriting(channel_), DisableWriting(channel_),
                DisableAll(channel_)} : d.mapped
  BY <1>1, KernelProperties
<1>3. CASE Aside
  BY <1>2, <1>3, AsideEffect
<1>4. CASE Finishing /\ ~RemoveAfterCallback
  BY <1>2, <1>4, FinishingEffect
<1>5. CASE connectEstablished \/ handleClose
  BY <1>2, <1>5 DEF connectEstablished, handleClose
<1>6. CASE \/ \E writable \in BOOLEAN : Poll(writable)
           \/ SwapPending \/ StartFunctor \/ EndBatch \/ handleRead
  BY <1>6 DEF Poll, SwapPending, StartFunctor, EndBatch, handleRead
<1>7. QED
  BY <1>3, <1>4, <1>5, <1>6 DEF Next, LoopStep, Aside, Finishing

\* Where the loop thread is when it takes these steps.
LEMMA AtWork ==
  ASSUME CourseInv, Next
  PROVE  /\ handleClose => ups # 0
         /\ removeConnection => OpIn(work, {"closed"})
         /\ connectDestroyed \/ RemoveAfterCallback => LoopHolds /\ ups # 0
         /\ connectEstablished => ups = 0 /\ channel_'.mapped
<1>1. Typed /\ Once /\ work \in Seq(Item) /\ channel_ \in ChannelType /\ Consistent(channel_)
  BY ConsistentNow DEF CourseInv
<1>2. \A op : At(op) => OpIn(work, {op})
  <2> SUFFICES ASSUME NEW op, At(op)
               PROVE  OpIn(work, {op})
    OBVIOUS
  <2>1. Len(work) \in Nat \ {0} /\ work[1].op = op
    BY <1>1, AtFirst
  <2>2. 1 \in 1 .. Len(work)
    BY <2>1
  <2>3. QED
    BY <2>1, <2>2 DEF OpIn
<1>3. \A op : At(op) /\ op # "connectEstablished" => ups # 0
  BY <1>1, NothingBefore DEF At
<1>4. connectEstablished => ups = 0
  <2>1. connectEstablished => OpIn(work, {"connectEstablished"})
    BY <1>2 DEF connectEstablished
  <2>2. QED
    BY <1>1, <2>1 DEF Once, Lacks, OpIn
<1>5. connectEstablished => channel_'.mapped
  BY <1>1, KernelProperties DEF connectEstablished
<1>6. OpIn(work, {"connectDestroyed"}) \/ OpIn(work, {"remove"}) => LoopHolds
  BY DEF OpIn, LoopHolds
<1>7. QED
  BY <1>2, <1>3, <1>4, <1>5, <1>6
     DEF handleClose, removeConnection, connectDestroyed, RemoveAfterCallback

LEMMA LifeStep ==
  ASSUME CourseInv, LifeInv, Next
  PROVE  LifeInv'
<1>1. /\ Typed /\ QueuesHoldFunctors /\ closes \in 0 .. 2 /\ ups \in 0 .. 2
      /\ removals \in 0 .. MaxRemovals /\ inMap \in BOOLEAN /\ serverGone \in BOOLEAN
      /\ MaxRemovals \in Nat
  BY ConnectionAssumption DEF CourseInv, Typed, TypeOK
<1>2. closes > 0 \/ handleClose => closes' > 0
  BY <1>1, CountStep, CountType DEF handleClose
<1>3. closes' > 0 => closes > 0 \/ handleClose
  BY CountStep
<1>4. closes' > 0 => ups' # 0
  BY <1>1, <1>3, AtWork, UpsStay DEF LifeInv
<1>5. removals' > 0 => removals > 0 \/ OpIn(work, {"closed"})
  <2>1. CASE removeConnection
    BY <2>1, AtWork
  <2>2. CASE MainLoopRemoves
    BY <2>2 DEF MainLoopRemoves
  <2>3. CASE ServerDestroyed
    BY <2>3 DEF ServerDestroyed
  <2>4. QED
    BY <2>1, <2>2, <2>3, ListStep DEF Removal
<1>6. CloseFirst'
  BY <1>1, <1>2, <1>5, ClosedComes DEF LifeInv, CloseFirst
<1>7. ~inMap => ~inMap'
  BY ListStep DEF Removal, removeConnection, MainLoopRemoves, ServerDestroyed,
     removeConnectionInLoop
<1>8. UnlistedFirst'
  BY <1>1, <1>7, DestroyComes DEF LifeInv, UnlistedFirst
<1>9. ReasonFirst'
  <2>1. serverGone => serverGone'
    BY ListStep DEF Removal, removeConnection, MainLoopRemoves, ServerDestroyed
  <2>2. CASE ~inMap
    BY <1>2, <2>1, <2>2 DEF LifeInv, ReasonFirst
  <2>3. CASE removeConnection
    BY <1>2, <2>3, AtWork DEF LifeInv, CloseFirst, ReasonFirst
  <2>4. CASE MainLoopRemoves
    BY <1>2, <2>4 DEF LifeInv, CloseFirst, ReasonFirst, MainLoopRemoves
  <2>5. CASE ServerDestroyed
    BY <2>5 DEF ServerDestroyed, ReasonFirst
  <2>6. CASE inMap' = inMap /\ inMap
    BY <2>6 DEF ReasonFirst
  <2>7. QED
    BY <2>2, <2>3, <2>4, <2>5, <2>6, ListStep DEF Removal
<1>10. ListedIsMapped'
  <2> SUFFICES ASSUME ups' # 0, inMap'
               PROVE  channel_'.mapped
    BY DEF ListedIsMapped
  <2>1. inMap
    BY <1>7
  <2>2. CASE ups = 0
    BY <2>2, CountStep, AtWork
  <2>3. CASE ups # 0
    <3>1. channel_.mapped
      BY <2>1, <2>3 DEF LifeInv, ListedIsMapped
    <3>2. ~LoopHolds
      BY <2>1 DEF LifeInv, UnlistedFirst
    <3>3. QED
      BY <1>1, <3>1, <3>2, MappedStays, AtWork
  <2>4. QED
    BY <2>2, <2>3
<1>11. QED
  BY <1>4, <1>6, <1>8, <1>9, <1>10 DEF LifeInv

LEMMA AlwaysLife == Spec => [](CourseInv /\ LifeInv)
<1>1. CourseInv /\ LifeInv /\ [Next]_vars => LifeInv'
  <2>1. CASE UNCHANGED vars
    BY <2>1 DEF vars, loopVars, userVars, serverVars, historyVars, LifeInv, CloseFirst,
       UnlistedFirst, ReasonFirst, ListedIsMapped, LoopHolds, OpIn
  <2>2. QED
    BY <2>1, LifeStep
<1>2. QED
  BY <1>1, InitCourse, CourseStep, InitLife, PTL DEF Spec

------------------------------------------------------------------------------
(***************************************************************************)
(* The refinement.                                                         *)
(***************************************************************************)

\* The actions of ConnectionLife in terms of the stage, the list and the end.
LEMMA LifeActions ==
  /\ Life!Establish <=>
       /\ Stage = "new" /\ (inMap \/ serverGone) /\ Stage' = "up"
       /\ UNCHANGED <<inMap, serverGone>>
  /\ Life!Close <=>
       /\ Stage = "up" /\ Stage' = "closed"
       /\ inMap' \in {inMap, FALSE} /\ serverGone' = serverGone
  /\ Life!Unlist <=>
       /\ inMap /\ inMap' = FALSE /\ serverGone' \in {serverGone, TRUE}
       /\ Stage = "closed" \/ serverGone'
       /\ Stage' = Stage
  /\ Life!Destroy <=>
       /\ Stage \in {"up", "closed"} /\ (Stage = "closed" \/ serverGone)
       /\ Stage' = "destroyed"
       /\ inMap' = FALSE /\ (inMap => serverGone) /\ serverGone' = serverGone
  /\ Life!End <=> serverGone' = TRUE /\ Stage' = Stage /\ inMap' = inMap
  /\ Life!vars' = Life!vars <=> Stage' = Stage /\ UNCHANGED <<inMap, serverGone>>
  BY DEF Life!Establish, Life!Close, Life!Unlist, Life!Destroy, Life!End, Life!vars

LEMMA StageIs ==
  /\ Stage = IF ups = 0 THEN "new" ELSE IF ~channel_.mapped THEN "destroyed"
             ELSE IF closes > 0 THEN "closed" ELSE "up"
  /\ Stage' = IF ups' = 0 THEN "new" ELSE IF ~channel_'.mapped THEN "destroyed"
              ELSE IF closes' > 0 THEN "closed" ELSE "up"
  BY DEF Stage

LEMMA StepLives ==
  ASSUME CourseInv, NoRaw, LifeInv, Next
  PROVE  [Life!Next]_(Life!vars)
<1>1. /\ Typed /\ closes \in 0 .. 2 /\ ups \in 0 .. 2
      /\ inMap \in BOOLEAN /\ serverGone \in BOOLEAN
      /\ inMap' \in BOOLEAN /\ serverGone' \in BOOLEAN
  BY NextTyped DEF CourseInv, Typed, TypeOK
<1>2. ups # 0 => ups' # 0 /\ (channel_'.mapped => channel_.mapped)
  BY <1>1, UpsStay, MappedStep
<1>3. CASE connectEstablished
  <2>1. /\ ups = 0 /\ channel_'.mapped /\ ups' = Count(ups) /\ closes' = closes
        /\ UNCHANGED <<inMap, serverGone>>
    BY <1>3, AtWork DEF connectEstablished, serverVars
  <2>2. closes = 0 /\ (inMap \/ serverGone)
    BY <1>1, <2>1 DEF LifeInv, ReasonFirst
  <2>3. ups' # 0
    BY <2>1, CountType
  <2>4. Stage = "new" /\ Stage' = "up"
    BY <2>1, <2>2, <2>3, StageIs
  <2>5. QED
    BY <2>1, <2>2, <2>4, LifeActions DEF Life!Next
<1>4. CASE handleClose
  <2>1. /\ ups # 0 /\ closes' = Count(closes) /\ ups' = ups
        /\ channel_' = DisableAll(channel_)
        /\ UNCHANGED <<inMap, serverGone>>
    BY <1>4, AtWork DEF handleClose, serverVars
  <2>2. closes' > 0
    BY <1>1, <2>1, CountType
  <2>3. channel_.mapped
    BY <1>2, <2>1, <1>1, ConsistentNow, KernelProperties
  <2>4. channel_'.mapped
    BY <1>1, <2>1, ConsistentNow, KernelProperties
  <2>5. Stage \in {"up", "closed"} /\ Stage' = "closed"
    BY <2>1, <2>2, <2>3, <2>4, StageIs
  <2>6. QED
    BY <2>1, <2>5, LifeActions DEF Life!Next
<1>5. CASE Removal
  <2>1. Stage' = Stage
    BY <1>5, StageIs DEF Removal, removeConnection, MainLoopRemoves, ServerDestroyed,
       historyVars
  <2>2. /\ inMap' \in {inMap, FALSE} /\ serverGone' \in {serverGone, TRUE}
        /\ serverGone' = serverGone \/ ServerDestroyed
        /\ ServerDestroyed => serverGone'
    BY <1>5 DEF Removal, removeConnection, MainLoopRemoves, ServerDestroyed,
       removeConnectionInLoop
  <2>3. CASE inMap /\ ~inMap'
    <3>1. Stage = "closed" \/ serverGone'
      <4>1. CASE ServerDestroyed
        BY <2>2, <4>1
      <4>2. CASE removeConnection \/ MainLoopRemoves
        <5>1. closes > 0
          BY <4>2, AtWork DEF LifeInv, CloseFirst, MainLoopRemoves
        <5>2. ups # 0 /\ channel_.mapped
          BY <2>3, <5>1 DEF LifeInv, ListedIsMapped
        <5>3. QED
          BY <5>1, <5>2, StageIs
      <4>3. QED
        BY <1>5, <4>1, <4>2 DEF Removal
    <3>2. Life!Unlist
      BY <2>1, <2>2, <2>3, <3>1, LifeActions
    <3>3. QED
      BY <3>2 DEF Life!Next
  <2>4. CASE inMap' = inMap
    <3>1. Life!End \/ Life!vars' = Life!vars
      BY <2>1, <2>2, <2>4, LifeActions
    <3>2. QED
      BY <3>1 DEF Life!Next
  <2>5. QED
    BY <1>1, <2>2, <2>3, <2>4
<1>6. CASE connectDestroyed \/ RemoveAfterCallback
  <2>1. /\ LoopHolds /\ ups # 0 /\ ups' = ups /\ closes' = closes
        /\ UNCHANGED <<inMap, serverGone>>
    BY <1>6, AtWork DEF connectDestroyed, RemoveAfterCallback, serverVars, historyVars
  <2>2. ~inMap /\ (closes > 0 \/ serverGone)
    BY <2>1 DEF LifeInv, UnlistedFirst, ReasonFirst
  <2>3. CASE Stage' = Stage
    BY <2>1, <2>3, LifeActions
  <2>4. CASE Stage' # Stage
    <3>1. channel_.mapped /\ ~channel_'.mapped
      BY <1>2, <2>1, <2>4, StageIs
    <3>2. /\ Stage \in {"up", "closed"} /\ Stage' = "destroyed"
          /\ Stage = "closed" \/ serverGone
      BY <2>1, <2>2, <3>1, StageIs
    <3>3. Life!Destroy
      BY <1>1, <2>1, <2>2, <3>2, LifeActions
    <3>4. QED
      BY <3>3 DEF Life!Next
  <2>5. QED
    BY <2>3, <2>4
<1>7. CASE ~(connectEstablished \/ handleClose \/ Removal \/ connectDestroyed
             \/ RemoveAfterCallback)
  <2>1. UNCHANGED <<ups, closes, inMap, serverGone>>
    BY <1>7, CountStep, ListStep
  <2>2. channel_.mapped => channel_'.mapped
    BY <1>1, <1>7, MappedStays
  <2>3. channel_' = channel_ \/ ups = 0 \/ (channel_'.mapped <=> channel_.mapped)
    BY <1>2, <2>2
  <2>4. Stage' = Stage
    BY <2>1, <2>3, StageIs
  <2>5. QED
    BY <2>1, <2>4, LifeActions
<1>8. QED
  BY <1>3, <1>4, <1>5, <1>6, <1>7

\* With no thread but the loops' holding it a connection lives as ConnectionLife has it:
\* closed before it is struck off, off the list before it is destroyed, and destroyed for
\* good (handleClose, removeConnectionInLoop, connectDestroyed, ~TcpServer).
THEOREM ConnectionLivesOrderly ==
  ASSUME User = {}
  PROVE  Spec => ImplementsLife
<1>1. Init => Life!Init
  BY StageIs DEF Init, Life!Init
<1>2. KeptInv /\ LifeInv /\ [Next]_vars => [Life!Next]_(Life!vars)
  <2>1. CASE UNCHANGED vars
    <3>1. Stage' = Stage /\ UNCHANGED <<inMap, serverGone>>
      BY <2>1, StageIs DEF vars, serverVars, historyVars
    <3>2. QED
      BY <3>1, LifeActions
  <2>2. QED
    BY <2>1, StepLives DEF KeptInv
<1>3. QED
  BY <1>1, <1>2, AlwaysKept, AlwaysLife, PTL DEF Spec, ImplementsLife, Life!Spec

\* So a removed channel is never registered again: with no foreign user, the comment of
\* TcpConnection.cc:206 is right.
THEOREM RemovalIsForGood ==
  ASSUME User = {}
  PROVE  Spec => RemovedForGood
<1>1. ASSUME KeptInv, [Next]_vars, ups > 0, ~channel_.mapped
      PROVE  ~channel_'.mapped
  <2>1. CASE UNCHANGED vars
    BY <1>1, <2>1 DEF vars
  <2>2. QED
    BY <1>1, <2>1, MappedStep DEF KeptInv
<1>2. KeptInv /\ [Next]_vars => [ups > 0 /\ ~channel_.mapped => ~channel_'.mapped]_vars
  BY <1>1
<1>3. QED
  BY <1>2, AlwaysKept, PTL DEF Spec, RemovedForGood

------------------------------------------------------------------------------
(***************************************************************************)
(* Down for good.                                                          *)
(***************************************************************************)

\* A disconnected connection asks for no write event, so that the assignment of
\* TcpConnection.cc:261 is out of its reach.
Calm == state_ = "kDisconnected" => ~IsWriting(channel_)

LEMMA CalmStep ==
  ASSUME CourseInv, Calm, Next
  PROVE  /\ Calm'
         /\ state_ = "kDisconnected" =>
              state_' = "kDisconnected" \/ \E u \in User : ShutdownSets(u)
<1>1. channel_ \in ChannelType /\ Consistent(channel_)
  BY ConsistentNow DEF CourseInv
<1>2. /\ ~IsWriting(DisableAll(channel_))
      /\ IsWriting(RemoveChannel(channel_)) <=> IsWriting(channel_)
  BY <1>1, ChannelProperties
<1>3. state_ = "kDisconnected" => ups # 0
  BY DEF CourseInv, Unborn
<1>4. CASE handleClose \/ connectDestroyed
  BY <1>2, <1>4 DEF handleClose, connectDestroyed, Calm
<1>5. CASE connectEstablished
  BY <1>3, <1>5, AtWork DEF connectEstablished, Calm
<1>6. CASE handleWrite
  BY <1>6 DEF handleWrite, Calm
<1>7. ASSUME NEW data, SendInLoop(data)
      PROVE  state_ = "kDisconnected" => channel_' = channel_
  BY <1>7 DEF SendInLoop
<1>8. CASE SendFunctor \/ \E m \in Message : SendInCallback(m)
  BY <1>7, <1>8 DEF SendFunctor, SendInCallback, Calm
<1>9. CASE RemoveAfterCallback
  BY <1>2, <1>9 DEF RemoveAfterCallback, Calm
<1>10. ASSUME NEW u \in User, UserStep(u)
       PROVE  /\ channel_' = channel_
              /\ state_' = state_ \/ (ShutdownSets(u) /\ state_' = "kDisconnecting")
  BY <1>10 DEF UserStep, Send, SendQueues, Shutdown, ShutdownSets, ShutdownQueues
<1>11. CASE ShutdownInCallback
  BY <1>11 DEF ShutdownInCallback, Calm
<1>12. CASE \/ \E writable \in BOOLEAN : Poll(writable)
            \/ SwapPending \/ StartFunctor \/ EndBatch \/ handleRead \/ handleError
            \/ removeConnection \/ ShutdownFunctor \/ CallbackReturns \/ MainLoopRemoves
            \/ ServerDestroyed \/ (\E m \in Message : FreeBuffer(m)) \/ UsersRelease
            \/ PeerSends \/ PeerCloses \/ PeerResets
  BY <1>12 DEF Poll, SwapPending, StartFunctor, EndBatch, handleRead, handleError,
     removeConnection, ShutdownFunctor, CallbackReturns, MainLoopRemoves, ServerDestroyed,
     FreeBuffer, UsersRelease, PeerSends, PeerCloses, PeerResets, Calm
<1>13. QED
  BY <1>4, <1>5, <1>6, <1>8, <1>9, <1>10, <1>11, <1>12 DEF Next, LoopStep, Calm

LEMMA AlwaysCalm == Spec => [](CourseInv /\ Calm)
<1>1. Init => Calm
  BY DEF Init, Calm
<1>2. CourseInv /\ Calm /\ [Next]_vars => Calm'
  <2>1. CASE UNCHANGED vars
    BY <2>1 DEF vars, Calm
  <2>2. QED
    BY <2>1, CalmStep
<1>3. QED
  BY <1>1, <1>2, InitCourse, CourseStep, PTL DEF Spec

\* Only shutdown in another thread, between its test of state_ and its assignment, brings
\* a disconnected connection back to life: without foreign users the comment of
\* TcpConnection.cc:158 is right.
THEOREM DisconnectionIsFinal ==
  ASSUME User = {}
  PROVE  Spec => DisconnectedIsFinal
<1>1. ASSUME CourseInv, Calm, [Next]_vars, state_ = "kDisconnected"
      PROVE  state_' = "kDisconnected"
  <2>1. CASE UNCHANGED vars
    BY <1>1, <2>1 DEF vars
  <2>2. QED
    BY <1>1, <2>1, CalmStep
<1>2. CourseInv /\ Calm /\ [Next]_vars =>
        [state_ = "kDisconnected" => state_' = "kDisconnected"]_vars
  BY <1>1
<1>3. QED
  BY <1>2, AlwaysCalm, PTL DEF Spec, DisconnectedIsFinal

\* handleWrite puts state_ to kDisconnecting by mistake, but never that of a connection
\* which is connected: the kernel does not report OUT for it, the only registration having
\* been for reading (the assignment of TcpConnection.cc:261 against EPollPoller.cc:78).
THEOREM ShutdownAloneDisconnects == Spec => OnlyShutdownDisconnects
<1>1. ASSUME CourseInv, Calm, Next, state_ # "kDisconnecting", state_' = "kDisconnecting"
      PROVE  (InUserCode /\ state_ = "kConnected") \/ \E u \in User : InCall(u, "shutdown")
  <2>1. Typed /\ Once /\ Unborn /\ Stated /\ work \in Seq(Item)
    BY <1>1, ConsistentNow DEF CourseInv
  <2>2. CASE state_ = "kDisconnected"
    BY <1>1, <2>2, CalmStep DEF ShutdownSets
  <2>3. ~At("write") \/ state_ = "kDisconnected"
    <3> SUFFICES ASSUME At("write")
                 PROVE  state_ = "kDisconnected"
      OBVIOUS
    <3>1. Len(work) \in Nat \ {0} /\ work[1].op = "write" /\ work # <<>>
      BY <2>1, AtFirst DEF At
    <3>2. 1 \in 1 .. Len(work)
      BY <3>1
    <3>3. OpIn(work, {"write"})
      BY <3>1, <3>2 DEF OpIn
    <3>4. ups # 0
      BY <2>1, <3>1, NothingBefore DEF At
    <3>5. QED
      BY <1>1, <2>1, <3>3, <3>4 DEF Stated, Typed, TypeOK, StateE
  <2>4. CASE Finishing /\ ~RemoveAfterCallback
    BY <1>1, <2>1, <2>2, <2>3, <2>4, FinishingEffect
  <2>5. CASE ShutdownInCallback
    BY <2>5 DEF ShutdownInCallback
  <2>6. ASSUME NEW u \in User, UserStep(u)
        PROVE  InCall(u, "shutdown")
    BY <1>1, <2>6 DEF UserStep, Send, SendQueues, Shutdown, ShutdownSets, ShutdownQueues
  <2>7. CASE \/ \E writable \in BOOLEAN : Poll(writable)
             \/ SwapPending \/ StartFunctor \/ EndBatch \/ connectEstablished
             \/ connectDestroyed \/ RemoveAfterCallback \/ handleRead \/ handleClose
    BY <1>1, <2>7 DEF Poll, SwapPending, StartFunctor, EndBatch, connectEstablished,
       connectDestroyed, RemoveAfterCallback, handleRead, handleClose
  <2>8. CASE \/ \E m \in Message : SendInCallback(m) \/ FreeBuffer(m)
             \/ MainLoopRemoves \/ ServerDestroyed \/ UsersRelease
             \/ PeerSends \/ PeerCloses \/ PeerResets
    BY <1>1, <2>8 DEF SendInCallback, FreeBuffer, MainLoopRemoves, ServerDestroyed,
       UsersRelease, PeerSends, PeerCloses, PeerResets
  <2>9. QED
    BY <1>1, <2>4, <2>5, <2>6, <2>7, <2>8 DEF Next, LoopStep, Finishing
<1>2. CourseInv /\ Calm /\ [Next]_vars =>
        [state_ # "kDisconnecting" /\ state_' = "kDisconnecting"
           => \/ InUserCode /\ state_ = "kConnected"
              \/ \E u \in User : InCall(u, "shutdown")]_vars
  BY <1>1
<1>3. QED
  BY <1>2, AlwaysCalm, PTL DEF Spec, OnlyShutdownDisconnects

------------------------------------------------------------------------------
(***************************************************************************)
(* The safety core of PeerCloseNoticed and CloseReaped: who is up is       *)
(* watched, and a close is on its way to the server until it has arrived.  *)
(***************************************************************************)
\* A channel's owner wants input, and the kernel, if it has the fd, is to report it.
Heard(c) == "IN" \in c.events /\ (c.registered => "IN" \in c.interest)
Watch == ups # 0 /\ downs = 0 => Heard(channel_)

LEMMA WatchKept ==
  ASSUME NEW c \in ChannelType, Consistent(c)
  PROVE  /\ Heard(c) => \A d \in {EnableWriting(c), DisableWriting(c), RemoveChannel(c)} :
                          Heard(d)
         /\ ~c.registered => Heard(EnableReading(c))
<1>1. c.events \in SUBSET (KReadEvent \cup KWriteEvent)
  BY DEF ChannelType
<1>2. \A e \in SUBSET (KReadEvent \cup KWriteEvent) :
        LET d == UpdateChannel([c EXCEPT !.events = e])
        IN  d.events = e /\ d.interest = IF c.registered THEN c.interest ELSE e
  BY UpdateTellsOnce
<1>3. /\ EnableWriting(c).events = c.events \cup KWriteEvent
      /\ EnableWriting(c).interest
           = IF c.registered THEN c.interest ELSE c.events \cup KWriteEvent
  BY <1>1, <1>2 DEF EnableWriting
<1>4. /\ DisableWriting(c).events = c.events \ KWriteEvent
      /\ DisableWriting(c).interest
           = IF c.registered THEN c.interest ELSE c.events \ KWriteEvent
  BY <1>1, <1>2 DEF DisableWriting
<1>5. /\ EnableReading(c).events = c.events \cup KReadEvent
      /\ EnableReading(c).interest
           = IF c.registered THEN c.interest ELSE c.events \cup KReadEvent
  BY <1>1, <1>2 DEF EnableReading
<1>6. QED
  BY <1>3, <1>4, <1>5, RemovedProperties DEF Heard, KReadEvent, KWriteEvent

LEMMA WatchStep ==
  ASSUME CourseInv, Watch, Next
  PROVE  Watch'
<1>1. /\ Typed /\ channel_ \in ChannelType /\ Consistent(channel_)
      /\ ups \in 0 .. 2 /\ downs \in 0 .. 2
  BY ConsistentNow DEF CourseInv
<1>2. CASE connectEstablished
  <2>1. channel_ = NewChannel
    BY <1>2, AtWork DEF CourseInv, Unborn
  <2>2. channel_' = EnableReading(channel_) /\ ~channel_.registered
    BY <1>2, <2>1 DEF connectEstablished, NewChannel
  <2>3. QED
    BY <1>1, <2>2, WatchKept DEF Watch
<1>3. CASE handleClose \/ (connectDestroyed /\ state_ = "kConnected")
  <2>1. downs' = Count(downs)
    BY <1>3 DEF handleClose, connectDestroyed
  <2>2. downs' # 0
    BY <1>1, <2>1, CountType
  <2>3. QED
    BY <2>2 DEF Watch
<1>4. ASSUME channel_' \in {channel_, EnableWriting(channel_), DisableWriting(channel_),
                            RemoveChannel(channel_)},
             ups' = ups, downs' = downs
      PROVE  Watch'
  BY <1>1, <1>4, WatchKept DEF Watch
<1>5. CASE \/ connectDestroyed /\ state_ # "kConnected"
           \/ RemoveAfterCallback
  BY <1>4, <1>5 DEF connectDestroyed, RemoveAfterCallback, historyVars
<1>6. CASE Finishing /\ ~RemoveAfterCallback
  BY <1>1, <1>4, <1>6, FinishingFacts, FinishingEffect
<1>7. CASE Aside
  BY <1>1, <1>4, <1>7, AsideKeepsWork, AsideEffect
<1>8. CASE \/ \E writable \in BOOLEAN : Poll(writable)
           \/ SwapPending \/ StartFunctor \/ EndBatch \/ handleRead
  BY <1>4, <1>8 DEF Poll, SwapPending, StartFunctor, EndBatch, handleRead, historyVars
<1>9. QED
  BY <1>2, <1>3, <1>5, <1>6, <1>7, <1>8 DEF Next, LoopStep, Aside, Finishing

\* Whoever is up hears of the peer: the one registration the kernel knows of is for
\* reading, and no later update() takes EPOLLIN from it (enableReading, EPollPoller.cc:78).
THEOREM UpKeepsWatch == Spec => []UpIsWatched
<1>1. Init => Watch
  BY DEF Init, Watch
<1>2. CourseInv /\ Watch /\ [Next]_vars => Watch'
  <2>1. CASE UNCHANGED vars
    BY <2>1 DEF vars, historyVars, Watch, Heard
  <2>2. QED
    BY <2>1, WatchStep
<1>3. Watch => UpIsWatched
  BY DEF Watch, Heard, UpIsWatched
<1>4. QED
  BY <1>1, <1>2, <1>3, InitCourse, CourseStep, PTL DEF Spec

\* closeCallback_ stays to be called until it is.
LEMMA ClosedStays ==
  ASSUME CourseInv, Next, OpIn(work, {"closed"}), ~removeConnection
  PROVE  OpIn(work', {"closed"})
<1>1. Typed /\ InLine /\ work \in Seq(Item)
  BY ConsistentNow DEF CourseInv
<1>2. work # <<>> /\ phase = "handle" /\ (Head(work).op = "closed" \/ Behind({"closed"}))
  <2>1. work # <<>>
    BY <1>1, EmptySeq DEF OpIn
  <2>2. phase = "handle"
    BY <1>1 DEF InLine, OpIn
  <2>3. QED
    BY <1>1, <2>1, <2>2, OpsNow
<1>3. {"connection", "message", "error", "close", "closed"} \subseteq Op
  BY DEF Op, UserCode
<1>4. CASE Aside
  BY <1>4, AsideKeepsWork
<1>5. CASE Finishing
  <2>1. Head(work).op # "closed"
    BY <1>5 DEF Finishing, handleError, handleWrite, RemoveAfterCallback, SendFunctor,
       ShutdownFunctor, CallbackReturns, At, InUserCode, UserCode
  <2>2. QED
    BY <1>1, <1>2, <1>5, <2>1, FinishingFacts, OpsNone
<1>6. CASE connectEstablished \/ handleRead
  <2>1. /\ Head(work).op # "closed"
        /\ \E a \in {"connection", "message", "error", "close"} : Then(<<a>>)
    BY <1>6 DEF connectEstablished, handleRead, At
  <2>2. QED
    BY <1>1, <1>2, <1>3, <2>1, OpsOne
<1>7. CASE handleClose
  <2>1. Then(<<"connection", "closed">>)
    BY <1>7 DEF handleClose
  <2>2. QED
    BY <1>1, <1>2, <1>3, <2>1, OpsTwo
<1>8. ~connectDestroyed
  BY <1>1, <1>2, BehindFacts DEF connectDestroyed, At
<1>9. ~ \E writable \in BOOLEAN : Poll(writable)
  BY <1>2 DEF Poll
<1>10. ~SwapPending /\ ~StartFunctor /\ ~EndBatch
  BY <1>2 DEF SwapPending, StartFunctor, EndBatch
<1>11. QED
  BY <1>4, <1>5, <1>6, <1>7, <1>8, <1>9, <1>10 DEF Next, LoopStep, Aside, Finishing

UnderWay == closes > 0 /\ inMap => removals > 0 \/ OpIn(work, {"closed"})

LEMMA UnderWayStep ==
  ASSUME CourseInv, UnderWay, Next
  PROVE  UnderWay'
<1> SUFFICES ASSUME closes' > 0, inMap'
             PROVE  removals' > 0 \/ OpIn(work', {"closed"})
  BY DEF UnderWay
<1>1. /\ Typed /\ work \in Seq(Item) /\ removals \in 0 .. MaxRemovals
      /\ MaxRemovals \in Nat \ {0}
  BY ConsistentNow, ConnectionAssumption DEF CourseInv, Typed, TypeOK
<1>2. inMap /\ ~MainLoopRemoves /\ ~ServerDestroyed
  BY ListStep DEF Removal, removeConnection, MainLoopRemoves, ServerDestroyed,
     removeConnectionInLoop
<1>3. CASE handleClose
  <2>1. work # <<>> /\ Then(<<"connection", "closed">>) /\ "connection" \in Op /\ "closed" \in Op
    BY <1>3 DEF handleClose, At, Op, UserCode
  <2>2. QED
    BY <1>1, <2>1, OpsTwo
<1>4. CASE removeConnection
  <2>1. ~singleLoop
    BY <1>4 DEF removeConnection, removeConnectionInLoop
  <2>2. removals' = IF removals < MaxRemovals THEN removals + 1 ELSE removals
    BY <1>4, <2>1 DEF removeConnection
  <2>3. QED
    BY <1>1, <2>2
<1>5. CASE ~handleClose /\ ~removeConnection
  <2>1. closes > 0 /\ removals' = removals
    BY <1>2, <1>5, CountStep, ListStep DEF Removal
  <2>2. removals > 0 \/ OpIn(work, {"closed"})
    BY <1>2, <2>1 DEF UnderWay
  <2>3. QED
    BY <1>5, <2>1, <2>2, ClosedStays
<1>6. QED
  BY <1>3, <1>4, <1>5

\* A close is never forgotten between the two loops: from handleClose until the server has
\* struck the connection off, somebody has the removal to do (handleClose,
\* removeConnection, removeConnectionInLoop).
THEOREM CloseReachesServer == Spec => []CloseIsUnderWay
<1>1. Init => UnderWay
  BY DEF Init, UnderWay
<1>2. CourseInv /\ UnderWay /\ [Next]_vars => UnderWay'
  <2>1. CASE UNCHANGED vars
    BY <2>1 DEF vars, loopVars, serverVars, historyVars, UnderWay, OpIn
  <2>2. QED
    BY <2>1, UnderWayStep
<1>3. CourseInv /\ UnderWay => CloseIsUnderWay
  <2>1. CourseInv => work \in Seq(Item)
    BY ConsistentNow DEF CourseInv
  <2>2. QED
    BY <2>1, LenProperties DEF UnderWay, OpIn, CloseIsUnderWay
<1>4. QED
  BY <1>1, <1>2, <1>3, InitCourse, CourseStep, PTL DEF Spec

------------------------------------------------------------------------------
(***************************************************************************)
(* The safety core of SendReachesStream: a message on its way to the       *)
(* stream is handed on, from thread to thread and queue to queue.          *)
(***************************************************************************)

\* In the user thread, until it is queued.
LEMMA CallHandsOn ==
  ASSUME Typed, Next, NEW u \in User, NEW m, call[u] = [op |-> "send", msg |-> m]
  PROVE  Sending(m)'
<1>1. call \in [User -> CallType] /\ pending \in Seq(Item) /\ call[u].op = "send"
  BY DEF Typed, TypeOK
<1>2. ASSUME NEW v \in User, UserStep(v), ~SendQueues(u)
      PROVE  call'[u] = call[u]
  <2>1. CASE v # u
    BY <1>1, <1>2, <2>1 DEF UserStep, Send, SendQueues, Shutdown, ShutdownSets, ShutdownQueues, Goto
  <2>2. CASE v = u
    BY <1>1, <1>2, <2>2 DEF UserStep, Send, Shutdown, ShutdownSets, ShutdownQueues, InCall
  <2>3. QED
    BY <2>1, <2>2
<1>3. CASE SendQueues(u)
  <2>1. SendTask(m) \in Item
    <3>1. call[u].msg \in Message \cup {NoMessage} /\ call[u].msg = m
      BY <1>1 DEF CallType
    <3>2. QED
      BY <3>1 DEF SendTask, Item, Op, Functor
  <2>2. pending' = Append(pending, SendTask(m))
    BY <1>3 DEF SendQueues, SendTask
  <2>3. /\ pending' \in Seq(Item) /\ Len(pending') = Len(pending) + 1
        /\ Len(pending) \in Nat /\ pending'[Len(pending) + 1] = SendTask(m)
    BY <1>1, <2>1, <2>2, AppendProperties, LenProperties
  <2>4. Len(pending) + 1 \in DOMAIN pending'
    BY <2>3, LenProperties
  <2>5. QED
    BY <2>3, <2>4 DEF Sending, SendTask
<1>4. CASE \/ \E writable \in BOOLEAN : Poll(writable)
           \/ SwapPending \/ StartFunctor \/ EndBatch \/ connectEstablished
           \/ connectDestroyed \/ RemoveAfterCallback \/ handleRead \/ handleError
           \/ handleClose \/ handleWrite \/ removeConnection \/ SendFunctor
           \/ ShutdownFunctor \/ CallbackReturns
  <2>1. call' = call
    BY <1>4 DEF Poll, SwapPending, StartFunctor, EndBatch, connectEstablished,
       connectDestroyed, RemoveAfterCallback, handleRead, handleError, handleClose, handleWrite,
       removeConnection, SendFunctor, ShutdownFunctor, CallbackReturns, userVars
  <2>2. QED
    BY <2>1 DEF Sending
<1>5. CASE \/ \E n \in Message : SendInCallback(n) \/ FreeBuffer(n)
           \/ ShutdownInCallback \/ UsersRelease \/ PeerSends \/ PeerCloses \/ PeerResets
           \/ MainLoopRemoves \/ ServerDestroyed
  <2>1. call' = call
    BY <1>5 DEF SendInCallback, FreeBuffer, ShutdownInCallback, UsersRelease, PeerSends,
       PeerCloses, PeerResets, MainLoopRemoves, ServerDestroyed, userVars
  <2>2. QED
    BY <2>1 DEF Sending
<1>6. CASE \E v \in User : UserStep(v)
  BY <1>2, <1>3, <1>6 DEF Sending
<1>7. QED
  BY <1>4, <1>5, <1>6 DEF Next, LoopStep

\* In the queue, until the loop takes it for a batch.
LEMMA QueueHandsOn ==
  ASSUME Typed, Next, NEW m, NEW i \in DOMAIN pending, pending[i] = SendTask(m)
  PROVE  Sending(m)'
<1>1. /\ pending \in Seq(Item) /\ pending' \in Seq(Item)
      /\ Len(pending) \in Nat /\ Len(pending') \in Nat /\ i \in 1 .. Len(pending)
  BY NextTyped, LenProperties DEF Typed, TypeOK
<1>2. CASE SwapPending
  <2>1. functors' = pending /\ next' = 1
    BY <1>2 DEF SwapPending
  <2>2. i \in next' .. Len(functors') /\ functors'[i] = SendTask(m)
    BY <1>1, <2>1
  <2>3. QED
    BY <2>2 DEF Sending, SendTask
<1>3. ASSUME NEW ops, MorePending(ops)
      PROVE  Sending(m)'
  <2>1. i \in DOMAIN pending' /\ pending'[i] = SendTask(m)
    BY <1>1, <1>3, LenProperties DEF MorePending
  <2>2. QED
    BY <2>1 DEF Sending, SendTask
<1>4. QED
  BY <1>2, <1>3, PendingStep

\* In the batch, until its turn comes.
LEMMA BatchHandsOn ==
  ASSUME Typed, Emptied, Next, NEW m, NEW i \in next .. Len(functors),
         functors[i] = SendTask(m)
  PROVE  Sending(m)'
<1>1. Len(functors) \in Nat /\ next \in Nat \ {0}
  BY LenProperties DEF Typed, TypeOK
<1>2. CASE UNCHANGED <<functors, next>>
  BY <1>2 DEF Sending, SendTask
<1>3. CASE SwapPending \/ EndBatch
  BY <1>1, <1>3 DEF SwapPending, EndBatch, Emptied
<1>4. CASE StartFunctor
  <2>1. work' = <<functors[next]>> /\ next' = next + 1 /\ functors' = functors
    BY <1>4 DEF StartFunctor
  <2>2. CASE i = next
    <3>1. 1 \in DOMAIN work' /\ work'[1] = SendTask(m)
      BY <2>1, <2>2
    <3>2. QED
      BY <3>1 DEF Sending, SendTask
  <2>3. CASE i # next
    <3>1. i \in next' .. Len(functors')
      BY <1>1, <2>1, <2>3
    <3>2. QED
      BY <2>1, <3>1 DEF Sending, SendTask
  <2>4. QED
    BY <2>2, <2>3
<1>5. QED
  BY <1>2, <1>3, <1>4, BatchStep

\* At work, until sendInLoop has taken charge of its bytes.
LEMMA WorkHandsOn ==
  ASSUME CourseInv, Next, NEW m, NEW i \in DOMAIN work, work[i] = SendTask(m)
  PROVE  Sending(m)' \/ Sent(m)' \/ Broken \/ state_ = "kDisconnected" \/ m \in freed
<1>1. /\ Typed /\ InLine /\ work \in Seq(Item) /\ Len(work) \in Nat
      /\ i \in 1 .. Len(work) /\ work[i].op = "sendInLoop"
  BY ConsistentNow, LenProperties DEF CourseInv, SendTask
<1>2. Len(work) = 1 /\ i = 1 /\ work # <<>> /\ phase # "poll"
  <2>1. Len(work) = 1
    BY <1>1 DEF InLine
  <2>2. work # <<>>
    BY <2>1, EmptySeq
  <2>3. QED
    BY <1>1, <2>1, <2>2 DEF InLine
<1>3. Head(work) = SendTask(m)
  BY <1>1, <1>2, HeadTailProperties
<1>4. CASE SendFunctor
  <2> SUFFICES ASSUME ~Broken, state_ # "kDisconnected", m \notin freed
               PROVE  Sent(m)'
    OBVIOUS
  <2>1. SendInLoop(Bytes(m))
    BY <1>3, <1>4 DEF SendFunctor, SendTask
  <2>2. accepted' = accepted \o Bytes(m)
    BY <2>1 DEF SendInLoop
  <2>3. m \in Message \cup {NoMessage}
    <3>1. SendTask(m) \in Item
      BY <1>1, <1>2, <1>3, HeadTailProperties
    <3>2. QED
      BY <3>1 DEF SendTask, Item
  <2>4. /\ accepted \in Seq(Byte) /\ Bytes(m) \in Seq(Byte)
        /\ Bytes(m) = [j \in 1 .. MessageLength |-> <<m, j>>] /\ MessageLength \in Nat \ {0}
    BY <1>1, <2>3, BytesType, ConnectionAssumption DEF Bytes, Typed, TypeOK
  <2>5. Len(accepted) \in Nat /\ Len(Bytes(m)) = MessageLength /\ Bytes(m)[1] = <<m, 1>>
    BY <2>4, LenProperties
  <2> DEFINE first == Len(accepted) + 1
  <2>6. /\ accepted' \in Seq(Byte) /\ Len(accepted') = Len(accepted) + Len(Bytes(m))
        /\ \A j \in 1 .. Len(accepted) + Len(Bytes(m)) :
             accepted'[j] = IF j <= Len(accepted) THEN accepted[j]
                            ELSE Bytes(m)[j - Len(accepted)]
    BY <2>2, <2>4, ConcatProperties
  <2>7. /\ first \in 1 .. Len(accepted) + Len(Bytes(m))
        /\ ~(first <= Len(accepted)) /\ first - Len(accepted) = 1
    BY <2>4, <2>5
  <2>8. accepted'[first] = <<m, 1>>
    BY <2>5, <2>6, <2>7
  <2>9. first \in DOMAIN accepted'
    BY <2>6, <2>7, LenProperties
  <2>10. accepted'[first][1] = m
    BY <2>8
  <2>11. QED
    BY <2>9, <2>10 DEF Sent
<1>5. CASE work' = work
  BY <1>5 DEF Sending, SendTask
<1>6. \A op : At(op) => op = "sendInLoop"
  BY <1>3 DEF At, SendTask
<1>7. ~InUserCode
  BY <1>3 DEF InUserCode, UserCode, SendTask
<1>8. ~(Finishing /\ ~SendFunctor)
  BY <1>6, <1>7 DEF Finishing, handleError, handleWrite, removeConnection, RemoveAfterCallback,
     ShutdownFunctor, CallbackReturns
<1>9. ~(connectEstablished \/ connectDestroyed \/ handleRead \/ handleClose)
  BY <1>6 DEF connectEstablished, connectDestroyed, handleRead, handleClose
<1>10. ~((\E writable \in BOOLEAN : Poll(writable)) \/ SwapPending \/ StartFunctor \/ EndBatch)
  BY <1>2 DEF Poll, SwapPending, StartFunctor, EndBatch
<1>11. QED
  BY <1>4, <1>5, <1>8, <1>9, <1>10, AsideKeepsWork DEF Next, LoopStep, Aside, Finishing

\* No message is lost between send and the stream: every step that takes it from where it
\* is puts it where it goes next (send, queueInLoop, doPendingFunctors, sendInLoop).
THEOREM SendIsHandedOn == Spec => NoSendLost
<1>1. ASSUME CourseInv, Emptied, [Next]_vars, NEW m \in Message, Sending(m)
      PROVE  Sending(m)' \/ Sent(m)' \/ Broken \/ state_ = "kDisconnected" \/ m \in freed
  <2>1. CASE UNCHANGED vars
    BY <1>1, <2>1 DEF vars, loopVars, userVars, Sending
  <2>2. CASE Next
    <3>1. Typed
      BY <1>1 DEF CourseInv
    <3>2. QED
      BY <1>1, <2>2, <3>1, CallHandsOn, QueueHandsOn, BatchHandsOn, WorkHandsOn DEF Sending
  <2>3. QED
    BY <1>1, <2>1, <2>2
<1>2. CourseInv /\ Emptied /\ [Next]_vars =>
        [\A m \in Message :
           Sending(m) => Sending(m)' \/ Sent(m)'
                         \/ Broken \/ state_ = "kDisconnected" \/ m \in freed]_vars
  BY <1>1
<1>3. CourseInv /\ Emptied /\ [Next]_vars => Emptied'
  <2>1. CASE UNCHANGED vars
    BY <2>1 DEF vars, loopVars, Emptied
  <2>2. QED
    BY <2>1, EmptiedStep DEF CourseInv
<1>4. Init => Emptied
  BY EmptySeq DEF Init, Emptied
<1>5. QED
  BY <1>2, <1>3, <1>4, InitCourse, CourseStep, PTL DEF Spec, NoSendLost
=============================================================================
