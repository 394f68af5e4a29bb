--------------------------- MODULE EventLoopProofs ---------------------------
(***************************************************************************)
(* Proofs about EventLoop, for any set of threads, functors and channels:  *)
(* its typing, NoLostWakeup, and that every step of the loop is a step of  *)
(* TaskQueue or invisible to it.                                           *)
(***************************************************************************)
EXTENDS EventLoop, SequenceTheorems, TLAPS

LEMMA InitTypeOK == Init => TypeOK
<1> SUFFICES ASSUME Init
             PROVE  TypeOK
  OBVIOUS
<1> USE DEF Init
<1>1. wakeupFd_ \in Nat
  OBVIOUS
<1>2. {pendingFunctors_, functors, ran} \subseteq Seq(Functor)
  BY EmptySeq
<1>3. eventsSize \in Nat \ {0} /\ ioReady \subseteq IoChannel
  BY LoopAssumption
<1>4. QED
  BY <1>1, <1>2, <1>3, Zenon DEF TypeOK, Location

LEMMA NextTypeOK == TypeOK /\ [Next]_vars => TypeOK'
<1> SUFFICES ASSUME TypeOK, [Next]_vars
             PROVE  TypeOK'
  OBVIOUS
<1> USE DEF TypeOK, Location, pollVars
<1>1. ASSUME NEW t \in Thread, NEW f \in Functor, QueueInLoop(t, f)
      PROVE  TypeOK'
  <2>1. pendingFunctors_' \in Seq(Functor)
    BY <1>1, AppendProperties DEF QueueInLoop
  <2>2. QED
    BY <1>1, <2>1 DEF QueueInLoop
<1>2. ASSUME NEW f \in Functor, RunHere(f)
      PROVE  TypeOK'
  <2>1. ran' \in Seq(Functor)
    BY <1>2, AppendProperties DEF RunHere
  <2>2. QED
    BY <1>2, <2>1 DEF RunHere
<1>3. ASSUME NEW t \in Thread, WakeupIfNeeded(t)
      PROVE  TypeOK'
  BY <1>3 DEF WakeupIfNeeded
<1>4. ASSUME NEW t \in Thread, Quit(t)
      PROVE  TypeOK'
  BY <1>4 DEF Quit
<1>5. CASE StartLoop \/ ResetQuit \/ EnterIteration \/ LeaveLoop
  BY <1>5 DEF StartLoop, ResetQuit, EnterIteration, LeaveLoop
<1>6. CASE PollEvents \/ PollTimeout
  <2>1. PICK active, size : PollReturns(active, size) /\ active \subseteq Ready
                            /\ size \in {eventsSize, 2 * eventsSize}
    BY <1>6 DEF PollEvents, PollTimeout, SizeAfter
  <2>2. size \in Nat \ {0}
    BY <2>1
  <2>3. active \subseteq IoChannel \cup {wakeupChannel_}
    BY <2>1 DEF Ready
  <2>4. QED
    BY <2>1, <2>2, <2>3 DEF PollReturns
<1>7. CASE HandleRead \/ CallbackReturns
  BY <1>7 DEF HandleRead, CallbackReturns
<1>8. ASSUME NEW channel \in IoChannel, HandleEvent(channel)
      PROVE  TypeOK'
  BY <1>8 DEF HandleEvent
<1>9. CASE SwapPending
  BY <1>9, EmptySeq DEF SwapPending
<1>10. CASE RunFunctor
  <2>1. Head(functors) \in Functor /\ Tail(functors) \in Seq(Functor)
    BY <1>10, HeadTailProperties DEF RunFunctor
  <2>2. ran' \in Seq(Functor)
    BY <1>10, <2>1, AppendProperties DEF RunFunctor
  <2>3. QED
    BY <1>10, <2>1, <2>2 DEF RunFunctor
<1>11. CASE FunctorReturns \/ EndPending
  BY <1>11 DEF FunctorReturns, EndPending
<1>12. ASSUME NEW channel \in IoChannel, IoReady(channel)
      PROVE  TypeOK'
  BY <1>12 DEF IoReady
<1>13. CASE UNCHANGED vars
  BY <1>13 DEF vars
<1>14. QED
  BY <1>1, <1>2, <1>3, <1>4, <1>5, <1>6, <1>7, <1>8, <1>9, <1>10, <1>11, <1>12,
     <1>13 DEF Next, LoopStep, Call, RunInLoop

\* Every variable of the loop stays in its type.
THEOREM TypeCorrect == Spec => []TypeOK
<1>1. QED
  BY InitTypeOK, NextTypeOK, PTL DEF Spec

------------------------------------------------------------------------------
(***************************************************************************)
(* NoLostWakeup is not inductive: whether the loop sleeps on work is       *)
(* decided before it reaches epoll_wait.  Sleepless extends it to every    *)
(* place from which the loop reaches epoll_wait without passing the swap,  *)
(* and Placed says where the loop thread can be when it is in queueInLoop, *)
(* what callingPendingFunctors_ means and when the batch is empty.         *)
(***************************************************************************)
RunsBatch == pc \in {"run", "functor"}

\* The flag, the batch and the loop thread's own calls, by place.
Placed ==
  /\ callingPendingFunctors_ <=> RunsBatch
  /\ ~RunsBatch => functors = <<>>
  /\ LoopThread \in notifying => pc \in {"callback", "functor"}

\* Places with no swap between them and the next epoll_wait.
AfterSwap == pc \in {"init", "start", "test", "poll", "run", "functor"}

\* The eventfd is readable, or will be without the loop thread's help.
Woken == wakeupFd_ > 0 \/ \E t \in notifying : NeedsWakeup(t)

Sleepless == AfterSwap /\ pendingFunctors_ # <<>> => Woken

WakeupInv == TypeOK /\ Placed /\ Sleepless

LEMMA NextPlaced ==
  ASSUME ~QueueBeforeLoop, TypeOK, Placed, [Next]_vars
  PROVE  Placed'
<1> USE DEF TypeOK, Placed, RunsBatch, LoopAt, CanCall, InUserCode, isInLoopThread
<1>1. ASSUME NEW t \in Thread, Call(t)
      PROVE  Placed'
  BY <1>1 DEF Call, QueueInLoop, RunInLoop, RunHere, WakeupIfNeeded, Quit
<1>2. CASE StartLoop \/ ResetQuit \/ EnterIteration \/ LeaveLoop
  BY <1>2 DEF StartLoop, ResetQuit, EnterIteration, LeaveLoop
<1>3. CASE PollEvents \/ PollTimeout \/ \E channel \in IoChannel : IoReady(channel)
  BY <1>3 DEF PollEvents, PollTimeout, PollReturns, IoReady
<1>4. CASE HandleRead \/ CallbackReturns \/ \E channel \in IoChannel : HandleEvent(channel)
  BY <1>4 DEF HandleRead, CallbackReturns, HandleEvent
<1>5. CASE SwapPending \/ RunFunctor \/ FunctorReturns \/ EndPending
  BY <1>5 DEF SwapPending, RunFunctor, FunctorReturns, EndPending
<1>6. CASE UNCHANGED vars
  BY <1>6 DEF vars
<1>7. QED
  BY <1>1, <1>2, <1>3, <1>4, <1>5, <1>6 DEF Next, LoopStep

LEMMA NextSleepless ==
  ASSUME ~QueueBeforeLoop, WakeupInv, [Next]_vars
  PROVE  Sleepless'
<1> USE DEF WakeupInv, TypeOK, Placed, RunsBatch, AfterSwap, Woken, Sleepless,
            LoopAt, CanCall, InUserCode, NeedsWakeup, isInLoopThread
<1>1. ASSUME NEW t \in Thread, NEW f \in Functor, QueueInLoop(t, f)
      PROVE  Sleepless'
  <2>1. SUFFICES ASSUME AfterSwap
                 PROVE  NeedsWakeup(t)' /\ t \in notifying'
    BY <1>1 DEF QueueInLoop
  <2>2. QED
    BY <1>1, <2>1 DEF QueueInLoop
<1>2. ASSUME NEW f \in Functor, RunHere(f)
      PROVE  Sleepless'
  BY <1>2 DEF RunHere
<1>3. ASSUME NEW t \in Thread, WakeupIfNeeded(t)
      PROVE  Sleepless'
  <2>1. CASE NeedsWakeup(t)
    BY <1>3, <2>1 DEF WakeupIfNeeded
  <2>2. CASE ~NeedsWakeup(t)
    BY <1>3, <2>2 DEF WakeupIfNeeded
  <2>3. QED
    BY <2>1, <2>2
<1>4. ASSUME NEW t \in Thread, Quit(t)
      PROVE  Sleepless'
  BY <1>4 DEF Quit
<1>5. CASE StartLoop \/ ResetQuit \/ EnterIteration \/ LeaveLoop
  BY <1>5 DEF StartLoop, ResetQuit, EnterIteration, LeaveLoop
<1>6. CASE PollEvents \/ PollTimeout \/ \E channel \in IoChannel : IoReady(channel)
  BY <1>6 DEF PollEvents, PollTimeout, PollReturns, IoReady
<1>7. CASE HandleRead \/ CallbackReturns \/ \E channel \in IoChannel : HandleEvent(channel)
  BY <1>7 DEF HandleRead, CallbackReturns, HandleEvent
<1>8. CASE SwapPending
  BY <1>8 DEF SwapPending
<1>9. CASE RunFunctor \/ FunctorReturns
  BY <1>9 DEF RunFunctor, FunctorReturns
<1>10. CASE EndPending
  BY <1>10 DEF EndPending
<1>11. CASE UNCHANGED vars
  BY <1>11 DEF vars
<1>12. QED
  BY <1>1, <1>2, <1>3, <1>4, <1>5, <1>6, <1>7, <1>8, <1>9, <1>10, <1>11
     DEF Next, LoopStep, Call, RunInLoop

LEMMA WakeupInvInductive ==
  ASSUME ~QueueBeforeLoop
  PROVE  Spec => []WakeupInv
<1>1. Init => WakeupInv
  BY InitTypeOK
     DEF Init, WakeupInv, Placed, RunsBatch, Sleepless
<1>2. WakeupInv /\ [Next]_vars => WakeupInv'
  BY NextTypeOK, NextPlaced, NextSleepless DEF WakeupInv
<1>3. QED
  BY <1>1, <1>2, PTL DEF Spec

\* The loop never sleeps in epoll_wait on a pending functor, however many threads
\* queue work and whatever the callbacks do, as long as the loop's own thread does
\* not call queueInLoop before loop() (EventLoop.cc:127-139 and 169-185).
THEOREM WakeupNeverLost ==
  ASSUME ~QueueBeforeLoop
  PROVE  Spec => []NoLostWakeup
<1>1. WakeupInv => NoLostWakeup
  BY DEF WakeupInv, Sleepless, AfterSwap, Woken, NoLostWakeup
<1>2. QED
  BY <1>1, WakeupInvInductive, PTL

------------------------------------------------------------------------------
(***************************************************************************)
(* Refinement: with the batch in front of the pending functors as the      *)
(* abstract queue, each step of the loop is a step of TaskQueue.           *)
(***************************************************************************)
BatchPlaced == pc \notin {"run", "functor"} => functors = <<>>

LEMMA NextBatchPlaced ==
  ASSUME TypeOK, BatchPlaced, [Next]_vars
  PROVE  BatchPlaced'
<1> USE DEF BatchPlaced, LoopAt
<1>1. ASSUME NEW t \in Thread, Call(t)
      PROVE  BatchPlaced'
  BY <1>1 DEF Call, QueueInLoop, RunInLoop, RunHere, WakeupIfNeeded, Quit
<1>2. CASE LoopStep \/ PollTimeout \/ \E channel \in IoChannel : IoReady(channel)
  BY <1>2 DEF IoReady, LoopStep, StartLoop, ResetQuit, EnterIteration, LeaveLoop, PollEvents,
     PollTimeout, PollReturns, HandleRead, CallbackReturns, HandleEvent,
     SwapPending, RunFunctor, FunctorReturns, EndPending
<1>3. CASE UNCHANGED vars
  BY <1>3 DEF vars
<1>4. QED
  BY <1>1, <1>2, <1>3 DEF Next

\* The abstract queue after each kind of change to the two sequences.
LEMMA QueueAlgebra ==
  ASSUME NEW f \in Functor, NEW batch \in Seq(Functor), NEW pending \in Seq(Functor)
  PROVE  /\ batch \o Append(pending, f) = Append(batch \o pending, f)
         /\ <<>> \o pending = pending
         /\ pending \o <<>> = pending
<1>1. QED
  BY ConcatAssociative, AppendIsConcat, ConcatEmptySeq, ConcatProperties

LEMMA QueueHead ==
  ASSUME NEW batch \in Seq(Functor), NEW pending \in Seq(Functor), batch # <<>>
  PROVE  /\ batch \o pending # <<>>
         /\ Head(batch \o pending) = Head(batch)
         /\ Tail(batch \o pending) = Tail(batch) \o pending
<1>1. QED
  BY ConcatSimplifications, ConcatProperties, HeadTailProperties

LEMMA StepRefines ==
  ASSUME TypeOK, BatchPlaced, Next
  PROVE  [TQ!Next]_(TQ!vars)
<1> USE DEF TypeOK, TQ!vars
<1>1. ASSUME NEW t \in Thread, NEW f \in Functor, QueueInLoop(t, f)
      PROVE  TQ!Submit(f)
  BY <1>1, QueueAlgebra DEF QueueInLoop, TQ!Submit
<1>2. ASSUME NEW f \in Functor, RunHere(f)
      PROVE  TQ!RunNow(f)
  BY <1>2 DEF RunHere, TQ!RunNow, CanCall, InUserCode
<1>3. ASSUME NEW t \in Thread, WakeupIfNeeded(t) \/ Quit(t)
      PROVE  UNCHANGED TQ!vars
  BY <1>3 DEF WakeupIfNeeded, Quit
<1>4. CASE LeaveLoop
  BY <1>4 DEF LeaveLoop, LoopAt, TQ!Next, TQ!Stop
<1>5. CASE StartLoop \/ ResetQuit \/ EnterIteration \/ CallbackReturns \/ HandleRead
  BY <1>5 DEF StartLoop, ResetQuit, EnterIteration, CallbackReturns, HandleRead, LoopAt
<1>6. CASE PollEvents \/ PollTimeout \/ \E channel \in IoChannel : IoReady(channel)
  BY <1>6 DEF PollEvents, PollTimeout, PollReturns, IoReady, LoopAt
<1>7. ASSUME NEW channel \in IoChannel, HandleEvent(channel)
      PROVE  UNCHANGED TQ!vars
  BY <1>7 DEF HandleEvent, LoopAt
<1>8. CASE SwapPending
  <2>1. functors = <<>>
    BY <1>8 DEF SwapPending, BatchPlaced, LoopAt
  <2>2. QED
    BY <1>8, <2>1, ConcatEmptySeq DEF SwapPending, LoopAt
<1>9. CASE RunFunctor
  <2>1. functors # <<>> /\ pc = "run" /\ pc' = "functor"
    BY <1>9 DEF RunFunctor, LoopAt
  <2>2. TQ!RunNext
    BY <1>9, <2>1, QueueHead DEF RunFunctor, TQ!RunNext
  <2>3. QED
    BY <2>2 DEF TQ!Next
<1>10. CASE FunctorReturns \/ EndPending
  BY <1>10 DEF FunctorReturns, EndPending, LoopAt
<1>11. QED
  BY <1>1, <1>2, <1>3, <1>4, <1>5, <1>6, <1>7, <1>8, <1>9, <1>10
     DEF Next, LoopStep, Call, RunInLoop, TQ!Next

\* Whatever the threads do, functors run in the order they were queued and none
\* runs twice: the loop's every step is one TaskQueue allows.
THEOREM RefinesTaskQueue == Spec => TQ!SafeSpec
<1>1. Init => TQ!Init
  BY ConcatEmptySeq, EmptySeq DEF Init, TQ!Init
<1>2. Init => BatchPlaced
  BY DEF Init, BatchPlaced
<1>3. TypeOK /\ BatchPlaced /\ [Next]_vars => BatchPlaced'
  BY NextBatchPlaced
<1>4. TypeOK /\ BatchPlaced /\ [Next]_vars => [TQ!Next]_(TQ!vars)
  BY StepRefines DEF vars, TQ!vars
<1>5. QED
  BY <1>1, <1>2, <1>3, <1>4, TypeCorrect, PTL DEF Spec, TQ!SafeSpec
==============================================================================
