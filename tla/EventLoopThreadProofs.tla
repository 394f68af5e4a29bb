------------------------ MODULE EventLoopThreadProofs ------------------------
(***************************************************************************)
(* Proofs about EventLoopThread, for any threads, functors and channels:   *)
(* its loop behaves as module EventLoop says, so that what is proved of    *)
(* that module holds of it, and startLoop and the destructor keep loop,    *)
(* thread and owner in step.                                               *)
(***************************************************************************)
EXTENDS EventLoopThread, EventLoopProofs

\* Every step of the composed system is a step of the loop or leaves it alone.
LEMMA StepIsLoopStep == [ThreadNext]_threadVars => [Next]_vars
<1> SUFFICES ASSUME [ThreadNext]_threadVars
             PROVE  [Next]_vars
  OBVIOUS
<1>1. CASE UNCHANGED threadVars
  BY <1>1 DEF threadVars, loopVars
<1>2. CASE startLoop \/ Starting \/ SpuriousWakeup \/ Destroy \/ Join
  BY <1>2 DEF startLoop, Starting, SemWait, CheckLoop, SpuriousWakeup, Destroy, Join, loopVars
<1>3. CASE DestroyQuits
  <2>1. UNCHANGED vars \/ Quit(Owner)
    BY <1>3 DEF DestroyQuits, loopVars
  <2>2. QED
    BY <2>1, OwnerAssumption DEF Next, Call
<1>4. CASE SetTid \/ SemPost \/ Construct \/ Publish \/ ThreadReturns
  BY <1>4 DEF SetTid, SemPost, Construct, Publish, ThreadReturns, loopVars
<1>5. CASE LoopRuns \/ LoopTimesOut
  BY <1>5 DEF LoopRuns, LoopTimesOut, Next
<1>6. ASSUME NEW t \in Thread, Use(t) \/ FinishCall(t)
      PROVE  [Next]_vars
  <2>1. Call(t)
    BY <1>6 DEF Use, FinishCall, Call
  <2>2. QED
    BY <2>1 DEF Next
<1>7. ASSUME NEW channel \in IoChannel, ChannelReady(channel)
      PROVE  [Next]_vars
  BY <1>7 DEF ChannelReady, Next
<1>8. QED
  BY <1>1, <1>2, <1>3, <1>4, <1>5, <1>6, <1>7 DEF ThreadNext, Ending, ThreadStep

\* The loop a new thread builds and its owner hands out is module EventLoop's loop:
\* what is proved of that, its task queue included, holds of it.
THEOREM LoopIsEventLoop == ThreadSpec => Spec
<1>1. ThreadInit => Init
  BY DEF ThreadInit
<1>2. QED
  BY <1>1, StepIsLoopStep, PTL DEF ThreadSpec, Spec

------------------------------------------------------------------------------
(***************************************************************************)
(* How far thread and owner are from one another: the semaphore holds the  *)
(* owner until tid_ is set, loop_ until the loop is published, the join    *)
(* until the thread has ended.                                             *)
(***************************************************************************)
Started == {"construct", "callback", "loop", "exited"}    \* the semaphore was posted

InStep ==
  /\ thread \in {"post"} \cup Started => tidKnown
  /\ sem = 1 => thread \in Started
  /\ owner = "new" => thread = "none"
  /\ owner = "start" => sem = 1 \/ thread \in {"begin", "post"}
  /\ owner = "check" => thread \in Started
  /\ owner = "wait" => thread \in {"construct", "callback"}
  /\ published <=> thread \in {"loop", "exited"}
  /\ owner \in {"running", "quit", "join"} => published
  /\ owner = "destroyed" => thread \in {"none", "exited"}
  /\ thread = "exited" => pc = "done"
  /\ pc = "done" => quit_

ThreadInv == ThreadTypeOK /\ InStep

\* A loop that has ended was quit, and its quit_ stays.
LEMMA DoneStaysQuit ==
  ASSUME TypeOK, pc = "done" => quit_, [Next]_vars
  PROVE  /\ pc' = "done" => quit_'
         /\ pc = "done" => pc' = "done"
<1> USE DEF LoopAt, pollVars
<1>1. ASSUME NEW t \in Thread, Call(t)
      PROVE  pc' = pc /\ (quit_' = quit_ \/ quit_' = TRUE)
  BY <1>1 DEF Call, QueueInLoop, RunInLoop, RunHere, WakeupIfNeeded, Quit
<1>2. CASE StartLoop \/ ResetQuit \/ EnterIteration \/ LeaveLoop
  BY <1>2 DEF StartLoop, ResetQuit, EnterIteration, LeaveLoop
<1>3. CASE PollEvents \/ PollTimeout \/ \E channel \in IoChannel : IoReady(channel)
  BY <1>3 DEF PollEvents, PollTimeout, PollReturns, IoReady
<1>4. CASE HandleRead \/ CallbackReturns \/ \E channel \in IoChannel : HandleEvent(channel)
  BY <1>4 DEF HandleRead, CallbackReturns, HandleEvent
<1>5. CASE SwapPending \/ RunFunctor \/ FunctorReturns \/ EndPending
  BY <1>5 DEF SwapPending, RunFunctor, FunctorReturns, EndPending
<1>6. CASE UNCHANGED vars
  BY <1>6 DEF vars
<1>7. QED
  BY <1>1, <1>2, <1>3, <1>4, <1>5, <1>6 DEF Next, LoopStep

LEMMA InitThreadInv == ThreadInit => ThreadInv
<1> SUFFICES ASSUME ThreadInit
             PROVE  ThreadInv
  OBVIOUS
<1>1. TypeOK
  BY InitTypeOK DEF ThreadInit
<1>2. pc = "init"
  BY DEF ThreadInit, Init
<1>3. owner = "new" /\ thread = "none" /\ sem = 0 /\ tidKnown = FALSE /\ published = FALSE
  BY DEF ThreadInit
<1>4. ThreadTypeOK
  <2>1. {tidKnown, published} \subseteq BOOLEAN
    BY <1>3, Zenon
  <2>2. sem \in 0 .. 1
    BY <1>3
  <2>3. QED
    BY <1>1, <1>3, <2>1, <2>2, Zenon DEF ThreadTypeOK
<1>5. InStep
  BY <1>2, <1>3 DEF InStep, Started
<1>6. QED
  BY <1>4, <1>5 DEF ThreadInv

LEMMA NextThreadInv == ThreadInv /\ [ThreadNext]_threadVars => ThreadInv'
<1> SUFFICES ASSUME ThreadInv, [ThreadNext]_threadVars
             PROVE  ThreadInv'
  OBVIOUS
<1>1. TypeOK'
  BY StepIsLoopStep, NextTypeOK DEF ThreadInv, ThreadTypeOK
<1>2. /\ pc' = "done" => quit_'
      /\ pc = "done" => pc' = "done"
  BY StepIsLoopStep, DoneStaysQuit DEF ThreadInv, ThreadTypeOK, InStep
<1> USE DEF ThreadInv, ThreadTypeOK, InStep, Started
<1>3. CASE startLoop \/ SemWait \/ CheckLoop \/ SpuriousWakeup
  BY <1>1, <1>2, <1>3 DEF startLoop, SemWait, CheckLoop, SpuriousWakeup
<1>4. CASE Destroy \/ DestroyQuits \/ Join
  BY <1>1, <1>2, <1>4 DEF Destroy, DestroyQuits, Join
<1>5. CASE SetTid \/ SemPost \/ Construct \/ Publish
  <2>1. CASE SetTid
    <3>1. ThreadTypeOK'
      BY <1>1, <2>1 DEF SetTid
    <3>2. InStep'
      BY <1>2, <2>1 DEF SetTid
    <3>3. QED
      BY <3>1, <3>2
  <2>2. CASE SemPost
    BY <1>1, <1>2, <2>2 DEF SemPost
  <2>3. CASE Construct
    BY <1>1, <1>2, <2>3 DEF Construct
  <2>4. CASE Publish
    <3>1. ThreadTypeOK'
      BY <1>1, <2>4 DEF Publish
    <3>2. InStep'
      BY <1>2, <2>4 DEF Publish
    <3>3. QED
      BY <3>1, <3>2
  <2>5. QED
    BY <1>5, <2>1, <2>2, <2>3, <2>4
<1>6. CASE ThreadReturns
  BY <1>1, <1>2, <1>6 DEF ThreadReturns
<1>7. CASE UNCHANGED ownVars
  BY <1>1, <1>2, <1>7 DEF ownVars
<1>8. CASE UNCHANGED threadVars
  BY <1>7, <1>8 DEF threadVars, ownVars
<1>9. QED
  BY <1>3, <1>4, <1>5, <1>6, <1>7, <1>8
     DEF ThreadNext, Starting, Ending, ThreadStep, LoopRuns, LoopTimesOut, Use, FinishCall,
         ChannelReady

LEMMA ThreadInvHolds == ThreadSpec => []ThreadInv
<1>1. QED
  BY InitThreadInv, NextThreadInv, PTL DEF ThreadSpec

------------------------------------------------------------------------------
\* Owner, thread, semaphore and loop keep their types.
THEOREM ThreadTypeCorrect == ThreadSpec => []ThreadTypeOK
<1>1. ThreadInv => ThreadTypeOK
  BY DEF ThreadInv
<1>2. QED
  BY <1>1, ThreadInvHolds, PTL

\* When Thread::start has returned, tid_ is known: the semaphore is posted after it.
THEOREM TidIsKnown == ThreadSpec => []TidKnown
<1>1. ThreadInv => TidKnown
  BY DEF ThreadInv, ThreadTypeOK, InStep, Started, TidKnown
<1>2. QED
  BY <1>1, ThreadInvHolds, PTL

\* The loop startLoop returned, and which the destructor quits, is there until somebody
\* has quit it.
THEOREM LoopStaysLive == ThreadSpec => []LoopIsLive
<1>1. ThreadInv => LoopIsLive
  BY DEF ThreadInv, InStep, LoopIsLive
<1>2. QED
  BY <1>1, ThreadInvHolds, PTL

\* The destructor returns after the thread it started has ended.
THEOREM ThreadEndsBeforeOwner == ThreadSpec => []ThreadEndsFirst
<1>1. ThreadInv => ThreadEndsFirst
  BY DEF ThreadInv, InStep, ThreadEndsFirst
<1>2. QED
  BY <1>1, ThreadInvHolds, PTL

\* startLoop never waits for what has been given already: neither the semaphore's post nor
\* the notification of cond_ can come before the owner is ready for it.
THEOREM StartIsOwed == ThreadSpec => []WaiterIsOwed
<1>1. ThreadInv => WaiterIsOwed
  BY DEF ThreadInv, InStep, WaiterIsOwed
<1>2. QED
  BY <1>1, ThreadInvHolds, PTL
==============================================================================
