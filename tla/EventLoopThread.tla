--------------------------- MODULE EventLoopThread ---------------------------
(***************************************************************************)
(* An EventLoopThread (EventLoopThread.cc) with its Thread (Thread.cc):    *)
(* the owner starts a thread, waits until its EventLoop exists, uses the   *)
(* loop, and in the destructor quits it and joins the thread.  The new     *)
(* thread builds the loop on its stack, lends it to the init callback,     *)
(* publishes its address and runs loop().                                  *)
(*                                                                         *)
(* The loop is module EventLoop itself, every interleaving of it included. *)
(***************************************************************************)
EXTENDS EventLoop

CONSTANT Owner     \* the thread that owns the EventLoopThread

ASSUME OwnerAssumption == Owner \in Thread \ {LoopThread}

VARIABLES
  owner,         \* where the owner is in startLoop, or in the destructor
  thread,        \* where the new thread is
  tidKnown,      \* tid_ has been set
  sem,           \* the semaphore on the stack of Thread::start
  published      \* EventLoopThread::loop_ is not null; never reset

loopVars == vars
ownVars == <<owner, thread, tidKnown, sem, published>>
threadVars == <<loopVars, ownVars>>

ThreadTypeOK ==
  /\ TypeOK
  /\ owner \in {"new", "start", "check", "wait", "running", "quit", "join", "destroyed"}
  /\ thread \in {"none", "begin", "post", "construct", "callback", "loop", "exited"}
  /\ {tidKnown, published} \subseteq BOOLEAN
  /\ sem \in 0 .. 1

ThreadInit ==
  /\ Init
  /\ owner = "new"
  /\ thread = "none"
  /\ tidKnown = FALSE
  /\ sem = 0
  /\ published = FALSE

------------------------------------------------------------------------------
\* The owner.

\* startLoop calls Thread::start, which makes the thread and waits for its tid.
startLoop ==
  /\ owner = "new"
  /\ owner' = "start"
  /\ thread' = "begin"
  /\ UNCHANGED <<loopVars, tidKnown, sem, published>>

SemWait ==
  /\ owner = "start" /\ sem > 0
  /\ sem' = sem - 1
  /\ owner' = "check"
  /\ UNCHANGED <<loopVars, thread, tidKnown, published>>

\* Variant with a bug: startLoop does not wait for loop_.
CheckLoopUnwaited ==
  /\ owner = "check"
  /\ owner' = "running"
  /\ UNCHANGED <<loopVars, thread, tidKnown, sem, published>>

\* The test of loop_ and cond_.wait are one step under mutex_.
CheckLoop ==
  /\ owner = "check"
  /\ owner' = IF published THEN "running" ELSE "wait"
  /\ UNCHANGED <<loopVars, thread, tidKnown, sem, published>>

SpuriousWakeup ==
  /\ owner = "wait"
  /\ owner' = "check"
  /\ UNCHANGED <<loopVars, thread, tidKnown, sem, published>>

\* Variant with a bug: the thread is quit and not joined.
DestroyUnjoined ==
  /\ owner \in {"new", "running"} /\ notifying \ {LoopThread} = {}
  /\ owner' = "destroyed"
  /\ UNCHANGED <<loopVars, thread, tidKnown, sem, published>>

\* The destructor's test of loop_; no call of the owner or the users is under way.
Destroy ==
  /\ owner \in {"new", "running"} /\ notifying \ {LoopThread} = {}
  /\ owner' = IF published THEN "quit" ELSE "destroyed"
  /\ UNCHANGED <<loopVars, thread, tidKnown, sem, published>>

\* loop_->quit(), which touches a dead object if the thread has already left threadFunc.
DestroyQuits ==
  /\ owner = "quit"
  /\ owner' = "join"
  /\ IF thread = "exited" THEN UNCHANGED loopVars ELSE Quit(Owner)
  /\ UNCHANGED <<thread, tidKnown, sem, published>>

Join ==
  /\ owner = "join" /\ thread = "exited"
  /\ owner' = "destroyed"
  /\ UNCHANGED <<loopVars, thread, tidKnown, sem, published>>

------------------------------------------------------------------------------
\* The new thread: Thread::start's lambda, then threadFunc.

\* Variant with a bug: the semaphore is posted before tid_ is set.
SetTidPosted ==
  /\ thread = "begin"
  /\ thread' = "post"
  /\ sem' = sem + 1
  /\ UNCHANGED <<loopVars, owner, tidKnown, published>>

SetTid ==
  /\ thread = "begin"
  /\ thread' = "post"
  /\ tidKnown' = TRUE
  /\ UNCHANGED <<loopVars, owner, sem, published>>

SemPost ==
  /\ thread = "post"
  /\ thread' = "construct"
  /\ sem' = sem + 1
  /\ UNCHANGED <<loopVars, owner, tidKnown, published>>

\* EventLoop's constructor; its Init is the state it leaves.
Construct ==
  /\ thread = "construct"
  /\ thread' = "callback"
  /\ UNCHANGED <<loopVars, owner, tidKnown, sem, published>>

\* Variant with a bug: no notify_one.
PublishSilently ==
  /\ thread = "callback" /\ LoopThread \notin notifying
  /\ thread' = "loop"
  /\ published' = TRUE
  /\ UNCHANGED <<loopVars, owner, tidKnown, sem>>

\* The init callback has returned; loop_ is set and cond_ notified under mutex_.
Publish ==
  /\ thread = "callback" /\ LoopThread \notin notifying
  /\ thread' = "loop"
  /\ published' = TRUE
  /\ owner' = IF owner = "wait" THEN "check" ELSE owner
  /\ UNCHANGED <<loopVars, tidKnown, sem>>

\* loop() has returned: the loop on the stack is destroyed, with what is pending.
ThreadReturns ==
  /\ thread = "loop" /\ pc = "done"
  /\ thread' = "exited"
  /\ UNCHANGED <<loopVars, owner, tidKnown, sem, published>>

------------------------------------------------------------------------------
\* The loop, and the code that uses it through the pointer startLoop returned.

LoopRuns == thread = "loop" /\ LoopStep /\ UNCHANGED ownVars
LoopTimesOut == thread = "loop" /\ PollTimeout /\ UNCHANGED ownVars

\* The loop's own thread runs user code in the init callback and in loop();
\* another thread has the pointer once startLoop returned it.
HasLoop(t) ==
  IF t = LoopThread THEN thread = IF pc = "init" THEN "callback" ELSE "loop"
                    ELSE owner = "running" /\ thread = "loop"

Use(t) ==
  /\ HasLoop(t)
  /\ Quit(t) \/ \E f \in Functor : QueueInLoop(t, f) \/ RunInLoop(t, f)
  /\ UNCHANGED ownVars

FinishCall(t) == WakeupIfNeeded(t) /\ UNCHANGED ownVars

ChannelReady(channel) == thread = "loop" /\ IoReady(channel) /\ UNCHANGED ownVars

------------------------------------------------------------------------------
Starting == SemWait \/ CheckLoop
Ending == DestroyQuits \/ Join
ThreadStep == SetTid \/ SemPost \/ Construct \/ Publish \/ ThreadReturns \/ LoopRuns

ThreadNext ==
  \/ startLoop
  \/ Starting
  \/ SpuriousWakeup
  \/ Destroy
  \/ Ending
  \/ ThreadStep
  \/ LoopTimesOut
  \/ \E t \in Thread : Use(t) \/ FinishCall(t)
  \/ \E channel \in IoChannel : ChannelReady(channel)

ThreadSpec == ThreadInit /\ [][ThreadNext]_threadVars

\* The scheduler runs both threads and epoll_wait returns by its timeout; the owner
\* need not start or destroy, and cond_ need not wake without a notification.
ThreadFairSpec ==
  /\ ThreadSpec
  /\ WF_threadVars(Starting)
  /\ WF_threadVars(Ending)
  /\ WF_threadVars(ThreadStep)
  /\ WF_threadVars(LoopTimesOut)
  /\ \A t \in Thread : WF_threadVars(FinishCall(t))

------------------------------------------------------------------------------
\* Once Thread::start has returned, tid_ is that of the new thread (the semaphore).
TidKnown == owner \notin {"new", "start"} /\ thread # "none" => tidKnown

\* The pointer startLoop returned is to a loop that exists until somebody has quit it
\* (mutex_ and cond_ of startLoop and threadFunc; loop_ is never reset, lines 42-43
\* of EventLoopThread.cc are not reached).
LoopIsLive ==
  owner \in {"running", "quit"} =>
    published /\ (thread = "loop" \/ (thread = "exited" /\ quit_))

\* The object is destroyed only after its thread has ended, which uses mutex_,
\* cond_ and callback_: ~EventLoopThread joins, ~Thread never has to detach.
ThreadEndsFirst == owner = "destroyed" => thread \in {"none", "exited"}

\* Who is blocked in startLoop is owed what it waits for: the post of the semaphore, then
\* the notification of cond_, which has not been given while the owner was not waiting
\* (Thread::start, startLoop's test of loop_ under mutex_, threadFunc).
WaiterIsOwed ==
  /\ owner = "start" => sem = 1 \/ thread \in {"begin", "post"}
  /\ owner = "wait" => thread \in {"construct", "callback"}

\* startLoop returns: no notification is lost (startLoop, threadFunc, Thread::start).
StartReturns == owner = "start" ~> owner = "running"

\* The destructor returns once its quit() has reached a loop past its reset of quit_.
DestroyReturns == (owner = "join" /\ quit_ /\ PastReset) ~> owner = "destroyed"

\* "quit: leave the event loop" (EventLoop.cc:97): the destructor quits the loop, so
\* its join returns.
JoinReturns == owner = "join" ~> owner = "destroyed"
==============================================================================
