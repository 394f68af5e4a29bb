------------------------------ MODULE EventLoop ------------------------------
(***************************************************************************)
(* One EventLoop object (EventLoop.cc): its loop thread, which alternates  *)
(* between epoll_wait, the handlers of the active channels and the pending *)
(* functors, and other threads that hand it functors and quit it.          *)
(*                                                                         *)
(* Every access to pendingFunctors_ is one statement under mutex_, so the  *)
(* critical sections are single steps; everything between them (unlock,    *)
(* the wakeup test, the eventfd write, the handlers) interleaves freely.   *)
(*                                                                         *)
(* A functor or an I/O callback is user code: while one runs, the loop     *)
(* thread may call runInLoop, queueInLoop and quit any number of times.    *)
(***************************************************************************)
EXTENDS Naturals, Sequences, FiniteSets

CONSTANTS
  Thread,            \* all threads that use the loop
  LoopThread,        \* the thread whose tid is threadId_
  Functor,           \* the callbacks; each is submitted at most once
  IoChannel,         \* the channels other than wakeupChannel_
  wakeupChannel_,    \* the channel of the eventfd
  KInitEventListSize,
  QueueBeforeLoop    \* may LoopThread call queueInLoop before loop()?

ASSUME LoopAssumption ==
  /\ LoopThread \in Thread
  /\ wakeupChannel_ \notin IoChannel
  /\ KInitEventListSize \in Nat \ {0}
  /\ QueueBeforeLoop \in BOOLEAN

VARIABLES
  pc,                      \* where the loop thread is in loop()
  looping_,
  quit_,
  wakeupFd_,               \* the eventfd's counter; readable iff positive
  ioReady,                 \* the other channels whose fd is ready, in the kernel
  eventsSize,              \* events_.size(): how many channels one poll can return
  activeChannels_,         \* what the last poll returned and is not yet handled
  callingPendingFunctors_,
  pendingFunctors_,
  functors,                \* doPendingFunctors' local vector, minus those started
  notifying,               \* threads in queueInLoop, past the unlock
  unused,                  \* functors not submitted yet
  ran                      \* history: functors in the order they were run

pollVars == <<ioReady, eventsSize>>
vars == <<pc, looping_, quit_, wakeupFd_, pollVars, activeChannels_,
          callingPendingFunctors_, pendingFunctors_, functors, notifying,
          unused, ran>>

Location == {"init", "start", "test", "poll", "handle", "callback", "run", "functor", "done"}

TypeOK ==
  /\ pc \in Location
  /\ looping_ \in BOOLEAN
  /\ quit_ \in BOOLEAN
  /\ wakeupFd_ \in Nat
  /\ ioReady \subseteq IoChannel
  /\ eventsSize \in Nat \ {0}
  /\ activeChannels_ \subseteq IoChannel \cup {wakeupChannel_}
  /\ callingPendingFunctors_ \in BOOLEAN
  /\ pendingFunctors_ \in Seq(Functor)
  /\ functors \in Seq(Functor)
  /\ notifying \subseteq Thread
  /\ unused \subseteq Functor
  /\ ran \in Seq(Functor)

\* The constructor: wakeupChannel_ is registered for reading (EventLoop.cc:59).
Init ==
  /\ pc = "init"
  /\ looping_ = FALSE
  /\ quit_ = FALSE
  /\ wakeupFd_ = 0
  /\ ioReady = {}
  /\ eventsSize = KInitEventListSize
  /\ activeChannels_ = {}
  /\ callingPendingFunctors_ = FALSE
  /\ pendingFunctors_ = <<>>
  /\ functors = <<>>
  /\ notifying = {}
  /\ unused = Functor
  /\ ran = <<>>

------------------------------------------------------------------------------
\* What other code calls.

\* The loop thread runs library or user code that may call the loop's methods.
InUserCode == pc \in {"init", "callback", "functor"}

\* Thread t is free to make a call: it is not inside queueInLoop already.
CanCall(t) ==
  /\ t \notin notifying
  /\ t = LoopThread => InUserCode

isInLoopThread(t) == t = LoopThread

\* queueInLoop up to the unlock.
QueueInLoop(t, f) ==
  /\ CanCall(t)
  /\ isInLoopThread(t) /\ pc = "init" => QueueBeforeLoop
  /\ f \in unused
  /\ unused' = unused \ {f}
  /\ pendingFunctors_' = Append(pendingFunctors_, f)
  /\ notifying' = notifying \cup {t}
  /\ UNCHANGED <<pollVars, pc, looping_, quit_, wakeupFd_, activeChannels_,
                 callingPendingFunctors_, functors, ran>>

\* Variant with a bug: without the second operand of EventLoop.cc:135.
NeedsWakeupForeignOnly(t) == ~isInLoopThread(t)

NeedsWakeup(t) == ~isInLoopThread(t) \/ callingPendingFunctors_

\* The rest of queueInLoop: the test and wakeup()'s write of 1 to the eventfd.
WakeupIfNeeded(t) ==
  /\ t \in notifying
  /\ notifying' = notifying \ {t}
  /\ wakeupFd_' = IF NeedsWakeup(t) THEN wakeupFd_ + 1 ELSE wakeupFd_
  /\ UNCHANGED <<pollVars, pc, looping_, quit_, activeChannels_, callingPendingFunctors_,
                 pendingFunctors_, functors, unused, ran>>

\* runInLoop: the loop's own thread calls cb(), any other thread queues it.
RunHere(f) ==
  /\ CanCall(LoopThread)
  /\ f \in unused
  /\ unused' = unused \ {f}
  /\ ran' = Append(ran, f)
  /\ UNCHANGED <<pollVars, pc, looping_, quit_, wakeupFd_, activeChannels_,
                 callingPendingFunctors_, pendingFunctors_, functors, notifying>>

RunInLoop(t, f) ==
  \/ isInLoopThread(t) /\ RunHere(f)
  \/ ~isInLoopThread(t) /\ QueueInLoop(t, f)

\* quit() sets the flag and wakes nobody.
Quit(t) ==
  /\ CanCall(t)
  /\ quit_' = TRUE
  /\ UNCHANGED <<pollVars, pc, looping_, wakeupFd_, activeChannels_, callingPendingFunctors_,
                 pendingFunctors_, functors, notifying, unused, ran>>

------------------------------------------------------------------------------
\* loop().  The loop thread takes a step only when it is not inside queueInLoop.

LoopAt(location) == pc = location /\ LoopThread \notin notifying

\* The first two lines are two stores, and another thread may call quit() between them.
StartLoop ==
  /\ LoopAt("init")
  /\ pc' = "start"
  /\ looping_' = TRUE
  /\ UNCHANGED <<pollVars, quit_, wakeupFd_, activeChannels_, callingPendingFunctors_,
                 pendingFunctors_, functors, notifying, unused, ran>>

ResetQuit ==
  /\ LoopAt("start")
  /\ pc' = "test"
  /\ quit_' = FALSE
  /\ UNCHANGED <<pollVars, looping_, wakeupFd_, activeChannels_, callingPendingFunctors_,
                 pendingFunctors_, functors, notifying, unused, ran>>

\* Variant with a bug: the loop condition ignores quit_.
EnterIterationAlways ==
  /\ LoopAt("test")
  /\ pc' = "poll"
  /\ activeChannels_' = {}
  /\ UNCHANGED <<pollVars, looping_, quit_, wakeupFd_, callingPendingFunctors_,
                 pendingFunctors_, functors, notifying, unused, ran>>

\* while(!quit_), and the clear() that opens the body.
EnterIteration ==
  /\ LoopAt("test")
  /\ ~quit_
  /\ pc' = "poll"
  /\ activeChannels_' = {}
  /\ UNCHANGED <<pollVars, looping_, quit_, wakeupFd_, callingPendingFunctors_,
                 pendingFunctors_, functors, notifying, unused, ran>>

LeaveLoop ==
  /\ LoopAt("test")
  /\ quit_
  /\ pc' = "done"
  /\ looping_' = FALSE
  /\ UNCHANGED <<pollVars, quit_, wakeupFd_, activeChannels_, callingPendingFunctors_,
                 pendingFunctors_, functors, notifying, unused, ran>>

\* What epoll_wait finds, level-triggered: a channel is ready until it is handled.
Ready == ioReady \cup (IF wakeupFd_ > 0 THEN {wakeupChannel_} ELSE {})

\* poll returned with active and left size elements in events_.
PollReturns(active, size) ==
  /\ LoopAt("poll")
  /\ pc' = "handle"
  /\ activeChannels_' = active
  /\ eventsSize' = size
  /\ UNCHANGED <<looping_, quit_, wakeupFd_, ioReady, callingPendingFunctors_,
                 pendingFunctors_, functors, notifying, unused, ran>>

\* Variant with a bug: the array of events never grows.
SizeAfterKept(n) == eventsSize

\* The array doubles when n events filled it.
SizeAfter(n) == IF n = eventsSize THEN 2 * eventsSize ELSE eventsSize

\* epoll_wait returns as many of the ready channels as events_ has room for; which
\* ones is the kernel's choice.
PollEvents ==
  \E active \in SUBSET Ready :
    /\ active # {}
    /\ active = Ready \/ Cardinality(active) = eventsSize
    /\ Cardinality(active) <= eventsSize
    /\ PollReturns(active, SizeAfter(Cardinality(active)))

\* Nothing for kTimeMs, or a signal (EINTR): poll returns no channel.
PollTimeout == Ready = {} /\ PollReturns({}, eventsSize)

\* Data, a connection or a close arrives at a channel's fd.
IoReady(channel) ==
  /\ ioReady' = ioReady \cup {channel}
  /\ UNCHANGED <<pc, looping_, quit_, wakeupFd_, eventsSize, activeChannels_,
                 callingPendingFunctors_, pendingFunctors_, functors, notifying,
                 unused, ran>>

\* Variant with a bug: the handler counts one wakeup off, whether or not there is one.
HandleReadAsSemaphore ==
  /\ LoopAt("handle")
  /\ activeChannels_' = activeChannels_ \ {wakeupChannel_}
  /\ wakeupFd_' = wakeupFd_ - 1
  /\ UNCHANGED <<pollVars, pc, looping_, quit_, callingPendingFunctors_,
                 pendingFunctors_, functors, notifying, unused, ran>>

\* The eventfd's handler: one read takes the whole counter.
HandleRead ==
  /\ LoopAt("handle")
  /\ wakeupChannel_ \in activeChannels_
  /\ activeChannels_' = activeChannels_ \ {wakeupChannel_}
  /\ wakeupFd_' = 0
  /\ UNCHANGED <<pollVars, pc, looping_, quit_, callingPendingFunctors_,
                 pendingFunctors_, functors, notifying, unused, ran>>

\* channel->handleEvent of another channel enters its callback ...
HandleEvent(channel) ==
  /\ LoopAt("handle")
  /\ channel \in activeChannels_ \cap IoChannel
  /\ activeChannels_' = activeChannels_ \ {channel}
  /\ ioReady' = ioReady \ {channel}
  /\ pc' = "callback"
  /\ UNCHANGED <<looping_, quit_, wakeupFd_, eventsSize, callingPendingFunctors_,
                 pendingFunctors_, functors, notifying, unused, ran>>

\* ... and returns from it.
CallbackReturns ==
  /\ LoopAt("callback")
  /\ pc' = "handle"
  /\ UNCHANGED <<pollVars, looping_, quit_, wakeupFd_, activeChannels_,
                 callingPendingFunctors_, pendingFunctors_, functors, notifying,
                 unused, ran>>

\* doPendingFunctors up to the end of the swap.
SwapPending ==
  /\ LoopAt("handle")
  /\ activeChannels_ = {}
  /\ pc' = "run"
  /\ callingPendingFunctors_' = TRUE
  /\ functors' = pendingFunctors_
  /\ pendingFunctors_' = <<>>
  /\ UNCHANGED <<pollVars, looping_, quit_, wakeupFd_, activeChannels_, notifying, unused, ran>>

RunFunctor ==
  /\ LoopAt("run")
  /\ functors # <<>>
  /\ pc' = "functor"
  /\ ran' = Append(ran, Head(functors))
  /\ functors' = Tail(functors)
  /\ UNCHANGED <<pollVars, looping_, quit_, wakeupFd_, activeChannels_,
                 callingPendingFunctors_, pendingFunctors_, notifying, unused>>

FunctorReturns ==
  /\ LoopAt("functor")
  /\ pc' = "run"
  /\ UNCHANGED <<pollVars, looping_, quit_, wakeupFd_, activeChannels_,
                 callingPendingFunctors_, pendingFunctors_, functors, notifying,
                 unused, ran>>

\* Variant with a bug: what was queued while the batch ran is dropped.
EndPendingClears ==
  /\ LoopAt("run")
  /\ functors = <<>>
  /\ pc' = "test"
  /\ callingPendingFunctors_' = FALSE
  /\ pendingFunctors_' = <<>>
  /\ UNCHANGED <<pollVars, looping_, quit_, wakeupFd_, activeChannels_, functors, notifying,
                 unused, ran>>

EndPending ==
  /\ LoopAt("run")
  /\ functors = <<>>
  /\ pc' = "test"
  /\ callingPendingFunctors_' = FALSE
  /\ UNCHANGED <<pollVars, looping_, quit_, wakeupFd_, activeChannels_, pendingFunctors_,
                 functors, notifying, unused, ran>>

------------------------------------------------------------------------------
\* What the loop thread does of itself, the expiry of epoll_wait's timeout aside.
LoopStep ==
  \/ StartLoop
  \/ ResetQuit
  \/ EnterIteration
  \/ LeaveLoop
  \/ PollEvents
  \/ HandleRead
  \/ \E channel \in IoChannel : HandleEvent(channel)
  \/ CallbackReturns
  \/ SwapPending
  \/ RunFunctor
  \/ FunctorReturns
  \/ EndPending

Call(t) ==
  \/ \E f \in Functor : QueueInLoop(t, f) \/ RunInLoop(t, f)
  \/ WakeupIfNeeded(t)
  \/ Quit(t)

Next ==
  \/ LoopStep
  \/ PollTimeout
  \/ \E channel \in IoChannel : IoReady(channel)
  \/ \E t \in Thread : Call(t)

Spec == Init /\ [][Next]_vars

(***************************************************************************)
(* Fairness.  The scheduler runs every thread, callbacks return, and       *)
(* epoll_wait returns when something is ready; nobody promises that        *)
(* anything becomes ready, nor, here, that epoll_wait returns by its       *)
(* timeout: a functor that has to wait for the timeout counts as not woken.*)
(***************************************************************************)
Fairness ==
  /\ WF_vars(LoopStep)
  /\ \A t \in Thread : WF_vars(WakeupIfNeeded(t))

FairSpec == Spec /\ Fairness

------------------------------------------------------------------------------
\* The loop never sleeps on work: when it is in epoll_wait and a functor is
\* pending, the eventfd is readable or a thread is about to write it
\* (queueInLoop, wakeup, handleRead and the place of the swap in loop()).
NoLostWakeup ==
  pc = "poll" /\ pendingFunctors_ # <<>> => wakeupFd_ > 0 \/ notifying # {}

\* The queue as its users see it: the batch being run, then what is pending.
TQ == INSTANCE TaskQueue
        WITH queue <- functors \o pendingFunctors_, stopped <- pc = "done"

\* The loop implements the task queue: submission order, each functor once, and
\* each one in the end unless the loop stops (swap, the batch and the wakeup).
ImplementsTaskQueue == TQ!Spec

\* A ready channel is handled, however busy the others and whichever the kernel
\* prefers, although one poll returns no more than events_ has room for: an array
\* that is too small fills and doubles (EPollPoller::poll).
IoServed ==
  \A channel \in IoChannel :
    channel \in ioReady ~> (channel \notin ioReady \/ pc = "done")

\* epoll_wait also returns by its timeout (kTimeMs), which quit() depends on.
PollTimesOut == WF_vars(PollTimeout)

\* The loop thread is past line 74 of loop(), so that a quit() is not wiped any more.
PastReset == pc \notin {"init", "start"}

\* A quit() that finds the loop past its reset of quit_ ends it within one iteration
\* or one poll timeout (quit, the while test, kTimeMs).
QuitEndsLoop == PollTimesOut => ((quit_ /\ PastReset) ~> pc = "done")
==============================================================================
