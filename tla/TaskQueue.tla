------------------------------ MODULE TaskQueue ------------------------------
(***************************************************************************)
(* What EventLoop promises to the code that hands it functors, with no     *)
(* thread, eventfd or poller in sight: the functors given to queueInLoop   *)
(* run one after the other in the order they were queued, each once, and   *)
(* each eventually, unless the loop is stopped first.  runInLoop called by *)
(* the loop's own thread runs its functor at once, ahead of the queue.     *)
(***************************************************************************)
EXTENDS Sequences

CONSTANT Functor        \* the callbacks; each is submitted at most once

VARIABLES
  unused,               \* functors nobody has submitted yet
  queue,                \* submitted, not yet run, oldest first
  ran,                  \* everything that has run, in the order it ran
  stopped               \* the loop has left loop(): nothing runs any more

vars == <<unused, queue, ran, stopped>>

TypeOK ==
  /\ unused \subseteq Functor
  /\ queue \in Seq(Functor)
  /\ ran \in Seq(Functor)
  /\ stopped \in BOOLEAN

Init ==
  /\ unused = Functor
  /\ queue = <<>>
  /\ ran = <<>>
  /\ stopped = FALSE

Submit(f) ==
  /\ f \in unused
  /\ unused' = unused \ {f}
  /\ queue' = Append(queue, f)
  /\ UNCHANGED <<ran, stopped>>

RunNow(f) ==
  /\ ~stopped
  /\ f \in unused
  /\ unused' = unused \ {f}
  /\ ran' = Append(ran, f)
  /\ UNCHANGED <<queue, stopped>>

RunNext ==
  /\ ~stopped
  /\ queue # <<>>
  /\ ran' = Append(ran, Head(queue))
  /\ queue' = Tail(queue)
  /\ UNCHANGED <<unused, stopped>>

Stop ==
  /\ stopped' = TRUE
  /\ UNCHANGED <<unused, queue, ran>>

Next ==
  \/ \E f \in Functor : Submit(f) \/ RunNow(f)
  \/ RunNext
  \/ Stop

\* The safety half alone, for the step-by-step refinement proof.
SafeSpec == Init /\ [][Next]_vars

Spec == SafeSpec /\ WF_vars(RunNext)
==============================================================================
