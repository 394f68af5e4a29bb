----------------------------- MODULE MCEventLoop -----------------------------
(* Small instances of EventLoop for TLC. *)
EXTENDS EventLoop, TLC

\* Foreign threads and I/O channels are interchangeable; LoopThread is not.
Symmetry == Permutations(Thread \ {LoopThread}) \cup Permutations(Functor)
==============================================================================
