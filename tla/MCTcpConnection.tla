--------------------------- MODULE MCTcpConnection ---------------------------
(* TcpConnection for TLC. *)
EXTENDS TcpConnection, TLC

\* Users are interchangeable, and so are messages.
Symmetry == Permutations(User) \cup Permutations(Message)
==============================================================================
