---------------------------- MODULE ConnectionLife ----------------------------
(***************************************************************************)
(* The life of one connection, as the server and the connection's own loop *)
(* agree on it without sharing a lock: accepted and listed, established on *)
(* its loop, closed, struck off the list, and only then destroyed.  Module *)
(* TcpServer has the server's side of it for all connections, module       *)
(* TcpConnection the loop's side for one, and each implements this.        *)
(***************************************************************************)

VARIABLES
  stage,       \* none, new, up, closed, destroyed
  listed,      \* it is in connections_
  ending       \* ~TcpServer has begun

vars == <<stage, listed, ending>>

Init ==
  /\ \/ stage = "none" /\ listed = FALSE
     \/ stage = "new" /\ listed = TRUE
  /\ ending = FALSE

\* newConnection; on the server's own loop connectEstablished is part of it.
Accept ==
  /\ stage = "none" /\ ~ending
  /\ stage' \in {"new", "up"}
  /\ listed' = TRUE
  /\ UNCHANGED ending

\* Only the end of the server can overtake connectEstablished.
Establish ==
  /\ stage = "new" /\ (listed \/ ending)
  /\ stage' = "up"
  /\ UNCHANGED <<listed, ending>>

\* handleClose; on the server's own loop it strikes the connection off as well.
Close ==
  /\ stage = "up"
  /\ stage' = "closed"
  /\ listed' \in {listed, FALSE}
  /\ UNCHANGED ending

\* removeConnectionInLoop of a closed connection, or ~TcpServer.
Unlist ==
  /\ listed /\ listed' = FALSE
  /\ ending' \in {ending, TRUE}
  /\ stage = "closed" \/ ending'
  /\ UNCHANGED stage

\* connectDestroyed removes the channel from the poller, for good.
Destroy ==
  /\ stage \in {"up", "closed"}
  /\ stage = "closed" \/ ending
  /\ stage' = "destroyed"
  /\ listed' = FALSE /\ (listed => ending)
  /\ UNCHANGED ending

End ==
  /\ ending' = TRUE
  /\ UNCHANGED <<stage, listed>>

Next == Accept \/ Establish \/ Close \/ Unlist \/ Destroy \/ End

Spec == Init /\ [][Next]_vars
==============================================================================
