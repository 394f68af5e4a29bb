------------------------- MODULE TcpServerLifeProofs -------------------------
(***************************************************************************)
(* Every connection of a TcpServer lives as module ConnectionLife has it,  *)
(* and a closed one is never forgotten, for any numbers of threads,        *)
(* connections and descriptors.                                            *)
(***************************************************************************)
EXTENDS TcpServerProofs

------------------------------------------------------------------------------
(***************************************************************************)
(* What is on its way for each connection.                                 *)
(***************************************************************************)
QueuedOn(q, l, task) == \E i \in 1 .. Len(q[l]) : q[l][i] = task

\* A connection is struck off the map before its destruction is queued.
Erased ==
  \A l \in Loop : \A i \in 1 .. Len(queue[l]) :
    queue[l][i].op = "connectDestroyed" =>
      \A n \in DOMAIN connections_ : connections_[n] # queue[l][i].conn

\* The map has no destroyed connection.
Gone == \A n \in DOMAIN connections_ : conns[connections_[n]].stage # "destroyed"

\* A new connection's connectEstablished is still to come.
Awaited ==
  \A c \in DOMAIN conns :
    conns[c].stage = "new" => QueuedOn(queue, conns[c].loop, Do("connectEstablished", c))

\* A closed connection's removal is queued, or its destruction.
Expected ==
  \A c \in DOMAIN conns :
    conns[c].stage = "closed" =>
      \/ QueuedOn(queue, 0, Do("removeConnectionInLoop", c))
      \/ QueuedOn(queue, conns[c].loop, Do("connectDestroyed", c))

OnItsWay == Erased /\ Gone /\ Awaited /\ Expected

LEMMA InitOnItsWay == Init => OnItsWay
<1> SUFFICES ASSUME Init
             PROVE  OnItsWay
  OBVIOUS
<1>1. DOMAIN conns = {} /\ DOMAIN connections_ = {}
  BY DEF Init
<1>2. QED
  BY <1>1 DEF OnItsWay, Erased, Gone, Awaited, Expected

\* A functor that is not the first of a queue that loses one stays queued.
LEMMA StaysQueued ==
  ASSUME Inv, NEW lost, NEW n, NEW l, NEW task, QueuesMove(lost, n, l, task),
         NEW m \in Loop, NEW t, QueuedOn(queue, m, t), m \in lost => queue[m][1] # t
  PROVE  QueuedOn(queue', m, t)
<1>1. PICK j \in 1 .. Len(queue[m]) : queue[m][j] = t
  BY DEF QueuedOn
<1>2. ~ (m \in lost /\ j = 1)
  BY <1>1
<1>3. /\ j - First(lost, m) \in 1 .. Len(queue'[m])
      /\ queue'[m][j - First(lost, m)] = t
  BY <1>1, <1>2, Moved
<1>4. QED
  BY <1>3 DEF QueuedOn

\* The functor that is added is queued.
LEMMA IsQueued ==
  ASSUME Inv, NEW lost, NEW l, NEW task, QueuesMove(lost, 1, l, task)
  PROVE  l \in Loop /\ QueuedOn(queue', l, task)
<1>1. /\ l \in Loop
      /\ queue'[l][Len(queue[l]) - First(lost, l) + 1] = task
      /\ Len(queue'[l]) = Len(queue[l]) - First(lost, l) + 1
  BY DEF QueuesMove
<1>2. Len(queue[l]) - First(lost, l) \in Nat
  BY <1>1, Moved
<1>3. Len(queue[l]) - First(lost, l) + 1 \in 1 .. Len(queue'[l])
  BY <1>1, <1>2
<1>4. QED
  BY <1>1, <1>3 DEF QueuedOn

LEMMA WorkKeepsOnItsWay ==
  ASSUME Inv, OnItsWay, NEW c, NEW stage, NEW lost, NEW n, NEW l, NEW task,
         Works(c, stage, lost, n, l, task), Leaves(c, stage, lost, n, l, task)
  PROVE  OnItsWay'
<1>1. /\ c \in DOMAIN conns /\ DOMAIN conns' = DOMAIN conns
      /\ \A d \in DOMAIN conns :
           /\ conns'[d].loop = conns[d].loop
           /\ conns'[d].stage = IF d = c THEN stage ELSE conns[d].stage
      /\ DOMAIN connections_' \subseteq DOMAIN connections_
      /\ \A m \in DOMAIN connections_' : connections_'[m] = connections_[m]
      /\ QueuesMove(lost, n, l, task) /\ lost \subseteq Loop /\ 0 \in Loop
      /\ \A d \in DOMAIN conns : conns[d].loop \in Loop
  BY Facts DEF Works, QueuesMove
<1>2. /\ \A op, d : Do(op, d).op = op /\ Do(op, d).conn = d
      /\ \A m \in lost : queue[m][1] \in {Do("connectEstablished", c),
           Do("connectDestroyed", c), Do("removeConnectionInLoop", c)}
  BY DEF Leaves, Do
<1>3. Erased'
  <2> SUFFICES ASSUME NEW m \in Loop, NEW i \in 1 .. Len(queue'[m]),
                      queue'[m][i].op = "connectDestroyed", NEW k \in DOMAIN connections_'
               PROVE  connections_'[k] # queue'[m][i].conn
    BY DEF Erased
  <2>1. CASE /\ i + First(lost, m) \in 1 .. Len(queue[m])
             /\ queue'[m][i] = queue[m][i + First(lost, m)]
    BY <1>1, <2>1 DEF OnItsWay, Erased
  <2>2. CASE n = 1 /\ queue'[m][i] = task
    BY <2>2 DEF Leaves, Struck
  <2>3. QED
    BY <1>1, <2>1, <2>2, Moved
<1>4. Gone'
  <2> SUFFICES ASSUME NEW k \in DOMAIN connections_',
                      conns'[connections_'[k]].stage = "destroyed"
               PROVE  FALSE
    BY DEF Gone
  <2>1. /\ k \in DOMAIN connections_ /\ connections_'[k] = connections_[k]
        /\ connections_[k] \in DOMAIN conns /\ conns[connections_[k]].stage # "destroyed"
    BY <1>1, Facts DEF Inv, TypeOK, OnItsWay, Gone
  <2>2. connections_[k] = c /\ stage = "destroyed" /\ stage # conns[c].stage
    BY <1>1, <2>1
  <2>3. CASE \E m \in lost : queue[m][1] = Do("connectDestroyed", c)
    <3>1. PICK m \in lost : queue[m][1] = Do("connectDestroyed", c)
      BY <2>3
    <3>2. m \in Loop /\ 1 \in 1 .. Len(queue[m])
      BY <1>1, Facts DEF QueuesMove
    <3>3. QED
      BY <1>2, <2>1, <2>2, <3>1, <3>2 DEF OnItsWay, Erased
  <2>4. CASE Struck(c)
    BY <2>1, <2>2, <2>4 DEF Struck
  <2>5. QED
    BY <2>2, <2>3, <2>4 DEF Leaves
<1>5. Awaited'
  <2> SUFFICES ASSUME NEW d \in DOMAIN conns, conns'[d].stage = "new"
               PROVE  QueuedOn(queue', conns'[d].loop, Do("connectEstablished", d))
    BY <1>1 DEF Awaited
  <2>1. conns[d].stage = "new" /\ (d = c => stage = "new") /\ conns'[d].loop = conns[d].loop
    BY <1>1 DEF Leaves
  <2>2. QueuedOn(queue, conns[d].loop, Do("connectEstablished", d))
    BY <2>1 DEF OnItsWay, Awaited
  <2>3. \A m \in lost : queue[m][1] # Do("connectEstablished", d)
    <3> SUFFICES ASSUME NEW m \in lost, queue[m][1] = Do("connectEstablished", d)
                 PROVE  FALSE
      OBVIOUS
    <3>1. d = c
      BY <1>2
    <3>2. queue[m][1].op = "connectEstablished"
      BY <1>2
    <3>3. stage = "up"
      BY <1>2, <3>2 DEF Leaves
    <3>4. QED
      BY <2>1, <3>1, <3>3
  <2>4. PICK m \in Loop : m = conns[d].loop
    BY <1>1
  <2>5. QueuedOn(queue', m, Do("connectEstablished", d))
    BY <1>1, <2>2, <2>3, <2>4, StaysQueued
  <2>6. QED
    BY <2>1, <2>4, <2>5 DEF QueuedOn
<1>6. Expected'
  <2> SUFFICES ASSUME NEW d \in DOMAIN conns, conns'[d].stage = "closed"
               PROVE  \/ QueuedOn(queue', 0, Do("removeConnectionInLoop", d))
                      \/ QueuedOn(queue', conns'[d].loop, Do("connectDestroyed", d))
    BY <1>1 DEF Expected
  <2>1. PICK m \in Loop : m = conns[d].loop /\ m = conns'[d].loop
    BY <1>1
  <2>2. CASE d = c /\ n = 1 /\ Leaving(c, l, task)
    <3>1. QueuedOn(queue', l, task)
      BY <1>1, <2>2, IsQueued
    <3>2. QED
      BY <2>1, <2>2, <3>1 DEF QueuedOn, Leaving
  <2>3. CASE d = c /\ ~ (n = 1 /\ Leaving(c, l, task))
    <3>1. stage = "closed"
      BY <1>1, <2>3
    <3>2. lost = {} /\ QueuedOn(queue, 0, Do("removeConnectionInLoop", c))
      BY <2>3, <3>1 DEF Leaves, QueuedOn
    <3>3. QED
      BY <1>1, <2>3, <3>2, StaysQueued
  <2>4. CASE d # c
    <3>1. conns[d].stage = "closed"
      BY <1>1, <2>4
    <3>2. \A k \in lost : queue[k][1] # Do("removeConnectionInLoop", d)
                          /\ queue[k][1] # Do("connectDestroyed", d)
      <4>1. \A k \in lost : queue[k][1].conn = c
        BY <1>2
      <4>2. QED
        BY <1>2, <2>4, <4>1
    <3>3. CASE QueuedOn(queue, 0, Do("removeConnectionInLoop", d))
      BY <1>1, <3>2, <3>3, StaysQueued
    <3>4. CASE QueuedOn(queue, m, Do("connectDestroyed", d))
      <4>1. QueuedOn(queue', m, Do("connectDestroyed", d))
        BY <1>1, <3>2, <3>4, StaysQueued
      <4>2. QED
        BY <2>1, <4>1 DEF QueuedOn
    <3>5. QED
      BY <2>1, <3>1, <3>3, <3>4 DEF OnItsWay, Expected
  <2>5. QED
    BY <2>2, <2>3, <2>4
<1>7. QED
  BY <1>3, <1>4, <1>5, <1>6 DEF OnItsWay

\* A new connection has its connectEstablished queued, unless it has been run.
LEMMA AcceptKeepsOnItsWay ==
  ASSUME Inv, OnItsWay, handleRead, newConnection
  PROVE  OnItsWay'
<1> DEFINE c == Len(conns) + 1
           t == Do("connectEstablished", c)
<1>1. /\ c \in Conn /\ c \notin DOMAIN conns /\ DOMAIN conns' = DOMAIN conns \cup {c}
      /\ \A d \in DOMAIN conns : conns'[d] = conns[d]
      /\ conns'[c].loop = NextLoop /\ NextLoop \in Loop
      /\ conns'[c].stage = IF NextLoop = 0 THEN "up" ELSE "new"
      /\ DOMAIN connections_' = DOMAIN connections_ \cup {nextConnId_}
      /\ connections_'[nextConnId_] = c
      /\ \A n \in DOMAIN connections_ : connections_'[n] = connections_[n]
      /\ NextLoop = 0 => queue' = queue
      /\ NextLoop # 0 => queue' = Enqueue(queue, NextLoop, t)
  BY AcceptProperties, Facts
<1>2. t \in Task /\ t.op = "connectEstablished"
  BY <1>1, TaskTypes DEF Do
<1>3. /\ 0 \in Loop
      /\ \A d \in DOMAIN conns : conns[d].loop \in Loop
      /\ \A m \in Loop : \A i \in 1 .. Len(queue[m]) : queue[m][i].conn \in DOMAIN conns
      /\ \A n \in DOMAIN connections_ : connections_[n] \in DOMAIN conns
  BY Facts DEF Inv, TypeOK, AllPlaced, Placed
<1> HIDE DEF c, t
<1>4. PICK n \in {0, 1}, l \in Loop : /\ QueuesMove({}, n, l, t)
                                      /\ NextLoop # 0 => n = 1 /\ l = NextLoop
  <2>1. CASE NextLoop = 0
    BY <1>1, <1>2, <1>3, <2>1, SameQueues
  <2>2. CASE NextLoop # 0
    BY <1>1, <1>2, <2>2, QueuesGrow
  <2>3. QED
    BY <2>1, <2>2
<1>5. Erased'
  <2> SUFFICES ASSUME NEW m \in Loop, NEW i \in 1 .. Len(queue'[m]),
                      queue'[m][i].op = "connectDestroyed", NEW k \in DOMAIN connections_'
               PROVE  connections_'[k] # queue'[m][i].conn
    BY DEF Erased
  <2>1. /\ i + First({}, m) \in 1 .. Len(queue[m])
        /\ queue'[m][i] = queue[m][i + First({}, m)]
    BY <1>2, <1>4, Moved
  <2>2. queue'[m][i].conn \in DOMAIN conns /\ queue'[m][i].conn # c
    BY <1>1, <1>3, <2>1
  <2>3. k \in DOMAIN connections_ => connections_[k] # queue'[m][i].conn
    BY <2>1 DEF OnItsWay, Erased
  <2>4. QED
    BY <1>1, <2>2, <2>3
<1>6. Gone'
  BY <1>1, <1>3 DEF OnItsWay, Gone
<1>7. \A m \in Loop : \A u : QueuedOn(queue, m, u) => QueuedOn(queue', m, u)
  BY <1>4, StaysQueued
<1>8. Awaited'
  <2> SUFFICES ASSUME NEW d \in DOMAIN conns', conns'[d].stage = "new"
               PROVE  QueuedOn(queue', conns'[d].loop, Do("connectEstablished", d))
    BY DEF Awaited
  <2>1. CASE d = c
    BY <1>1, <1>4, <2>1, IsQueued DEF t
  <2>2. CASE d # c
    BY <1>1, <1>3, <1>7, <2>2 DEF OnItsWay, Awaited
  <2>3. QED
    BY <2>1, <2>2
<1>9. Expected'
  BY <1>1, <1>3, <1>7 DEF OnItsWay, Expected
<1>10. QED
  BY <1>5, <1>6, <1>8, <1>9 DEF OnItsWay

\* The steps are those that work on one connection, a new connection, and the others.
LEMMA Steps ==
  ASSUME Inv, [Next]_vars
  PROVE  \/ \E c, stage, lost, n, l, task :
              /\ Works(c, stage, lost, n, l, task) /\ Right(c, stage, lost, n, l, task)
              /\ Leaves(c, stage, lost, n, l, task)
         \/ handleRead /\ newConnection
         \/ UNCHANGED <<conns, connections_, queue>> /\ (server # "alive" => server' # "alive")
<1> USE DEF connVars
<1>1. CASE \E n \in 0 .. MaxThreads : setThreadNum(n)
  BY <1>1 DEF setThreadNum, loopVars, endVars
<1>2. CASE start \/ RunLoop \/ QuitLoop \/ Arrives \/ \E c \in Conn : PeerCloses(c)
  BY <1>2 DEF start, RunLoop, QuitLoop, Arrives, PeerCloses, loopVars, endVars
<1>3. ASSUME NEW l \in Loop, LoopStep(l)
      PROVE  \/ \E c, stage, lost, n, m, task :
                  /\ Works(c, stage, lost, n, m, task) /\ Right(c, stage, lost, n, m, task)
                  /\ Leaves(c, stage, lost, n, m, task)
             \/ handleRead /\ newConnection
             \/ /\ UNCHANGED <<conns, connections_, queue>>
                /\ (server # "alive" => server' # "alive")
  <2>1. CASE EnterLoop(l) \/ TestQuit(l) \/ Poll(l) \/ Swap(l) \/ EndBatch(l) \/ AcceptFails
    BY <2>1 DEF EnterLoop, TestQuit, Poll, Swap, EndBatch, AcceptFails, endVars
  <2>2. CASE handleRead
    BY <2>2 DEF handleRead, Dropped, endVars
  <2>3. CASE (\E c \in Conn : handleClose(l, c)) \/ RunFunctor(l)
    BY <2>3, CloseWorks, FunctorWorks
  <2>4. QED
    BY <1>3, <2>1, <2>2, <2>3 DEF LoopStep
<1>4. CASE DestroyServer
  BY <1>4 DEF DestroyServer, loopVars
<1>5. CASE Destructor
  <2>1. CASE \E k \in DOMAIN connections_ : ClearConnection(k)
    BY <2>1, ClearWorks
  <2>2. CASE QuitThread \/ JoinThread \/ ServerGone
    BY <2>2 DEF QuitThread, JoinThread, ServerGone, loopVars
  <2>3. QED
    BY <1>5, <2>1, <2>2 DEF Destructor
<1>6. CASE UNCHANGED vars
  BY <1>6 DEF vars, loopVars, endVars
<1>7. QED
  BY <1>1, <1>2, <1>3, <1>4, <1>5, <1>6 DEF Next

LEMMA NextOnItsWay == Inv /\ OnItsWay /\ [Next]_vars => OnItsWay'
<1> SUFFICES ASSUME Inv, OnItsWay, [Next]_vars
             PROVE  OnItsWay'
  OBVIOUS
<1>1. CASE UNCHANGED <<conns, connections_, queue>>
  BY <1>1 DEF OnItsWay, Erased, Gone, Awaited, Expected
<1>2. QED
  BY <1>1, Steps, WorkKeepsOnItsWay, AcceptKeepsOnItsWay

LEMMA SpecOnItsWay == Spec => [](Inv /\ OnItsWay)
<1>1. QED
  BY InitInv, NextInv, InitOnItsWay, NextOnItsWay, PTL DEF Spec

------------------------------------------------------------------------------
(***************************************************************************)
(* The life of connection c, step by step.                                 *)
(***************************************************************************)
StageOf(c) == IF c \in DOMAIN conns THEN conns[c].stage ELSE "none"
Listed(c) == c \in Range(connections_)

LEMMA ListedFacts ==
  ASSUME NEW c
  PROVE  /\ Listed(c) <=> \E n \in DOMAIN connections_ : connections_[n] = c
         /\ Listed(c)' <=> \E n \in DOMAIN connections_' : connections_'[n] = c
  BY DEF Listed, Range

\* The actions of ConnectionLife in terms of the two.
LEMMA LifeSteps ==
  ASSUME NEW c
  PROVE  /\ LifeOf(c)!Accept <=>
              /\ StageOf(c) = "none" /\ ~ (server # "alive") /\ StageOf(c)' \in {"new", "up"}
              /\ Listed(c)' = TRUE /\ (server' # "alive") = (server # "alive")
         /\ LifeOf(c)!Establish <=>
              /\ StageOf(c) = "new" /\ (Listed(c) \/ server # "alive") /\ StageOf(c)' = "up"
              /\ Listed(c)' = Listed(c) /\ (server' # "alive") = (server # "alive")
         /\ LifeOf(c)!Close <=>
              /\ StageOf(c) = "up" /\ StageOf(c)' = "closed"
              /\ Listed(c)' \in {Listed(c), FALSE} /\ (server' # "alive") = (server # "alive")
         /\ LifeOf(c)!Unlist <=>
              /\ Listed(c) /\ Listed(c)' = FALSE
              /\ (server' # "alive") \in {server # "alive", TRUE}
              /\ StageOf(c) = "closed" \/ server' # "alive"
              /\ StageOf(c)' = StageOf(c)
         /\ LifeOf(c)!Destroy <=>
              /\ StageOf(c) \in {"up", "closed"} /\ (StageOf(c) = "closed" \/ server # "alive")
              /\ StageOf(c)' = "destroyed"
              /\ Listed(c)' = FALSE /\ (Listed(c) => server # "alive")
              /\ (server' # "alive") = (server # "alive")
         /\ LifeOf(c)!End <=>
              /\ (server' # "alive") = TRUE
              /\ StageOf(c)' = StageOf(c) /\ Listed(c)' = Listed(c)
         /\ LifeOf(c)!vars' = LifeOf(c)!vars <=>
              /\ StageOf(c)' = StageOf(c) /\ Listed(c)' = Listed(c)
              /\ (server' # "alive") = (server # "alive")
  BY DEF LifeOf!Accept, LifeOf!Establish, LifeOf!Close, LifeOf!Unlist, LifeOf!Destroy,
         LifeOf!End, LifeOf!vars, StageOf, Listed

\* What a step that works on connection d does to connection c.
LEMMA WorkLives ==
  ASSUME Inv, OnItsWay, NEW c, NEW d, NEW stage, NEW lost, NEW n, NEW l, NEW task,
         Works(d, stage, lost, n, l, task), Right(d, stage, lost, n, l, task),
         Leaves(d, stage, lost, n, l, task)
  PROVE  [LifeOf(c)!Next]_(LifeOf(c)!vars)
<1>1. /\ d \in DOMAIN conns /\ stage \in Stage /\ DOMAIN conns' = DOMAIN conns
      /\ \A e \in DOMAIN conns : conns'[e].stage = IF e = d THEN stage ELSE conns[e].stage
      /\ DOMAIN connections_' \subseteq DOMAIN connections_
      /\ \A m \in DOMAIN connections_' : connections_'[m] = connections_[m]
      /\ \A m \in DOMAIN connections_ : m \in DOMAIN connections_' \/ connections_[m] = d
      /\ server' = server
  BY DEF Works
<1>2. CASE c # d
  <2>1. StageOf(c)' = StageOf(c)
    BY <1>1, <1>2 DEF StageOf
  <2>2. Listed(c)' = Listed(c)
    BY <1>1, <1>2, ListedFacts DEF Listed
  <2>3. QED
    BY <1>1, <2>1, <2>2, LifeSteps
<1>3. CASE c = d
  <2>1. StageOf(c) = conns[c].stage /\ StageOf(c)' = stage /\ StageOf(c) \in Stage
    BY <1>1, <1>3, Facts DEF StageOf
  <2>2. Listed(c)' => Listed(c)
    BY <1>1, <1>3, ListedFacts
  <2>3. Listed(c) \in BOOLEAN /\ Listed(c)' \in BOOLEAN
    BY DEF Listed
  <2>4. Listed(c) => conns[c].stage # "destroyed"
    BY <1>1, ListedFacts DEF OnItsWay, Gone
  <2>5. CASE stage = conns[c].stage
    <3>1. CASE Listed(c)' = Listed(c)
      BY <1>1, <2>1, <2>5, <3>1, LifeSteps
    <3>2. CASE Listed(c) /\ ~ Listed(c)'
      <4>1. PICK m \in DOMAIN connections_ : connections_[m] = c /\ m \notin DOMAIN connections_'
        BY <1>1, <3>2, ListedFacts
      <4>2. stage = "closed" \/ server # "alive"
        BY <1>3, <2>1, <2>4, <2>5, <3>2, <4>1 DEF Right, Stage
      <4>3. LifeOf(c)!Unlist
        BY <1>1, <2>1, <2>3, <2>5, <3>2, <4>2, LifeSteps
      <4>4. QED
        BY <4>3 DEF LifeOf!Next
    <3>3. QED
      BY <2>2, <2>3, <3>1, <3>2
  <2>6. CASE stage # conns[c].stage /\ stage = "up"
    <3>1. conns[c].stage = "new" /\ connections_' = connections_
      BY <1>3, <2>6 DEF Right, Leaves
    <3>2. Listed(c)' = Listed(c)
      BY <3>1 DEF Listed
    <3>3. Listed(c) \/ server # "alive"
      BY <1>1, <1>3, <3>1, ListedFacts DEF Inv, OpenIsListed
    <3>4. LifeOf(c)!Establish
      BY <1>1, <2>1, <2>6, <3>1, <3>2, <3>3, LifeSteps
    <3>5. QED
      BY <3>4 DEF LifeOf!Next
  <2>7. CASE stage # conns[c].stage /\ stage = "closed"
    <3>1. conns[c].stage = "up"
      BY <1>3, <2>1, <2>7 DEF Right, Leaves, Stage
    <3>2. LifeOf(c)!Close
      BY <1>1, <2>1, <2>2, <2>3, <2>7, <3>1, LifeSteps
    <3>3. QED
      BY <3>2 DEF LifeOf!Next
  <2>8. CASE stage # conns[c].stage /\ stage = "destroyed"
    <3>1. server = "alive" => conns[c].stage = "closed"
      BY <1>3, <2>8 DEF Leaves
    <3>2. \/ \E m \in lost : queue[m][1] = Do("connectDestroyed", c)
          \/ lost = {} /\ server # "alive" /\ Struck(c)
      BY <1>3, <2>8 DEF Leaves
    <3>3. conns[c].stage # "new"
      <4> SUFFICES ASSUME conns[c].stage = "new"
                   PROVE  FALSE
        OBVIOUS
      <4>1. PICK m \in Loop :
              m = conns[c].loop /\ QueuedOn(queue, m, Do("connectEstablished", c))
        BY <1>1, <1>3, Facts DEF OnItsWay, Awaited
      <4>2. PICK i \in 1 .. Len(queue[m]) : queue[m][i] = Do("connectEstablished", c)
        BY <4>1 DEF QueuedOn
      <4>3. i > First(lost, m) => queue[m][i] # Do("connectEstablished", c)
        BY <1>3, <2>8, <4>1 DEF Right
      <4>4. i = 1 /\ m \in lost
        BY <4>2, <4>3 DEF First
      <4>5. PICK k \in lost : queue[k][1] = Do("connectDestroyed", c)
        BY <3>2, <4>4
      <4>6. k \in Loop /\ 1 \in 1 .. Len(queue[k])
        BY Facts DEF Works, QueuesMove
      <4>7. Placed(k, Do("connectDestroyed", c))
        BY <4>5, <4>6 DEF Inv, AllPlaced
      <4>8. k = m
        BY <4>1, <4>7 DEF Placed, Do
      <4>9. QED
        BY <4>2, <4>4, <4>5, <4>8 DEF Do
    <3>4. Listed(c)' = FALSE /\ (Listed(c) => server # "alive")
      <4>1. CASE \E m \in lost : queue[m][1] = Do("connectDestroyed", c)
        <5>1. PICK m \in lost : queue[m][1] = Do("connectDestroyed", c)
          BY <4>1
        <5>2. m \in Loop /\ 1 \in 1 .. Len(queue[m])
          BY Facts DEF Works, QueuesMove
        <5>3. ~ Listed(c)
          BY <5>1, <5>2, ListedFacts DEF OnItsWay, Erased, Do
        <5>4. QED
          BY <2>2, <2>3, <5>3
      <4>2. CASE lost = {} /\ server # "alive" /\ Struck(c)
        BY <2>3, <4>2, ListedFacts DEF Struck
      <4>3. QED
        BY <3>2, <4>1, <4>2
    <3>5. conns[c].stage \in {"up", "closed"}
      BY <2>1, <2>8, <3>3 DEF Stage
    <3>6. LifeOf(c)!Destroy
      BY <1>1, <2>1, <2>8, <3>1, <3>4, <3>5, LifeSteps
    <3>7. QED
      BY <3>6 DEF LifeOf!Next
  <2>9. stage \in {"closed", "destroyed"} \/ stage = "up" \/ stage = conns[c].stage
    BY <1>3 DEF Right
  <2>10. QED
    BY <2>5, <2>6, <2>7, <2>8, <2>9
<1>4. QED
  BY <1>2, <1>3

LEMMA AcceptLives ==
  ASSUME Inv, NEW c, handleRead, newConnection
  PROVE  [LifeOf(c)!Next]_(LifeOf(c)!vars)
<1> DEFINE new == Len(conns) + 1
<1>1. /\ new \notin DOMAIN conns /\ DOMAIN conns' = DOMAIN conns \cup {new}
      /\ \A d \in DOMAIN conns : conns'[d] = conns[d]
      /\ conns'[new].stage \in {"new", "up"}
      /\ DOMAIN connections_' = DOMAIN connections_ \cup {nextConnId_}
      /\ nextConnId_ \notin DOMAIN connections_
      /\ connections_'[nextConnId_] = new
      /\ \A n \in DOMAIN connections_ : connections_'[n] = connections_[n]
      /\ phase[0] = "handle"
  BY AcceptProperties, Facts
<1>2. server = "alive" /\ server' = server
  BY <1>1 DEF Inv, Life, handleRead, endVars
<1> HIDE DEF new
<1>3. CASE c = new
  <2>1. StageOf(c) = "none" /\ StageOf(c)' \in {"new", "up"}
    BY <1>1, <1>3 DEF StageOf
  <2>2. Listed(c)'
    BY <1>1, <1>3, ListedFacts
  <2>3. Listed(c)' = TRUE
    BY <2>2 DEF Listed
  <2>4. LifeOf(c)!Accept
    BY <1>2, <2>1, <2>3, LifeSteps
  <2>5. QED
    BY <2>4 DEF LifeOf!Next
<1>4. CASE c # new
  <2>1. StageOf(c)' = StageOf(c)
    BY <1>1, <1>4 DEF StageOf
  <2>2. Listed(c)' = Listed(c)
    BY <1>1, <1>4, ListedFacts DEF Listed
  <2>3. QED
    BY <1>2, <2>1, <2>2, LifeSteps
<1>5. QED
  BY <1>3, <1>4

\* Every connection is established once, struck off the list only when closed or when the
\* server ends, and destroyed only after that, whichever loops it and the server run on
\* and however late or often its removal runs (newConnection, removeConnectionInLoop,
\* ~TcpServer).
THEOREM ConnectionsLiveOrderly == Spec => ImplementsLife
<1>1. Init => \A c \in Conn : LifeOf(c)!Init
  BY DEF Init, LifeOf!Init, Range
<1>2. Inv /\ OnItsWay /\ [Next]_vars => [\A c \in Conn : [LifeOf(c)!Next]_(LifeOf(c)!vars)]_vars
  <2> SUFFICES ASSUME Inv, OnItsWay, [Next]_vars, NEW c \in Conn
               PROVE  [LifeOf(c)!Next]_(LifeOf(c)!vars)
    OBVIOUS
  <2>1. CASE handleRead /\ newConnection
    BY <2>1, AcceptLives
  <2>2. CASE UNCHANGED <<conns, connections_, queue>> /\ (server # "alive" => server' # "alive")
    <3>1. StageOf(c)' = StageOf(c) /\ Listed(c)' = Listed(c)
      BY <2>2 DEF StageOf, Listed
    <3>2. QED
      BY <2>2, <3>1, LifeSteps DEF LifeOf!Next
  <2>3. QED
    BY <2>1, <2>2, Steps, WorkLives
<1>3. QED
  BY <1>1, <1>2, SpecOnItsWay, PTL DEF Spec, ImplementsLife

\* A closed connection never waits for nothing: its removal or its destruction is queued
\* on the loop that has to run it (removeConnection, removeConnectionInLoop).
THEOREM ClosedKeepsLeaving == Spec => []ClosedIsLeaving
<1>1. Inv /\ OnItsWay => ClosedIsLeaving
  <2> SUFFICES ASSUME Inv, OnItsWay, NEW c \in DOMAIN conns, conns[c].stage = "closed"
               PROVE  \/ Do("removeConnectionInLoop", c) \in Range(queue[0])
                      \/ Do("connectDestroyed", c) \in Range(queue[conns[c].loop])
    BY DEF ClosedIsLeaving
  <2>1. \A m \in Loop : DOMAIN queue[m] = 1 .. Len(queue[m])
    BY Facts, LenProperties
  <2>2. \A m \in Loop : \A t : QueuedOn(queue, m, t) => t \in Range(queue[m])
    BY <2>1 DEF QueuedOn, Range
  <2>3. QED
    BY <2>2, Facts DEF OnItsWay, Expected
<1>2. QED
  BY <1>1, SpecOnItsWay, PTL
==============================================================================
