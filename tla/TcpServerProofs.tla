--------------------------- MODULE TcpServerProofs ---------------------------
(***************************************************************************)
(* Proofs about TcpServer, for any numbers of threads, connections and     *)
(* descriptors: its typing, and each safety property that is checked of    *)
(* it.                                                                     *)
(***************************************************************************)
EXTENDS TcpServer, SequenceTheorems, FiniteSetTheorems, TLAPS

------------------------------------------------------------------------------
(***************************************************************************)
(* The inductive invariant.                                                *)
(***************************************************************************)

\* Where the loops, the threads and the destructor are to one another.
Life ==
  /\ started_ = 0 => threads = 0
  /\ phase[0] = "init" => conns = <<>> /\ next_ = 0
  /\ server = "alive" => joined = 0
  /\ server = "joining" => joined < threads
  /\ server = "gone" => joined = threads
  /\ server # "alive" => phase[0] \in {"init", "done"}
  /\ \A l \in 1 .. joined : phase[l] = "done"
  /\ \A l \in Loop : l > threads => phase[l] = "init"

\* What a loop is to handle is still as the poll found it.
Handled ==
  /\ Len(conns) + backlog <= arrivals
  /\ peerClosed \subseteq DOMAIN conns
  /\ \A l \in Loop : active[l] # {} => phase[l] = "handle"
  /\ Acceptor \in active[0] => backlog > 0
  /\ \A l \in Loop : \A c \in active[l] :
       c # Acceptor => /\ c \in DOMAIN conns
                       /\ conns[c].loop = l
                       /\ conns[c].stage \in {"up", "closed"}

\* Names are never used twice, and the map has connections under their own.
Named ==
  /\ \A c \in DOMAIN conns : conns[c].name < nextConnId_
  /\ \A c, d \in DOMAIN conns : conns[c].name = conns[d].name => c = d
  /\ \A n \in DOMAIN connections_ : conns[connections_[n]].name = n

\* A functor is on the right loop, at the right time of its connection's life.
Placed(l, task) ==
  /\ task.conn \in DOMAIN conns
  /\ task.op = "connectEstablished" =>
       /\ l # 0 /\ conns[task.conn].loop = l
       /\ conns[task.conn].stage = "new"
  /\ task.op = "connectDestroyed" =>
       /\ conns[task.conn].loop = l
       /\ server = "alive" => conns[task.conn].stage \in {"closed", "destroyed"}
  /\ task.op = "removeConnectionInLoop" =>
       l = 0 /\ conns[task.conn].stage \in {"closed", "destroyed"}

AllPlaced == \A l \in Loop : \A i \in 1 .. Len(queue[l]) : Placed(l, queue[l][i])

\* Nothing of a connection is queued before its connectEstablished.
Ordered ==
  \A l \in Loop : \A i, j \in 1 .. Len(queue[l]) :
    i < j /\ queue[l][j].op = "connectEstablished" => queue[l][i].conn # queue[l][j].conn

\* A connection that is not destroyed is in the map or will be destroyed by a functor.
Kept ==
  \A c \in DOMAIN conns :
    conns[c].stage # "destroyed" =>
      \/ \E n \in DOMAIN connections_ : connections_[n] = c
      \/ \E i \in 1 .. Len(queue[conns[c].loop]) :
           queue[conns[c].loop][i] = Do("connectDestroyed", c)

\* The k-th connection from the end is k places before next_, cyclically.
LastInTurn ==
  \A k \in 1 .. threads :
    k <= Len(conns) =>
      conns[Len(conns) + 1 - k].loop =
        IF k <= next_ THEN next_ + 1 - k ELSE next_ + 1 - k + threads

------------------------------------------------------------------------------
(***************************************************************************)
(* The sequences: connections and queues.                                  *)
(***************************************************************************)
LEMMA ConnIsRecord ==
  ASSUME conns \in Seq(ConnType)
  PROVE  /\ Len(conns) \in Nat /\ DOMAIN conns = 1 .. Len(conns)
         /\ \A c \in DOMAIN conns : conns[c] \in ConnType
  BY LenProperties, ElementOfSeq

LEMMA SetStageProperties ==
  ASSUME conns \in Seq(ConnType), NEW c \in DOMAIN conns, NEW stage \in Stage,
         SetStage(c, stage)
  PROVE  /\ conns' \in Seq(ConnType) /\ Len(conns') = Len(conns)
         /\ DOMAIN conns' = DOMAIN conns
         /\ \A d \in DOMAIN conns :
              /\ conns'[d].loop = conns[d].loop
              /\ conns'[d].name = conns[d].name
              /\ conns'[d].stage = IF d = c THEN stage ELSE conns[d].stage
<1> DEFINE new == [conns[c] EXCEPT !.stage = stage]
<1>1. c \in 1 .. Len(conns) /\ conns[c] \in ConnType
  BY ConnIsRecord
<1>2. new \in ConnType /\ new.loop = conns[c].loop /\ new.name = conns[c].name
      /\ new.stage = stage
  BY <1>1 DEF ConnType
<1>3. conns' = [conns EXCEPT ![c] = new]
  BY DEF SetStage
<1> HIDE DEF new
<1>4. /\ conns' \in Seq(ConnType) /\ Len(conns') = Len(conns)
      /\ \A d \in 1 .. Len(conns) : conns'[d] = IF d = c THEN new ELSE conns[d]
  BY <1>1, <1>2, <1>3, ExceptSeq
<1>5. DOMAIN conns' = DOMAIN conns
  BY <1>3
<1>6. QED
  BY <1>2, <1>4, <1>5, ConnIsRecord

LEMMA AppendConn ==
  ASSUME conns \in Seq(ConnType), NEW new \in ConnType, conns' = Append(conns, new)
  PROVE  /\ conns' \in Seq(ConnType) /\ Len(conns') = Len(conns) + 1
         /\ DOMAIN conns' = 1 .. Len(conns) + 1
         /\ \A d \in 1 .. Len(conns) : conns'[d] = conns[d]
         /\ conns'[Len(conns) + 1] = new
  BY AppendProperties, LenProperties

Queues == [Loop -> Seq(Task)]

\* A functor appended to the queue of loop l.
LEMMA EnqueueProperties ==
  ASSUME NEW q \in Queues, NEW l \in Loop, NEW task \in Task
  PROVE  LET r == Enqueue(q, l, task)
         IN  /\ r \in Queues
             /\ Len(r[l]) = Len(q[l]) + 1
             /\ r[l][Len(q[l]) + 1] = task
             /\ \A k \in Loop : k # l => r[k] = q[k]
             /\ \A k \in Loop : \A i \in 1 .. Len(q[k]) : r[k][i] = q[k][i]
<1>1. q[l] \in Seq(Task) /\ \A k \in Loop : q[k] \in Seq(Task)
  BY DEF Queues
<1>2. /\ Append(q[l], task) \in Seq(Task)
      /\ Len(Append(q[l], task)) = Len(q[l]) + 1
      /\ \A i \in 1 .. Len(q[l]) : Append(q[l], task)[i] = q[l][i]
      /\ Append(q[l], task)[Len(q[l]) + 1] = task
  BY <1>1, AppendProperties
<1> DEFINE r == [q EXCEPT ![l] = Append(q[l], task)]
<1>3. r \in Queues /\ r[l] = Append(q[l], task) /\ \A k \in Loop : k # l => r[k] = q[k]
  BY <1>2 DEF Queues
<1> HIDE DEF r
<1>4. \A k \in Loop : \A i \in 1 .. Len(q[k]) : r[k][i] = q[k][i]
  BY <1>2, <1>3
<1>5. Enqueue(q, l, task) = r
  BY DEF Enqueue, r
<1>6. QED
  BY <1>2, <1>3, <1>4, <1>5

\* The first functor of loop l's queue taken out.
LEMMA DequeuedProperties ==
  ASSUME queue \in Queues, NEW l \in Loop, Len(queue[l]) > 0
  PROVE  /\ Dequeued(l) \in Queues
         /\ Head(queue[l]) = queue[l][1] /\ Head(queue[l]) \in Task
         /\ Len(Dequeued(l)[l]) = Len(queue[l]) - 1
         /\ \A i \in 1 .. Len(queue[l]) - 1 : Dequeued(l)[l][i] = queue[l][i + 1]
         /\ \A k \in Loop : k # l => Dequeued(l)[k] = queue[k]
<1>1. queue[l] \in Seq(Task) /\ queue[l] # <<>>
  BY EmptySeq DEF Queues
<1>2. /\ Head(queue[l]) \in Task
      /\ Tail(queue[l]) \in Seq(Task)
      /\ Len(Tail(queue[l])) = Len(queue[l]) - 1
      /\ \A i \in 1 .. Len(queue[l]) - 1 : Tail(queue[l])[i] = queue[l][i + 1]
  BY <1>1, HeadTailProperties
<1>3. Head(queue[l]) = queue[l][1]
  BY <1>1
<1>4. Dequeued(l) = [queue EXCEPT ![l] = Tail(queue[l])]
  BY DEF Dequeued
<1>5. /\ Dequeued(l) \in Queues /\ Dequeued(l)[l] = Tail(queue[l])
      /\ \A k \in Loop : k # l => Dequeued(l)[k] = queue[k]
  BY <1>2, <1>4 DEF Queues
<1>6. QED
  BY <1>2, <1>3, <1>5

LEMMA TaskTypes ==
  ASSUME NEW c \in Conn
  PROVE  /\ Do("connectEstablished", c) \in Task
         /\ Do("connectDestroyed", c) \in Task
         /\ Do("removeConnectionInLoop", c) \in Task
  BY DEF Do, Task

------------------------------------------------------------------------------
(***************************************************************************)
(* Typing.                                                                 *)
(***************************************************************************)
Inv == /\ TypeOK /\ Life /\ Handled
       /\ Named /\ AllPlaced /\ Ordered /\ Kept /\ OpenIsListed
       /\ LastInTurn /\ EvenShare

LEMMA InitInv == Init => Inv
<1> SUFFICES ASSUME Init
             PROVE  Inv
  OBVIOUS
<1>1. conns = <<>> /\ DOMAIN conns = {} /\ DOMAIN connections_ = {} /\ Len(conns) = 0
  BY DEF Init
<1>2. \A l \in Loop : queue[l] = <<>> /\ Len(queue[l]) = 0 /\ batch[l] = 0
  BY DEF Init
<1>3. MaxThreads \in Nat /\ MaxConn \in Nat /\ MaxFds \in Nat \ {0} /\ 0 \in Loop
  BY ServerAssumption DEF Loop
<1>4. TypeOK
  <2>1. conns \in Seq(ConnType) /\ queue \in [Loop -> Seq(Task)]
    BY EmptySeq DEF Init
  <2>2. /\ phase \in [Loop -> {"init", "test", "poll", "handle", "run", "done"}]
        /\ quit \in [Loop -> BOOLEAN]
        /\ active \in [Loop -> SUBSET (Conn \cup {Acceptor})]
        /\ batch \in [Loop -> Nat]
        /\ listening \in BOOLEAN
    BY DEF Init
  <2>3. /\ numThreads_ \in 0 .. MaxThreads /\ threads \in 0 .. MaxThreads
        /\ started_ \in 0 .. 1 /\ fds \in 1 .. MaxFds
        /\ arrivals \in 0 .. MaxConn /\ backlog \in 0 .. arrivals /\ Len(conns) <= arrivals
        /\ joined \in 0 .. threads
    BY <1>1, <1>3 DEF Init
  <2>4. QED
    BY <1>1, <1>2, <2>1, <2>2, <2>3 DEF Init, TypeOK
<1>5. Life
  BY <1>3 DEF Init, Life, Loop
<1>6. Handled
  BY <1>1, <1>3 DEF Init, Handled
<1>7. Named /\ Kept /\ OpenIsListed /\ EvenShare
  BY <1>1 DEF Named, Kept, OpenIsListed, EvenShare
<1>8. AllPlaced /\ Ordered
  BY <1>2 DEF AllPlaced, Ordered
<1>9. LastInTurn
  BY DEF Init, LastInTurn
<1>10. QED
  BY <1>4, <1>5, <1>6, <1>7, <1>8, <1>9 DEF Inv

\* What a step that accepts or removes connections needs of the types.
LEMMA Facts ==
  ASSUME Inv
  PROVE  /\ MaxThreads \in Nat /\ MaxConn \in Nat /\ 0 \in Loop
         /\ conns \in Seq(ConnType) /\ Len(conns) \in Nat /\ DOMAIN conns = 1 .. Len(conns)
         /\ Len(conns) + backlog <= arrivals /\ arrivals \in 0 .. MaxConn
         /\ backlog \in Nat /\ nextConnId_ \in Nat
         /\ queue \in Queues
         /\ threads \in 0 .. MaxThreads /\ next_ \in Nat
         /\ next_ = 0 \/ next_ < threads
         /\ \A c \in DOMAIN conns :
              /\ c \in Conn /\ conns[c].loop \in Loop /\ conns[c].name \in Nat
              /\ conns[c].stage \in Stage
         /\ \A l \in Loop : Len(queue[l]) \in Nat /\ queue[l] \in Seq(Task)
         /\ \A l \in Loop : \A i \in 1 .. Len(queue[l]) : queue[l][i] \in Task
<1>1. MaxThreads \in Nat /\ MaxConn \in Nat /\ 0 \in Loop
  BY ServerAssumption DEF Loop
<1>2. /\ conns \in Seq(ConnType) /\ Len(conns) + backlog <= arrivals
      /\ arrivals \in 0 .. MaxConn /\ backlog \in Nat /\ nextConnId_ \in Nat
      /\ queue \in Queues /\ threads \in 0 .. MaxThreads /\ next_ \in Nat
      /\ next_ = 0 \/ next_ < threads
  BY <1>1 DEF Inv, TypeOK, Handled, Queues
<1>3. /\ Len(conns) \in Nat /\ DOMAIN conns = 1 .. Len(conns)
      /\ \A c \in DOMAIN conns : conns[c] \in ConnType
  BY <1>2, ConnIsRecord
<1>4. \A c \in DOMAIN conns : c \in Conn
  BY <1>1, <1>2, <1>3 DEF Conn
<1>5. \A l \in Loop : queue[l] \in Seq(Task)
  BY <1>2 DEF Queues
<1>6. \A l \in Loop : Len(queue[l]) \in Nat
  BY <1>5, LenProperties
<1>7. \A l \in Loop : \A i \in 1 .. Len(queue[l]) : queue[l][i] \in Task
  BY <1>5, ElementOfSeq
<1>8. QED
  BY <1>1, <1>2, <1>3, <1>4, <1>5, <1>6, <1>7 DEF ConnType

\* The functor loop l runs: the first of its queue, which loses it.
LEMMA RunningProperties ==
  ASSUME Inv, NEW l \in Loop, NEW task, Running(l, task)
  PROVE  /\ Len(queue[l]) > 0 /\ task = queue[l][1] /\ task \in Task
         /\ Placed(l, task) /\ active[l] = {} /\ phase[l] = "run"
         /\ task.conn \in DOMAIN conns
<1>1. phase[l] = "run" /\ batch[l] > 0 /\ task = Head(queue[l])
  BY DEF Running
<1>2. batch[l] \in Nat /\ batch[l] <= Len(queue[l]) /\ Len(queue[l]) \in Nat
  BY Facts DEF Inv, TypeOK
<1>3. Len(queue[l]) > 0
  BY <1>1, <1>2
<1>4. task = queue[l][1] /\ task \in Task
  BY <1>1, <1>3, Facts, DequeuedProperties
<1>5. Placed(l, task)
  BY <1>2, <1>3, <1>4 DEF Inv, AllPlaced
<1>6. active[l] = {}
  BY <1>1 DEF Inv, Handled
<1>7. QED
  BY <1>1, <1>3, <1>4, <1>5, <1>6 DEF Placed

\* The connection newConnection makes, and its place.
LEMMA AcceptProperties ==
  ASSUME Inv, handleRead, newConnection
  PROVE  LET c == Len(conns) + 1
             new == conns'[c]
         IN  /\ c \in Conn /\ c \notin DOMAIN conns /\ backlog > 0 /\ phase[0] = "handle"
             /\ conns' \in Seq(ConnType) /\ Len(conns') = c /\ DOMAIN conns' = 1 .. c
             /\ \A d \in DOMAIN conns : conns'[d] = conns[d]
             /\ NextLoop \in Loop /\ new.loop = NextLoop /\ new.name = nextConnId_
             /\ new.stage = IF NextLoop = 0 THEN "up" ELSE "new"
             /\ nextConnId_' = nextConnId_ + 1
             /\ nextConnId_ \notin DOMAIN connections_
             /\ DOMAIN connections_' = DOMAIN connections_ \cup {nextConnId_}
             /\ connections_'[nextConnId_] = c
             /\ \A n \in DOMAIN connections_ : connections_'[n] = connections_[n]
             /\ queue' \in Queues
             /\ NextLoop = 0 => queue' = queue
             /\ NextLoop # 0 =>
                  queue' = Enqueue(queue, NextLoop, Do("connectEstablished", c))
<1> DEFINE c == Len(conns) + 1
           new == [name |-> nextConnId_, loop |-> NextLoop,
                   stage |-> IF NextLoop = 0 THEN "up" ELSE "new"]
<1>1. Acceptor \in active[0] /\ backlog > 0 /\ phase[0] = "handle"
  BY DEF handleRead, Handling, Inv, Handled
<1>2. c \in Conn /\ c \notin DOMAIN conns
  BY <1>1, Facts DEF Conn
<1>3. NextLoop \in Loop
  BY Facts DEF NextLoop, Loop
<1>4. new \in ConnType
  BY <1>3, Facts DEF ConnType, Stage
<1>5. conns' = Append(conns, new)
  BY DEF newConnection
<1>6. /\ conns' \in Seq(ConnType) /\ Len(conns') = c /\ DOMAIN conns' = 1 .. c
      /\ \A d \in 1 .. Len(conns) : conns'[d] = conns[d]
      /\ conns'[c] = new
  BY <1>4, <1>5, Facts, AppendConn
<1>7. nextConnId_ \notin DOMAIN connections_
  <2>1. \A n \in DOMAIN connections_ : connections_[n] \in DOMAIN conns
    BY Facts DEF Inv, TypeOK
  <2>2. \A n \in DOMAIN connections_ : n < nextConnId_
    BY <2>1 DEF Inv, Named
  <2>3. QED
    BY <2>2, Facts
<1>8. /\ DOMAIN connections_' = DOMAIN connections_ \cup {nextConnId_}
      /\ connections_'[nextConnId_] = c
      /\ \A n \in DOMAIN connections_ : connections_'[n] = connections_[n]
  <2>1. connections_' = Insert(connections_, nextConnId_, c)
    BY DEF newConnection
  <2>2. QED
    BY <1>7, <2>1 DEF Insert
<1>9. /\ NextLoop = 0 => queue' = queue
      /\ NextLoop # 0 => queue' = Enqueue(queue, NextLoop, Do("connectEstablished", c))
  BY DEF newConnection
<1>10. queue' \in Queues
  BY <1>2, <1>3, <1>9, Facts, TaskTypes, EnqueueProperties
<1>11. nextConnId_' = nextConnId_ + 1
  BY DEF newConnection, TakeName
<1>12. QED
  BY <1>1, <1>2, <1>3, <1>6, <1>7, <1>8, <1>9, <1>10, <1>11, Facts

\* removeConnectionInLoop, with q the queues it finds, of a connection d.
LEMMA RemoveProperties ==
  ASSUME Inv, NEW q \in Queues, NEW d \in DOMAIN conns, removeConnectionInLoop(d, q)
  PROVE  /\ queue' \in Queues
         /\ queue' = Enqueue(q, conns[d].loop, Do("connectDestroyed", d))
         /\ DOMAIN connections_' \subseteq DOMAIN connections_
         /\ \A n \in DOMAIN connections_' : connections_'[n] = connections_[n]
         /\ \A n \in DOMAIN connections_ :
              n \in DOMAIN connections_' \/ connections_[n] = d
         /\ \A n \in DOMAIN connections_' : connections_'[n] # d
<1>1. queue' = Enqueue(q, conns[d].loop, Do("connectDestroyed", d))
      /\ connections_' = Erase(connections_, conns[d].name)
  BY DEF removeConnectionInLoop
<1>2. queue' \in Queues
  BY <1>1, Facts, TaskTypes, EnqueueProperties
<1>3. /\ DOMAIN connections_' = DOMAIN connections_ \ {conns[d].name}
      /\ \A n \in DOMAIN connections_' : connections_'[n] = connections_[n]
  BY <1>1 DEF Erase
<1>4. \A n \in DOMAIN connections_ : n = conns[d].name => connections_[n] = d
  <2> SUFFICES ASSUME NEW n \in DOMAIN connections_, n = conns[d].name
               PROVE  connections_[n] = d
    OBVIOUS
  <2>1. connections_[n] \in DOMAIN conns
    BY Facts DEF Inv, TypeOK
  <2>2. conns[connections_[n]].name = conns[d].name
    BY DEF Inv, Named
  <2>3. QED
    BY <2>1, <2>2 DEF Inv, Named
<1>5. \A n \in DOMAIN connections_' : connections_'[n] # d
  BY <1>3 DEF Inv, Named
<1>6. QED
  BY <1>1, <1>2, <1>3, <1>4, <1>5

------------------------------------------------------------------------------
(***************************************************************************)
(* What an action that works on one connection does, whichever it is:      *)
(* handleClose, a functor, a round of the destructor.                      *)
(***************************************************************************)
First(lost, l) == IF l \in lost THEN 1 ELSE 0

\* The queues of the loops in lost lose their first functor, and n functors (0 or 1,
\* task) come to the end of loop l's.
QueuesMove(lost, n, l, task) ==
  /\ queue' \in Queues
  /\ lost \subseteq Loop /\ n \in {0, 1} /\ l \in Loop /\ task \in Task
  /\ \A m \in lost : Len(queue[m]) > 0
  /\ \A m \in Loop :
       Len(queue'[m]) = Len(queue[m]) - First(lost, m) + (IF m = l THEN n ELSE 0)
  /\ \A m \in Loop : \A i \in 1 .. Len(queue[m]) - First(lost, m) :
       queue'[m][i] = queue[m][i + First(lost, m)]
  /\ n = 1 => queue'[l][Len(queue[l]) - First(lost, l) + 1] = task

LEMMA FirstIs ==
  /\ \A k : First({}, k) = 0
  /\ \A l : First({l}, l) = 1
  /\ \A l, k : k # l => First({l}, k) = 0
  BY DEF First

LEMMA SameQueues ==
  ASSUME Inv, NEW task \in Task, queue' = queue
  PROVE  QueuesMove({}, 0, 0, task)
  BY Facts DEF QueuesMove, First

LEMMA QueuesGrow ==
  ASSUME Inv, NEW l \in Loop, NEW task \in Task, queue' = Enqueue(queue, l, task)
  PROVE  QueuesMove({}, 1, l, task)
<1>1. queue \in Queues /\ \A k \in Loop : Len(queue[k]) \in Nat
  BY Facts
<1>2. /\ queue' \in Queues
      /\ Len(queue'[l]) = Len(queue[l]) + 1
      /\ queue'[l][Len(queue[l]) + 1] = task
      /\ \A k \in Loop : k # l => queue'[k] = queue[k]
      /\ \A k \in Loop : \A i \in 1 .. Len(queue[k]) : queue'[k][i] = queue[k][i]
  BY <1>1, EnqueueProperties
<1>3. \A k \in Loop : /\ Len(queue[k]) - 0 = Len(queue[k])
                      /\ Len(queue'[k]) = Len(queue[k]) - 0 + (IF k = l THEN 1 ELSE 0)
  <2>1. \A k \in Loop : k # l => Len(queue'[k]) = Len(queue[k])
    BY <1>2, Zenon
  <2>2. \A k \in Loop : k = l => Len(queue'[k]) = Len(queue[k]) + 1
    BY <1>2, Zenon
  <2>3. SUFFICES ASSUME NEW k \in Loop
                 PROVE  /\ Len(queue[k]) - 0 = Len(queue[k])
                        /\ Len(queue'[k]) = Len(queue[k]) - 0 + (IF k = l THEN 1 ELSE 0)
    OBVIOUS
  <2>4. CASE k = l
    BY <1>1, <2>2, <2>4
  <2>5. CASE k # l
    BY <1>1, <2>1, <2>5
  <2>6. QED
    BY <2>4, <2>5
<1>4. \A k \in Loop : \A i \in 1 .. Len(queue[k]) - 0 : queue'[k][i] = queue[k][i + 0]
  BY <1>1, <1>2
<1>5. \A k \in Loop :
        Len(queue'[k]) = Len(queue[k]) - First({}, k) + (IF k = l THEN 1 ELSE 0)
  BY <1>3, FirstIs
<1>6. \A k \in Loop : \A i \in 1 .. Len(queue[k]) - First({}, k) :
        queue'[k][i] = queue[k][i + First({}, k)]
  BY <1>4, FirstIs
<1>7. queue'[l][Len(queue[l]) - First({}, l) + 1] = task
  BY <1>2, <1>3, FirstIs
<1>8. QED
  BY <1>2, <1>5, <1>6, <1>7 DEF QueuesMove

LEMMA QueuesShrink ==
  ASSUME Inv, NEW l \in Loop, NEW task \in Task, Len(queue[l]) > 0, queue' = Dequeued(l)
  PROVE  QueuesMove({l}, 0, 0, task)
<1>1. queue \in Queues /\ 0 \in Loop /\ \A k \in Loop : Len(queue[k]) \in Nat
  BY Facts
<1>2. /\ queue' \in Queues
      /\ Len(queue'[l]) = Len(queue[l]) - 1
      /\ \A i \in 1 .. Len(queue[l]) - 1 : queue'[l][i] = queue[l][i + 1]
      /\ \A k \in Loop : k # l => queue'[k] = queue[k]
  BY <1>1, DequeuedProperties
<1>3. \A k \in Loop :
        Len(queue'[k]) = Len(queue[k]) - First({l}, k) + (IF k = 0 THEN 0 ELSE 0)
  <2> SUFFICES ASSUME NEW k \in Loop
               PROVE  Len(queue'[k]) = Len(queue[k]) - First({l}, k) + 0
    OBVIOUS
  <2>1. CASE k = l
    BY <1>1, <1>2, <2>1, FirstIs
  <2>2. CASE k # l
    <3>1. Len(queue'[k]) = Len(queue[k]) /\ First({l}, k) = 0
      BY <1>2, <2>2, FirstIs, Zenon
    <3>2. QED
      BY <1>1, <3>1
  <2>3. QED
    BY <2>1, <2>2
<1>4. \A k \in Loop : \A i \in 1 .. Len(queue[k]) - First({l}, k) :
        queue'[k][i] = queue[k][i + First({l}, k)]
  <2> SUFFICES ASSUME NEW k \in Loop, NEW i \in 1 .. Len(queue[k]) - First({l}, k)
               PROVE  queue'[k][i] = queue[k][i + First({l}, k)]
    OBVIOUS
  <2>1. CASE k = l
    <3>1. First({l}, k) = 1
      BY <2>1, FirstIs
    <3>2. QED
      BY <1>2, <2>1, <3>1
  <2>2. CASE k # l
    <3>1. First({l}, k) = 0
      BY <2>2, FirstIs
    <3>2. QED
      BY <1>1, <1>2, <2>2, <3>1
  <2>3. QED
    BY <2>1, <2>2
<1>5. QED
  <2>1. \A k \in {l} : Len(queue[k]) > 0
    OBVIOUS
  <2>2. {l} \subseteq Loop /\ 0 \in {0, 1} /\ 0 # 1
    OBVIOUS
  <2>3. QED
    BY <1>1, <1>2, <1>3, <1>4, <2>1, <2>2, Zenon DEF QueuesMove

LEMMA QueuesTurn ==
  ASSUME Inv, NEW l \in Loop, NEW m \in Loop, NEW task \in Task, Len(queue[l]) > 0,
         queue' = Enqueue(Dequeued(l), m, task)
  PROVE  QueuesMove({l}, 1, m, task)
<1> DEFINE q == Dequeued(l)
<1>1. queue \in Queues /\ \A k \in Loop : Len(queue[k]) \in Nat
  BY Facts
<1>2. /\ q \in Queues
      /\ Len(q[l]) = Len(queue[l]) - 1
      /\ \A i \in 1 .. Len(queue[l]) - 1 : q[l][i] = queue[l][i + 1]
      /\ \A k \in Loop : k # l => q[k] = queue[k]
  BY <1>1, DequeuedProperties
<1> HIDE DEF q
<1>3. queue' = Enqueue(q, m, task)
  BY DEF q
<1>4. /\ queue' \in Queues
      /\ Len(queue'[m]) = Len(q[m]) + 1
      /\ queue'[m][Len(q[m]) + 1] = task
      /\ \A k \in Loop : k # m => queue'[k] = q[k]
      /\ \A k \in Loop : \A i \in 1 .. Len(q[k]) : queue'[k][i] = q[k][i]
  BY <1>2, <1>3, EnqueueProperties
<1>5. \A k \in Loop : Len(q[k]) = Len(queue[k]) - First({l}, k)
  <2> SUFFICES ASSUME NEW k \in Loop
               PROVE  Len(q[k]) = Len(queue[k]) - First({l}, k)
    OBVIOUS
  <2>1. CASE k = l
    BY <1>1, <1>2, <2>1, FirstIs
  <2>2. CASE k # l
    <3>1. Len(q[k]) = Len(queue[k]) /\ First({l}, k) = 0
      BY <1>2, <2>2, FirstIs, Zenon
    <3>2. QED
      BY <1>1, <3>1
  <2>3. QED
    BY <2>1, <2>2
<1>6. \A k \in Loop : \A i \in 1 .. Len(q[k]) : q[k][i] = queue[k][i + First({l}, k)]
  <2> SUFFICES ASSUME NEW k \in Loop, NEW i \in 1 .. Len(q[k])
               PROVE  q[k][i] = queue[k][i + First({l}, k)]
    OBVIOUS
  <2>1. CASE k = l
    <3>1. First({l}, k) = 1
      BY <2>1, FirstIs
    <3>2. QED
      BY <1>2, <2>1, <3>1
  <2>2. CASE k # l
    <3>1. First({l}, k) = 0
      BY <2>2, FirstIs
    <3>2. QED
      BY <1>1, <1>2, <2>2, <3>1
  <2>3. QED
    BY <2>1, <2>2
<1>7. \A k \in Loop : Len(q[k]) \in Nat
  <2>1. \A k \in Loop : q[k] \in Seq(Task)
    BY <1>2 DEF Queues
  <2>2. QED
    BY <2>1, LenProperties
<1>8. \A k \in Loop : Len(queue'[k]) = Len(q[k]) + (IF k = m THEN 1 ELSE 0)
  <2>1. \A k \in Loop : k # m => Len(queue'[k]) = Len(q[k])
    BY <1>4, Zenon
  <2>2. \A k \in Loop : k = m => Len(queue'[k]) = Len(q[k]) + 1
    BY <1>4, Zenon
  <2>3. SUFFICES ASSUME NEW k \in Loop
                 PROVE  Len(queue'[k]) = Len(q[k]) + (IF k = m THEN 1 ELSE 0)
    OBVIOUS
  <2>4. CASE k = m
    BY <2>2, <2>4
  <2>5. CASE k # m
    BY <1>7, <2>1, <2>5
  <2>6. QED
    BY <2>4, <2>5
<1>9. \A k \in Loop :
        Len(queue'[k]) = Len(queue[k]) - First({l}, k) + (IF k = m THEN 1 ELSE 0)
  BY <1>5, <1>8
<1>10. \A k \in Loop : \A i \in 1 .. Len(queue[k]) - First({l}, k) :
         queue'[k][i] = queue[k][i + First({l}, k)]
  <2> SUFFICES ASSUME NEW k \in Loop, NEW i \in 1 .. Len(queue[k]) - First({l}, k)
               PROVE  queue'[k][i] = queue[k][i + First({l}, k)]
    OBVIOUS
  <2>1. i \in 1 .. Len(q[k])
    BY <1>5
  <2>2. QED
    BY <1>4, <1>6, <2>1
<1>11. queue'[m][Len(queue[m]) - First({l}, m) + 1] = task
  BY <1>4, <1>5
<1>12. QED
  BY <1>4, <1>9, <1>10, <1>11 DEF QueuesMove

\* Where a functor of the moved queues comes from, and where one goes.
LEMMA Moved ==
  ASSUME Inv, NEW lost, NEW n, NEW l, NEW task, QueuesMove(lost, n, l, task), NEW m \in Loop
  PROVE  /\ First(lost, m) \in {0, 1} /\ Len(queue[m]) - First(lost, m) \in Nat
         /\ Len(queue'[m]) \in Nat
         /\ \A i \in 1 .. Len(queue'[m]) :
              \/ /\ i + First(lost, m) \in 1 .. Len(queue[m])
                 /\ queue'[m][i] = queue[m][i + First(lost, m)]
              \/ n = 1 /\ m = l /\ i = Len(queue'[m]) /\ queue'[m][i] = task
         /\ \A j \in 1 .. Len(queue[m]) :
              \/ m \in lost /\ j = 1
              \/ /\ j - First(lost, m) \in 1 .. Len(queue'[m])
                 /\ queue'[m][j - First(lost, m)] = queue[m][j]
<1> DEFINE F == First(lost, m)
           L == Len(queue[m])
<1>1. F \in {0, 1} /\ (F = 1 <=> m \in lost) /\ (F = 0 <=> m \notin lost)
  BY DEF First
<1>2. L \in Nat /\ (m \in lost => L > 0)
  BY Facts DEF QueuesMove
<1>3. n \in {0, 1}
      /\ Len(queue'[m]) = L - F + (IF m = l THEN n ELSE 0)
      /\ \A i \in 1 .. L - F : queue'[m][i] = queue[m][i + F]
  BY DEF QueuesMove
<1>4. n = 1 /\ m = l => queue'[m][L - F + 1] = task
  BY DEF QueuesMove
<1> HIDE DEF F, L
<1>5. L - F \in Nat
  BY <1>1, <1>2
<1>6. \/ m = l /\ n = 1 /\ Len(queue'[m]) = L - F + 1
      \/ Len(queue'[m]) = L - F
  BY <1>3, <1>5
<1>7. \A i \in 1 .. Len(queue'[m]) :
        \/ i + F \in 1 .. L /\ queue'[m][i] = queue[m][i + F]
        \/ n = 1 /\ m = l /\ i = Len(queue'[m]) /\ queue'[m][i] = task
  <2> SUFFICES ASSUME NEW i \in 1 .. Len(queue'[m])
               PROVE  \/ i + F \in 1 .. L /\ queue'[m][i] = queue[m][i + F]
                      \/ n = 1 /\ m = l /\ i = Len(queue'[m]) /\ queue'[m][i] = task
    OBVIOUS
  <2>1. CASE i <= L - F
    <3>1. i \in 1 .. L - F /\ i + F \in 1 .. L
      BY <1>1, <1>2, <1>5, <2>1
    <3>2. QED
      BY <1>3, <3>1
  <2>2. CASE i > L - F
    <3>1. m = l /\ n = 1 /\ Len(queue'[m]) = L - F + 1 /\ i = L - F + 1
      BY <1>5, <1>6, <2>2
    <3>2. QED
      BY <1>4, <3>1
  <2>3. QED
    BY <1>5, <2>1, <2>2
<1>8. \A j \in 1 .. L :
        \/ m \in lost /\ j = 1
        \/ j - F \in 1 .. Len(queue'[m]) /\ queue'[m][j - F] = queue[m][j]
  <2> SUFFICES ASSUME NEW j \in 1 .. L, ~ (m \in lost /\ j = 1)
               PROVE  j - F \in 1 .. Len(queue'[m]) /\ queue'[m][j - F] = queue[m][j]
    OBVIOUS
  <2>1. j > F
    BY <1>1
  <2>2. j - F \in 1 .. L - F /\ (j - F) + F = j
    BY <1>1, <1>2, <2>1
  <2>3. j - F \in 1 .. Len(queue'[m])
    BY <1>5, <1>6, <2>2
  <2>4. queue'[m][j - F] = queue[m][(j - F) + F]
    BY <1>3, <2>2
  <2>5. QED
    BY <2>2, <2>3, <2>4
<1>9. Len(queue'[m]) \in Nat
  BY <1>5, <1>6
<1>10. QED
  BY <1>1, <1>5, <1>7, <1>8, <1>9 DEF F, L

\* Connection c gets to stage, at most its own entry leaves the map, the queues move.
Works(c, stage, lost, n, l, task) ==
  /\ c \in DOMAIN conns /\ stage \in Stage
  /\ conns' \in Seq(ConnType) /\ Len(conns') = Len(conns) /\ DOMAIN conns' = DOMAIN conns
  /\ \A d \in DOMAIN conns :
       /\ conns'[d].loop = conns[d].loop
       /\ conns'[d].name = conns[d].name
       /\ conns'[d].stage = IF d = c THEN stage ELSE conns[d].stage
  /\ DOMAIN connections_' \subseteq DOMAIN connections_
  /\ \A m \in DOMAIN connections_' : connections_'[m] = connections_[m]
  /\ \A m \in DOMAIN connections_ : m \in DOMAIN connections_' \/ connections_[m] = c
  /\ QueuesMove(lost, n, l, task)
  /\ UNCHANGED <<nextConnId_, next_, threads, server>>

\* Such an action is right if: a new stage leaves no connectEstablished of c behind and
\* comes after the one before; what it queues is placed; what it takes from the map it
\* queues to be destroyed; and it runs the connectDestroyed it takes from a queue.
Right(c, stage, lost, n, l, task) ==
  /\ \/ stage = conns[c].stage
     \/ /\ stage \in {"closed", "destroyed"} \/ (stage = "up" /\ conns[c].stage = "new")
        /\ stage # "destroyed" => conns[c].stage # "destroyed"
        /\ \A m \in Loop : \A i \in 1 .. Len(queue[m]) :
             i > First(lost, m) => queue[m][i] # Do("connectEstablished", c)
  /\ n = 1 => task.op # "connectEstablished" /\ Placed(l, task)'
  /\ \A m \in DOMAIN connections_ :
       \/ m \in DOMAIN connections_'
       \/ server # "alive" /\ stage = "destroyed"
       \/ /\ n = 1 /\ task = Do("connectDestroyed", c) /\ l = conns[c].loop
          /\ server = "alive" => stage \notin {"new", "up"}
  /\ \A m \in lost : \A d \in DOMAIN conns :
       queue[m][1] = Do("connectDestroyed", d) => d = c /\ stage = "destroyed"

\* What becomes of connection c itself: what it may pass from and to, and that a closed
\* one has its removal queued, or its destruction once the removal has run.
Struck(c) == \A m \in DOMAIN connections_' : connections_'[m] # c

\* A functor on loop l that carries c's removal on.
Leaving(c, l, task) ==
  \/ task = Do("removeConnectionInLoop", c) /\ l = 0
  \/ task = Do("connectDestroyed", c) /\ l = conns[c].loop

Leaves(c, stage, lost, n, l, task) ==
  /\ stage = "up" /\ conns[c].stage = "new" => connections_' = connections_
  /\ stage = "new" => conns[c].stage = "new"
  /\ stage = "closed" =>
       /\ conns[c].stage # "new"
       /\ \/ n = 1 /\ Leaving(c, l, task)
          \/ /\ lost = {}
             /\ \E i \in 1 .. Len(queue[0]) : queue[0][i] = Do("removeConnectionInLoop", c)
  /\ stage = "destroyed" =>
       /\ server = "alive" => conns[c].stage \in {"closed", "destroyed"}
       /\ \/ \E m \in lost : queue[m][1] = Do("connectDestroyed", c)
          \/ lost = {} /\ server # "alive" /\ Struck(c)
          \/ stage = conns[c].stage
  /\ n = 1 /\ task.op = "connectDestroyed" => task.conn = c /\ Struck(c)
  /\ \A m \in lost :
       \/ queue[m][1] = Do("connectEstablished", c) /\ stage = "up"
       \/ queue[m][1] = Do("connectDestroyed", c) /\ stage = "destroyed"
       \/ /\ queue[m][1] = Do("removeConnectionInLoop", c)
          /\ n = 1 /\ task = Do("connectDestroyed", c) /\ l = conns[c].loop

LEMMA WorkKeepsPlaced ==
  ASSUME Inv, NEW c, NEW stage, NEW lost, NEW n, NEW l, NEW task,
         Works(c, stage, lost, n, l, task), Right(c, stage, lost, n, l, task)
  PROVE  AllPlaced'
<1>1. /\ queue' \in Queues
      /\ \A m \in Loop : First(lost, m) \in {0, 1}
      /\ \A m \in Loop : Len(queue[m]) \in Nat /\ Len(queue[m]) - First(lost, m) \in Nat
      /\ n \in {0, 1}
  BY Facts DEF Works, QueuesMove, First
<1>2. \A m \in Loop, t \in Task :
        /\ Placed(m, t)
        /\ stage # conns[c].stage => t # Do("connectEstablished", c)
        => Placed(m, t)'
  <2> SUFFICES ASSUME NEW m \in Loop, NEW t \in Task, Placed(m, t),
                      stage # conns[c].stage => t # Do("connectEstablished", c)
               PROVE  Placed(m, t)'
    OBVIOUS
  <2>1. t.op = "connectEstablished" /\ t.conn = c => t = Do("connectEstablished", c)
    BY DEF Task, Do
  <2>2. CASE t.conn # c
    BY <2>2 DEF Placed, Works
  <2>3. CASE t.conn = c
    BY <2>1, <2>3 DEF Placed, Works, Right
  <2>4. QED
    BY <2>2, <2>3
<1>3. SUFFICES ASSUME NEW m \in Loop, NEW i \in 1 .. Len(queue'[m])
               PROVE  Placed(m, queue[m][i])'
  BY DEF AllPlaced
<1>4. CASE i <= Len(queue[m]) - First(lost, m)
  <2> DEFINE j == i + First(lost, m)
             t == queue[m][j]
  <2>1. i \in 1 .. Len(queue[m]) - First(lost, m)
    BY <1>1, <1>4
  <2>2. queue'[m][i] = t
    BY <2>1 DEF Works, QueuesMove
  <2>3. j \in 1 .. Len(queue[m]) /\ j > First(lost, m)
    BY <1>1, <2>1
  <2>4. t \in Task /\ Placed(m, t)
    BY <2>3, Facts DEF Inv, AllPlaced
  <2>5. stage # conns[c].stage => t # Do("connectEstablished", c)
    BY <2>3 DEF Right
  <2> HIDE DEF t
  <2>6. \A u \in Task : Placed(m, u) /\ (stage # conns[c].stage => u # Do("connectEstablished", c))
                          => Placed(m, u)'
    BY <1>2
  <2>7. \A u \in Task : Placed(m, u)' /\ queue'[m][i] = u => Placed(m, queue[m][i])'
    BY DEF Placed
  <2>8. QED
    BY <2>2, <2>4, <2>5, <2>6, <2>7
<1>5. CASE i > Len(queue[m]) - First(lost, m)
  <2>1. n = 1 /\ m = l /\ i = Len(queue[m]) - First(lost, m) + 1
    BY <1>1, <1>5 DEF Works, QueuesMove
  <2>2. queue'[m][i] = task /\ Placed(m, task)'
    BY <2>1 DEF Works, QueuesMove, Right
  <2>3. QED
    BY <2>2 DEF Placed
<1>6. QED
  BY <1>1, <1>4, <1>5

LEMMA WorkKeepsOrdered ==
  ASSUME Inv, NEW c, NEW stage, NEW lost, NEW n, NEW l, NEW task,
         Works(c, stage, lost, n, l, task), Right(c, stage, lost, n, l, task)
  PROVE  Ordered'
<1> SUFFICES ASSUME NEW m \in Loop, NEW i \in 1 .. Len(queue'[m]),
                    NEW j \in 1 .. Len(queue'[m]),
                    i < j, queue'[m][j].op = "connectEstablished"
             PROVE  queue'[m][i].conn # queue'[m][j].conn
  BY DEF Ordered
<1> DEFINE F == First(lost, m)
<1>1. QueuesMove(lost, n, l, task)
  BY DEF Works
<1>2. F \in {0, 1} /\ Len(queue'[m]) \in Nat
  BY <1>1, Moved
<1>3. \A k \in 1 .. Len(queue'[m]) :
        \/ k + F \in 1 .. Len(queue[m]) /\ queue'[m][k] = queue[m][k + F]
        \/ n = 1 /\ k = Len(queue'[m]) /\ queue'[m][k] = task
  BY <1>1, Moved
<1> HIDE DEF F
<1>4. n = 1 => task.op # "connectEstablished"
  BY DEF Right
<1>5. j + F \in 1 .. Len(queue[m]) /\ queue'[m][j] = queue[m][j + F]
  BY <1>3, <1>4
<1>6. i + F \in 1 .. Len(queue[m]) /\ queue'[m][i] = queue[m][i + F]
  BY <1>2, <1>3
<1>7. i + F < j + F
  BY <1>2
<1>8. QED
  BY <1>5, <1>6, <1>7 DEF Inv, Ordered

LEMMA WorkKeepsKept ==
  ASSUME Inv, NEW c, NEW stage, NEW lost, NEW n, NEW l, NEW task,
         Works(c, stage, lost, n, l, task), Right(c, stage, lost, n, l, task)
  PROVE  Kept'
<1> SUFFICES ASSUME NEW d \in DOMAIN conns', conns'[d].stage # "destroyed"
             PROVE  \/ \E k \in DOMAIN connections_' : connections_'[k] = d
                    \/ \E i \in 1 .. Len(queue'[conns'[d].loop]) :
                         queue'[conns'[d].loop][i] = Do("connectDestroyed", d)
  BY DEF Kept
<1> DEFINE m == conns[d].loop
<1>1. d \in DOMAIN conns /\ m \in Loop /\ conns'[d].loop = m
  BY Facts DEF Works
<1>2. QueuesMove(lost, n, l, task)
  BY DEF Works
<1>3. conns[d].stage # "destroyed" /\ (d = c => stage # "destroyed")
  BY <1>1 DEF Works, Right
<1> HIDE DEF m
<1>4. CASE \E k \in DOMAIN connections_ : connections_[k] = d
  <2>1. PICK k \in DOMAIN connections_ : connections_[k] = d
    BY <1>4
  <2>2. CASE k \in DOMAIN connections_'
    BY <2>1, <2>2 DEF Works
  <2>3. CASE k \notin DOMAIN connections_'
    <3>1. d = c
      BY <2>1, <2>3 DEF Works
    <3>2. n = 1 /\ task = Do("connectDestroyed", c) /\ l = conns[c].loop
      BY <1>3, <2>3, <3>1 DEF Right
    <3>3. l = m
      BY <3>1, <3>2 DEF m
    <3>4. Len(queue'[m]) = Len(queue[m]) - First(lost, m) + 1
          /\ queue'[m][Len(queue[m]) - First(lost, m) + 1] = task
      BY <1>1, <1>2, <3>2, <3>3 DEF QueuesMove
    <3>5. Len(queue[m]) - First(lost, m) + 1 \in 1 .. Len(queue'[m])
      BY <1>1, <1>2, <3>4, Moved
    <3>6. QED
      BY <1>1, <3>1, <3>2, <3>4, <3>5
  <2>4. QED
    BY <2>2, <2>3
<1>5. CASE \E i \in 1 .. Len(queue[m]) : queue[m][i] = Do("connectDestroyed", d)
  <2>1. PICK i \in 1 .. Len(queue[m]) : queue[m][i] = Do("connectDestroyed", d)
    BY <1>5
  <2>2. ~ (m \in lost /\ i = 1)
    BY <1>1, <1>3, <2>1 DEF Right
  <2>3. i - First(lost, m) \in 1 .. Len(queue'[m])
        /\ queue'[m][i - First(lost, m)] = queue[m][i]
    BY <1>1, <1>2, <2>2, Moved
  <2>4. QED
    BY <1>1, <2>1, <2>3
<1>6. QED
  BY <1>1, <1>3, <1>4, <1>5 DEF Inv, Kept, m

LEMMA WorkKeepsListed ==
  ASSUME Inv, NEW c, NEW stage, NEW lost, NEW n, NEW l, NEW task,
         Works(c, stage, lost, n, l, task), Right(c, stage, lost, n, l, task)
  PROVE  OpenIsListed'
<1> SUFFICES ASSUME server' = "alive", NEW d \in DOMAIN conns',
                    conns'[d].stage \in {"new", "up"}
             PROVE  /\ conns'[d].name \in DOMAIN connections_'
                    /\ connections_'[conns'[d].name] = d
  BY DEF OpenIsListed
<1> DEFINE k == conns[d].name
<1>1. server = "alive" /\ d \in DOMAIN conns /\ conns'[d].name = k
  BY DEF Works
<1>2. conns[d].stage \in {"new", "up"} /\ (d = c => stage \in {"new", "up"})
  BY <1>1 DEF Works, Right
<1>3. k \in DOMAIN connections_ /\ connections_[k] = d
  BY <1>1, <1>2 DEF Inv, OpenIsListed
<1> HIDE DEF k
<1>4. CASE k \in DOMAIN connections_'
  BY <1>1, <1>3, <1>4 DEF Works
<1>5. CASE k \notin DOMAIN connections_'
  <2>1. d = c
    BY <1>3, <1>5 DEF Works
  <2>2. stage \notin {"new", "up"}
    BY <1>1, <1>3, <1>5 DEF Right
  <2>3. QED
    BY <1>2, <2>1, <2>2
<1>6. QED
  BY <1>4, <1>5

LEMMA WorkKeepsRest ==
  ASSUME Inv, NEW c, NEW stage, NEW lost, NEW n, NEW l, NEW task,
         Works(c, stage, lost, n, l, task)
  PROVE  /\ Named' /\ LastInTurn' /\ EvenShare'
         /\ conns' \in Seq(ConnType) /\ Len(conns') = Len(conns)
         /\ queue' \in Queues
         /\ \A m \in DOMAIN connections_' : connections_'[m] \in 1 .. Len(conns')
<1>1. \A m \in DOMAIN connections_ : connections_[m] \in 1 .. Len(conns)
  BY DEF Inv, TypeOK
<1>2. DOMAIN conns = 1 .. Len(conns) /\ Len(conns) \in Nat
  BY Facts
<1>3. Named'
  <2>1. \A m \in DOMAIN connections_' : conns'[connections_'[m]].name = m
    BY <1>1, <1>2 DEF Works, Inv, Named
  <2>2. \A d \in DOMAIN conns' : conns'[d].name < nextConnId_'
    BY DEF Works, Inv, Named
  <2>3. \A d, e \in DOMAIN conns' : conns'[d].name = conns'[e].name => d = e
    BY DEF Works, Inv, Named
  <2>4. QED
    BY <2>1, <2>2, <2>3 DEF Named
<1>4. LastInTurn'
  <2> SUFFICES ASSUME NEW k \in 1 .. threads', k <= Len(conns')
               PROVE  conns'[Len(conns') + 1 - k].loop =
                        IF k <= next_' THEN next_' + 1 - k ELSE next_' + 1 - k + threads'
    BY DEF LastInTurn
  <2>1. threads' = threads /\ next_' = next_ /\ Len(conns') = Len(conns)
    BY DEF Works
  <2>2. Len(conns) + 1 - k \in DOMAIN conns
    BY <1>2, <2>1, Facts
  <2>3. conns'[Len(conns) + 1 - k].loop = conns[Len(conns) + 1 - k].loop
    BY <2>2 DEF Works
  <2>4. QED
    BY <2>1, <2>3 DEF Inv, LastInTurn
<1>5. EvenShare'
  <2>1. threads' = threads
    BY DEF Works
  <2>2. QED
    BY <2>1 DEF Works, Inv, EvenShare
<1>6. QED
  BY <1>1, <1>3, <1>4, <1>5 DEF Works, QueuesMove

\* All of it, and what it means for the typing.
Keeps == /\ Named' /\ AllPlaced' /\ Ordered' /\ Kept' /\ OpenIsListed'
         /\ LastInTurn' /\ EvenShare'

DataTyped ==
  /\ conns' \in Seq(ConnType) /\ queue' \in Queues
  /\ \A m \in DOMAIN connections_' : connections_'[m] \in 1 .. Len(conns')

LEMMA WorkKeeps ==
  ASSUME Inv, NEW c, NEW stage, NEW lost, NEW n, NEW l, NEW task,
         Works(c, stage, lost, n, l, task), Right(c, stage, lost, n, l, task)
  PROVE  /\ Keeps /\ DataTyped /\ Len(conns') = Len(conns)
         /\ \A m \in Loop : Len(queue'[m]) \in Nat
         /\ \A m \in Loop : m \notin lost => Len(queue[m]) <= Len(queue'[m])
         /\ \A m \in Loop : Len(queue[m]) - 1 <= Len(queue'[m])
<1>1. Keeps
  BY WorkKeepsPlaced, WorkKeepsOrdered, WorkKeepsKept, WorkKeepsListed, WorkKeepsRest
     DEF Keeps
<1>2. DataTyped /\ Len(conns') = Len(conns)
  BY WorkKeepsRest DEF DataTyped
<1>3. ASSUME NEW m \in Loop
      PROVE  /\ Len(queue'[m]) \in Nat
             /\ m \notin lost => Len(queue[m]) <= Len(queue'[m])
             /\ Len(queue[m]) - 1 <= Len(queue'[m])
  <2>1. /\ n \in {0, 1}
        /\ Len(queue'[m]) = Len(queue[m]) - First(lost, m) + (IF m = l THEN n ELSE 0)
    BY DEF Works, QueuesMove
  <2>2. First(lost, m) \in {0, 1} /\ (m \notin lost => First(lost, m) = 0)
    BY DEF First
  <2>3. Len(queue[m]) \in Nat /\ Len(queue'[m]) \in Nat
    BY Facts, Moved DEF Works
  <2>4. QED
    BY <2>1, <2>2, <2>3
<1>4. QED
  BY <1>1, <1>2, <1>3

------------------------------------------------------------------------------
(***************************************************************************)
(* The actions of that kind.                                               *)
(***************************************************************************)

\* A connection whose connectEstablished is queued is new, and not of the base loop.
LEMMA EstablishedIsNew ==
  ASSUME Inv, NEW m \in Loop, NEW i \in 1 .. Len(queue[m]), NEW c,
         queue[m][i] = Do("connectEstablished", c)
  PROVE  m # 0 /\ conns[c].loop = m /\ conns[c].stage = "new"
<1>1. Placed(m, queue[m][i])
  BY DEF Inv, AllPlaced
<1>2. QED
  BY <1>1 DEF Placed, Do

\* A functor of c that is the first of its loop's queue leaves no connectEstablished of
\* c behind it.
LEMMA FirstIsBefore ==
  ASSUME Inv, NEW l \in Loop, NEW c \in DOMAIN conns, conns[c].loop = l, Len(queue[l]) > 0,
         queue[l][1].conn = c, NEW m \in Loop, NEW i \in 1 .. Len(queue[m]),
         i > First({l}, m)
  PROVE  queue[m][i] # Do("connectEstablished", c)
<1> SUFFICES ASSUME queue[m][i] = Do("connectEstablished", c)
             PROVE  FALSE
  OBVIOUS
<1>1. m = l
  BY EstablishedIsNew
<1>2. i > 1 /\ 1 \in 1 .. Len(queue[l]) /\ i \in 1 .. Len(queue[l])
  BY <1>1, FirstIs, Facts
<1>3. queue[l][i].op = "connectEstablished" /\ queue[l][i].conn = c
  BY <1>1 DEF Do
<1>4. QED
  BY <1>2, <1>3 DEF Inv, Ordered

\* At least one removal of c is queued when no more may be.
LEMMA QueuedAlready ==
  ASSUME Inv, NEW c \in Conn, ~ MayQueueRemoval(c)
  PROVE  \E i \in 1 .. Len(queue[0]) : queue[0][i] = Do("removeConnectionInLoop", c)
<1> DEFINE R == {i \in DOMAIN queue[0] : queue[0][i] = Do("removeConnectionInLoop", c)}
<1>1. SUFFICES R # {}
  BY Facts, LenProperties
<1>2. MaxRemovals \in Nat /\ MaxRemovals > 0 /\ ~ (Cardinality(R) < MaxRemovals)
  BY ServerAssumption DEF MayQueueRemoval
<1> HIDE DEF R
<1>3. R = {} => Cardinality(R) = 0
  BY FS_EmptySet
<1>4. QED
  BY <1>2, <1>3

LEMMA CloseWorks ==
  ASSUME Inv, NEW l \in Loop, NEW c \in Conn, handleClose(l, c)
  PROVE  \E n, m, task : /\ Works(c, "closed", {}, n, m, task)
                         /\ Right(c, "closed", {}, n, m, task)
                         /\ Leaves(c, "closed", {}, n, m, task)
<1>1. c \in DOMAIN conns /\ conns[c].loop = l /\ conns[c].stage \in {"up", "closed"}
  BY DEF handleClose, Handling, Inv, Handled
<1>2. /\ conns' \in Seq(ConnType) /\ Len(conns') = Len(conns)
      /\ DOMAIN conns' = DOMAIN conns
      /\ \A d \in DOMAIN conns :
           /\ conns'[d].loop = conns[d].loop
           /\ conns'[d].name = conns[d].name
           /\ conns'[d].stage = IF d = c THEN "closed" ELSE conns[d].stage
  BY <1>1, Facts, SetStageProperties DEF handleClose, Stage
<1>3. \A m \in Loop : \A i \in 1 .. Len(queue[m]) : queue[m][i] # Do("connectEstablished", c)
  BY <1>1, EstablishedIsNew
<1>4. UNCHANGED <<nextConnId_, next_, threads, server>>
  BY DEF handleClose, poolVars, endVars
<1>5. /\ Do("connectDestroyed", c) \in Task /\ Do("removeConnectionInLoop", c) \in Task
      /\ 0 \in Loop /\ queue \in Queues /\ "closed" \in Stage
  BY TaskTypes, Facts DEF Stage
<1>6. CASE l = 0
  <2>1. /\ queue' = Enqueue(queue, l, Do("connectDestroyed", c))
        /\ DOMAIN connections_' \subseteq DOMAIN connections_
        /\ \A k \in DOMAIN connections_' : connections_'[k] = connections_[k]
        /\ \A k \in DOMAIN connections_ : k \in DOMAIN connections_' \/ connections_[k] = c
        /\ Struck(c)
    BY <1>1, <1>5, <1>6, RemoveProperties DEF handleClose, Struck
  <2>2. QueuesMove({}, 1, l, Do("connectDestroyed", c))
    BY <1>5, <2>1, QueuesGrow
  <2>3. Works(c, "closed", {}, 1, l, Do("connectDestroyed", c))
    BY <1>1, <1>2, <1>4, <1>5, <2>1, <2>2 DEF Works
  <2>4. Placed(l, Do("connectDestroyed", c))'
    BY <1>1, <1>2, <1>6 DEF Placed, Do
  <2>5. Right(c, "closed", {}, 1, l, Do("connectDestroyed", c))
    BY <1>1, <1>3, <2>4 DEF Right, Do
  <2>6. Leaves(c, "closed", {}, 1, l, Do("connectDestroyed", c))
    BY <1>1, <2>1 DEF Leaves, Leaving, Do
  <2>7. QED
    BY <2>3, <2>5, <2>6
<1>7. CASE l # 0
  <2>1. connections_' = connections_
    BY <1>7 DEF handleClose
  <2>2. CASE MayQueueRemoval(c)
    <3>1. QueuesMove({}, 1, 0, Do("removeConnectionInLoop", c))
      BY <1>5, <1>7, <2>2, QueuesGrow DEF handleClose
    <3>2. Works(c, "closed", {}, 1, 0, Do("removeConnectionInLoop", c))
      BY <1>1, <1>2, <1>4, <1>5, <2>1, <3>1 DEF Works
    <3>3. Placed(0, Do("removeConnectionInLoop", c))'
      BY <1>1, <1>2 DEF Placed, Do
    <3>4. Right(c, "closed", {}, 1, 0, Do("removeConnectionInLoop", c))
      BY <1>1, <1>3, <2>1, <3>3 DEF Right, Do
    <3>5. Leaves(c, "closed", {}, 1, 0, Do("removeConnectionInLoop", c))
      BY <1>1 DEF Leaves, Leaving, Do
    <3>6. QED
      BY <3>2, <3>4, <3>5
  <2>3. CASE ~ MayQueueRemoval(c)
    <3>1. QueuesMove({}, 0, 0, Do("removeConnectionInLoop", c))
      BY <1>5, <1>7, <2>3, SameQueues DEF handleClose
    <3>2. Works(c, "closed", {}, 0, 0, Do("removeConnectionInLoop", c))
      BY <1>1, <1>2, <1>4, <1>5, <2>1, <3>1 DEF Works
    <3>3. Right(c, "closed", {}, 0, 0, Do("removeConnectionInLoop", c))
      BY <1>1, <1>3, <2>1 DEF Right
    <3>4. \E i \in 1 .. Len(queue[0]) : queue[0][i] = Do("removeConnectionInLoop", c)
      BY <2>3, QueuedAlready
    <3>5. Leaves(c, "closed", {}, 0, 0, Do("removeConnectionInLoop", c))
      BY <1>1, <3>4 DEF Leaves, Leaving
    <3>6. QED
      BY <3>2, <3>3, <3>5
  <2>4. QED
    BY <2>2, <2>3
<1>8. QED
  BY <1>6, <1>7

LEMMA FunctorWorks ==
  ASSUME Inv, NEW l \in Loop, RunFunctor(l)
  PROVE  \E c, stage, n, m, task :
           /\ Works(c, stage, {l}, n, m, task)
           /\ Right(c, stage, {l}, n, m, task)
           /\ Leaves(c, stage, {l}, n, m, task)
           /\ conns[c].loop = l \/ stage = conns[c].stage
<1>1. UNCHANGED <<nextConnId_, next_, threads, server>>
  BY DEF RunFunctor, poolVars, endVars
<1>2. PICK c \in Conn :
        \/ /\ Running(l, Do("connectEstablished", c)) /\ SetStage(c, "up")
           /\ queue' = Dequeued(l) /\ UNCHANGED connections_
        \/ /\ Running(l, Do("connectDestroyed", c)) /\ SetStage(c, "destroyed")
           /\ queue' = Dequeued(l) /\ UNCHANGED connections_
        \/ /\ Running(l, Do("removeConnectionInLoop", c))
           /\ removeConnectionInLoop(c, Dequeued(l)) /\ UNCHANGED conns
  BY DEF RunFunctor
<1>3. /\ Do("connectDestroyed", c) \in Task /\ 0 \in Loop /\ queue \in Queues
      /\ {"up", "destroyed"} \subseteq Stage
  BY TaskTypes, Facts DEF Stage
<1>4. CASE /\ Running(l, Do("connectEstablished", c)) /\ SetStage(c, "up")
           /\ queue' = Dequeued(l) /\ UNCHANGED connections_
  <2> DEFINE t == Do("connectEstablished", c)
  <2>1. Len(queue[l]) > 0 /\ t = queue[l][1] /\ Placed(l, t)
    BY <1>4, RunningProperties
  <2>2. t.op = "connectEstablished" /\ t.conn = c
        /\ \A d \in DOMAIN conns : t # Do("connectDestroyed", d)
    BY DEF Do
  <2> HIDE DEF t
  <2>3. c \in DOMAIN conns /\ conns[c].loop = l /\ conns[c].stage = "new"
    BY <2>1, <2>2 DEF Placed
  <2>4. /\ conns' \in Seq(ConnType) /\ Len(conns') = Len(conns)
        /\ DOMAIN conns' = DOMAIN conns
        /\ \A d \in DOMAIN conns :
             /\ conns'[d].loop = conns[d].loop
             /\ conns'[d].name = conns[d].name
             /\ conns'[d].stage = IF d = c THEN "up" ELSE conns[d].stage
    BY <1>3, <1>4, <2>3, Facts, SetStageProperties
  <2>5. QueuesMove({l}, 0, 0, Do("connectDestroyed", c))
    BY <1>3, <1>4, <2>1, QueuesShrink
  <2>6. Works(c, "up", {l}, 0, 0, Do("connectDestroyed", c))
    BY <1>1, <1>3, <1>4, <2>3, <2>4, <2>5 DEF Works
  <2>7. \A m \in Loop : \A i \in 1 .. Len(queue[m]) :
          i > First({l}, m) => queue[m][i] # Do("connectEstablished", c)
    BY <2>1, <2>2, <2>3, FirstIsBefore
  <2>8. \A j \in {l} : \A d \in DOMAIN conns :
          queue[j][1] = Do("connectDestroyed", d) => d = c /\ "up" = "destroyed"
    BY <2>1, <2>2
  <2>9. Right(c, "up", {l}, 0, 0, Do("connectDestroyed", c))
    <3>1. DOMAIN connections_' = DOMAIN connections_ /\ 0 # 1
      BY <1>4
    <3>2. "up" = "up" /\ conns[c].stage = "new" /\ conns[c].stage # "destroyed"
      BY <2>3
    <3>3. QED
      BY <2>7, <2>8, <3>1, <3>2, Zenon DEF Right
  <2>10. Leaves(c, "up", {l}, 0, 0, Do("connectDestroyed", c))
    <3>1. connections_' = connections_ /\ 0 # 1
      BY <1>4
    <3>2. \A j \in {l} : queue[j][1] = Do("connectEstablished", c)
      BY <2>1 DEF t
    <3>3. QED
      BY <2>3, <3>1, <3>2 DEF Leaves, Leaving
  <2>11. QED
    BY <2>3, <2>6, <2>9, <2>10
<1>5. CASE /\ Running(l, Do("connectDestroyed", c)) /\ SetStage(c, "destroyed")
           /\ queue' = Dequeued(l) /\ UNCHANGED connections_
  <2> DEFINE t == Do("connectDestroyed", c)
  <2>1. Len(queue[l]) > 0 /\ t = queue[l][1] /\ Placed(l, t)
    BY <1>5, RunningProperties
  <2>2. t.op = "connectDestroyed" /\ t.conn = c
        /\ \A d \in DOMAIN conns : t = Do("connectDestroyed", d) => d = c
    BY DEF Do
  <2> HIDE DEF t
  <2>3. c \in DOMAIN conns /\ conns[c].loop = l
    BY <2>1, <2>2 DEF Placed
  <2>4. /\ conns' \in Seq(ConnType) /\ Len(conns') = Len(conns)
        /\ DOMAIN conns' = DOMAIN conns
        /\ \A d \in DOMAIN conns :
             /\ conns'[d].loop = conns[d].loop
             /\ conns'[d].name = conns[d].name
             /\ conns'[d].stage = IF d = c THEN "destroyed" ELSE conns[d].stage
    BY <1>3, <1>5, <2>3, Facts, SetStageProperties
  <2>5. QueuesMove({l}, 0, 0, Do("connectDestroyed", c))
    BY <1>3, <1>5, <2>1, QueuesShrink
  <2>6. Works(c, "destroyed", {l}, 0, 0, Do("connectDestroyed", c))
    BY <1>1, <1>3, <1>5, <2>3, <2>4, <2>5 DEF Works
  <2>7. \A m \in Loop : \A i \in 1 .. Len(queue[m]) :
          i > First({l}, m) => queue[m][i] # Do("connectEstablished", c)
    BY <2>1, <2>2, <2>3, FirstIsBefore
  <2>8. \A j \in {l} : \A d \in DOMAIN conns :
          queue[j][1] = Do("connectDestroyed", d) => d = c /\ "destroyed" = "destroyed"
    BY <2>1, <2>2
  <2>9. Right(c, "destroyed", {l}, 0, 0, Do("connectDestroyed", c))
    <3>1. DOMAIN connections_' = DOMAIN connections_ /\ 0 # 1
      BY <1>5
    <3>2. "destroyed" \in {"closed", "destroyed"}
      BY <2>3
    <3>3. QED
      BY <2>7, <2>8, <3>1, <3>2, Zenon DEF Right
  <2>10. Leaves(c, "destroyed", {l}, 0, 0, Do("connectDestroyed", c))
    <3>1. \A j \in {l} : queue[j][1] = Do("connectDestroyed", c)
      BY <2>1 DEF t
    <3>2. server = "alive" => conns[c].stage \in {"closed", "destroyed"}
      BY <2>1, <2>2 DEF Placed
    <3>3. QED
      BY <3>1, <3>2 DEF Leaves, Leaving
  <2>11. QED
    BY <2>3, <2>6, <2>9, <2>10
<1>6. CASE /\ Running(l, Do("removeConnectionInLoop", c))
           /\ removeConnectionInLoop(c, Dequeued(l)) /\ UNCHANGED conns
  <2> DEFINE t == Do("removeConnectionInLoop", c)
  <2>1. Len(queue[l]) > 0 /\ t = queue[l][1] /\ Placed(l, t)
    BY <1>6, RunningProperties
  <2>2. t.op = "removeConnectionInLoop" /\ t.conn = c
        /\ \A d \in DOMAIN conns : t # Do("connectDestroyed", d)
    BY DEF Do
  <2> HIDE DEF t
  <2>3. c \in DOMAIN conns /\ conns[c].stage \in {"closed", "destroyed"}
    BY <2>1, <2>2 DEF Placed
  <2>4. PICK m \in Loop, stage \in Stage : m = conns[c].loop /\ stage = conns[c].stage
    BY <2>3, Facts
  <2>5. Dequeued(l) \in Queues
    BY <1>3, <2>1, DequeuedProperties
  <2>6. /\ queue' = Enqueue(Dequeued(l), m, Do("connectDestroyed", c))
        /\ DOMAIN connections_' \subseteq DOMAIN connections_
        /\ \A k \in DOMAIN connections_' : connections_'[k] = connections_[k]
        /\ \A k \in DOMAIN connections_ : k \in DOMAIN connections_' \/ connections_[k] = c
        /\ Struck(c)
    BY <1>6, <2>3, <2>4, <2>5, RemoveProperties DEF Struck
  <2>7. QueuesMove({l}, 1, m, Do("connectDestroyed", c))
    BY <1>3, <2>1, <2>4, <2>6, QueuesTurn
  <2>8. Works(c, stage, {l}, 1, m, Do("connectDestroyed", c))
    BY <1>1, <1>6, <2>3, <2>4, <2>6, <2>7, Facts DEF Works
  <2>9. Placed(m, Do("connectDestroyed", c))'
    BY <1>1, <1>6, <2>3, <2>4 DEF Placed, Do
  <2>10. Right(c, stage, {l}, 1, m, Do("connectDestroyed", c))
    BY <2>1, <2>2, <2>3, <2>4, <2>9 DEF Right, Do
  <2>11. Leaves(c, stage, {l}, 1, m, Do("connectDestroyed", c))
    <3>1. \A j \in {l} : queue[j][1] = Do("removeConnectionInLoop", c)
      BY <2>1 DEF t
    <3>2. Do("connectDestroyed", c).conn = c
      BY DEF Do
    <3>3. QED
      BY <2>3, <2>4, <2>6, <3>1, <3>2 DEF Leaves, Leaving
  <2>12. QED
    BY <2>4, <2>8, <2>10, <2>11
<1>7. QED
  BY <1>2, <1>4, <1>5, <1>6

LEMMA ClearWorks ==
  ASSUME Inv, NEW k \in DOMAIN connections_, ClearConnection(k)
  PROVE  \E c, stage, n, m, task :
           /\ Works(c, stage, {}, n, m, task) /\ Right(c, stage, {}, n, m, task)
           /\ Leaves(c, stage, {}, n, m, task)
           /\ conns[c].loop = 0 \/ stage = conns[c].stage
<1> SUFFICES ASSUME NEW c, c = connections_[k], NEW m, m = conns[c].loop
             PROVE  \E stage, n, l, task :
                      /\ Works(c, stage, {}, n, l, task) /\ Right(c, stage, {}, n, l, task)
                      /\ Leaves(c, stage, {}, n, l, task)
                      /\ m = 0 \/ stage = conns[c].stage
  OBVIOUS
<1>1. c \in DOMAIN conns /\ conns[c].name = k /\ m \in Loop /\ conns[c].stage \in Stage
  <2>1. c \in DOMAIN conns
    BY Facts DEF Inv, TypeOK
  <2>2. QED
    BY <2>1, Facts DEF Inv, Named
<1>2. /\ UNCHANGED <<nextConnId_, next_, threads, server>>
      /\ server = "clearing" /\ server # "alive"
  BY DEF ClearConnection, poolVars, endVars
<1>3. /\ DOMAIN connections_' \subseteq DOMAIN connections_
      /\ \A j \in DOMAIN connections_' : connections_'[j] = connections_[j]
      /\ \A j \in DOMAIN connections_ : j \in DOMAIN connections_' \/ connections_[j] = c
      /\ Struck(c)
  <2>1. connections_' = Erase(connections_, k)
    BY DEF ClearConnection
  <2>2. \A j \in DOMAIN connections_ : connections_[j] = c => j = k
    BY DEF Inv, Named
  <2>3. QED
    BY <2>1, <2>2 DEF Erase, Struck
<1>4. Do("connectDestroyed", c) \in Task /\ 0 \in Loop /\ "destroyed" \in Stage
  BY <1>1, TaskTypes, Facts DEF Stage
<1>5. CASE m = 0
  <2>1. SetStage(c, "destroyed") /\ queue' = queue
    BY <1>5 DEF ClearConnection
  <2>2. /\ conns' \in Seq(ConnType) /\ Len(conns') = Len(conns)
        /\ DOMAIN conns' = DOMAIN conns
        /\ \A d \in DOMAIN conns :
             /\ conns'[d].loop = conns[d].loop
             /\ conns'[d].name = conns[d].name
             /\ conns'[d].stage = IF d = c THEN "destroyed" ELSE conns[d].stage
    BY <1>1, <1>4, <2>1, Facts, SetStageProperties
  <2>3. \A j \in Loop : \A i \in 1 .. Len(queue[j]) :
          queue[j][i] # Do("connectEstablished", c)
    <3>1. conns[c].loop = 0
      BY <1>5
    <3>2. SUFFICES ASSUME NEW j \in Loop, NEW i \in 1 .. Len(queue[j]),
                          queue[j][i] = Do("connectEstablished", c)
                   PROVE  FALSE
      OBVIOUS
    <3>3. j # 0 /\ conns[c].loop = j
      BY <3>2, EstablishedIsNew
    <3>4. QED
      BY <3>1, <3>3
  <2>4. QueuesMove({}, 0, 0, Do("connectDestroyed", c))
    BY <1>4, <2>1, SameQueues
  <2>5. Works(c, "destroyed", {}, 0, 0, Do("connectDestroyed", c))
    BY <1>1, <1>2, <1>3, <1>4, <2>2, <2>4 DEF Works
  <2>6. Right(c, "destroyed", {}, 0, 0, Do("connectDestroyed", c))
    BY <1>2, <2>3 DEF Right
  <2>7. Leaves(c, "destroyed", {}, 0, 0, Do("connectDestroyed", c))
    BY <1>2, <1>3 DEF Leaves, Leaving
  <2>8. QED
    BY <1>5, <2>5, <2>6, <2>7
<1>6. CASE m # 0
  <2>1. conns' = conns /\ queue' = Enqueue(queue, m, Do("connectDestroyed", c))
    BY <1>6 DEF ClearConnection
  <2>2. QueuesMove({}, 1, m, Do("connectDestroyed", c))
    BY <1>1, <1>4, <2>1, QueuesGrow
  <2>3. PICK stage \in Stage : stage = conns[c].stage
    BY <1>1
  <2>4. Works(c, stage, {}, 1, m, Do("connectDestroyed", c))
    BY <1>1, <1>2, <1>3, <1>4, <2>1, <2>2, <2>3, Facts DEF Works
  <2>5. Placed(m, Do("connectDestroyed", c))'
    BY <1>1, <1>2, <2>1 DEF Placed, Do
  <2>6. Right(c, stage, {}, 1, m, Do("connectDestroyed", c))
    BY <1>2, <2>3, <2>5 DEF Right, Do
  <2>7. Leaves(c, stage, {}, 1, m, Do("connectDestroyed", c))
    BY <1>2, <1>3, <2>3 DEF Leaves, Leaving, Do
  <2>8. QED
    BY <2>3, <2>4, <2>6, <2>7
<1>7. QED
  BY <1>5, <1>6

------------------------------------------------------------------------------
(***************************************************************************)
(* A new connection.                                                       *)
(***************************************************************************)

\* The k-th loop before the next one, with k up to threads.
TurnsBack(next, k) == IF k <= next THEN next + 1 - k ELSE next + 1 - k + threads

\* The loop chosen is the last in turn, all others are one turn further back; none of
\* the threads - 1 before it is the same.
LEMMA NextInTurn ==
  ASSUME Inv, getNextLoop, threads # 0
  PROVE  /\ NextLoop = TurnsBack(next_', 1)
         /\ \A k \in 1 .. threads : k > 1 => TurnsBack(next_, k - 1) = TurnsBack(next_', k)
         /\ \A k \in 1 .. threads : k < threads => TurnsBack(next_, k) # NextLoop
<1>1. threads \in Nat /\ threads > 0 /\ next_ \in Nat /\ next_ < threads
  BY Facts
<1>2. NextLoop = next_ + 1
  BY <1>1 DEF NextLoop
<1>3. next_' = IF next_ + 1 >= threads THEN 0 ELSE next_ + 1
  BY <1>1 DEF getNextLoop, NextAfter
<1>4. CASE next_ + 1 >= threads
  BY <1>1, <1>2, <1>3, <1>4 DEF TurnsBack
<1>5. CASE next_ + 1 < threads
  <2>1. next_' = next_ + 1
    BY <1>1, <1>3, <1>5
  <2>2. QED
    BY <1>1, <1>2, <2>1 DEF TurnsBack
<1>6. QED
  BY <1>1, <1>4, <1>5

LEMMA AcceptKeeps ==
  ASSUME Inv, handleRead, newConnection
  PROVE  /\ Keeps /\ DataTyped /\ Len(conns') = Len(conns) + 1
         /\ \A m \in Loop : Len(queue'[m]) \in Nat /\ Len(queue[m]) <= Len(queue'[m])
<1> DEFINE N == Len(conns)
<1> SUFFICES ASSUME NEW c, c = N + 1
             PROVE  /\ Keeps /\ DataTyped /\ Len(conns') = c
                    /\ \A m \in Loop : Len(queue'[m]) \in Nat /\ Len(queue[m]) <= Len(queue'[m])
  OBVIOUS
<1>1. /\ c \in Conn /\ c \notin DOMAIN conns /\ backlog > 0 /\ phase[0] = "handle"
      /\ conns' \in Seq(ConnType) /\ Len(conns') = c /\ DOMAIN conns' = 1 .. c
      /\ \A d \in DOMAIN conns : conns'[d] = conns[d]
  BY AcceptProperties
<1>2. /\ NextLoop \in Loop /\ conns'[c].loop = NextLoop /\ conns'[c].name = nextConnId_
      /\ conns'[c].stage = IF NextLoop = 0 THEN "up" ELSE "new"
  BY AcceptProperties
<1>3. /\ nextConnId_' = nextConnId_ + 1
      /\ DOMAIN connections_' = DOMAIN connections_ \cup {nextConnId_}
      /\ connections_'[nextConnId_] = c
      /\ \A n \in DOMAIN connections_ : connections_'[n] = connections_[n]
  BY AcceptProperties
<1>4. N \in Nat /\ DOMAIN conns = 1 .. N
  BY Facts
<1>5. \A d \in DOMAIN conns' : d \in DOMAIN conns \/ d = c
  BY <1>1, <1>4
<1>6. UNCHANGED <<threads, server>> /\ server = "alive" /\ getNextLoop
  <2>1. server = "alive"
    BY <1>1 DEF Inv, Life
  <2>2. QED
    BY <2>1 DEF handleRead, endVars, newConnection
<1>7. PICK n \in {0, 1}, l \in Loop :
        /\ QueuesMove({}, n, l, Do("connectEstablished", c))
        /\ n = 1 => l # 0 /\ l = NextLoop
  <2>1. Do("connectEstablished", c) \in Task /\ 0 \in Loop
    BY <1>1, TaskTypes, Facts
  <2>2. CASE NextLoop = 0
    <3>1. queue' = queue
      BY <2>2, AcceptProperties
    <3>2. QED
      BY <2>1, <3>1, SameQueues
  <2>3. CASE NextLoop # 0
    <3>1. queue' = Enqueue(queue, NextLoop, Do("connectEstablished", c))
      BY <2>3, AcceptProperties
    <3>2. QED
      BY <1>2, <2>1, <2>3, <3>1, QueuesGrow
  <2>4. QED
    BY <2>2, <2>3
<1>8. \A m \in Loop :
        /\ Len(queue'[m]) \in Nat
        /\ \A i \in 1 .. Len(queue'[m]) :
             \/ i \in 1 .. Len(queue[m]) /\ queue'[m][i] = queue[m][i]
             \/ /\ n = 1 /\ m = l /\ i = Len(queue'[m])
                /\ queue'[m][i] = Do("connectEstablished", c)
        /\ \A j \in 1 .. Len(queue[m]) : j \in 1 .. Len(queue'[m]) /\ queue'[m][j] = queue[m][j]
  <2> SUFFICES ASSUME NEW m \in Loop
               PROVE  /\ Len(queue'[m]) \in Nat
                      /\ \A i \in 1 .. Len(queue'[m]) :
                           \/ i \in 1 .. Len(queue[m]) /\ queue'[m][i] = queue[m][i]
                           \/ /\ n = 1 /\ m = l /\ i = Len(queue'[m])
                              /\ queue'[m][i] = Do("connectEstablished", c)
                      /\ \A j \in 1 .. Len(queue[m]) :
                           j \in 1 .. Len(queue'[m]) /\ queue'[m][j] = queue[m][j]
    OBVIOUS
  <2>1. First({}, m) = 0 /\ Len(queue[m]) \in Nat /\ m \notin {}
    BY FirstIs, Facts
  <2>2. /\ Len(queue'[m]) \in Nat
        /\ \A i \in 1 .. Len(queue'[m]) :
             \/ /\ i + First({}, m) \in 1 .. Len(queue[m])
                /\ queue'[m][i] = queue[m][i + First({}, m)]
             \/ /\ n = 1 /\ m = l /\ i = Len(queue'[m])
                /\ queue'[m][i] = Do("connectEstablished", c)
        /\ \A j \in 1 .. Len(queue[m]) :
             \/ m \in {} /\ j = 1
             \/ /\ j - First({}, m) \in 1 .. Len(queue'[m])
                /\ queue'[m][j - First({}, m)] = queue[m][j]
    BY <1>7, Moved
  <2>3. /\ \A i \in 1 .. Len(queue'[m]) : i + First({}, m) = i
        /\ \A j \in 1 .. Len(queue[m]) : j - First({}, m) = j
    BY <2>1, <2>2
  <2>4. QED
    BY <2>1, <2>2, <2>3
<1>9. \A m \in Loop : Len(queue[m]) <= Len(queue'[m])
  <2> SUFFICES ASSUME NEW m \in Loop
               PROVE  Len(queue[m]) <= Len(queue'[m])
    OBVIOUS
  <2>1. Len(queue[m]) \in Nat /\ Len(queue'[m]) \in Nat
    BY <1>8, Facts
  <2>2. Len(queue[m]) > 0 => Len(queue[m]) \in 1 .. Len(queue'[m])
    BY <1>8, <2>1
  <2>3. QED
    BY <2>1, <2>2
<1>10. Named'
  <2>1. \A d \in DOMAIN conns :
          conns'[d].name = conns[d].name /\ conns[d].name < nextConnId_ /\ conns[d].name \in Nat
    BY <1>1, Facts DEF Inv, Named
  <2>2. \A d \in DOMAIN conns' : conns'[d].name < nextConnId_'
    BY <1>2, <1>3, <1>5, <2>1, Facts
  <2>3. \A d, e \in DOMAIN conns' : conns'[d].name = conns'[e].name => d = e
    <3> SUFFICES ASSUME NEW d \in DOMAIN conns', NEW e \in DOMAIN conns',
                        conns'[d].name = conns'[e].name
                 PROVE  d = e
      OBVIOUS
    <3>1. CASE d \in DOMAIN conns /\ e \in DOMAIN conns
      BY <2>1, <3>1 DEF Inv, Named
    <3>2. CASE d = c /\ e \in DOMAIN conns
      BY <1>2, <2>1, <3>2, Facts
    <3>3. CASE d \in DOMAIN conns /\ e = c
      BY <1>2, <2>1, <3>3, Facts
    <3>4. QED
      BY <1>5, <3>1, <3>2, <3>3
  <2>4. \A k \in DOMAIN connections_ : connections_[k] \in DOMAIN conns
    BY <1>4 DEF Inv, TypeOK
  <2>5. \A k \in DOMAIN connections_' : conns'[connections_'[k]].name = k
    BY <1>2, <1>3, <2>1, <2>4 DEF Inv, Named
  <2>6. QED
    BY <2>2, <2>3, <2>5 DEF Named
<1>11. AllPlaced'
  <2> SUFFICES ASSUME NEW m \in Loop, NEW i \in 1 .. Len(queue'[m])
               PROVE  Placed(m, queue[m][i])'
    BY DEF AllPlaced
  <2>1. CASE i \in 1 .. Len(queue[m]) /\ queue'[m][i] = queue[m][i]
    <3>1. Placed(m, queue[m][i])
      BY <2>1 DEF Inv, AllPlaced
    <3>2. QED
      BY <1>1, <1>4, <1>6, <2>1, <3>1 DEF Placed
  <2>2. CASE n = 1 /\ m = l /\ queue'[m][i] = Do("connectEstablished", c)
    <3>1. conns'[c].loop = l /\ conns'[c].stage = "new" /\ c \in DOMAIN conns' /\ l # 0
      BY <1>1, <1>2, <1>4, <1>7, <2>2
    <3>2. QED
      BY <2>2, <3>1 DEF Placed, Do
  <2>3. QED
    BY <1>8, <2>1, <2>2
<1>12. Ordered'
  <2> SUFFICES ASSUME NEW m \in Loop, NEW i \in 1 .. Len(queue'[m]),
                      NEW j \in 1 .. Len(queue'[m]),
                      i < j, queue'[m][j].op = "connectEstablished"
               PROVE  queue'[m][i].conn # queue'[m][j].conn
    BY DEF Ordered
  <2>1. i \in 1 .. Len(queue[m]) /\ queue'[m][i] = queue[m][i]
    BY <1>8
  <2>2. CASE j \in 1 .. Len(queue[m]) /\ queue'[m][j] = queue[m][j]
    BY <2>1, <2>2 DEF Inv, Ordered
  <2>3. CASE queue'[m][j] = Do("connectEstablished", c)
    <3>1. queue'[m][j].conn = c
      BY <2>3 DEF Do
    <3>2. queue[m][i].conn \in DOMAIN conns
      BY <2>1 DEF Inv, AllPlaced, Placed
    <3>3. QED
      BY <1>1, <2>1, <3>1, <3>2
  <2>4. QED
    BY <1>8, <2>2, <2>3
<1>13. Kept'
  <2> SUFFICES ASSUME NEW d \in DOMAIN conns', conns'[d].stage # "destroyed"
               PROVE  \/ \E k \in DOMAIN connections_' : connections_'[k] = d
                      \/ \E i \in 1 .. Len(queue'[conns'[d].loop]) :
                           queue'[conns'[d].loop][i] = Do("connectDestroyed", d)
    BY DEF Kept
  <2>1. CASE d = c
    BY <1>3, <2>1
  <2>2. CASE d \in DOMAIN conns
    <3>1. conns'[d] = conns[d] /\ conns[d].loop \in Loop
      BY <1>1, <2>2, Facts
    <3>2. \/ \E k \in DOMAIN connections_ : connections_[k] = d
          \/ \E i \in 1 .. Len(queue[conns[d].loop]) :
               queue[conns[d].loop][i] = Do("connectDestroyed", d)
      BY <2>2, <3>1 DEF Inv, Kept
    <3>3. CASE \E k \in DOMAIN connections_ : connections_[k] = d
      BY <1>3, <3>3
    <3>4. CASE \E i \in 1 .. Len(queue[conns[d].loop]) :
                 queue[conns[d].loop][i] = Do("connectDestroyed", d)
      BY <1>8, <3>1, <3>4
    <3>5. QED
      BY <3>2, <3>3, <3>4
  <2>3. QED
    BY <1>5, <2>1, <2>2
<1>14. OpenIsListed'
  <2> SUFFICES ASSUME NEW d \in DOMAIN conns', conns'[d].stage \in {"new", "up"}
               PROVE  /\ conns'[d].name \in DOMAIN connections_'
                      /\ connections_'[conns'[d].name] = d
    BY DEF OpenIsListed
  <2>1. CASE d = c
    BY <1>2, <1>3, <2>1
  <2>2. CASE d \in DOMAIN conns
    <3>1. conns'[d] = conns[d]
      BY <1>1, <2>2
    <3>2. conns[d].name \in DOMAIN connections_ /\ connections_[conns[d].name] = d
      BY <1>6, <2>2, <3>1 DEF Inv, OpenIsListed
    <3>3. QED
      BY <1>3, <3>1, <3>2
  <2>3. QED
    BY <1>5, <2>1, <2>2
<1>15. LastInTurn'
  <2> SUFFICES ASSUME NEW k \in 1 .. threads, k <= c
               PROVE  conns'[c + 1 - k].loop = TurnsBack(next_', k)
    BY <1>1, <1>6 DEF LastInTurn, TurnsBack
  <2>1. threads \in Nat /\ threads # 0
    BY Facts
  <2>2. CASE k = 1
    <3>1. c + 1 - k = c
      BY <1>4, <2>2
    <3>2. QED
      BY <1>2, <1>6, <2>1, <2>2, <3>1, NextInTurn
  <2>3. CASE k > 1
    <3>1. PICK j \in 1 .. threads : j = k - 1 /\ j <= N /\ c + 1 - k = N + 1 - j
      BY <1>4, <2>1, <2>3
    <3>2. N + 1 - j \in DOMAIN conns
      BY <1>4, <3>1
    <3>3. conns[N + 1 - j].loop = TurnsBack(next_, j)
      BY <3>1 DEF Inv, LastInTurn, TurnsBack
    <3>4. TurnsBack(next_, j) = TurnsBack(next_', k)
      BY <1>6, <2>1, <2>3, <3>1, NextInTurn
    <3>5. QED
      BY <1>1, <3>1, <3>2, <3>3, <3>4
  <2>4. QED
    BY <2>2, <2>3
<1>16. EvenShare'
  <2> SUFFICES ASSUME NEW i \in DOMAIN conns', NEW j \in DOMAIN conns', i < j, j - i < threads
               PROVE  conns'[i].loop # conns'[j].loop
    BY <1>6 DEF EvenShare
  <2>1. CASE j \in DOMAIN conns
    <3>1. i \in DOMAIN conns
      BY <1>1, <1>4, <2>1
    <3>2. QED
      BY <1>1, <2>1, <3>1 DEF Inv, EvenShare
  <2>2. CASE j = c
    <3>1. threads \in Nat /\ threads # 0
      BY <1>1, <2>2, <1>4, Facts
    <3>2. PICK k \in 1 .. threads : k = j - i /\ k < threads /\ k <= N /\ i = N + 1 - k
      BY <1>1, <1>4, <2>2, <3>1
    <3>3. conns[i].loop = TurnsBack(next_, k)
      BY <3>2 DEF Inv, LastInTurn, TurnsBack
    <3>4. TurnsBack(next_, k) # NextLoop
      BY <1>6, <3>1, <3>2, NextInTurn
    <3>5. i \in DOMAIN conns
      BY <1>1, <1>4, <2>2
    <3>6. QED
      BY <1>1, <1>2, <2>2, <3>3, <3>4, <3>5
  <2>3. QED
    BY <1>5, <2>1, <2>2
<1>17. DataTyped
  <2>1. \A k \in DOMAIN connections_ : connections_[k] \in 1 .. N
    BY DEF Inv, TypeOK
  <2>2. \A k \in DOMAIN connections_' : connections_'[k] \in 1 .. c
    BY <1>3, <1>4, <2>1
  <2>3. QED
    BY <1>1, <1>7, <2>2 DEF DataTyped, QueuesMove
<1>18. QED
  BY <1>1, <1>8, <1>9, <1>10, <1>11, <1>12, <1>13, <1>14, <1>15, <1>16, <1>17 DEF Keeps

------------------------------------------------------------------------------
(***************************************************************************)
(* The actions that leave the connections and the queues alone.            *)
(***************************************************************************)
LEMMA QuietKeeps ==
  ASSUME Inv, UNCHANGED <<conns, connections_, queue, nextConnId_>>,
         server' = "alive" => server = "alive",
         conns = <<>> \/ UNCHANGED <<next_, threads>>
  PROVE  Keeps /\ DataTyped
<1>1. Named' /\ Kept'
  BY DEF Inv, Named, Kept
<1>2. AllPlaced' /\ Ordered'
  BY DEF Inv, AllPlaced, Placed, Ordered
<1>3. OpenIsListed'
  BY DEF Inv, OpenIsListed
<1>4. LastInTurn' /\ EvenShare'
  <2>1. CASE conns = <<>>
    <3>1. Len(conns') = 0 /\ DOMAIN conns' = {}
      BY <2>1
    <3>2. QED
      BY <3>1 DEF LastInTurn, EvenShare
  <2>2. CASE UNCHANGED <<next_, threads>>
    BY <2>2 DEF Inv, LastInTurn, EvenShare
  <2>3. QED
    BY <2>1, <2>2
<1>5. DataTyped
  BY Facts DEF Inv, TypeOK, DataTyped
<1>6. QED
  BY <1>1, <1>2, <1>3, <1>4, <1>5 DEF Keeps

LEMMA SetThreadNumInv ==
  ASSUME Inv, NEW n \in 0 .. MaxThreads, setThreadNum(n)
  PROVE  Inv'
<1>1. Keeps /\ DataTyped
  BY QuietKeeps DEF setThreadNum, BeforeLoop, Inv, Life, poolVars, connVars, netVars,
     loopVars, endVars
<1>2. TypeOK'
  BY <1>1, ServerAssumption DEF DataTyped, Queues, Inv, TypeOK, Life, Loop,
     setThreadNum, BeforeLoop, poolVars, connVars, netVars, loopVars, endVars
<1>3. Life'
  BY ServerAssumption DEF Inv, TypeOK, Life, Loop, setThreadNum, BeforeLoop,
     poolVars, connVars, netVars, loopVars, endVars
<1>4. Handled'
  BY DEF Inv, Handled, TypeOK, Life, Loop, setThreadNum, BeforeLoop, poolVars,
     connVars, netVars, loopVars, endVars
<1>5. QED
  BY <1>1, <1>2, <1>3, <1>4 DEF Inv, Keeps

LEMMA StartInv ==
  ASSUME Inv, start
  PROVE  Inv'
<1>1. Keeps /\ DataTyped
  BY QuietKeeps DEF start, listen, StartThreads, FirstStart, BeforeLoop, Inv, Life, poolVars,
     connVars, netVars, loopVars, endVars
<1>2. TypeOK'
  <2>1. UNCHANGED <<numThreads_, next_, connVars, fds, backlog, arrivals, peerClosed,
                    loopVars, endVars>>
    BY DEF start
  <2>2. /\ started_' \in 0 .. 1 /\ joined = 0 /\ next_ = 0
        /\ threads' \in 0 .. MaxThreads /\ listening' \in BOOLEAN
    <3>1. joined = 0 /\ next_ = 0
      BY DEF start, listen, StartThreads, FirstStart, BeforeLoop, Inv, Life
    <3>2. started_' \in 0 .. 1
      BY DEF start, Inv, TypeOK
    <3>3. threads' \in {threads, numThreads_} /\ listening' \in {TRUE, listening}
      <4>1. numThreads_ \in Nat
        BY ServerAssumption DEF Inv, TypeOK
      <4>2. CASE started_ = 0
        <5>1. threads = 0
          BY <4>2 DEF Inv, Life
        <5>2. QED
          BY <4>1, <4>2, <5>1 DEF start, StartThreads, FirstStart, listen
      <4>3. CASE started_ # 0
        BY <4>3 DEF start, FirstStart
      <4>4. QED
        BY <4>2, <4>3
    <3>4. QED
      BY <3>1, <3>2, <3>3 DEF Inv, TypeOK
  <2>3. joined \in 0 .. threads' /\ next_ \in Nat
    BY <2>2, ServerAssumption
  <2>4. QED
    BY <2>1, <2>2, <2>3 DEF Inv, TypeOK, connVars, loopVars, endVars
<1>3. Life'
  BY ServerAssumption DEF Inv, TypeOK, Life, Loop, start, listen, StartThreads, FirstStart,
     BeforeLoop, poolVars, connVars, netVars, loopVars, endVars
<1>4. Handled'
  BY DEF Inv, Handled, TypeOK, Life, Loop, start, listen, StartThreads, FirstStart, BeforeLoop,
     poolVars, connVars, netVars, loopVars, endVars
<1>5. QED
  BY <1>1, <1>2, <1>3, <1>4 DEF Inv, Keeps

LEMMA RunLoopInv ==
  ASSUME Inv, RunLoop
  PROVE  Inv'
<1>1. Keeps /\ DataTyped
  BY QuietKeeps DEF RunLoop, BeforeLoop, Inv, Life, poolVars, connVars, netVars,
     loopVars, endVars
<1>2. TypeOK'
  BY <1>1, ServerAssumption DEF DataTyped, Queues, Inv, TypeOK, Life, Loop, RunLoop,
     BeforeLoop, poolVars, connVars, netVars, loopVars, endVars
<1>3. Life'
  BY ServerAssumption DEF Inv, TypeOK, Life, Loop, RunLoop, BeforeLoop, poolVars,
     connVars, netVars, loopVars, endVars
<1>4. Handled'
  BY DEF Inv, Handled, TypeOK, Life, Loop, RunLoop, BeforeLoop, poolVars, connVars,
     netVars, loopVars, endVars
<1>5. QED
  BY <1>1, <1>2, <1>3, <1>4 DEF Inv, Keeps

LEMMA QuitLoopInv ==
  ASSUME Inv, QuitLoop
  PROVE  Inv'
<1>1. Keeps /\ DataTyped
  BY QuietKeeps DEF QuitLoop, Inv, Life, poolVars, connVars, netVars, loopVars, endVars
<1>2. TypeOK'
  BY <1>1, ServerAssumption DEF DataTyped, Queues, Inv, TypeOK, Life, Loop, QuitLoop,
     poolVars, connVars, netVars, loopVars, endVars
<1>3. Life'
  BY ServerAssumption DEF Inv, TypeOK, Life, Loop, QuitLoop, poolVars, connVars,
     netVars, loopVars, endVars
<1>4. Handled'
  BY DEF Inv, Handled, TypeOK, Life, Loop, QuitLoop, poolVars, connVars, netVars,
     loopVars, endVars
<1>5. QED
  BY <1>1, <1>2, <1>3, <1>4 DEF Inv, Keeps

LEMMA ArrivesInv ==
  ASSUME Inv, Arrives
  PROVE  Inv'
<1>1. Keeps /\ DataTyped
  BY QuietKeeps DEF Arrives, Inv, Life, poolVars, connVars, netVars, loopVars, endVars
<1>2. TypeOK'
  <2>1. UNCHANGED <<poolVars, connVars, fds, listening, peerClosed, loopVars, endVars>>
    BY DEF Arrives
  <2>2. arrivals' \in 0 .. MaxConn /\ backlog' \in 0 .. arrivals' /\ Len(conns) <= arrivals'
    BY ServerAssumption, Facts DEF Arrives, Inv, TypeOK
  <2>3. QED
    BY <2>1, <2>2 DEF Inv, TypeOK, poolVars, connVars, loopVars, endVars
<1>3. Life'
  BY ServerAssumption DEF Inv, TypeOK, Life, Loop, Arrives, poolVars, connVars,
     netVars, loopVars, endVars
<1>4. Handled'
  BY DEF Inv, Handled, TypeOK, Life, Loop, Arrives, poolVars, connVars, netVars,
     loopVars, endVars
<1>5. QED
  BY <1>1, <1>2, <1>3, <1>4 DEF Inv, Keeps

LEMMA PeerClosesInv ==
  ASSUME Inv, NEW c \in Conn, PeerCloses(c)
  PROVE  Inv'
<1>1. Keeps /\ DataTyped
  BY QuietKeeps DEF PeerCloses, Inv, Life, poolVars, connVars, netVars, loopVars,
     endVars
<1>2. TypeOK'
  BY <1>1, ServerAssumption DEF DataTyped, Queues, Inv, TypeOK, Life, Loop,
     PeerCloses, poolVars, connVars, netVars, loopVars, endVars
<1>3. Life'
  BY ServerAssumption DEF Inv, TypeOK, Life, Loop, PeerCloses, poolVars, connVars,
     netVars, loopVars, endVars
<1>4. Handled'
  BY DEF Inv, Handled, TypeOK, Life, Loop, PeerCloses, poolVars, connVars, netVars,
     loopVars, endVars
<1>5. QED
  BY <1>1, <1>2, <1>3, <1>4 DEF Inv, Keeps

LEMMA EnterLoopInv ==
  ASSUME Inv, NEW l \in Loop, EnterLoop(l)
  PROVE  Inv'
<1>1. Keeps /\ DataTyped
  BY QuietKeeps DEF EnterLoop, Inv, Life, poolVars, connVars, netVars, loopVars, endVars
<1>2. TypeOK'
  BY <1>1, ServerAssumption DEF DataTyped, Queues, Inv, TypeOK, Life, Loop,
     EnterLoop, poolVars, connVars, netVars, loopVars, endVars
<1>3. Life'
  <2>1. UNCHANGED <<poolVars, connVars, endVars>> /\ phase[l] = "init" /\ l \in 1 .. threads
    BY DEF EnterLoop
  <2>2. \A m \in Loop : m # l => phase'[m] = phase[m]
    BY <2>1 DEF EnterLoop, Inv, TypeOK
  <2>3. 0 \in Loop /\ 1 .. joined \subseteq Loop /\ l # 0 /\ ~ (l > threads)
    BY <2>1, ServerAssumption DEF Inv, TypeOK, Loop
  <2>4. l \notin 1 .. joined
    BY <2>1 DEF Inv, Life
  <2>5. QED
    BY <2>1, <2>2, <2>3, <2>4 DEF Inv, Life, poolVars, connVars, endVars
<1>4. Handled'
  BY DEF Inv, Handled, TypeOK, Life, Loop, EnterLoop, poolVars, connVars, netVars,
     loopVars, endVars
<1>5. QED
  BY <1>1, <1>2, <1>3, <1>4 DEF Inv, Keeps

LEMMA PollInv ==
  ASSUME Inv, NEW l \in Loop, Poll(l)
  PROVE  Inv'
<1>1. Keeps /\ DataTyped
  BY QuietKeeps DEF Poll, Inv, Life, poolVars, connVars, netVars, loopVars, endVars
<1>2. TypeOK'
  <2>1. UNCHANGED <<poolVars, connVars, netVars, quit, queue, batch, endVars>>
    BY DEF Poll
  <2>2. phase' \in [Loop -> {"init", "test", "poll", "handle", "run", "done"}]
    BY DEF Poll, Inv, TypeOK
  <2>3. Ready(l) \subseteq Conn \cup {Acceptor}
    BY DEF Ready, ReadyConns, Inv, TypeOK
  <2>4. active' \in [Loop -> SUBSET (Conn \cup {Acceptor})]
    BY <2>3 DEF Poll, Inv, TypeOK
  <2>5. QED
    BY <2>1, <2>2, <2>4 DEF Inv, TypeOK, poolVars, connVars, netVars, endVars
<1>3. Life'
  <2>1. UNCHANGED <<poolVars, connVars, endVars>> /\ phase[l] = "poll"
    BY DEF Poll
  <2>2. \A m \in Loop : phase[m] \in {"init", "done"} => phase'[m] = phase[m]
    BY <2>1 DEF Poll, Inv, TypeOK
  <2>3. \A m \in Loop : phase'[m] = "init" => phase[m] = "init"
    BY <2>1 DEF Poll, Inv, TypeOK
  <2>4. 0 \in Loop /\ 1 .. joined \subseteq Loop
    BY ServerAssumption DEF Inv, TypeOK, Loop
  <2>5. QED
    BY <2>1, <2>2, <2>3, <2>4 DEF Inv, Life, poolVars, connVars, endVars
<1>4. Handled'
  <2>1. UNCHANGED <<connVars, netVars>>
    BY DEF Poll
  <2>2. /\ Acceptor \in Ready(l) => l = 0 /\ backlog > 0
        /\ \A c \in Ready(l) : c # Acceptor =>
             c \in DOMAIN conns /\ conns[c].loop = l /\ conns[c].stage \in {"up", "closed"}
    <3>1. \A c \in ReadyConns(l) : c \in DOMAIN conns /\ c # Acceptor
      BY Facts DEF ReadyConns, Inv, Handled, Acceptor
    <3>2. QED
      BY <3>1 DEF Ready, ReadyConns
  <2>3. \A m \in Loop : /\ active'[m] = IF m = l THEN Ready(l) ELSE active[m]
                        /\ phase'[m] = IF m = l THEN "handle" ELSE phase[m]
    BY DEF Poll, Inv, TypeOK
  <2>4. 0 \in Loop
    BY Facts
  <2>5. QED
    BY <2>1, <2>2, <2>3, <2>4 DEF Inv, Handled, connVars, netVars
<1>5. QED
  BY <1>1, <1>2, <1>3, <1>4 DEF Inv, Keeps

LEMMA DropInv ==
  ASSUME Inv, handleRead, UNCHANGED <<next_, connVars, queue>>
  PROVE  Inv'
<1>1. Keeps /\ DataTyped
  BY QuietKeeps DEF handleRead, Handling, Inv, Life, poolVars, connVars, netVars,
     loopVars, endVars
<1>2. TypeOK'
  <2>1. UNCHANGED <<poolVars, connVars, fds, listening, arrivals, peerClosed, phase, quit,
                    queue, batch, endVars>>
    BY DEF handleRead, poolVars
  <2>2. backlog' \in 0 .. arrivals
    BY ServerAssumption DEF handleRead, Handling, Inv, TypeOK, Handled
  <2>3. active' \in [Loop -> SUBSET (Conn \cup {Acceptor})]
    BY DEF handleRead, Handling, Inv, TypeOK
  <2>4. QED
    BY <2>1, <2>2, <2>3 DEF Inv, TypeOK, poolVars, connVars, endVars
<1>3. Life'
  BY ServerAssumption DEF Inv, TypeOK, Life, Loop, handleRead, Handling, poolVars,
     connVars, netVars, loopVars, endVars
<1>4. Handled'
  <2>1. UNCHANGED <<connVars, arrivals, peerClosed, phase>> /\ backlog' = backlog - 1
    BY DEF handleRead
  <2>2. \A m \in Loop : active'[m] \subseteq active[m]
    BY DEF handleRead, Handling, Inv, TypeOK
  <2>3. Acceptor \notin active'[0]
    BY Facts DEF handleRead, Handling, Inv, TypeOK
  <2>4. Len(conns') + backlog' <= arrivals'
    BY <2>1, Facts DEF connVars
  <2>5. QED
    BY <2>1, <2>2, <2>3, <2>4 DEF Inv, Handled, connVars
<1>5. QED
  BY <1>1, <1>2, <1>3, <1>4 DEF Inv, Keeps

LEMMA AcceptFailsInv ==
  ASSUME Inv, AcceptFails
  PROVE  Inv'
<1>1. Keeps /\ DataTyped
  BY QuietKeeps DEF AcceptFails, Handling, Inv, Life, poolVars, connVars, netVars,
     loopVars, endVars
<1>2. TypeOK'
  BY <1>1, ServerAssumption DEF DataTyped, Queues, Inv, TypeOK, Life, Loop,
     AcceptFails, Handling, poolVars, connVars, netVars, loopVars, endVars
<1>3. Life'
  BY ServerAssumption DEF Inv, TypeOK, Life, Loop, AcceptFails, Handling, poolVars,
     connVars, netVars, loopVars, endVars
<1>4. Handled'
  BY DEF Inv, Handled, TypeOK, Life, Loop, AcceptFails, Handling, poolVars, connVars,
     netVars, loopVars, endVars
<1>5. QED
  BY <1>1, <1>2, <1>3, <1>4 DEF Inv, Keeps

LEMMA SwapInv ==
  ASSUME Inv, NEW l \in Loop, Swap(l)
  PROVE  Inv'
<1>1. Keeps /\ DataTyped
  BY QuietKeeps DEF Swap, Inv, Life, poolVars, connVars, netVars, loopVars, endVars
<1>2. TypeOK'
  <2>1. UNCHANGED <<poolVars, connVars, netVars, quit, active, queue, endVars>>
    BY DEF Swap
  <2>2. phase' \in [Loop -> {"init", "test", "poll", "handle", "run", "done"}]
    BY DEF Swap, Inv, TypeOK
  <2>3. batch' \in [Loop -> Nat] /\ \A m \in Loop : batch'[m] <= Len(queue[m])
    <3>1. Len(queue[l]) \in Nat /\ Len(queue[l]) <= Len(queue[l])
      BY Facts
    <3>2. QED
      BY <3>1 DEF Swap, Inv, TypeOK
  <2>4. QED
    BY <2>1, <2>2, <2>3 DEF Inv, TypeOK, poolVars, connVars, netVars, endVars
<1>3. Life'
  <2>1. UNCHANGED <<poolVars, connVars, endVars>> /\ phase[l] = "handle"
    BY DEF Swap
  <2>2. \A m \in Loop : phase[m] \in {"init", "done"} => phase'[m] = phase[m]
    BY <2>1 DEF Swap, Inv, TypeOK
  <2>3. \A m \in Loop : phase'[m] = "init" => phase[m] = "init"
    BY <2>1 DEF Swap, Inv, TypeOK
  <2>4. 0 \in Loop /\ 1 .. joined \subseteq Loop
    BY ServerAssumption DEF Inv, TypeOK, Loop
  <2>5. QED
    BY <2>1, <2>2, <2>3, <2>4 DEF Inv, Life, poolVars, connVars, endVars
<1>4. Handled'
  BY DEF Inv, Handled, TypeOK, Life, Loop, Swap, poolVars, connVars, netVars,
     loopVars, endVars
<1>5. QED
  BY <1>1, <1>2, <1>3, <1>4 DEF Inv, Keeps

LEMMA TestQuitInv ==
  ASSUME Inv, NEW l \in Loop, TestQuit(l)
  PROVE  Inv'
<1>1. Keeps /\ DataTyped
  BY QuietKeeps DEF TestQuit, Inv, Life, poolVars, connVars, netVars, loopVars, endVars
<1>2. TypeOK'
  BY <1>1, ServerAssumption DEF DataTyped, Queues, Inv, TypeOK, Life, Loop, TestQuit,
     poolVars, connVars, netVars, loopVars, endVars
<1>3. Life'
  <2>1. UNCHANGED <<poolVars, connVars, endVars>> /\ phase[l] = "test"
    BY DEF TestQuit
  <2>2. \A m \in Loop : phase[m] \in {"init", "done"} => phase'[m] = phase[m]
    BY <2>1 DEF TestQuit, Inv, TypeOK
  <2>3. \A m \in Loop : phase'[m] = "init" => phase[m] = "init"
    BY <2>1 DEF TestQuit, Inv, TypeOK
  <2>4. 0 \in Loop /\ 1 .. joined \subseteq Loop
    BY ServerAssumption DEF Inv, TypeOK, Loop
  <2>5. QED
    BY <2>1, <2>2, <2>3, <2>4 DEF Inv, Life, poolVars, connVars, endVars
<1>4. Handled'
  BY DEF Inv, Handled, TypeOK, Life, Loop, TestQuit, poolVars, connVars, netVars,
     loopVars, endVars
<1>5. QED
  BY <1>1, <1>2, <1>3, <1>4 DEF Inv, Keeps

LEMMA EndBatchInv ==
  ASSUME Inv, NEW l \in Loop, EndBatch(l)
  PROVE  Inv'
<1>1. Keeps /\ DataTyped
  BY QuietKeeps DEF EndBatch, Inv, Life, poolVars, connVars, netVars, loopVars, endVars
<1>2. TypeOK'
  BY <1>1, ServerAssumption DEF DataTyped, Queues, Inv, TypeOK, Life, Loop, EndBatch,
     poolVars, connVars, netVars, loopVars, endVars
<1>3. Life'
  <2>1. UNCHANGED <<poolVars, connVars, endVars>> /\ phase[l] = "run"
    BY DEF EndBatch
  <2>2. \A m \in Loop : phase[m] \in {"init", "done"} => phase'[m] = phase[m]
    BY <2>1 DEF EndBatch, Inv, TypeOK
  <2>3. \A m \in Loop : phase'[m] = "init" => phase[m] = "init"
    BY <2>1 DEF EndBatch, Inv, TypeOK
  <2>4. 0 \in Loop /\ 1 .. joined \subseteq Loop
    BY ServerAssumption DEF Inv, TypeOK, Loop
  <2>5. QED
    BY <2>1, <2>2, <2>3, <2>4 DEF Inv, Life, poolVars, connVars, endVars
<1>4. Handled'
  BY DEF Inv, Handled, TypeOK, Life, Loop, EndBatch, poolVars, connVars, netVars,
     loopVars, endVars
<1>5. QED
  BY <1>1, <1>2, <1>3, <1>4 DEF Inv, Keeps

LEMMA DestroyServerInv ==
  ASSUME Inv, DestroyServer
  PROVE  Inv'
<1>1. Keeps /\ DataTyped
  BY QuietKeeps DEF DestroyServer, Inv, Life, poolVars, connVars, netVars, loopVars,
     endVars
<1>2. TypeOK'
  BY <1>1, ServerAssumption DEF DataTyped, Queues, Inv, TypeOK, Life, Loop,
     DestroyServer, poolVars, connVars, netVars, loopVars, endVars
<1>3. Life'
  BY ServerAssumption DEF Inv, TypeOK, Life, Loop, DestroyServer, poolVars, connVars,
     netVars, loopVars, endVars
<1>4. Handled'
  BY DEF Inv, Handled, TypeOK, Life, Loop, DestroyServer, poolVars, connVars,
     netVars, loopVars, endVars
<1>5. QED
  BY <1>1, <1>2, <1>3, <1>4 DEF Inv, Keeps

LEMMA QuitThreadInv ==
  ASSUME Inv, QuitThread
  PROVE  Inv'
<1>1. Keeps /\ DataTyped
  BY QuietKeeps DEF QuitThread, Inv, Life, poolVars, connVars, netVars, loopVars,
     endVars
<1>2. TypeOK'
  BY <1>1, ServerAssumption DEF DataTyped, Queues, Inv, TypeOK, Life, Loop,
     QuitThread, poolVars, connVars, netVars, loopVars, endVars
<1>3. Life'
  BY ServerAssumption DEF Inv, TypeOK, Life, Loop, QuitThread, poolVars, connVars,
     netVars, loopVars, endVars
<1>4. Handled'
  BY DEF Inv, Handled, TypeOK, Life, Loop, QuitThread, poolVars, connVars, netVars,
     loopVars, endVars
<1>5. QED
  BY <1>1, <1>2, <1>3, <1>4 DEF Inv, Keeps

LEMMA JoinThreadInv ==
  ASSUME Inv, JoinThread
  PROVE  Inv'
<1>1. Keeps /\ DataTyped
  BY QuietKeeps DEF JoinThread, Inv, Life, poolVars, connVars, netVars, loopVars,
     endVars
<1>2. TypeOK'
  <2>1. joined' \in 0 .. threads
    BY ServerAssumption DEF Inv, TypeOK, Life, JoinThread
  <2>2. UNCHANGED <<poolVars, connVars, netVars, loopVars>> /\ server' = "clearing"
    BY DEF JoinThread
  <2>3. QED
    BY <2>1, <2>2 DEF Inv, TypeOK, poolVars, connVars, netVars, loopVars
<1>3. Life'
  <2>1. joined \in Nat /\ joined' = joined + 1 /\ server' = "clearing" /\ server = "joining"
    BY DEF JoinThread, Inv, TypeOK
  <2>2. UNCHANGED <<poolVars, connVars, netVars, loopVars>> /\ phase[joined + 1] = "done"
    BY DEF JoinThread
  <2>3. \A l \in 1 .. joined' : phase'[l] = "done"
    BY <2>1, <2>2 DEF Inv, Life, loopVars
  <2>4. QED
    BY <2>1, <2>2, <2>3 DEF Inv, Life, poolVars, connVars, netVars, loopVars
<1>4. Handled'
  BY DEF Inv, Handled, TypeOK, Life, Loop, JoinThread, poolVars, connVars, netVars,
     loopVars, endVars
<1>5. QED
  BY <1>1, <1>2, <1>3, <1>4 DEF Inv, Keeps

LEMMA ServerGoneInv ==
  ASSUME Inv, ServerGone
  PROVE  Inv'
<1>1. Keeps /\ DataTyped
  BY QuietKeeps DEF ServerGone, Inv, Life, poolVars, connVars, netVars, loopVars,
     endVars
<1>2. TypeOK'
  BY <1>1, ServerAssumption DEF DataTyped, Queues, Inv, TypeOK, Life, Loop,
     ServerGone, poolVars, connVars, netVars, loopVars, endVars
<1>3. Life'
  BY ServerAssumption DEF Inv, TypeOK, Life, Loop, ServerGone, poolVars, connVars,
     netVars, loopVars, endVars
<1>4. Handled'
  BY DEF Inv, Handled, TypeOK, Life, Loop, ServerGone, poolVars, connVars, netVars,
     loopVars, endVars
<1>5. QED
  BY <1>1, <1>2, <1>3, <1>4 DEF Inv, Keeps

------------------------------------------------------------------------------
(***************************************************************************)
(* The others keep the invariant too.                                      *)
(***************************************************************************)
LEMMA AcceptInv ==
  ASSUME Inv, handleRead, newConnection
  PROVE  Inv'
<1>1. /\ Keeps /\ DataTyped /\ Len(conns') = Len(conns) + 1
      /\ \A m \in Loop : Len(queue'[m]) \in Nat /\ Len(queue[m]) <= Len(queue'[m])
  BY AcceptKeeps
<1>2. /\ UNCHANGED <<numThreads_, started_, threads, fds, listening, arrivals, peerClosed,
                     phase, quit, batch, endVars>>
      /\ backlog' = backlog - 1
  BY DEF handleRead
<1>3. /\ backlog > 0 /\ phase[0] = "handle" /\ getNextLoop /\ nextConnId_' = nextConnId_ + 1
      /\ \A d \in DOMAIN conns : d \in DOMAIN conns' /\ conns'[d] = conns[d]
  <2>1. /\ backlog > 0 /\ phase[0] = "handle" /\ nextConnId_' = nextConnId_ + 1
        /\ DOMAIN conns' = 1 .. Len(conns) + 1 /\ \A d \in DOMAIN conns : conns'[d] = conns[d]
    BY AcceptProperties
  <2>2. QED
    BY <2>1, Facts DEF newConnection
<1>4. \A m \in Loop : active'[m] \subseteq active[m] /\ Acceptor \notin active'[0]
  BY Facts DEF handleRead, Handling, Inv, TypeOK
<1>5. TypeOK'
  <2>1. next_' \in Nat /\ (next_' = 0 \/ next_' < threads') /\ nextConnId_' \in Nat
    BY <1>2, <1>3, Facts DEF getNextLoop, NextAfter
  <2>2. backlog' \in 0 .. arrivals' /\ Len(conns') <= arrivals'
    BY <1>1, <1>2, <1>3, Facts
  <2>3. active' \in [Loop -> SUBSET (Conn \cup {Acceptor})]
    BY DEF handleRead, Handling, Inv, TypeOK
  <2>4. \A m \in Loop : batch'[m] <= Len(queue'[m])
    <3>1. \A m \in Loop : batch[m] \in Nat /\ batch[m] <= Len(queue[m]) /\ Len(queue[m]) \in Nat
      BY Facts DEF Inv, TypeOK
    <3>2. QED
      BY <1>1, <1>2, <3>1
  <2>5. QED
    BY <1>1, <1>2, <2>1, <2>2, <2>3, <2>4 DEF DataTyped, Queues, Inv, TypeOK, endVars
<1>6. Life'
  BY <1>2, <1>3 DEF Inv, Life, endVars
<1>7. Handled'
  <2>1. Len(conns') + backlog' <= arrivals'
    BY <1>1, <1>2, Facts
  <2>2. peerClosed' \subseteq DOMAIN conns'
    BY <1>2, <1>3 DEF Inv, Handled
  <2>3. \A m \in Loop : active'[m] # {} => phase'[m] = "handle"
    BY <1>2, <1>4 DEF Inv, Handled
  <2>4. \A m \in Loop : \A d \in active'[m] : d # Acceptor =>
          d \in DOMAIN conns' /\ conns'[d].loop = m /\ conns'[d].stage \in {"up", "closed"}
    BY <1>3, <1>4 DEF Inv, Handled
  <2>5. 0 \in Loop
    BY Facts
  <2>6. QED
    BY <1>4, <2>1, <2>2, <2>3, <2>4, <2>5 DEF Handled
<1>8. QED
  BY <1>1, <1>5, <1>6, <1>7 DEF Inv, Keeps

\* A step that works on connection c, if it leaves c in nobody's hands.
LEMMA WorkInv ==
  ASSUME Inv, NEW c, NEW stage, NEW lost, NEW n, NEW l, NEW task,
         Works(c, stage, lost, n, l, task), Right(c, stage, lost, n, l, task),
         UNCHANGED <<poolVars, netVars, phase, quit, server, joined>>,
         active' \in [Loop -> SUBSET (Conn \cup {Acceptor})],
         \A m \in Loop : active'[m] \subseteq active[m],
         \A m \in Loop : c \in active'[m] => stage \in {"up", "closed"},
         batch' \in [Loop -> Nat],
         \A m \in Loop : batch'[m] <= batch[m] /\ (m \in lost => batch'[m] < batch[m])
  PROVE  Inv'
<1>1. /\ Keeps /\ DataTyped /\ Len(conns') = Len(conns)
      /\ \A m \in Loop : Len(queue'[m]) \in Nat
      /\ \A m \in Loop : m \notin lost => Len(queue[m]) <= Len(queue'[m])
      /\ \A m \in Loop : Len(queue[m]) - 1 <= Len(queue'[m])
  BY WorkKeeps
<1>2. nextConnId_' = nextConnId_ /\ DOMAIN conns' = DOMAIN conns
      /\ \A d \in DOMAIN conns :
           /\ conns'[d].loop = conns[d].loop
           /\ conns'[d].stage = IF d = c THEN stage ELSE conns[d].stage
  BY DEF Works
<1>3. TypeOK'
  <2>1. \A m \in Loop : batch'[m] <= Len(queue'[m])
    <3> SUFFICES ASSUME NEW m \in Loop
                 PROVE  batch'[m] <= Len(queue'[m])
      OBVIOUS
    <3>1. /\ batch[m] \in Nat /\ batch'[m] \in Nat /\ batch[m] <= Len(queue[m])
          /\ Len(queue[m]) \in Nat /\ Len(queue'[m]) \in Nat
      BY <1>1, Facts DEF Inv, TypeOK
    <3>2. CASE m \in lost
      BY <1>1, <3>1, <3>2
    <3>3. CASE m \notin lost
      BY <1>1, <3>1, <3>3
    <3>4. QED
      BY <3>2, <3>3
  <2>2. QED
    BY <1>1, <1>2, <2>1 DEF DataTyped, Queues, Inv, TypeOK, poolVars, netVars
<1>4. Life'
  <2>1. phase[0] = "init" => conns' = <<>>
    <3>1. SUFFICES ASSUME conns = <<>>
                   PROVE  conns' = <<>>
      BY DEF Inv, Life
    <3>2. Len(conns') = 0 /\ conns' \in Seq(ConnType)
      BY <1>1, <3>1 DEF DataTyped
    <3>3. QED
      BY <3>2, EmptySeq
  <2>2. QED
    BY <2>1 DEF Inv, Life, poolVars
<1>5. Handled'
  <2>1. Len(conns') + backlog' <= arrivals' /\ peerClosed' \subseteq DOMAIN conns'
    BY <1>1, <1>2 DEF Inv, Handled, netVars
  <2>2. ASSUME NEW m \in Loop, NEW d \in active'[m], d # Acceptor
        PROVE  d \in DOMAIN conns' /\ conns'[d].loop = m /\ conns'[d].stage \in {"up", "closed"}
    <3>1. d \in DOMAIN conns /\ conns[d].loop = m /\ conns[d].stage \in {"up", "closed"}
      BY <2>2 DEF Inv, Handled
    <3>2. QED
      BY <1>2, <2>2, <3>1
  <2>3. 0 \in Loop
    BY Facts
  <2>4. QED
    BY <2>1, <2>2, <2>3 DEF Inv, Handled, netVars
<1>6. QED
  BY <1>1, <1>3, <1>4, <1>5 DEF Inv, Keeps

LEMMA CloseInv ==
  ASSUME Inv, NEW l \in Loop, NEW c \in Conn, handleClose(l, c)
  PROVE  Inv'
<1>1. PICK n, m, task : /\ Works(c, "closed", {}, n, m, task)
                        /\ Right(c, "closed", {}, n, m, task)
  BY CloseWorks
<1>2. /\ active' \in [Loop -> SUBSET (Conn \cup {Acceptor})]
      /\ \A k \in Loop : active'[k] \subseteq active[k]
  BY DEF handleClose, Handling, Inv, TypeOK
<1>3. batch' \in [Loop -> Nat] /\ \A k \in Loop : batch'[k] <= batch[k]
  BY DEF handleClose, Inv, TypeOK
<1>4. UNCHANGED <<poolVars, netVars, phase, quit, server, joined>>
  BY DEF handleClose, endVars
<1>5. QED
  BY <1>1, <1>2, <1>3, <1>4, WorkInv

LEMMA FunctorInv ==
  ASSUME Inv, NEW l \in Loop, RunFunctor(l)
  PROVE  Inv'
<1>1. PICK c, stage, n, m, task :
        /\ Works(c, stage, {l}, n, m, task) /\ Right(c, stage, {l}, n, m, task)
        /\ conns[c].loop = l \/ stage = conns[c].stage
  BY FunctorWorks
<1>2. phase[l] = "run" /\ batch[l] > 0 /\ batch' = [batch EXCEPT ![l] = @ - 1]
  BY DEF RunFunctor, Running
<1>3. UNCHANGED <<poolVars, netVars, phase, quit, active, server, joined>>
  BY DEF RunFunctor, endVars
<1>4. batch' \in [Loop -> Nat]
      /\ \A k \in Loop : batch'[k] <= batch[k] /\ (k \in {l} => batch'[k] < batch[k])
  BY <1>2 DEF Inv, TypeOK
<1>5. active[l] = {}
  BY <1>2 DEF Inv, Handled
<1>6. ASSUME NEW k \in Loop, c \in active'[k]
      PROVE  stage \in {"up", "closed"}
  <2>1. c \in active[k] /\ k # l /\ c # Acceptor
    BY <1>1, <1>3, <1>5, <1>6, Facts DEF Works, Acceptor
  <2>2. conns[c].loop = k /\ conns[c].stage \in {"up", "closed"}
    BY <2>1 DEF Inv, Handled
  <2>3. QED
    BY <1>1, <2>1, <2>2
<1>7. active' \in [Loop -> SUBSET (Conn \cup {Acceptor})]
      /\ \A k \in Loop : active'[k] \subseteq active[k]
  BY <1>3 DEF Inv, TypeOK
<1>8. QED
  BY <1>1, <1>3, <1>4, <1>6, <1>7, WorkInv

LEMMA ClearInv ==
  ASSUME Inv, NEW k \in DOMAIN connections_, ClearConnection(k)
  PROVE  Inv'
<1>1. PICK c, stage, n, m, task :
        /\ Works(c, stage, {}, n, m, task) /\ Right(c, stage, {}, n, m, task)
        /\ conns[c].loop = 0 \/ stage = conns[c].stage
  BY ClearWorks
<1>2. UNCHANGED <<poolVars, netVars, phase, quit, active, batch, server, joined>>
      /\ server = "clearing"
  BY DEF ClearConnection, endVars
<1>3. active[0] = {}
  BY <1>2, Facts DEF Inv, Handled, Life
<1>4. ASSUME NEW j \in Loop, c \in active'[j]
      PROVE  stage \in {"up", "closed"}
  <2>1. c \in active[j] /\ j # 0 /\ c # Acceptor
    BY <1>1, <1>2, <1>3, <1>4, Facts DEF Works, Acceptor
  <2>2. conns[c].loop = j /\ conns[c].stage \in {"up", "closed"}
    BY <2>1 DEF Inv, Handled
  <2>3. QED
    BY <1>1, <2>1, <2>2
<1>5. /\ batch' \in [Loop -> Nat] /\ \A j \in Loop : batch'[j] <= batch[j]
      /\ active' \in [Loop -> SUBSET (Conn \cup {Acceptor})]
      /\ \A j \in Loop : active'[j] \subseteq active[j]
  BY <1>2 DEF Inv, TypeOK
<1>6. QED
  BY <1>1, <1>2, <1>4, <1>5, WorkInv

LEMMA StutterInv == Inv /\ UNCHANGED vars => Inv'
<1> SUFFICES ASSUME Inv, UNCHANGED vars
             PROVE  Inv'
  OBVIOUS
<1> USE DEF vars, poolVars, connVars, netVars, loopVars, endVars
<1>1. Keeps /\ DataTyped
  BY QuietKeeps
<1>2. TypeOK' /\ Life' /\ Handled'
  BY DEF Inv, TypeOK, Life, Handled
<1>3. QED
  BY <1>1, <1>2 DEF Inv, Keeps

LEMMA NextInv == Inv /\ [Next]_vars => Inv'
<1> SUFFICES ASSUME Inv, [Next]_vars
             PROVE  Inv'
  OBVIOUS
<1>1. ASSUME NEW n \in 0 .. MaxThreads, setThreadNum(n)
      PROVE  Inv'
  BY <1>1, SetThreadNumInv
<1>2. CASE start \/ RunLoop \/ QuitLoop \/ Arrives
  BY <1>2, StartInv, RunLoopInv, QuitLoopInv, ArrivesInv
<1>3. ASSUME NEW c \in Conn, PeerCloses(c)
      PROVE  Inv'
  BY <1>3, PeerClosesInv
<1>4. ASSUME NEW l \in Loop, LoopStep(l)
      PROVE  Inv'
  <2>1. CASE EnterLoop(l) \/ TestQuit(l) \/ Poll(l) \/ Swap(l) \/ EndBatch(l)
    BY <2>1, EnterLoopInv, TestQuitInv, PollInv, SwapInv, EndBatchInv
  <2>2. CASE handleRead
    <3>1. newConnection \/ UNCHANGED <<next_, connVars, queue>>
      BY <2>2 DEF handleRead, Dropped
    <3>2. QED
      BY <2>2, <3>1, AcceptInv, DropInv
  <2>3. CASE AcceptFails
    BY <2>3, AcceptFailsInv
  <2>4. ASSUME NEW c \in Conn, handleClose(l, c)
        PROVE  Inv'
    BY <2>4, CloseInv
  <2>5. CASE RunFunctor(l)
    BY <2>5, FunctorInv
  <2>6. QED
    BY <1>4, <2>1, <2>2, <2>3, <2>4, <2>5 DEF LoopStep
<1>5. CASE DestroyServer
  BY <1>5, DestroyServerInv
<1>6. CASE Destructor
  <2>1. ASSUME NEW k \in DOMAIN connections_, ClearConnection(k)
        PROVE  Inv'
    BY <2>1, ClearInv
  <2>2. CASE QuitThread \/ JoinThread \/ ServerGone
    BY <2>2, QuitThreadInv, JoinThreadInv, ServerGoneInv
  <2>3. QED
    BY <1>6, <2>1, <2>2 DEF Destructor
<1>7. CASE UNCHANGED vars
  BY <1>7, StutterInv
<1>8. QED
  BY <1>1, <1>2, <1>3, <1>4, <1>5, <1>6, <1>7 DEF Next

LEMMA SpecInv == Spec => []Inv
  BY InitInv, NextInv, PTL DEF Spec

------------------------------------------------------------------------------
(***************************************************************************)
(* The theorems.                                                           *)
(***************************************************************************)

\* The server's state is what its types say: connections_ has connections that exist,
\* the index of the round robin stays in the pool, and a loop's batch is part of its
\* queue (TcpServer, EventLoopThreadPool, EventLoop::doPendingFunctors).
THEOREM TypeCorrect == Spec => []TypeOK
<1>1. Inv => TypeOK
  BY DEF Inv
<1>2. QED
  BY <1>1, SpecInv, PTL

\* Round robin is even, for any number of threads and connections, and whatever accept
\* drops (EventLoopThreadPool::getNextLoop).
THEOREM ShareIsEven == Spec => []EvenShare
<1>1. Inv => EvenShare
  BY DEF Inv
<1>2. QED
  BY <1>1, SpecInv, PTL

\* A removal that comes late or twice erases no other connection's entry
\* (TcpServer::newConnection, removeConnectionInLoop).
THEOREM OpenStaysListed == Spec => []OpenIsListed
<1>1. Inv => OpenIsListed
  BY DEF Inv
<1>2. QED
  BY <1>1, SpecInv, PTL

\* Between the map and the last functor a connection that a poller knows is never
\* without an owner while its loop runs (removeConnectionInLoop, ~TcpServer).
THEOREM RegisteredStaysAlive == Spec => []RegisteredIsAlive
<1>1. ASSUME Inv
      PROVE  RegisteredIsAlive
  <2> SUFFICES ASSUME NEW c \in DOMAIN conns, conns[c].stage \in {"up", "closed"},
                      phase[conns[c].loop] # "done"
               PROVE  Alive(c)
    BY DEF RegisteredIsAlive
  <2>1. conns[c].loop \in Loop
    BY <1>1, Facts
  <2>2. CASE \E n \in DOMAIN connections_ : connections_[n] = c
    BY <2>2 DEF Alive, Range
  <2>3. CASE \E i \in 1 .. Len(queue[conns[c].loop]) :
               queue[conns[c].loop][i] = Do("connectDestroyed", c)
    <3>1. PICK i \in 1 .. Len(queue[conns[c].loop]) :
            queue[conns[c].loop][i] = Do("connectDestroyed", c)
      BY <2>3
    <3>2. DOMAIN queue[conns[c].loop] = 1 .. Len(queue[conns[c].loop])
      BY <1>1, <2>1, Facts, LenProperties
    <3>3. Do("connectDestroyed", c) \in Range(queue[conns[c].loop])
      BY <3>1, <3>2 DEF Range
    <3>4. Do("connectDestroyed", c) \in Tasks
      BY <2>1, <3>3 DEF Tasks
    <3>5. Do("connectDestroyed", c).conn = c
      BY DEF Do
    <3>6. QED
      BY <3>4, <3>5 DEF Alive
  <2>4. QED
    BY <1>1, <2>2, <2>3 DEF Inv, Kept
<1>2. QED
  BY <1>1, SpecInv, PTL

\* No callback of a connection and no queued functor uses the server after ~TcpServer
\* has returned, for any number of threads (TcpServer::removeConnection and
\* removeConnectionInLoop, ~EventLoopThread).
THEOREM CallbacksStayValid == Spec => CallbacksFindServer
<1>1. ASSUME Inv, [Next]_vars, server = "gone"
      PROVE  UNCHANGED <<queue, connections_>>
  <2>1. \A l \in Loop : phase[l] \in {"init", "done"}
    <3> SUFFICES ASSUME NEW l \in Loop
                 PROVE  phase[l] \in {"init", "done"}
      OBVIOUS
    <3>1. joined = threads /\ threads \in Nat
      BY <1>1, Facts DEF Inv, Life
    <3>2. l = 0 \/ l \in 1 .. threads \/ l > threads
      BY <3>1, ServerAssumption DEF Loop
    <3>3. QED
      BY <1>1, <3>1, <3>2 DEF Inv, Life
  <2>2. 0 \in Loop
    BY <1>1, Facts
  <2>3. ASSUME NEW l \in Loop, LoopStep(l)
        PROVE  UNCHANGED <<queue, connections_>>
    <3>1. phase[l] \notin {"handle", "run"}
      BY <2>1
    <3>2. \A c : ~ handleClose(l, c)
      BY <3>1 DEF handleClose, Handling
    <3>3. ~ RunFunctor(l) /\ ~ (l = 0 /\ (handleRead \/ AcceptFails))
      BY <3>1 DEF RunFunctor, Running, handleRead, AcceptFails, Handling
    <3>4. EnterLoop(l) \/ TestQuit(l) \/ Poll(l) \/ Swap(l) \/ EndBatch(l)
      BY <2>3, <3>2, <3>3 DEF LoopStep
    <3>5. QED
      BY <3>4 DEF EnterLoop, TestQuit, Poll, Swap, EndBatch, connVars
  <2>4. CASE Destructor
    BY <1>1, <2>4 DEF Destructor, ClearConnection, QuitThread, JoinThread, ServerGone
  <2>5. CASE \/ \E n \in 0 .. MaxThreads : setThreadNum(n)
             \/ start \/ RunLoop \/ QuitLoop \/ Arrives \/ DestroyServer
             \/ \E c \in Conn : PeerCloses(c)
    BY <2>5 DEF setThreadNum, start, RunLoop, QuitLoop, Arrives, DestroyServer,
       PeerCloses,
                connVars, loopVars
  <2>6. CASE UNCHANGED vars
    BY <2>6 DEF vars, connVars, loopVars
  <2>7. QED
    BY <1>1, <2>3, <2>4, <2>5, <2>6 DEF Next
<1>2. Inv /\ [Next]_vars => [server = "gone" => UNCHANGED <<queue, connections_>>]_vars
  BY <1>1
<1>3. QED
  BY <1>2, SpecInv, PTL DEF Spec, CallbacksFindServer
==============================================================================
