---------------------- MODULE TcpConnectionCourseProofs ----------------------
(***************************************************************************)
(* Proofs about the course of a connection, from connectEstablished to its *)
(* removal: which calls may still come, which events the channel may still *)
(* report, and what the user has been told.  For any users and messages.   *)
(***************************************************************************)
EXTENDS TcpConnectionProofs

------------------------------------------------------------------------------
(***************************************************************************)
(* The inductive invariant.                                                *)
(***************************************************************************)

OpIn(items, ops) == \E i \in 1 .. Len(items) : items[i].op \in ops
Lacks(items, from) == \A i \in from .. Len(items) : items[i].op # "connectEstablished"

\* What the loop queues are functors, nothing else.
QueuesHoldFunctors ==
  /\ \A i \in 1 .. Len(pending) : pending[i].op \in Functor
  /\ \A i \in 1 .. Len(functors) : functors[i].op \in Functor

\* Which call can stand where in the loop thread's work, and in which phase.
InLine ==
  /\ phase = "poll" => work = <<>>
  /\ \A i \in 1 .. Len(work) :
       /\ work[i].op \in {"connectEstablished", "connectDestroyed", "sendInLoop",
                          "shutdownInLoop"} => Len(work) = 1
       /\ work[i].op \in {"message", "close"} => i = 1
       /\ work[i].op = "read" => i = 1 \/ (i = 2 /\ work[1].op = "error")
       /\ work[i].op = "remove" =>
            i = Len(work) /\ (i = 1 \/ (i = 2 /\ work[1].op = "connection"))
       /\ work[i].op \in {"close", "read", "write", "error", "closed"} => phase = "handle"
       /\ work[i].op \in {"connectDestroyed", "remove"} => phase = "run"

\* connectEstablished runs once, and before anything else the loop does for the
\* connection: it is the next thing to be run until it has been.
Once ==
  \/ /\ ups # 0
     /\ Lacks(work, 1) /\ Lacks(functors, next) /\ Lacks(pending, 1)
  \/ /\ ups = 0 /\ Len(work) = 1 /\ work[1].op = "connectEstablished"
     /\ Lacks(functors, next) /\ Lacks(pending, 1)
  \/ /\ ups = 0 /\ work = <<>> /\ phase = "run"
     /\ next <= Len(functors) /\ functors[next].op = "connectEstablished"
     /\ Lacks(functors, next + 1) /\ Lacks(pending, 1)
  \/ /\ ups = 0 /\ work = <<>> /\ phase # "run" /\ functors = <<>>
     /\ Len(pending) > 0 /\ pending[1].op = "connectEstablished" /\ Lacks(pending, 2)

\* Before that nobody has the connection.
Unborn ==
  ups = 0 =>
    /\ state_ = "kConnecting" /\ downs = 0 /\ channel_ = NewChannel /\ ~held
    /\ \A u \in User : call[u].op = "none"

\* state_ against what the user was told and what the poller knows.  While it is
\* kConnected the kernel does not know of OUT: the one registration was for reading.
Stated ==
  /\ ups # 0 => state_ # "kConnecting"
  /\ state_ = "kDisconnected" => downs # 0
  /\ state_ = "kConnected" =>
       /\ ups # 0 /\ downs = 0
       /\ channel_.registered /\ "OUT" \notin channel_.interest
       /\ ~OpIn(work, {"write"})
  /\ OpIn(work, {"remove"}) => downs # 0
  /\ NotRemovedInHandler
  /\ DownIsReported

\* The socket has been read to its end; the channel cannot report IN.
Drained == ~unread /\ peer # "open"
Deaf == ~channel_.registered \/ "IN" \notin channel_.interest

\* A down connection has no message to come: its socket has been read to the end, or
\* its channel does not report IN, or is removed before the next poll.
Silent ==
  /\ peer = "reset" => ~unread
  /\ OpIn(work, {"read"}) => unread \/ peer # "open"
  /\ OpIn(work, {"close"}) => Drained \/ Deaf
  /\ downs # 0 =>
       /\ "IN" \notin channel_.events
       /\ ~OpIn(work, {"message"})
       /\ Drained \/ (~OpIn(work, {"read"}) /\ (Deaf \/ OpIn(work, {"remove"})))

CourseInv ==
  Typed /\ QueuesHoldFunctors /\ InLine /\ Once /\ Unborn /\ Stated /\ Silent

------------------------------------------------------------------------------
(***************************************************************************)
(* The channel operators again: what the kernel is told.                   *)
(***************************************************************************)

\* With ADD for every update, a change reaches the kernel only from an unregistered
\* channel.
LEMMA UpdateTellsOnce ==
  ASSUME NEW c \in ChannelType, Consistent(c),
         NEW e \in SUBSET (KReadEvent \cup KWriteEvent)
  PROVE  LET d == UpdateChannel([c EXCEPT !.events = e])
         IN  /\ d.registered /\ d.mapped /\ d.events = e
             /\ d.interest = IF c.registered THEN c.interest ELSE e
<1> DEFINE b == [c EXCEPT !.events = e]
           a == [b EXCEPT !.mapped = @ \/ b.index = KNew, !.index = KAdded]
<1>1. /\ b \in ChannelType /\ b.events = e /\ b.index = c.index /\ b.mapped = c.mapped
      /\ b.registered = c.registered /\ b.interest = c.interest
  BY DEF ChannelType
<1> HIDE DEF b
<1>2. /\ a \in ChannelType /\ a.events = e /\ a.index = KAdded
      /\ a.registered = c.registered /\ a.interest = c.interest
  BY <1>1 DEF ChannelType
<1>3. a.mapped
  BY <1>1 DEF ChannelType, Consistent
<1>4. UpdateChannel(b) = EpollAdd(a)
  BY DEF UpdateChannel, TakesAddBranch, KDeleted
<1> HIDE DEF a
<1>5. CASE c.registered
  BY <1>2, <1>3, <1>4, <1>5 DEF EpollAdd, b
<1>6. CASE ~c.registered
  <2> DEFINE d == [a EXCEPT !.registered = TRUE, !.interest = a.events]
  <2>1. d.registered /\ d.mapped /\ d.events = e /\ d.interest = e
    BY <1>2, <1>3 DEF ChannelType
  <2>2. EpollAdd(a) = d
    BY <1>2, <1>6 DEF EpollAdd
  <2> HIDE DEF d
  <2>3. QED
    BY <1>4, <1>6, <2>1, <2>2 DEF b
<1>7. QED
  BY <1>5, <1>6

LEMMA KernelProperties ==
  ASSUME NEW c \in ChannelType, Consistent(c)
  PROVE  /\ \A d \in {EnableReading(c), EnableWriting(c), DisableWriting(c), DisableAll(c)} :
              /\ d.registered /\ d.mapped
              /\ c.registered => d.interest = c.interest
         /\ \A d \in {EnableWriting(c), DisableWriting(c), DisableAll(c)} :
              /\ "IN" \notin c.events => "IN" \notin d.events
              /\ "IN" \notin c.events /\ ~c.registered => "IN" \notin d.interest
         /\ "OUT" \notin c.events /\ ~c.registered =>
              "OUT" \notin EnableReading(c).interest
         /\ "IN" \notin DisableAll(c).events
         /\ ~c.registered => "IN" \notin DisableAll(c).interest
<1>1. c.events \in SUBSET (KReadEvent \cup KWriteEvent)
  BY DEF ChannelType
<1> USE DEF KReadEvent, KWriteEvent, KNoneEvent
<1>2. \A e \in SUBSET (KReadEvent \cup KWriteEvent) :
        LET d == UpdateChannel([c EXCEPT !.events = e])
        IN  /\ d.registered /\ d.mapped /\ d.events = e
            /\ d.interest = IF c.registered THEN c.interest ELSE e
  BY UpdateTellsOnce
<1>3. /\ EnableReading(c).registered /\ EnableReading(c).mapped
      /\ EnableReading(c).interest
           = IF c.registered THEN c.interest ELSE c.events \cup KReadEvent
  BY <1>1, <1>2 DEF EnableReading
<1>4. /\ EnableWriting(c).registered /\ EnableWriting(c).mapped
      /\ EnableWriting(c).events = c.events \cup KWriteEvent
      /\ EnableWriting(c).interest
           = IF c.registered THEN c.interest ELSE c.events \cup KWriteEvent
  BY <1>1, <1>2 DEF EnableWriting
<1>5. /\ DisableWriting(c).registered /\ DisableWriting(c).mapped
      /\ DisableWriting(c).events = c.events \ KWriteEvent
      /\ DisableWriting(c).interest
           = IF c.registered THEN c.interest ELSE c.events \ KWriteEvent
  BY <1>1, <1>2 DEF DisableWriting
<1>6. /\ DisableAll(c).registered /\ DisableAll(c).mapped
      /\ DisableAll(c).events = KNoneEvent
      /\ DisableAll(c).interest = IF c.registered THEN c.interest ELSE KNoneEvent
  BY <1>2 DEF DisableAll
<1>7. QED
  BY <1>3, <1>4, <1>5, <1>6

LEMMA RemovedProperties ==
  ASSUME NEW c \in ChannelType, Consistent(c)
  PROVE  /\ ~RemoveChannel(c).registered /\ ~RemoveChannel(c).mapped
         /\ RemoveChannel(c).events = c.events
<1>1. RemoveChannel(c) \in ChannelType /\ Consistent(RemoveChannel(c))
      /\ RemoveChannel(c).events = c.events
  BY RemoveProperties
<1>2. RemoveChannel(c).index = KNew
  BY DEF RemoveChannel, EpollDel, ChannelType
<1>3. QED
  BY <1>1, <1>2 DEF Consistent, KNew, KAdded

------------------------------------------------------------------------------
(***************************************************************************)
(* The loop thread's work.                                                 *)
(***************************************************************************)
LEMMA AtFirst ==
  ASSUME work \in Seq(Item), NEW op, At(op)
  PROVE  Len(work) \in Nat \ {0} /\ work[1].op = op
<1>1. work # <<>> /\ Len(work) \in Nat /\ Len(work) # 0
  BY LenProperties, EmptySeq DEF At
<1>2. Head(work) = work[1]
  BY <1>1, HeadTailProperties
<1>3. QED
  BY <1>1, <1>2 DEF At

\* The call at the head is done with, and none, one or two calls take its place.
LEMMA ThenNone ==
  ASSUME work \in Seq(Item), work # <<>>, Then(<<>>)
  PROVE  /\ work' \in Seq(Item) /\ Len(work) \in Nat \ {0} /\ Len(work') = Len(work) - 1
         /\ \A i \in 1 .. Len(work') : work'[i] = work[i + 1]
<1>1. Tail(work) \in Seq(Item) /\ Len(Tail(work)) = Len(work) - 1 /\ Len(work) \in Nat \ {0}
  BY HeadTailProperties, LenProperties, EmptySeq
<1>2. \A i \in 1 .. Len(work) - 1 : Tail(work)[i] = work[i + 1]
  BY HeadTailProperties
<1>3. DoAll(<<>>) = <<>>
  BY DEF DoAll
<1>4. work' = Tail(work)
  BY <1>1, <1>3, ConcatEmptySeq DEF Then
<1>5. QED
  BY <1>1, <1>2, <1>4

LEMMA ThenOne ==
  ASSUME work \in Seq(Item), work # <<>>, NEW a \in Op, Then(<<a>>)
  PROVE  /\ work' \in Seq(Item) /\ Len(work) \in Nat \ {0} /\ Len(work') = Len(work)
         /\ work'[1].op = a
         /\ \A i \in 2 .. Len(work') : work'[i] = work[i]
<1>1. Tail(work) \in Seq(Item) /\ Len(Tail(work)) = Len(work) - 1 /\ Len(work) \in Nat \ {0}
  BY HeadTailProperties, LenProperties, EmptySeq
<1>2. \A i \in 1 .. Len(work) - 1 : Tail(work)[i] = work[i + 1]
  BY HeadTailProperties
<1>3. DoAll(<<a>>) \in Seq(Item) /\ Len(DoAll(<<a>>)) = 1 /\ DoAll(<<a>>)[1] = Do(a)
  <2>1. <<a>> \in Seq(Op)
    OBVIOUS
  <2>2. DoAll(<<a>>) \in Seq(Item)
    BY <2>1, DoAllType
  <2>3. DoAll(<<a>>) = [i \in 1 .. 1 |-> Do(a)]
    BY DEF DoAll
  <2>4. QED
    BY <2>2, <2>3, LenProperties
<1> DEFINE new == DoAll(<<a>>)
<1>4. work' = new \o Tail(work) /\ new \in Seq(Item)
  BY <1>3 DEF Then
<1> HIDE DEF new
<1>9. /\ work' \in Seq(Item) /\ Len(work') = Len(new) + Len(Tail(work))
      /\ \A i \in 1 .. Len(new) + Len(Tail(work)) :
           work'[i] = IF i <= Len(new) THEN new[i] ELSE Tail(work)[i - Len(new)]
  BY <1>1, <1>4, ConcatProperties
<1>5. /\ work' \in Seq(Item) /\ Len(work') = 1 + (Len(work) - 1)
      /\ \A i \in 1 .. 1 + (Len(work) - 1) :
           work'[i] = IF i <= 1 THEN DoAll(<<a>>)[i] ELSE Tail(work)[i - 1]
  BY <1>1, <1>3, <1>9 DEF new
<1>6. work'[1] = Do(a)
  BY <1>1, <1>3, <1>5
<1>7. ASSUME NEW i \in 2 .. Len(work')
      PROVE  work'[i] = work[i]
  <2>1. i - 1 \in 1 .. Len(work) - 1 /\ (i - 1) + 1 = i
    BY <1>1, <1>5
  <2>2. Tail(work)[i - 1] = work[i]
    BY <1>2, <2>1
  <2>3. QED
    BY <1>1, <1>5, <2>2
<1>8. QED
  BY <1>1, <1>5, <1>6, <1>7 DEF Do

LEMMA ThenTwo ==
  ASSUME work \in Seq(Item), work # <<>>, NEW a \in Op, NEW b \in Op, Then(<<a, b>>)
  PROVE  /\ work' \in Seq(Item) /\ Len(work) \in Nat \ {0} /\ Len(work') = Len(work) + 1
         /\ work'[1].op = a /\ work'[2].op = b
         /\ \A i \in 3 .. Len(work') : work'[i] = work[i - 1]
<1>1. Tail(work) \in Seq(Item) /\ Len(Tail(work)) = Len(work) - 1 /\ Len(work) \in Nat \ {0}
  BY HeadTailProperties, LenProperties, EmptySeq
<1>2. \A i \in 1 .. Len(work) - 1 : Tail(work)[i] = work[i + 1]
  BY HeadTailProperties
<1> DEFINE new == DoAll(<<a, b>>)
<1>3. new \in Seq(Item) /\ Len(new) = 2 /\ new[1] = Do(a) /\ new[2] = Do(b)
  <2>1. <<a, b>> \in Seq(Op)
    OBVIOUS
  <2>2. new \in Seq(Item)
    BY <2>1, DoAllType
  <2>3. new = [i \in 1 .. 2 |-> Do(<<a, b>>[i])]
    BY DEF DoAll
  <2>4. QED
    BY <2>2, <2>3, LenProperties
<1>4. work' = new \o Tail(work)
  BY DEF Then
<1> HIDE DEF new
<1>9. /\ work' \in Seq(Item) /\ Len(work') = Len(new) + Len(Tail(work))
      /\ \A i \in 1 .. Len(new) + Len(Tail(work)) :
           work'[i] = IF i <= Len(new) THEN new[i] ELSE Tail(work)[i - Len(new)]
  BY <1>1, <1>3, <1>4, ConcatProperties
<1>5. /\ work' \in Seq(Item) /\ Len(work') = 2 + (Len(work) - 1)
      /\ \A i \in 1 .. 2 + (Len(work) - 1) :
           work'[i] = IF i <= 2 THEN new[i] ELSE Tail(work)[i - 2]
  BY <1>1, <1>3, <1>9
<1>6. work'[1] = Do(a) /\ work'[2] = Do(b)
  BY <1>1, <1>3, <1>5
<1>7. ASSUME NEW i \in 3 .. Len(work')
      PROVE  work'[i] = work[i - 1]
  <2>1. i - 2 \in 1 .. Len(work) - 1 /\ (i - 2) + 1 = i - 1
    BY <1>1, <1>5
  <2>2. Tail(work)[i - 2] = work[i - 1]
    BY <1>2, <2>1
  <2>3. QED
    BY <1>1, <1>5, <2>2
<1>8. QED
  BY <1>1, <1>5, <1>6, <1>7 DEF Do

\* The same of the calls that stand anywhere in the work.
Behind(ops) == \E i \in 2 .. Len(work) : work[i].op \in ops

LEMMA OpsNow ==
  ASSUME work \in Seq(Item), work # <<>>
  PROVE  \A ops : OpIn(work, ops) <=> Head(work).op \in ops \/ Behind(ops)
<1>1. Len(work) \in Nat \ {0} /\ Head(work) = work[1]
  BY HeadTailProperties, LenProperties, EmptySeq
<1>2. \A i \in 1 .. Len(work) : i = 1 \/ i \in 2 .. Len(work)
  BY <1>1
<1>3. 1 \in 1 .. Len(work) /\ \A i \in 2 .. Len(work) : i \in 1 .. Len(work)
  BY <1>1
<1>4. QED
  BY <1>1, <1>2, <1>3 DEF OpIn, Behind

LEMMA OpsNone ==
  ASSUME work \in Seq(Item), work # <<>>, Then(<<>>)
  PROVE  \A ops : OpIn(work', ops) <=> Behind(ops)
<1>1. /\ Len(work) \in Nat \ {0} /\ Len(work') = Len(work) - 1
      /\ \A i \in 1 .. Len(work') : work'[i] = work[i + 1]
  BY ThenNone
<1>2. \A i \in 1 .. Len(work') : i + 1 \in 2 .. Len(work)
  BY <1>1
<1>3. \A i \in 2 .. Len(work) : i - 1 \in 1 .. Len(work') /\ (i - 1) + 1 = i
  BY <1>1
<1>4. \A i \in 2 .. Len(work) : work'[i - 1] = work[i]
  BY <1>1, <1>3
<1>5. QED
  BY <1>1, <1>2, <1>3, <1>4 DEF OpIn, Behind

LEMMA OpsOne ==
  ASSUME work \in Seq(Item), work # <<>>, NEW a \in Op, Then(<<a>>)
  PROVE  \A ops : OpIn(work', ops) <=> a \in ops \/ Behind(ops)
<1>1. /\ Len(work) \in Nat \ {0} /\ Len(work') = Len(work) /\ work'[1].op = a
      /\ \A i \in 2 .. Len(work') : work'[i] = work[i]
  BY ThenOne
<1>2. \A i \in 1 .. Len(work') : i = 1 \/ i \in 2 .. Len(work')
  BY <1>1
<1>3. 1 \in 1 .. Len(work') /\ \A i \in 2 .. Len(work) : i \in 1 .. Len(work')
  BY <1>1
<1>4. QED
  BY <1>1, <1>2, <1>3 DEF OpIn, Behind

LEMMA OpsTwo ==
  ASSUME work \in Seq(Item), work # <<>>, NEW a \in Op, NEW b \in Op, Then(<<a, b>>)
  PROVE  \A ops : OpIn(work', ops) <=> a \in ops \/ b \in ops \/ Behind(ops)
<1>1. /\ Len(work) \in Nat \ {0} /\ Len(work') = Len(work) + 1
      /\ work'[1].op = a /\ work'[2].op = b
      /\ \A i \in 3 .. Len(work') : work'[i] = work[i - 1]
  BY ThenTwo
<1>2. \A i \in 1 .. Len(work') : i \in {1, 2} \/ (i \in 3 .. Len(work') /\ i - 1 \in 2 .. Len(work))
  BY <1>1
<1>3. /\ 1 \in 1 .. Len(work') /\ 2 \in 1 .. Len(work')
      /\ \A i \in 2 .. Len(work) : i + 1 \in 3 .. Len(work') /\ i + 1 \in 1 .. Len(work')
                                 /\ (i + 1) - 1 = i
  BY <1>1
<1>4. \A i \in 2 .. Len(work) : work'[i + 1] = work[i]
  BY <1>1, <1>3
<1>5. QED
  BY <1>1, <1>2, <1>3, <1>4 DEF OpIn, Behind

\* The callbacks an event leads to, and what each of them says of the event.
LEMMA EventCalls ==
  ASSUME NEW revents, "PRI" \notin revents
  PROVE  LET calls == HandleEvent(revents)
         IN  /\ revents = {} => calls = <<>>
             /\ \A i \in 1 .. Len(calls) :
                  /\ calls[i] \in {"close", "error", "read", "write"}
                  /\ calls[i] = "close" => i = 1 /\ "HUP" \in revents /\ "IN" \notin revents
                  /\ calls[i] = "read" => /\ revents \cap KReadEvent # {}
                                          /\ i = 1 \/ (i = 2 /\ calls[1] = "error")
                  /\ calls[i] = "write" => "OUT" \in revents
<1> DEFINE c == Calls("close", "HUP" \in revents /\ "IN" \notin revents)
           e == Calls("error", revents # {})
           r == Calls("read", revents \cap KReadEvent # {})
           w == Calls("write", "OUT" \in revents)
<1>1. \A op \in Op : <<op>> \in Seq(Op) /\ Len(<<op>>) = 1 /\ <<op>>[1] = op
  OBVIOUS
<1>2. {"close", "error", "read", "write"} \subseteq Op /\ <<>> \in Seq(Op) /\ Len(<<>>) = 0
  BY EmptySeq DEF Op
<1>3. /\ c \in Seq(Op) /\ Len(c) \in {0, 1}
      /\ Len(c) = 1 => c[1] = "close" /\ "HUP" \in revents /\ "IN" \notin revents
      /\ revents = {} => Len(c) = 0
  BY <1>1, <1>2 DEF Calls
<1>4. /\ e \in Seq(Op) /\ Len(e) \in {0, 1}
      /\ Len(e) = 1 => e[1] = "error"
      /\ revents = {} <=> Len(e) = 0
  BY <1>1, <1>2 DEF Calls
<1>5. /\ r \in Seq(Op) /\ Len(r) \in {0, 1}
      /\ Len(r) = 1 => r[1] = "read" /\ revents \cap KReadEvent # {}
      /\ revents = {} => Len(r) = 0
  BY <1>1, <1>2 DEF Calls
<1>6. /\ w \in Seq(Op) /\ Len(w) \in {0, 1}
      /\ Len(w) = 1 => w[1] = "write" /\ "OUT" \in revents
      /\ revents = {} => Len(w) = 0
  BY <1>1, <1>2 DEF Calls
<1>7. Len(c) = 1 => Len(r) = 0 \/ "PRI" \in revents
  BY <1>2, <1>3, <1>5 DEF Calls, KReadEvent
<1> DEFINE ce == c \o e
           cer == ce \o r
           all == cer \o w
<1>8. HandleEvent(revents) = all
  BY DEF HandleEvent
<1> HIDE DEF c, e, r, w
<1>9. /\ ce \in Seq(Op) /\ Len(ce) = Len(c) + Len(e)
      /\ \A i \in 1 .. Len(c) + Len(e) : ce[i] = IF i <= Len(c) THEN c[i] ELSE e[i - Len(c)]
  BY <1>3, <1>4, ConcatProperties
<1> HIDE DEF ce
<1>10. /\ cer \in Seq(Op) /\ Len(cer) = Len(ce) + Len(r)
       /\ \A i \in 1 .. Len(ce) + Len(r) :
            cer[i] = IF i <= Len(ce) THEN ce[i] ELSE r[i - Len(ce)]
  BY <1>5, <1>9, ConcatProperties
<1> HIDE DEF cer
<1>11. /\ all \in Seq(Op) /\ Len(all) = Len(cer) + Len(w)
       /\ \A i \in 1 .. Len(cer) + Len(w) :
            all[i] = IF i <= Len(cer) THEN cer[i] ELSE w[i - Len(cer)]
  BY <1>6, <1>10, ConcatProperties
<1> HIDE DEF all
<1>12. \A i \in 1 .. Len(ce) :
        \/ i = 1 /\ Len(c) = 1 /\ ce[i] = "close"
        \/ i = Len(c) + 1 /\ Len(e) = 1 /\ ce[i] = "error"
  BY <1>3, <1>4, <1>9
<1>13. \A i \in 1 .. Len(cer) :
        \/ i <= Len(ce) /\ cer[i] = ce[i]
        \/ i = Len(ce) + 1 /\ Len(r) = 1 /\ cer[i] = "read"
  BY <1>3, <1>4, <1>5, <1>9, <1>10
<1>14. \A i \in 1 .. Len(all) :
        \/ i <= Len(cer) /\ all[i] = cer[i]
        \/ i = Len(cer) + 1 /\ Len(w) = 1 /\ all[i] = "write"
  <2> TAKE i \in 1 .. Len(all)
  <2>1. /\ Len(cer) \in Nat /\ Len(all) = Len(cer) + Len(w) /\ Len(w) \in {0, 1}
        /\ i \in Nat /\ i <= Len(cer) + Len(w)
    BY <1>3, <1>4, <1>5, <1>6, <1>9, <1>10, <1>11
  <2>2. all[i] = IF i <= Len(cer) THEN cer[i] ELSE w[i - Len(cer)]
    BY <1>11, <2>1
  <2>3. i <= Len(cer) \/ (i = Len(cer) + 1 /\ Len(w) = 1)
    <3>1. CASE Len(w) = 0
      BY <2>1, <3>1
    <3>2. CASE Len(w) = 1
      BY <2>1, <3>2
    <3>3. QED
      BY <2>1, <3>1, <3>2
  <2>4. i = Len(cer) + 1 => ~(i <= Len(cer)) /\ i - Len(cer) = 1
    BY <2>1
  <2>5. QED
    BY <1>6, <2>2, <2>3, <2>4
<1>15. \A i \in 1 .. Len(all) :
        \/ i = 1 /\ Len(c) = 1 /\ all[i] = "close"
        \/ i = Len(c) + 1 /\ Len(e) = 1 /\ all[i] = "error"
        \/ i = Len(c) + Len(e) + 1 /\ Len(r) = 1 /\ all[i] = "read"
        \/ Len(w) = 1 /\ all[i] = "write"
  <2> TAKE i \in 1 .. Len(all)
  <2>1. /\ Len(c) \in Nat /\ Len(e) \in Nat /\ Len(r) \in Nat
        /\ Len(ce) = Len(c) + Len(e) /\ Len(cer) = Len(ce) + Len(r) /\ i \in Nat \ {0}
    BY <1>3, <1>4, <1>5, <1>9, <1>10
  <2>2. CASE i = Len(cer) + 1 /\ Len(w) = 1 /\ all[i] = "write"
    BY <2>2
  <2>3. CASE i <= Len(cer) /\ all[i] = cer[i]
    <3>1. i \in 1 .. Len(cer)
      BY <2>1, <2>3
    <3>2. CASE i = Len(ce) + 1 /\ Len(r) = 1 /\ cer[i] = "read"
      BY <2>1, <2>3, <3>2
    <3>3. CASE i <= Len(ce) /\ cer[i] = ce[i]
      <4>1. i \in 1 .. Len(ce)
        BY <2>1, <3>3
      <4>2. QED
        BY <1>12, <2>3, <3>3, <4>1
    <3>4. QED
      BY <1>13, <3>1, <3>2, <3>3
  <2>4. QED
    BY <1>14, <2>2, <2>3
<1>16. revents = {} => Len(all) = 0
  BY <1>3, <1>4, <1>5, <1>6, <1>9, <1>10, <1>11
<1>17. revents = {} => all = <<>>
  BY <1>11, <1>16, EmptySeq
<1>18. Len(r) = 1 => Len(e) = 1
  BY <1>3, <1>4, <1>5
<1>19. Len(e) = 1 /\ Len(c) = 0 /\ 1 \in 1 .. Len(all) => all[1] = "error"
  BY <1>3, <1>4, <1>5, <1>6, <1>9, <1>10, <1>11
<1>20. ASSUME NEW i \in 1 .. Len(all)
       PROVE  /\ all[i] \in {"close", "error", "read", "write"}
              /\ all[i] = "close" => i = 1 /\ "HUP" \in revents /\ "IN" \notin revents
              /\ all[i] = "write" => "OUT" \in revents
              /\ all[i] = "read" => revents \cap KReadEvent # {}
  BY <1>3, <1>5, <1>6, <1>15
<1>21. ASSUME NEW i \in 1 .. Len(all), all[i] = "read"
       PROVE  i = 1 \/ (i = 2 /\ all[1] = "error")
  <2>1. i = Len(c) + Len(e) + 1 /\ Len(r) = 1
    BY <1>15, <1>21
  <2>2. Len(e) = 1 /\ Len(c) = 0
    BY <1>3, <1>7, <1>18, <2>1
  <2>3. i = 2 /\ 1 \in 1 .. Len(all)
    BY <1>11, <2>1, <2>2
  <2>4. QED
    BY <1>19, <2>2, <2>3
<1>22. QED
  BY <1>8, <1>17, <1>20, <1>21

\* What the loop thread is to call after a poll.
LEMMA PollCalls ==
  ASSUME Typed, NEW writable \in BOOLEAN, Poll(writable)
  PROVE  /\ work' \in Seq(Item)
         /\ ~channel_.registered => work' = <<>>
         /\ \A i \in 1 .. Len(work') :
              /\ work'[i].op \in {"close", "error", "read", "write"}
              /\ work'[i].op = "close" => i = 1 /\ Deaf
              /\ work'[i].op = "read" => /\ i = 1 \/ (i = 2 /\ work'[1].op = "error")
                                         /\ unread \/ peer # "open"
                                         /\ ~Deaf
              /\ work'[i].op = "write" => "OUT" \in channel_.interest
<1> DEFINE revents == IF channel_.registered /\ Alive THEN Revents(writable) ELSE {}
<1>1. work' = DoAll(HandleEvent(revents))
  BY DEF Poll
<1>2. revents \subseteq Revents(writable)
  OBVIOUS
<1>3. /\ "PRI" \notin Revents(writable)
      /\ "IN" \in Revents(writable) <=> Readable /\ "IN" \in channel_.interest
      /\ "OUT" \in Revents(writable) => "OUT" \in channel_.interest
      /\ "HUP" \in Revents(writable) => peer # "open"
  BY DEF Revents
<1>4. revents # {} => channel_.registered /\ revents = Revents(writable)
  OBVIOUS
<1> HIDE DEF revents
<1> DEFINE calls == HandleEvent(revents)
<1>5. /\ revents = {} => calls = <<>>
      /\ \A i \in 1 .. Len(calls) :
           /\ calls[i] \in {"close", "error", "read", "write"}
           /\ calls[i] = "close" => i = 1 /\ "HUP" \in revents /\ "IN" \notin revents
           /\ calls[i] = "read" => /\ revents \cap KReadEvent # {}
                                   /\ i = 1 \/ (i = 2 /\ calls[1] = "error")
           /\ calls[i] = "write" => "OUT" \in revents
  BY <1>2, <1>3, EventCalls
<1>6. calls \in Seq(Op)
  BY CallsType
<1> HIDE DEF calls
<1>7. /\ work' \in Seq(Item) /\ Len(work') = Len(calls)
      /\ \A i \in 1 .. Len(calls) : work'[i].op = calls[i]
  <2>1. work' = [i \in 1 .. Len(calls) |-> Do(calls[i])] /\ Len(calls) \in Nat
    BY <1>1, <1>6, LenProperties DEF DoAll, calls
  <2>2. work' \in Seq(Item)
    BY <1>1, <1>6, DoAllType DEF calls
  <2>3. Len(work') = Len(calls)
    BY <2>1, <2>2, LenProperties
  <2>4. QED
    BY <2>1, <2>2, <2>3 DEF Do
<1>8. revents = {} => work' = <<>>
  BY <1>5, <1>6, <1>7, EmptySeq
<1>9. ASSUME NEW i \in 1 .. Len(work')
      PROVE  /\ work'[i].op \in {"close", "error", "read", "write"}
             /\ work'[i].op = "close" => i = 1 /\ Deaf
             /\ work'[i].op = "write" => "OUT" \in channel_.interest
  <2>1. CASE revents = {}
    BY <1>8, <1>9, <2>1, EmptySeq
  <2>2. CASE revents # {}
    <3>1. work'[i].op = calls[i] /\ i \in 1 .. Len(calls)
      BY <1>7, <1>9
    <3>2. calls[i] = "close" => i = 1 /\ "IN" \notin channel_.interest
      BY <1>3, <1>4, <1>5, <2>2, <3>1 DEF Readable
    <3>3. QED
      BY <1>3, <1>4, <1>5, <2>2, <3>1, <3>2 DEF Deaf
  <2>3. QED
    BY <2>1, <2>2
<1>10. ASSUME NEW i \in 1 .. Len(work'), work'[i].op = "read"
       PROVE  /\ i = 1 \/ (i = 2 /\ work'[1].op = "error")
              /\ unread \/ peer # "open"
              /\ ~Deaf
  <2>1. i \in 1 .. Len(calls) /\ calls[i] = "read" /\ Len(calls) \in Nat
    BY <1>6, <1>7, <1>10, LenProperties
  <2>2. i = 1 \/ (i = 2 /\ calls[1] = "error")
    BY <1>5, <2>1
  <2>3. i = 2 => 1 \in 1 .. Len(calls)
    BY <2>1
  <2>4. revents \cap KReadEvent # {}
    BY <1>5, <2>1
  <2>5. "IN" \in Revents(writable) /\ channel_.registered
    BY <1>2, <1>3, <1>4, <2>4 DEF KReadEvent
  <2>6. QED
    BY <1>3, <1>7, <2>2, <2>3, <2>5 DEF Deaf, Readable
<1>11. QED
  BY <1>4, <1>7, <1>8, <1>9, <1>10

------------------------------------------------------------------------------
(***************************************************************************)
(* The queue grows at its end.                                             *)
(***************************************************************************)
MorePending(ops) ==
  /\ Len(pending) <= Len(pending')
  /\ \A i \in 1 .. Len(pending) : pending'[i] = pending[i]
  /\ \A i \in Len(pending) + 1 .. Len(pending') : pending'[i].op \in ops

LEMMA SamePending ==
  ASSUME pending \in Seq(Item), pending' = pending
  PROVE  MorePending({})
<1>1. Len(pending) \in Nat
  BY LenProperties
<1>2. QED
  BY <1>1 DEF MorePending

LEMMA ConcatPending ==
  ASSUME pending \in Seq(Item), NEW extra \in Seq(Item), NEW ops,
         \A i \in 1 .. Len(extra) : extra[i].op \in ops,
         pending' = pending \o extra
  PROVE  MorePending(ops)
<1>1. Len(pending) \in Nat /\ Len(extra) \in Nat
  BY LenProperties
<1>2. /\ Len(pending') = Len(pending) + Len(extra)
      /\ \A i \in 1 .. Len(pending) + Len(extra) :
           pending'[i] = IF i <= Len(pending) THEN pending[i] ELSE extra[i - Len(pending)]
  BY ConcatProperties
<1>3. \A i \in 1 .. Len(pending) : pending'[i] = pending[i]
  BY <1>1, <1>2
<1>4. ASSUME NEW i \in Len(pending) + 1 .. Len(pending')
      PROVE  pending'[i].op \in ops
  <2>1. i - Len(pending) \in 1 .. Len(extra) /\ i \in 1 .. Len(pending) + Len(extra)
        /\ ~(i <= Len(pending))
    BY <1>1, <1>2
  <2>2. QED
    BY <1>2, <2>1
<1>5. QED
  BY <1>1, <1>2, <1>3, <1>4 DEF MorePending

LEMMA AppendPending ==
  ASSUME pending \in Seq(Item), NEW item \in Item, pending' = Append(pending, item)
  PROVE  MorePending({item.op})
<1>1. pending' = pending \o <<item>> /\ <<item>> \in Seq(Item)
  BY AppendIsConcat
<1>2. \A i \in 1 .. Len(<<item>>) : <<item>>[i].op \in {item.op}
  OBVIOUS
<1>3. QED
  BY <1>1, <1>2, ConcatPending

\* sendInLoop, whoever calls it.
LEMMA SendEffect ==
  ASSUME Typed, NEW data \in Seq(Byte), SendInLoop(data)
  PROVE  /\ channel_' \in {channel_, EnableWriting(channel_)}
         /\ MorePending({"writeComplete", "highWaterMark"})
<1>1. pending \in Seq(Item)
  BY DEF Typed, TypeOK
<1>2. CASE state_ = "kDisconnected" \/ (WritesDirectly /\ Broken)
  BY <1>1, <1>2, SamePending DEF SendInLoop, MorePending
<1>3. CASE ~(state_ = "kDisconnected" \/ (WritesDirectly /\ Broken))
  <2>1. PICK n \in 0 .. (IF WritesDirectly THEN Len(data) ELSE 0) :
          LET remaining == Remaining(data, n)
              old == Len(outputBuffer_)
          IN  /\ channel_' = IF remaining # <<>> /\ ~IsWriting(channel_)
                             THEN EnableWriting(channel_) ELSE channel_
              /\ pending' = pending
                   \o Completion(remaining = <<>>)
                   \o (IF remaining # <<>> /\ Crosses(old, old + Len(remaining))
                       THEN <<Do("highWaterMark")>> ELSE <<>>)
    BY <1>3 DEF SendInLoop
  <2>2. \A op \in {"writeComplete", "highWaterMark"} :
          /\ <<Do(op)>> \in Seq(Item)
          /\ Len(<<Do(op)>>) = 1 /\ <<Do(op)>>[1].op = op
    BY DoType DEF Op, Functor, Do
  <2>3. PICK a \in Seq(Item), b \in Seq(Item) :
          /\ pending' = (pending \o a) \o b
          /\ Len(a) \in {0, 1} /\ (Len(a) = 1 => a[1].op = "writeComplete")
          /\ Len(b) \in {0, 1} /\ (Len(b) = 1 => b[1].op = "highWaterMark")
    BY <2>1, <2>2, EmptySeq DEF Completion
  <2>4. /\ a \o b \in Seq(Item) /\ Len(a \o b) = Len(a) + Len(b)
        /\ \A i \in 1 .. Len(a) + Len(b) :
             (a \o b)[i] = IF i <= Len(a) THEN a[i] ELSE b[i - Len(a)]
    BY ConcatProperties
  <2>5. ASSUME NEW i \in 1 .. Len(a \o b)
        PROVE  (a \o b)[i].op \in {"writeComplete", "highWaterMark"}
    <3>1. CASE Len(a) = 0
      BY <2>3, <2>4, <3>1
    <3>2. CASE Len(a) = 1
      BY <2>3, <2>4, <3>2
    <3>3. QED
      BY <2>3, <3>1, <3>2
  <2>6. pending' = pending \o (a \o b)
    BY <1>1, <2>3, ConcatAssociative
  <2>7. MorePending({"writeComplete", "highWaterMark"})
    BY <1>1, <2>4, <2>5, <2>6, ConcatPending
  <2>8. QED
    BY <2>1, <2>7
<1>4. QED
  BY <1>2, <1>3

\* What is queued for the loop after connectEstablished; the raw functors by users.
Told == {"writeComplete", "highWaterMark"}
Later == Told \cup {"connectDestroyed"}

LEMMA MoreAllowed ==
  ASSUME NEW few, NEW many, few \subseteq many, MorePending(few)
  PROVE  MorePending(many)
  BY DEF MorePending

LEMMA PendingGrows ==
  ASSUME Typed, Next
  PROVE  \/ SwapPending
         \/ MorePending(Told)
         \/ MorePending(Later) /\ ~inMap'
         \/ (\E u \in User : UserStep(u)) /\ MorePending(RawFunctor)
<1>1. pending \in Seq(Item) /\ \A op \in Op : Do(op) \in Item /\ Do(op).op = op
  BY DoType DEF Typed, TypeOK, Do
<1>2. pending' = pending => MorePending(Told)
  BY <1>1, SamePending, MoreAllowed
<1>3. pending' = Append(pending, Do("connectDestroyed")) => MorePending(Later)
  <2>1. "connectDestroyed" \in Op /\ {"connectDestroyed"} \subseteq Later
    BY DEF Op, Functor, Later
  <2>2. ASSUME pending' = Append(pending, Do("connectDestroyed"))
        PROVE  MorePending({"connectDestroyed"})
    <3>1. MorePending({Do("connectDestroyed").op})
      BY <1>1, <2>1, <2>2, AppendPending
    <3>2. QED
      BY <1>1, <2>1, <3>1
  <2>3. QED
    BY <2>1, <2>2, MoreAllowed
<1>4. CASE removeConnection \/ MainLoopRemoves \/ ServerDestroyed
  BY <1>2, <1>3, <1>4 DEF removeConnection, MainLoopRemoves, ServerDestroyed,
                          removeConnectionInLoop
<1>5. ASSUME NEW data \in Seq(Byte), SendInLoop(data)
      PROVE  MorePending(Told)
  <2>1. MorePending({"writeComplete", "highWaterMark"})
    BY <1>5, SendEffect
  <2>2. QED
    BY <2>1 DEF Told
<1>6. CASE SendFunctor
  <2>1. Head(work) \in Item
    BY <1>6, HeadTailProperties DEF SendFunctor, At, Typed, TypeOK
  <2>2. Head(work).msg \in Message \cup {NoMessage}
    BY <2>1 DEF Item
  <2>3. \E data \in Seq(Byte) : SendInLoop(data)
    BY <1>6, <2>2, BytesType DEF SendFunctor
  <2>4. QED
    BY <1>5, <2>3
<1>7. ASSUME NEW m \in Message, SendInCallback(m)
      PROVE  MorePending(Told)
  <2>1. Bytes(m) \in Seq(Byte)
    BY BytesType
  <2>2. QED
    BY <1>2, <1>5, <1>7, <2>1 DEF SendInCallback
<1>8. CASE handleWrite
  <2>1. pending' = pending \/ pending' = pending \o Completion(TRUE)
    BY <1>8 DEF handleWrite
  <2>2. Completion(TRUE) = <<Do("writeComplete")>> /\ "writeComplete" \in Op
    BY DEF Completion, Op, Functor
  <2>3. pending' = pending \o Completion(TRUE) => MorePending({"writeComplete"})
    <3>1. <<Do("writeComplete")>> \in Seq(Item) /\ Len(<<Do("writeComplete")>>) = 1
          /\ <<Do("writeComplete")>>[1].op = "writeComplete"
      BY <1>1, <2>2
    <3>2. \A i \in 1 .. Len(<<Do("writeComplete")>>) :
            <<Do("writeComplete")>>[i].op \in {"writeComplete"}
      BY <3>1
    <3>3. pending' = pending \o <<Do("writeComplete")>> => MorePending({"writeComplete"})
      BY <1>1, <3>1, <3>2, ConcatPending
    <3>4. QED
      BY <2>2, <3>3
  <2>4. QED
    BY <1>2, <2>1, <2>3, MoreAllowed DEF Told
<1>9. ASSUME NEW u \in User, UserStep(u)
      PROVE  MorePending(Told) \/ MorePending(RawFunctor)
  <2>1. CASE SendQueues(u)
    <3>1. call[u] \in CallType
      BY DEF Typed, TypeOK
    <3>2. [op |-> "sendInLoop", msg |-> call[u].msg] \in Item
      BY <3>1 DEF CallType, Item, Op, Functor
    <3>3. MorePending({"sendInLoop"})
      BY <1>1, <2>1, <3>2, AppendPending DEF SendQueues
    <3>4. QED
      BY <3>3, MoreAllowed DEF RawFunctor
  <2>2. CASE ShutdownQueues(u)
    <3>1. "shutdownInLoop" \in Op
      BY DEF Op, Functor
    <3>2. MorePending({"shutdownInLoop"})
      BY <1>1, <2>2, <3>1, AppendPending DEF ShutdownQueues
    <3>3. QED
      BY <3>2, MoreAllowed DEF RawFunctor
  <2>3. CASE (\E m \in Message : Send(u, m)) \/ Shutdown(u) \/ ShutdownSets(u)
    BY <1>2, <2>3 DEF Send, Shutdown, ShutdownSets, loopVars
  <2>4. QED
    BY <1>9, <2>1, <2>2, <2>3 DEF UserStep
<1>10. CASE \/ \E writable \in BOOLEAN : Poll(writable)
            \/ StartFunctor \/ EndBatch \/ connectEstablished \/ connectDestroyed
            \/ RemoveAfterCallback \/ handleRead \/ handleError \/ handleClose
            \/ ShutdownFunctor \/ CallbackReturns
  BY <1>2, <1>10 DEF Poll, StartFunctor, EndBatch, connectEstablished, connectDestroyed,
       RemoveAfterCallback, handleRead, handleError, handleClose, ShutdownFunctor,
       CallbackReturns
<1>11. CASE \/ ShutdownInCallback \/ UsersRelease \/ PeerSends \/ PeerCloses \/ PeerResets
            \/ \E m \in Message : FreeBuffer(m)
  BY <1>2, <1>11 DEF ShutdownInCallback, UsersRelease, PeerSends, PeerCloses, PeerResets,
       FreeBuffer, loopVars
<1>12. QED
  BY <1>4, <1>6, <1>7, <1>8, <1>9, <1>10, <1>11 DEF Next, LoopStep

LEMMA PendingStep ==
  ASSUME Typed, Next
  PROVE  \/ SwapPending
         \/ MorePending(Later)
         \/ (\E u \in User : UserStep(u)) /\ MorePending(RawFunctor)
  BY PendingGrows, MoreAllowed DEF Later

\* The batch changes only at its ends.
LEMMA BatchStep ==
  ASSUME Next
  PROVE  \/ UNCHANGED <<functors, next>>
         \/ SwapPending \/ StartFunctor \/ EndBatch
<1>1. ASSUME NEW u \in User, UserStep(u)
      PROVE  UNCHANGED <<functors, next>>
  BY <1>1 DEF UserStep, Send, SendQueues, Shutdown, ShutdownSets, ShutdownQueues, loopVars
<1>2. CASE \/ \E writable \in BOOLEAN : Poll(writable)
           \/ connectEstablished \/ connectDestroyed
           \/ RemoveAfterCallback \/ handleRead \/ handleError \/ handleClose \/ handleWrite
           \/ removeConnection \/ SendFunctor \/ ShutdownFunctor \/ CallbackReturns
  BY <1>2 DEF Poll, connectEstablished, connectDestroyed,
       RemoveAfterCallback, handleRead, handleError, handleClose, handleWrite,
       removeConnection, SendFunctor, ShutdownFunctor, CallbackReturns
<1>3. CASE \/ ShutdownInCallback \/ UsersRelease \/ PeerSends \/ PeerCloses \/ PeerResets
           \/ MainLoopRemoves \/ ServerDestroyed
           \/ \E m \in Message : FreeBuffer(m) \/ SendInCallback(m)
  BY <1>3 DEF ShutdownInCallback, UsersRelease, PeerSends, PeerCloses, PeerResets,
       MainLoopRemoves, ServerDestroyed, FreeBuffer, SendInCallback, loopVars
<1>4. QED
  BY <1>1, <1>2, <1>3 DEF Next, LoopStep

LEMMA QueuesStep ==
  ASSUME Typed, QueuesHoldFunctors, Next
  PROVE  QueuesHoldFunctors'
<1>1. pending \in Seq(Item) /\ Len(pending) \in Nat /\ Len(<<>>) = 0
  BY LenProperties, EmptySeq DEF Typed, TypeOK
<1>2. CASE SwapPending
  BY <1>1, <1>2 DEF SwapPending, QueuesHoldFunctors
<1>3. CASE MorePending(Functor) /\ functors' \in {functors, <<>>}
  BY <1>1, <1>3 DEF MorePending, QueuesHoldFunctors
<1>4. Later \subseteq Functor /\ RawFunctor \subseteq Functor
  BY DEF Told, Later, RawFunctor, Functor
<1>5. functors' \in {functors, <<>>} \/ SwapPending
  BY BatchStep DEF StartFunctor, EndBatch
<1>6. QED
  BY <1>2, <1>3, <1>4, <1>5, PendingStep, MoreAllowed

------------------------------------------------------------------------------
(***************************************************************************)
(* What others do while the loop thread is at some call.                   *)
(***************************************************************************)
Aside ==
  \/ \E m \in Message : SendInCallback(m) \/ FreeBuffer(m)
  \/ \E u \in User : UserStep(u)
  \/ ShutdownInCallback \/ MainLoopRemoves \/ ServerDestroyed
  \/ UsersRelease \/ PeerSends \/ PeerCloses \/ PeerResets

LEMMA AsideKeepsWork ==
  ASSUME Aside
  PROVE  UNCHANGED <<work, phase, functors, next, ups, downs>>
<1>1. ASSUME NEW m \in Message, SendInCallback(m) \/ FreeBuffer(m)
      PROVE  UNCHANGED <<work, phase, functors, next, ups, downs>>
  BY <1>1 DEF SendInCallback, FreeBuffer, loopVars, historyVars
<1>2. ASSUME NEW u \in User, UserStep(u)
      PROVE  UNCHANGED <<work, phase, functors, next, ups, downs>>
  BY <1>2 DEF UserStep, Send, SendQueues, Shutdown, ShutdownSets, ShutdownQueues, loopVars,
       historyVars
<1>3. CASE \/ ShutdownInCallback \/ MainLoopRemoves \/ ServerDestroyed
           \/ UsersRelease \/ PeerSends \/ PeerCloses \/ PeerResets
  BY <1>3 DEF ShutdownInCallback, MainLoopRemoves, ServerDestroyed, UsersRelease, PeerSends,
       PeerCloses, PeerResets, loopVars, historyVars
<1>4. QED
  BY <1>1, <1>2, <1>3 DEF Aside

------------------------------------------------------------------------------
(***************************************************************************)
(* InLine.                                                                 *)
(***************************************************************************)

\* The calls whose function ends with them.
Finishing ==
  \/ handleError \/ handleWrite \/ removeConnection \/ RemoveAfterCallback
  \/ SendFunctor \/ ShutdownFunctor \/ CallbackReturns

LEMMA FinishingFacts ==
  ASSUME Finishing
  PROVE  work # <<>> /\ Then(<<>>) /\ UNCHANGED <<phase, functors, next, ups, downs>>
  BY DEF Finishing, handleError, handleWrite, removeConnection, RemoveAfterCallback,
         SendFunctor, ShutdownFunctor, CallbackReturns, InUserCode, At, historyVars

LEMMA LineNone ==
  ASSUME work \in Seq(Item), work # <<>>, InLine, Then(<<>>), phase' = phase
  PROVE  InLine'
<1>1. /\ Len(work) \in Nat \ {0} /\ Len(work') = Len(work) - 1
      /\ \A i \in 1 .. Len(work') : work'[i] = work[i + 1]
  BY ThenNone
<1>2. \A i \in 1 .. Len(work') : i + 1 \in 1 .. Len(work) /\ i + 1 # 1
                               /\ (i + 1 = 2 <=> i = 1) /\ (i + 1 = Len(work) <=> i = Len(work'))
                               /\ Len(work) # 1
  BY <1>1
<1>3. QED
  BY <1>1, <1>2 DEF InLine

LEMMA LineOne ==
  ASSUME work \in Seq(Item), work # <<>>, InLine, NEW a \in Op, Then(<<a>>), phase' = phase,
         a \in {"connection", "message", "error", "close"},
         a \in {"error", "close"} => phase = "handle",
         work[1].op \notin {"error", "connection"}
  PROVE  InLine'
<1>1. /\ Len(work) \in Nat \ {0} /\ Len(work') = Len(work)
      /\ work'[1].op = a /\ \A i \in 2 .. Len(work') : work'[i] = work[i]
  BY ThenOne
<1>2. \A i \in 1 .. Len(work') : i = 1 \/ (i \in 2 .. Len(work') /\ i # 1 /\ i \in 1 .. Len(work))
  BY <1>1
<1>3. \A i \in 2 .. Len(work) :
        work[i].op \notin {"connectEstablished", "connectDestroyed", "sendInLoop",
                          "shutdownInLoop", "message", "close", "read", "remove"}
  BY <1>1 DEF InLine
<1>4. QED
  BY <1>1, <1>2, <1>3 DEF InLine

\* connectDestroyed and handleClose tell the user, then go on.
LEMMA LineTwo ==
  ASSUME work \in Seq(Item), work # <<>>, InLine, NEW b \in Op, Then(<<"connection", b>>),
         phase' = phase,
         \/ b = "remove" /\ phase = "run" /\ Len(work) = 1
         \/ b = "closed" /\ phase = "handle" /\ work[1].op = "close"
  PROVE  InLine'
<1>1. /\ Len(work) \in Nat \ {0} /\ Len(work') = Len(work) + 1
      /\ work'[1].op = "connection" /\ work'[2].op = b
      /\ \A i \in 3 .. Len(work') : work'[i] = work[i - 1]
  BY ThenTwo DEF Op, UserCode
<1>2. \A i \in 1 .. Len(work') : i \in {1, 2} \/ (i \in 3 .. Len(work') /\ i - 1 \in 2 .. Len(work))
  BY <1>1
<1>3. \A i \in 2 .. Len(work) :
        /\ b = "closed"
        /\ work[i].op \notin {"connectEstablished", "connectDestroyed", "sendInLoop",
                             "shutdownInLoop", "message", "close", "read", "remove"}
  <2> TAKE i \in 2 .. Len(work)
  <2>1. i \in 1 .. Len(work) /\ i # 1 /\ Len(work) # 1
    BY <1>1
  <2>2. b = "closed" /\ phase = "handle" /\ work[1].op = "close"
    BY <2>1
  <2>3. QED
    BY <2>1, <2>2 DEF InLine
<1>4. QED
  BY <1>1, <1>2, <1>3 DEF InLine

LEMMA LineStep ==
  ASSUME Typed, QueuesHoldFunctors, InLine, Next
  PROVE  InLine'
<1>1. work \in Seq(Item) /\ functors \in Seq(Item)
  BY DEF Typed, TypeOK
<1>2. CASE Aside
  BY <1>2, AsideKeepsWork DEF InLine
<1>3. CASE Finishing
  BY <1>1, <1>3, FinishingFacts, LineNone
<1>4. ASSUME NEW writable \in BOOLEAN, Poll(writable)
      PROVE  InLine'
  <2>1. phase' = "handle"
    BY <1>4 DEF Poll
  <2>2. \A i \in 1 .. Len(work') :
          /\ work'[i].op \in {"close", "error", "read", "write"}
          /\ work'[i].op = "close" => i = 1
          /\ work'[i].op = "read" => i = 1 \/ (i = 2 /\ work'[1].op = "error")
    BY <1>4, PollCalls
  <2>3. QED
    BY <2>1, <2>2 DEF InLine
<1>5. CASE SwapPending \/ EndBatch
  <2>1. work' = <<>> /\ Len(<<>>) = 0
    BY <1>5, EmptySeq DEF SwapPending, EndBatch
  <2>2. QED
    BY <2>1 DEF InLine
<1>6. CASE StartFunctor
  <2>1. work' = <<functors[next]>> /\ phase' = "run" /\ next \in 1 .. Len(functors)
    BY <1>1, <1>6, LenProperties DEF StartFunctor, Typed, TypeOK
  <2>2. functors[next].op \in Functor
    BY <2>1 DEF QueuesHoldFunctors
  <2>3. Len(work') = 1 /\ work'[1].op \in Functor
    BY <2>1, <2>2
  <2>4. QED
    BY <2>1, <2>3 DEF InLine, Functor
<1>7. CASE connectEstablished
  <2>1. Then(<<"connection">>) /\ phase' = phase /\ At("connectEstablished") /\ work # <<>>
    BY <1>7 DEF connectEstablished, At
  <2>2. work[1].op = "connectEstablished"
    BY <1>1, <2>1, AtFirst
  <2>3. "connection" \in Op
    BY DEF Op, UserCode
  <2>4. QED
    BY <1>1, <2>1, <2>2, <2>3, LineOne
<1>8. CASE handleRead
  <2>1. phase' = phase /\ At("read") /\ work # <<>>
    BY <1>8 DEF handleRead, At
  <2>2. Len(work) \in Nat \ {0} /\ work[1].op = "read"
    BY <1>1, <2>1, AtFirst
  <2>3. phase = "handle"
    BY <2>2 DEF InLine
  <2>4. {"message", "error", "close"} \subseteq Op
    BY DEF Op, UserCode
  <2>5. Then(<<"message">>) \/ Then(<<"error">>) \/ Then(<<"close">>)
    BY <1>8 DEF handleRead
  <2>6. QED
    BY <1>1, <2>1, <2>2, <2>3, <2>4, <2>5, LineOne
<1>9. CASE handleClose
  <2>1. Then(<<"connection", "closed">>) /\ phase' = phase /\ At("close") /\ work # <<>>
    BY <1>9 DEF handleClose, At
  <2>2. Len(work) \in Nat \ {0} /\ work[1].op = "close" /\ "closed" \in Op
    BY <1>1, <2>1, AtFirst DEF Op
  <2>3. phase = "handle"
    BY <2>2 DEF InLine
  <2>4. QED
    BY <1>1, <2>1, <2>2, <2>3, LineTwo
<1>10. CASE connectDestroyed
  <2>1. phase' = phase /\ At("connectDestroyed") /\ work # <<>>
    BY <1>10 DEF connectDestroyed, At
  <2>2. Len(work) \in Nat \ {0} /\ work[1].op = "connectDestroyed" /\ "remove" \in Op
    BY <1>1, <2>1, AtFirst DEF Op
  <2>3. phase = "run" /\ Len(work) = 1
    BY <2>2 DEF InLine
  <2>4. Then(<<"connection", "remove">>) \/ Then(<<>>)
    BY <1>10 DEF connectDestroyed
  <2>5. QED
    BY <1>1, <2>1, <2>2, <2>3, <2>4, LineNone, LineTwo
<1>11. QED
  BY <1>2, <1>3, <1>4, <1>5, <1>6, <1>7, <1>8, <1>9, <1>10
     DEF Next, LoopStep, Aside, Finishing

------------------------------------------------------------------------------
(***************************************************************************)
(* Once and Unborn.                                                        *)
(***************************************************************************)
LEMMA InitCourse == Init => CourseInv
<1> SUFFICES ASSUME Init
             PROVE  CourseInv
  OBVIOUS
<1>1. Typed
  BY InitTyped
<1>2. /\ <<Do("connectEstablished")>> \in Seq(Item) /\ Len(<<Do("connectEstablished")>>) = 1
      /\ <<Do("connectEstablished")>>[1].op = "connectEstablished"
      /\ Len(<<>>) = 0
  BY DoType, EmptySeq DEF Do, Op, Functor
<1>3. \/ /\ phase = "handle" /\ Len(work) = 1 /\ work[1].op = "connectEstablished"
         /\ Len(pending) = 0
      \/ /\ phase = "poll" /\ work = <<>> /\ Len(work) = 0
         /\ Len(pending) = 1 /\ pending[1].op = "connectEstablished"
  BY <1>2 DEF Init
<1>4. functors = <<>> /\ Len(functors) = 0 /\ next = 1 /\ ups = 0 /\ downs = 0
  BY <1>2 DEF Init
<1>5. QueuesHoldFunctors /\ InLine
  BY <1>3, <1>4 DEF QueuesHoldFunctors, InLine, Functor
<1>6. Once
  BY <1>3, <1>4 DEF Once, Lacks
<1>7. Unborn
  BY DEF Init, Unborn, Do
<1>8. \A ops : "connectEstablished" \notin ops => ~OpIn(work, ops)
  BY <1>3 DEF OpIn
<1>9. Stated /\ Silent
  BY <1>4, <1>8 DEF Init, Stated, Silent, NotRemovedInHandler, DownIsReported
<1>10. QED
  BY <1>1, <1>5, <1>6, <1>7, <1>9 DEF CourseInv

\* Until connectEstablished has run, it is all the loop thread can be at.
LEMMA NothingBefore ==
  ASSUME Typed, Once, ups = 0, work # <<>>
  PROVE  Len(work) = 1 /\ Head(work).op = "connectEstablished"
<1>1. work \in Seq(Item)
  BY DEF Typed, TypeOK
<1>2. Len(work) = 1 /\ work[1].op = "connectEstablished"
  BY DEF Once
<1>3. QED
  BY <1>1, <1>2, HeadTailProperties

LEMMA EarlySteps ==
  ASSUME Typed, Once, Unborn, ups = 0, Next
  PROVE  \/ connectEstablished \/ SwapPending \/ StartFunctor
         \/ \E writable \in BOOLEAN : Poll(writable)
         \/ /\ MainLoopRemoves \/ ServerDestroyed \/ (\E m \in Message : FreeBuffer(m))
               \/ PeerSends \/ PeerCloses \/ PeerResets
            /\ UNCHANGED <<work, phase, functors, next, ups, downs>>
<1>1. \A op : At(op) => op = "connectEstablished"
  BY NothingBefore DEF At
<1>2. ~InUserCode
  BY NothingBefore DEF InUserCode, UserCode
<1>3. ASSUME NEW u \in User
      PROVE  ~UserStep(u)
  BY <1>3 DEF Unborn, UserStep, Send, SendQueues, Shutdown, ShutdownSets, ShutdownQueues, InCall
<1>4. ~UsersRelease
  BY DEF Unborn, UsersRelease
<1>5. ~EndBatch
  <2>1. Len(functors) \in Nat /\ next \in Nat
    BY LenProperties DEF Typed, TypeOK
  <2>2. QED
    BY <2>1, EmptySeq, LenProperties DEF EndBatch, Once
<1>6. ~Finishing
  BY <1>1, <1>2 DEF Finishing, handleError, handleWrite, removeConnection, RemoveAfterCallback,
         SendFunctor, ShutdownFunctor, CallbackReturns
<1>7. ~(connectDestroyed \/ handleRead \/ handleClose)
  BY <1>1 DEF connectDestroyed, handleRead, handleClose
<1>8. ~ShutdownInCallback /\ \A m \in Message : ~SendInCallback(m)
  BY <1>2 DEF ShutdownInCallback, SendInCallback
<1>9. MainLoopRemoves \/ ServerDestroyed \/ (\E m \in Message : FreeBuffer(m))
        \/ PeerSends \/ PeerCloses \/ PeerResets => Aside
  BY DEF Aside
<1>10. QED
  BY <1>3, <1>4, <1>5, <1>6, <1>7, <1>8, <1>9, AsideKeepsWork DEF Next, LoopStep, Finishing

LEMMA UpsStay ==
  ASSUME Typed, ups # 0, Next
  PROVE  ups' # 0
<1>1. CASE Aside
  BY <1>1, AsideKeepsWork
<1>2. CASE Finishing
  BY <1>2, FinishingFacts
<1>3. CASE connectEstablished
  BY <1>3, CountType DEF connectEstablished, Typed, TypeOK
<1>4. CASE \/ \E writable \in BOOLEAN : Poll(writable)
           \/ SwapPending \/ StartFunctor \/ EndBatch \/ connectDestroyed
           \/ handleRead \/ handleClose
  BY <1>4 DEF Poll, SwapPending, StartFunctor, EndBatch, connectDestroyed, handleRead,
              handleClose, historyVars
<1>5. QED
  BY <1>1, <1>2, <1>3, <1>4 DEF Next, LoopStep, Aside, Finishing

LEMMA UnbornStep ==
  ASSUME Typed, Once, Unborn, Next
  PROVE  Unborn'
<1>1. CASE ups # 0
  BY <1>1, UpsStay DEF Unborn
<1>2. CASE connectEstablished
  <2>1. ups' # 0
    BY <1>2, CountType DEF connectEstablished, Typed, TypeOK
  <2>2. QED
    BY <2>1 DEF Unborn
<1>3. CASE ups = 0 /\ ~connectEstablished
  <2>1. UNCHANGED <<state_, channel_, downs, held, call>>
    BY <1>3, EarlySteps
       DEF SwapPending, StartFunctor, Poll, MainLoopRemoves, ServerDestroyed, FreeBuffer,
           PeerSends, PeerCloses, PeerResets, userVars, historyVars
  <2>2. QED
    BY <1>3, <2>1 DEF Unborn
<1>4. QED
  BY <1>1, <1>2, <1>3

LEMMA LacksMore ==
  ASSUME pending \in Seq(Item), NEW from \in 1 .. 2, from <= Len(pending) + 1,
         Lacks(pending, from), NEW ops, "connectEstablished" \notin ops, MorePending(ops)
  PROVE  Lacks(pending', from)
<1>1. Len(pending) \in Nat
  BY LenProperties
<1>2. ASSUME NEW i \in from .. Len(pending')
      PROVE  pending'[i].op # "connectEstablished"
  <2>1. CASE i <= Len(pending)
    <3>1. i \in from .. Len(pending) /\ i \in 1 .. Len(pending)
      BY <1>1, <2>1
    <3>2. QED
      BY <3>1 DEF Lacks, MorePending
  <2>2. CASE ~(i <= Len(pending))
    <3>1. i \in Len(pending) + 1 .. Len(pending')
      BY <1>1, <2>2
    <3>2. QED
      BY <3>1 DEF MorePending
  <2>3. QED
    BY <2>1, <2>2
<1>3. QED
  BY <1>2 DEF Lacks

\* While connectEstablished is to come.
LEMMA OnceEarly ==
  ASSUME Typed, InLine, Once, Unborn, ups = 0, Next
  PROVE  Once'
<1>1. /\ work \in Seq(Item) /\ functors \in Seq(Item) /\ pending \in Seq(Item)
      /\ Len(functors) \in Nat /\ Len(pending) \in Nat /\ next \in Nat
      /\ Len(<<>>) = 0
  BY LenProperties, EmptySeq DEF Typed, TypeOK
<1>2. CASE connectEstablished
  <2>1. work # <<>> /\ Then(<<"connection">>) /\ "connection" \in Op
    BY <1>2 DEF connectEstablished, At, Op, UserCode
  <2>2. Len(work) = 1
    BY <2>1, NothingBefore
  <2>3. Lacks(functors, next) /\ Lacks(pending, 1)
    BY <1>1, <2>1, <2>2 DEF Once
  <2>4. Len(work') = 1 /\ work'[1].op = "connection"
    BY <1>1, <2>1, <2>2, ThenOne
  <2>5. ups' # 0 /\ UNCHANGED <<functors, next, pending>>
    BY <1>2, CountType DEF connectEstablished, Typed, TypeOK
  <2>6. QED
    BY <2>3, <2>4, <2>5 DEF Once, Lacks
<1>3. CASE SwapPending
  <2>1. work = <<>> /\ phase = "handle"
    BY <1>3 DEF SwapPending
  <2>2. Len(pending) > 0 /\ pending[1].op = "connectEstablished" /\ Lacks(pending, 2)
    BY <1>1, <2>1 DEF Once
  <2>3. /\ ups' = ups /\ work' = <<>> /\ phase' = "run"
        /\ functors' = pending /\ next' = 1 /\ pending' = <<>>
    BY <1>3, <2>1 DEF SwapPending, historyVars
  <2>4. QED
    BY <1>1, <2>2, <2>3 DEF Once, Lacks
<1>4. CASE StartFunctor
  <2>1. work = <<>> /\ phase = "run"
    BY <1>4 DEF StartFunctor
  <2>2. /\ next <= Len(functors) /\ functors[next].op = "connectEstablished"
        /\ Lacks(functors, next + 1) /\ Lacks(pending, 1)
    BY <1>1, <2>1 DEF Once
  <2>3. /\ ups' = ups /\ work' = <<functors[next]>> /\ next' = next + 1
        /\ UNCHANGED <<functors, pending>>
    BY <1>4 DEF StartFunctor, historyVars
  <2>4. Len(work') = 1 /\ work'[1].op = "connectEstablished"
    BY <2>2, <2>3
  <2>5. QED
    BY <2>2, <2>3, <2>4 DEF Once, Lacks
<1>5. ASSUME NEW writable \in BOOLEAN, Poll(writable)
      PROVE  Once'
  <2>1. phase = "poll" /\ work = <<>>
    BY <1>5 DEF Poll, InLine
  <2>2. /\ functors = <<>> /\ Len(pending) > 0 /\ pending[1].op = "connectEstablished"
        /\ Lacks(pending, 2)
    BY <1>1, <2>1 DEF Once
  <2>3. work' = <<>>
    BY <1>5, PollCalls DEF Unborn, NewChannel
  <2>4. phase' = "handle" /\ UNCHANGED <<ups, functors, pending>>
    BY <1>5 DEF Poll, historyVars
  <2>5. QED
    BY <2>2, <2>3, <2>4 DEF Once, Lacks
<1>6. CASE /\ ~SwapPending
           /\ UNCHANGED <<work, phase, functors, next, ups, downs>>
  <2>1. PICK ops : "connectEstablished" \notin ops /\ MorePending(ops)
    BY <1>6, PendingStep DEF Told, Later, RawFunctor
  <2>2. Lacks(pending, 1) => Lacks(pending', 1)
    BY <1>1, <2>1, LacksMore
  <2>3. Len(pending) > 0 /\ Lacks(pending, 2) => Lacks(pending', 2)
    BY <1>1, <2>1, LacksMore
  <2>4. Len(pending) > 0 => Len(pending') > 0 /\ pending'[1] = pending[1]
    <3>1. Len(pending) <= Len(pending') /\ \A i \in 1 .. Len(pending) : pending'[i] = pending[i]
      BY <2>1 DEF MorePending
    <3>2. pending' \in Seq(Item)
      BY NextTyped DEF Typed, TypeOK
    <3>3. QED
      BY <1>1, <3>1, <3>2, LenProperties
  <2>5. QED
    BY <1>6, <2>2, <2>3, <2>4 DEF Once, Lacks
<1>7. QED
  BY <1>2, <1>3, <1>4, <1>5, <1>6, EarlySteps

\* And once it has run.
LEMMA OnceLate ==
  ASSUME Typed, Once, ups # 0, Next
  PROVE  Once'
<1>1. /\ work \in Seq(Item) /\ functors \in Seq(Item) /\ pending \in Seq(Item)
      /\ Len(functors) \in Nat /\ Len(pending) \in Nat /\ next \in Nat \ {0}
      /\ Len(<<>>) = 0
  BY LenProperties, EmptySeq DEF Typed, TypeOK
<1>2. Lacks(work, 1) /\ Lacks(functors, next) /\ Lacks(pending, 1)
  BY DEF Once
<1>3. Lacks(pending', 1)
  <2>1. CASE SwapPending
    BY <1>1, <2>1 DEF SwapPending, Lacks
  <2>2. CASE \E ops : "connectEstablished" \notin ops /\ MorePending(ops)
    BY <1>1, <1>2, <2>2, LacksMore
  <2>3. QED
    BY <2>1, <2>2, PendingStep DEF Told, Later, RawFunctor
<1>4. Lacks(functors', next')
  BY <1>1, <1>2, BatchStep DEF SwapPending, StartFunctor, EndBatch, Lacks
<1>5. ~OpIn(work', {"connectEstablished"})
  <2> DEFINE ce == {"connectEstablished"}
  <2>1. ~OpIn(work, ce)
    BY <1>2 DEF OpIn, Lacks
  <2>2. work # <<>> => Head(work).op \notin ce /\ ~Behind(ce)
    BY <1>1, <2>1, OpsNow
  <2>3. ASSUME work # <<>>, Then(<<>>)
        PROVE  ~OpIn(work', ce)
    BY <1>1, <2>2, <2>3, OpsNone
  <2>4. ASSUME work # <<>>, NEW a \in Op \ ce, Then(<<a>>)
        PROVE  ~OpIn(work', ce)
    BY <1>1, <2>2, <2>4, OpsOne
  <2>5. ASSUME work # <<>>, NEW a \in Op \ ce, NEW b \in Op \ ce, Then(<<a, b>>)
        PROVE  ~OpIn(work', ce)
    BY <1>1, <2>2, <2>5, OpsTwo
  <2>6. {"connection", "message", "error", "close", "closed", "remove"} \subseteq Op \ ce
    BY DEF Op, UserCode
  <2>7. CASE Aside
    BY <2>1, <2>7, AsideKeepsWork
  <2>8. CASE Finishing
    BY <2>3, <2>8, FinishingFacts
  <2>9. ASSUME NEW writable \in BOOLEAN, Poll(writable)
        PROVE  ~OpIn(work', ce)
    BY <2>9, PollCalls DEF OpIn
  <2>10. CASE SwapPending \/ EndBatch
    BY <1>1, <2>10 DEF SwapPending, EndBatch, OpIn
  <2>11. CASE StartFunctor
    <3>1. work' = <<functors[next]>> /\ next \in next .. Len(functors)
      BY <1>1, <2>11 DEF StartFunctor
    <3>2. Len(work') = 1 /\ work'[1].op # "connectEstablished"
      BY <1>2, <3>1 DEF Lacks
    <3>3. QED
      BY <3>2 DEF OpIn
  <2>12. CASE connectEstablished
    BY <2>2, <2>12 DEF connectEstablished, At
  <2>13. CASE handleRead
    <3>1. work # <<>> /\ \E a \in {"message", "error", "close"} : Then(<<a>>)
      BY <2>13 DEF handleRead, At
    <3>2. QED
      BY <2>4, <2>6, <3>1
  <2>14. CASE handleClose \/ connectDestroyed
    <3>1. /\ work # <<>>
          /\ Then(<<>>) \/ \E b \in {"closed", "remove"} : Then(<<"connection", b>>)
      BY <2>14 DEF handleClose, connectDestroyed, At
    <3>2. QED
      BY <2>3, <2>5, <2>6, <3>1
  <2>15. QED
    BY <2>7, <2>8, <2>9, <2>10, <2>11, <2>12, <2>13, <2>14
       DEF Next, LoopStep, Aside, Finishing
<1>6. Lacks(work', 1)
  BY <1>5 DEF OpIn, Lacks
<1>7. QED
  BY <1>3, <1>4, <1>6, UpsStay DEF Once

LEMMA OnceStep ==
  ASSUME Typed, InLine, Once, Unborn, Next
  PROVE  Once'
  BY OnceEarly, OnceLate

------------------------------------------------------------------------------
(***************************************************************************)
(* What a step does to the state, the channel and the socket.              *)
(***************************************************************************)

\* What may follow the call at the head.
LEMMA BehindFacts ==
  ASSUME Typed, InLine, work # <<>>
  PROVE  /\ ~Behind({"close"}) /\ ~Behind({"message"})
         /\ Head(work).op # "error" => ~Behind({"read"})
         /\ Head(work).op # "connection" => ~Behind({"remove"})
         /\ Head(work).op \in {"connectEstablished", "connectDestroyed"} =>
              /\ phase # "handle" \/ Head(work).op = "connectEstablished"
              /\ \A ops : ~Behind(ops)
         /\ Head(work).op = "remove" => phase # "handle"
<1>1. work \in Seq(Item)
  BY DEF Typed, TypeOK
<1>2. Len(work) \in Nat \ {0} /\ Head(work) = work[1] /\ 1 \in 1 .. Len(work)
  BY <1>1, HeadTailProperties, LenProperties, EmptySeq
<1>3. \A i \in 2 .. Len(work) : i \in 1 .. Len(work) /\ i # 1 /\ Len(work) # 1
  <2> TAKE i \in 2 .. Len(work)
  <2>1. Len(work) \in Nat
    BY <1>2
  <2>2. i \in 1 .. Len(work) /\ i > 1 /\ Len(work) > 1
    BY <2>1
  <2>3. \A n \in Nat : n > 1 => n # 1
    OBVIOUS
  <2>4. i # 1
    BY <2>1
  <2>5. Len(work) # 1
    BY <2>1, <2>2, <2>3
  <2>6. QED
    BY <2>2, <2>4, <2>5
<1>4. /\ ~Behind({"close"}) /\ ~Behind({"message"})
      /\ Head(work).op # "error" => ~Behind({"read"})
      /\ Head(work).op # "connection" => ~Behind({"remove"})
  BY <1>2, <1>3 DEF InLine, Behind
<1>5. Head(work).op \in {"connectEstablished", "connectDestroyed"} => \A ops : ~Behind(ops)
  BY <1>2, <1>3 DEF InLine, Behind
<1>6. Head(work).op \in {"connectDestroyed", "remove"} => phase = "run"
  BY <1>2 DEF InLine
<1>7. QED
  BY <1>4, <1>5, <1>6

LEMMA AsideEffect ==
  ASSUME Typed, Aside
  PROVE  /\ channel_' = channel_ \/ (channel_' = EnableWriting(channel_) /\ InUserCode)
         /\ state_' = state_
              \/ /\ state_' = "kDisconnecting"
                 /\ InUserCode \/ \E u \in User : InCall(u, "shutdown")
         /\ channel_' # channel_ => state_ = "kConnected"
<1>1. ASSUME NEW m \in Message, SendInCallback(m)
      PROVE  /\ channel_' = channel_
                  \/ (channel_' = EnableWriting(channel_) /\ InUserCode /\ state_ = "kConnected")
             /\ state_' = state_
  <2>1. Bytes(m) \in Seq(Byte)
    BY BytesType
  <2>2. QED
    BY <1>1, <2>1, SendEffect DEF SendInCallback
<1>2. ASSUME NEW u \in User, UserStep(u)
      PROVE  /\ channel_' = channel_
             /\ state_' = state_ \/ (state_' = "kDisconnecting" /\ InCall(u, "shutdown"))
  BY <1>2 DEF UserStep, Send, SendQueues, Shutdown, ShutdownSets, ShutdownQueues
<1>3. CASE ShutdownInCallback
  BY <1>3 DEF ShutdownInCallback
<1>4. CASE \/ \E m \in Message : FreeBuffer(m)
           \/ MainLoopRemoves \/ ServerDestroyed \/ UsersRelease
           \/ PeerSends \/ PeerCloses \/ PeerResets
  BY <1>4 DEF FreeBuffer, MainLoopRemoves, ServerDestroyed, UsersRelease, PeerSends,
              PeerCloses, PeerResets
<1>5. QED
  BY <1>1, <1>2, <1>3, <1>4 DEF Aside

\* The peer: what it sends is there until it is read, and nothing follows its close.
SocketGrows ==
  /\ unread \/ peer # "open" => unread' \/ peer' # "open"
  /\ Drained => Drained'
  /\ (peer = "reset" => ~unread) => (peer' = "reset" => ~unread')

LEMMA AsideSocket ==
  ASSUME Typed, Aside
  PROVE  SocketGrows
<1>1. PeerSends \/ PeerCloses \/ PeerResets => SocketGrows
  BY DEF PeerSends, PeerCloses, PeerResets, SocketGrows, Drained
<1>2. UNCHANGED <<unread, peer>> => SocketGrows
  BY DEF Typed, TypeOK, SocketGrows, Drained
<1>3. ASSUME NEW u \in User, UserStep(u)
      PROVE  UNCHANGED <<unread, peer>>
  BY <1>3 DEF UserStep, Send, SendQueues, Shutdown, ShutdownSets, ShutdownQueues, socketVars
<1>4. ASSUME NEW m \in Message, SendInCallback(m) \/ FreeBuffer(m)
      PROVE  UNCHANGED <<unread, peer>>
  BY <1>4 DEF SendInCallback, FreeBuffer, socketVars
<1>5. CASE ShutdownInCallback \/ MainLoopRemoves \/ ServerDestroyed \/ UsersRelease
  BY <1>2, <1>5 DEF ShutdownInCallback, MainLoopRemoves, ServerDestroyed, UsersRelease,
       socketVars
<1>6. QED
  BY <1>1, <1>2, <1>3, <1>4, <1>5 DEF Aside

LEMMA FinishingEffect ==
  ASSUME Typed, Finishing, ~RemoveAfterCallback
  PROVE  /\ channel_' \in {channel_, EnableWriting(channel_), DisableWriting(channel_)}
         /\ state_' = state_ \/ (state_' = "kDisconnecting" /\ At("write"))
         /\ channel_' # channel_ => At("write") \/ At("sendInLoop")
         /\ UNCHANGED <<unread, peer>>
         /\ Head(work).op # "remove"
<1>1. CASE handleError \/ removeConnection \/ ShutdownFunctor \/ CallbackReturns
  BY <1>1 DEF handleError, removeConnection, ShutdownFunctor, CallbackReturns, At, InUserCode,
              UserCode, socketVars
<1>2. CASE handleWrite
  BY <1>2 DEF handleWrite, At
<1>3. CASE SendFunctor
  <2>1. Head(work) \in Item
    BY <1>3, HeadTailProperties DEF SendFunctor, At, Typed, TypeOK
  <2>2. \E data \in Seq(Byte) : SendInLoop(data)
    BY <1>3, <2>1, BytesType DEF SendFunctor, Item
  <2>3. QED
    BY <1>3, <2>2, SendEffect DEF SendFunctor, At
<1>4. QED
  BY <1>1, <1>2, <1>3 DEF Finishing

------------------------------------------------------------------------------
(***************************************************************************)
(* Stated.                                                                 *)
(***************************************************************************)
LEMMA ConsistentNow ==
  ASSUME Typed
  PROVE  /\ channel_ \in ChannelType /\ Consistent(channel_)
         /\ work \in Seq(Item)
         /\ ups \in 0 .. 2 /\ downs \in 0 .. 2
         /\ channel_.registered => channel_.mapped
  BY DEF Typed, TypeOK, PollerConsistent, Consistent, KAdded, KNew

\* A step that reports nothing and leaves the channel in the poller.
LEMMA StatedKept ==
  ASSUME Typed, Stated, ups # 0, ups' # 0,
         state_' = state_ \/ state_' = "kDisconnecting",
         channel_' \in {channel_, EnableWriting(channel_), DisableWriting(channel_)},
         downs' = downs,
         state_ = "kConnected" => ~OpIn(work', {"write"}),
         OpIn(work', {"remove"}) => OpIn(work, {"remove"}),
         phase' = "handle" /\ work' # <<>> => channel_.registered
  PROVE  Stated'
<1>1. ups \in 0 .. 2 /\ channel_ \in ChannelType /\ Consistent(channel_)
  BY ConsistentNow
<1>2. /\ channel_.registered => channel_'.registered /\ channel_'.interest = channel_.interest
      /\ channel_'.mapped \/ channel_' = channel_
  BY <1>1, KernelProperties
<1>3. /\ ups' # 0 => state_' # "kConnecting"
      /\ state_' = "kDisconnected" => downs' # 0
      /\ OpIn(work', {"remove"}) => downs' # 0
  BY DEF Stated
<1>4. state_' = "kConnected" =>
        /\ ups' # 0 /\ downs' = 0
        /\ channel_'.registered /\ "OUT" \notin channel_'.interest
        /\ ~OpIn(work', {"write"})
  BY <1>2 DEF Stated
<1>5. NotRemovedInHandler'
  BY <1>2 DEF NotRemovedInHandler
<1>6. DownIsReported'
  BY <1>1, <1>2 DEF Stated, DownIsReported
<1>7. QED
  BY <1>3, <1>4, <1>5, <1>6 DEF Stated

LEMMA StatedLate ==
  ASSUME CourseInv, ups # 0, Next
  PROVE  Stated'
<1>1. Typed /\ InLine /\ Stated /\ Once /\ QueuesHoldFunctors /\ ups' # 0
  BY UpsStay DEF CourseInv
<1>2. /\ channel_ \in ChannelType /\ Consistent(channel_)
      /\ work \in Seq(Item) /\ ups \in 0 .. 2 /\ downs \in 0 .. 2
  BY <1>1, ConsistentNow
<1>3. state_ = "kConnected" => downs = 0 /\ "OUT" \notin channel_.interest
                             /\ ~OpIn(work, {"write"})
  BY <1>1 DEF Stated
<1>4. phase = "handle" /\ work # <<>> => channel_.registered
  BY <1>1, <1>2 DEF Stated, NotRemovedInHandler
<1>5. work # <<>> => \A ops : OpIn(work, ops) <=> Head(work).op \in ops \/ Behind(ops)
  BY <1>2, OpsNow
<1>6. CASE Aside
  <2>1. UNCHANGED <<work, phase, downs>>
    BY <1>6, AsideKeepsWork
  <2>2. /\ state_' = state_ \/ state_' = "kDisconnecting"
        /\ channel_' \in {channel_, EnableWriting(channel_), DisableWriting(channel_)}
    BY <1>1, <1>6, AsideEffect
  <2>3. QED
    BY <1>1, <1>3, <1>4, <2>1, <2>2, StatedKept
<1>7. CASE Finishing /\ ~RemoveAfterCallback
  <2>1. work # <<>> /\ Then(<<>>) /\ UNCHANGED <<phase, downs>>
    BY <1>7, FinishingFacts
  <2>2. /\ state_' = state_ \/ state_' = "kDisconnecting"
        /\ channel_' \in {channel_, EnableWriting(channel_), DisableWriting(channel_)}
    BY <1>1, <1>7, FinishingEffect
  <2>3. \A ops : OpIn(work', ops) => OpIn(work, ops)
    BY <1>2, <1>5, <2>1, OpsNone
  <2>4. QED
    BY <1>1, <1>3, <1>4, <2>1, <2>2, <2>3, StatedKept
<1>8. ASSUME NEW writable \in BOOLEAN, Poll(writable)
      PROVE  Stated'
  <2>1. /\ ~channel_.registered => work' = <<>>
        /\ OpIn(work', {"write"}) => "OUT" \in channel_.interest
        /\ ~OpIn(work', {"remove"})
    BY <1>1, <1>8, PollCalls DEF OpIn
  <2>2. UNCHANGED <<state_, channel_, downs>>
    BY <1>8 DEF Poll, historyVars
  <2>3. QED
    BY <1>1, <1>3, <2>1, <2>2, StatedKept
<1>9. CASE SwapPending \/ EndBatch
  <2>1. work = <<>> /\ UNCHANGED <<work, state_, channel_, downs>>
    BY <1>9 DEF SwapPending, EndBatch, historyVars
  <2>2. QED
    BY <1>1, <1>3, <2>1, StatedKept
<1>10. CASE StartFunctor
  <2>1. phase' = "run" /\ UNCHANGED <<state_, channel_, downs>>
    BY <1>10 DEF StartFunctor, historyVars
  <2>2. ~OpIn(work', {"write", "remove"})
    <3>1. work' = <<functors[next]>> /\ next \in 1 .. Len(functors)
      BY <1>1, <1>10, LenProperties DEF StartFunctor, Typed, TypeOK
    <3>2. Len(work') = 1 /\ work'[1].op \in Functor
      BY <1>1, <3>1 DEF QueuesHoldFunctors
    <3>3. QED
      BY <3>2 DEF OpIn, Functor
  <2>3. ~OpIn(work', {"write"}) /\ ~OpIn(work', {"remove"})
    BY <2>2 DEF OpIn
  <2>4. QED
    BY <1>1, <2>1, <2>3, StatedKept
<1>11. ~connectEstablished
  <2>1. Lacks(work, 1)
    BY <1>1 DEF Once
  <2>2. At("connectEstablished") => work[1].op = "connectEstablished" /\ 1 \in 1 .. Len(work)
    BY <1>2, AtFirst
  <2>3. QED
    BY <2>1, <2>2 DEF connectEstablished, Lacks
<1>12. CASE handleRead
  <2>1. /\ work # <<>> /\ \E a \in {"message", "error", "close"} : Then(<<a>>)
        /\ UNCHANGED <<state_, channel_, phase, downs>>
    BY <1>12 DEF handleRead, At, historyVars
  <2>2. {"message", "error", "close"} \subseteq Op
    BY DEF Op, UserCode
  <2>3. \A ops : OpIn(work', ops) => OpIn(work, ops) \/ ops \cap {"message", "error", "close"} # {}
    BY <1>2, <1>5, <2>1, <2>2, OpsOne
  <2>4. QED
    BY <1>1, <1>3, <1>4, <2>1, <2>3, StatedKept
<1>13. CASE RemoveAfterCallback
  <2>1. /\ work # <<>> /\ Head(work).op = "remove" /\ Then(<<>>)
        /\ UNCHANGED <<state_, phase, ups, downs>>
    BY <1>13 DEF RemoveAfterCallback, At, historyVars
  <2>2. downs # 0 /\ phase # "handle"
    BY <1>1, <1>5, <2>1, BehindFacts DEF Stated
  <2>3. state_ # "kConnected"
    BY <1>3, <2>2
  <2>4. QED
    BY <1>1, <1>2, <2>1, <2>2, <2>3 DEF Stated, NotRemovedInHandler, DownIsReported
<1>14. CASE handleClose
  <2>1. /\ work # <<>> /\ Head(work).op = "close"
        /\ state_' = "kDisconnected" /\ channel_' = DisableAll(channel_)
        /\ downs' = Count(downs)
    BY <1>14 DEF handleClose, At
  <2>2. channel_'.registered /\ channel_'.mapped
    BY <1>2, <2>1, KernelProperties
  <2>3. downs' \in 1 .. 2
    BY <1>2, <2>1, CountType
  <2>4. QED
    BY <2>1, <2>2, <2>3 DEF Stated, NotRemovedInHandler, DownIsReported
<1>15. CASE connectDestroyed
  <2>1. /\ work # <<>> /\ Head(work).op = "connectDestroyed" /\ phase' = phase
    BY <1>15 DEF connectDestroyed, At
  <2>2. phase # "handle" /\ \A ops : ~Behind(ops)
    BY <1>1, <2>1, BehindFacts
  <2>3. CASE state_ = "kConnected"
    <3>1. /\ state_' = "kDisconnected" /\ channel_' = DisableAll(channel_)
          /\ downs' = Count(downs)
      BY <1>15, <2>3 DEF connectDestroyed
    <3>2. channel_'.mapped /\ downs' \in 1 .. 2
      BY <1>2, <3>1, KernelProperties, CountType
    <3>3. QED
      BY <2>1, <2>2, <3>1, <3>2 DEF Stated, NotRemovedInHandler, DownIsReported
  <2>4. CASE state_ # "kConnected"
    <3>1. Then(<<>>) /\ UNCHANGED <<state_, ups, downs>>
      BY <1>15, <2>4 DEF connectDestroyed
    <3>2. \A ops : ~OpIn(work', ops)
      BY <1>2, <2>1, <2>2, <3>1, OpsNone
    <3>3. state_ \in {"kDisconnecting", "kDisconnected"}
      BY <1>1, <2>4 DEF Stated, Typed, TypeOK, StateE
    <3>4. state_ = "kDisconnected" => downs > 0
      BY <1>1, <1>2 DEF Stated
    <3>5. QED
      BY <1>1, <2>1, <2>2, <3>1, <3>2, <3>3, <3>4 DEF Stated, NotRemovedInHandler, DownIsReported
  <2>5. QED
    BY <2>3, <2>4
<1>16. QED
  BY <1>6, <1>7, <1>8, <1>9, <1>10, <1>11, <1>12, <1>13, <1>14, <1>15
     DEF Next, LoopStep, Aside, Finishing

LEMMA StatedStep ==
  ASSUME CourseInv, Next
  PROVE  Stated'
<1>1. /\ Typed /\ InLine /\ Once /\ Unborn /\ Typed' /\ Once' /\ Unborn'
  BY NextTyped, OnceStep, UnbornStep DEF CourseInv
<1>2. CASE ups' = 0
  <2>1. ~OpIn(work', {"remove"})
    BY <1>1, <1>2, EmptySeq, LenProperties DEF Once, OpIn
  <2>2. QED
    BY <1>1, <1>2, <2>1 DEF Unborn, Stated, NotRemovedInHandler, DownIsReported
<1>3. CASE connectEstablished /\ ups = 0
  <2>1. /\ work # <<>> /\ Head(work).op = "connectEstablished" /\ Then(<<"connection">>)
        /\ state_' = "kConnected" /\ channel_' = EnableReading(channel_)
        /\ ups' = Count(ups) /\ downs' = downs
    BY <1>3 DEF connectEstablished, At
  <2>2. /\ channel_ \in ChannelType /\ Consistent(channel_) /\ work \in Seq(Item)
        /\ channel_ = NewChannel /\ downs = 0
    BY <1>1, <1>3, ConsistentNow DEF Unborn
  <2>3. "OUT" \notin channel_.events /\ ~channel_.registered
    BY <2>2 DEF NewChannel, KNoneEvent
  <2>4. channel_'.registered /\ channel_'.mapped /\ "OUT" \notin channel_'.interest
    BY <2>1, <2>2, <2>3, KernelProperties
  <2>5. \A ops : OpIn(work', ops) => "connection" \in ops
    <3>1. \A ops : ~Behind(ops)
      BY <1>1, <2>1, BehindFacts
    <3>2. "connection" \in Op
      BY DEF Op, UserCode
    <3>3. QED
      BY <2>1, <2>2, <3>1, <3>2, OpsOne
  <2>6. ups' # 0
    BY <1>3, <2>1 DEF Count
  <2>7. QED
    BY <2>1, <2>2, <2>4, <2>5, <2>6 DEF Stated, NotRemovedInHandler, DownIsReported
<1>4. CASE ups # 0
  BY <1>4, StatedLate
<1>5. CASE ups = 0 /\ ~connectEstablished
  <2>1. ups' = 0
    BY <1>1, <1>5, EarlySteps DEF SwapPending, StartFunctor, Poll, historyVars
  <2>2. QED
    BY <1>2, <2>1
<1>6. QED
  BY <1>3, <1>4, <1>5

------------------------------------------------------------------------------
(***************************************************************************)
(* Silent.                                                                 *)
(***************************************************************************)

\* A step that reports nothing and starts no reading of a down connection.
LEMMA SilentKept ==
  ASSUME Typed, Silent,
         peer' = "reset" => ~unread',
         Drained => Drained',
         channel_' \in {channel_, EnableWriting(channel_), DisableWriting(channel_)},
         downs' = downs,
         OpIn(work', {"close"}) => (Drained \/ Deaf) /\ channel_' = channel_,
         OpIn(work', {"message"}) => downs = 0,
         OpIn(work', {"read"}) => unread' \/ peer' # "open",
         OpIn(work', {"read"}) /\ downs # 0 => Drained,
         OpIn(work, {"remove"}) => OpIn(work', {"remove"})
  PROVE  Silent'
<1>1. channel_ \in ChannelType /\ Consistent(channel_)
  BY ConsistentNow
<1>2. channel_' = channel_ /\ Deaf => Deaf'
  BY DEF Deaf
<1>3. OpIn(work', {"close"}) => Drained' \/ Deaf'
  BY <1>2
<1>4. ASSUME downs # 0
      PROVE  "IN" \notin channel_'.events /\ (Deaf => Deaf')
  <2>1. "IN" \notin channel_.events
    BY <1>4 DEF Silent
  <2>2. CASE channel_' = channel_
    BY <1>2, <2>1, <2>2
  <2>3. CASE channel_' \in {EnableWriting(channel_), DisableWriting(channel_)}
    <3>1. "IN" \notin channel_'.events
      BY <1>1, <2>1, <2>3, KernelProperties
    <3>2. ~channel_.registered => "IN" \notin channel_'.interest
      BY <1>1, <2>1, <2>3, KernelProperties
    <3>3. channel_.registered => channel_'.interest = channel_.interest
      BY <1>1, <2>3, KernelProperties
    <3>4. QED
      BY <3>1, <3>2, <3>3 DEF Deaf
  <2>4. QED
    BY <2>2, <2>3
<1>5. downs # 0 => Drained' \/ (~OpIn(work', {"read"}) /\ (Deaf' \/ OpIn(work', {"remove"})))
  BY <1>4 DEF Silent
<1>6. QED
  BY <1>3, <1>4, <1>5 DEF Silent

\* The step that reports the connection down.
LEMMA SilentDown ==
  ASSUME Typed, Silent, UNCHANGED <<unread, peer>>,
         channel_' = DisableAll(channel_),
         ~OpIn(work', {"read", "message", "close"}),
         Drained \/ Deaf \/ OpIn(work', {"remove"})
  PROVE  Silent'
<1>1. channel_ \in ChannelType /\ Consistent(channel_)
  BY ConsistentNow
<1>2. "IN" \notin channel_'.events
  BY <1>1, KernelProperties
<1>3. Deaf => Deaf'
  BY <1>1, KernelProperties DEF Deaf
<1>4. Drained => Drained'
  BY DEF Drained
<1>5. ~OpIn(work', {"read"}) /\ ~OpIn(work', {"message"}) /\ ~OpIn(work', {"close"})
  BY DEF OpIn
<1>6. QED
  BY <1>2, <1>3, <1>4, <1>5 DEF Silent

LEMMA SilentStep ==
  ASSUME CourseInv, Next
  PROVE  Silent'
<1>1. Typed /\ InLine /\ Stated /\ Once /\ Unborn /\ QueuesHoldFunctors /\ Silent
  BY DEF CourseInv
<1>2. channel_ \in ChannelType /\ Consistent(channel_) /\ work \in Seq(Item)
  BY <1>1, ConsistentNow
<1>3. work # <<>> => \A ops : OpIn(work, ops) <=> Head(work).op \in ops \/ Behind(ops)
  BY <1>2, OpsNow
<1>4. /\ peer = "reset" => ~unread
      /\ OpIn(work, {"close"}) => Drained \/ Deaf
      /\ OpIn(work, {"message"}) => downs = 0
      /\ OpIn(work, {"read"}) => unread \/ peer # "open"
      /\ OpIn(work, {"read"}) /\ downs # 0 => Drained
  BY <1>1 DEF Silent
<1>5. UNCHANGED <<unread, peer>> => Drained = Drained'
  BY DEF Drained
<1>6. work = <<>> => \A ops : ~OpIn(work, ops)
  BY EmptySeq, LenProperties DEF OpIn
<1>7. CASE Aside
  <2>1. UNCHANGED <<work, downs>>
    BY <1>7, AsideKeepsWork
  <2>2. channel_' = channel_ \/ (channel_' = EnableWriting(channel_) /\ InUserCode)
    BY <1>1, <1>7, AsideEffect
  <2>3. OpIn(work, {"close"}) => ~InUserCode
    BY <1>1, <1>3, BehindFacts DEF InUserCode, UserCode
  <2>4. SocketGrows
    BY <1>1, <1>7, AsideSocket
  <2>5. QED
    BY <1>1, <1>4, <2>1, <2>2, <2>3, <2>4, SilentKept DEF SocketGrows
<1>8. CASE Finishing /\ ~RemoveAfterCallback
  <2>1. work # <<>> /\ Then(<<>>) /\ downs' = downs
    BY <1>8, FinishingFacts
  <2>2. /\ channel_' \in {channel_, EnableWriting(channel_), DisableWriting(channel_)}
        /\ UNCHANGED <<unread, peer>>
        /\ Head(work).op # "remove"
    BY <1>1, <1>8, FinishingEffect
  <2>3. \A ops : OpIn(work', ops) <=> Behind(ops)
    BY <1>2, <2>1, OpsNone
  <2>4. ~OpIn(work', {"close"}) /\ ~OpIn(work', {"message"})
    BY <1>1, <2>1, <2>3, BehindFacts
  <2>5. /\ OpIn(work', {"read"}) => OpIn(work, {"read"})
        /\ OpIn(work, {"remove"}) => OpIn(work', {"remove"})
    BY <1>3, <2>1, <2>2, <2>3
  <2>6. QED
    BY <1>1, <1>4, <1>5, <2>1, <2>2, <2>4, <2>5, SilentKept
<1>9. ASSUME NEW writable \in BOOLEAN, Poll(writable)
      PROVE  Silent'
  <2>1. work = <<>> /\ UNCHANGED <<channel_, downs, unread, peer>>
    BY <1>1, <1>9 DEF Poll, InLine, socketVars, historyVars
  <2>2. /\ OpIn(work', {"close"}) => Deaf
        /\ OpIn(work', {"read"}) => (unread \/ peer # "open") /\ ~Deaf
        /\ ~OpIn(work', {"message"})
    BY <1>1, <1>9, PollCalls DEF OpIn
  <2>3. downs # 0 => Drained \/ Deaf
    BY <1>1, <1>6, <2>1 DEF Silent
  <2>4. QED
    BY <1>1, <1>4, <1>5, <1>6, <2>1, <2>2, <2>3, SilentKept
<1>10. CASE SwapPending \/ EndBatch
  <2>1. UNCHANGED <<work, channel_, downs, unread, peer>>
    BY <1>10 DEF SwapPending, EndBatch, socketVars, historyVars
  <2>2. QED
    BY <1>1, <1>4, <1>5, <2>1, SilentKept
<1>11. CASE StartFunctor
  <2>1. work = <<>> /\ UNCHANGED <<channel_, downs, unread, peer>>
    BY <1>11 DEF StartFunctor, socketVars, historyVars
  <2>2. ~OpIn(work', {"read"}) /\ ~OpIn(work', {"message"}) /\ ~OpIn(work', {"close"})
    <3>1. work' = <<functors[next]>> /\ next \in 1 .. Len(functors)
      BY <1>1, <1>11, LenProperties DEF StartFunctor, Typed, TypeOK
    <3>2. Len(work') = 1 /\ work'[1].op \in Functor
      BY <1>1, <3>1 DEF QueuesHoldFunctors
    <3>3. QED
      BY <3>2 DEF OpIn, Functor
  <2>3. QED
    BY <1>1, <1>4, <1>5, <1>6, <2>1, <2>2, SilentKept
<1>12. CASE connectEstablished
  <2>1. /\ work # <<>> /\ Head(work).op = "connectEstablished" /\ Then(<<"connection">>)
        /\ UNCHANGED <<downs, unread, peer>>
    BY <1>12 DEF connectEstablished, At, socketVars, historyVars
  <2>2. downs = 0
    <3>1. At("connectEstablished")
      BY <2>1 DEF At
    <3>2. work[1].op = "connectEstablished" /\ Len(work) \in Nat \ {0}
      BY <1>2, <3>1, AtFirst
    <3>3. 1 \in 1 .. Len(work)
      BY <3>2
    <3>4. QED
      BY <1>1, <3>2, <3>3 DEF Once, Lacks, Unborn
  <2>3. \A ops : OpIn(work', ops) => "connection" \in ops
    <3>1. \A ops : ~Behind(ops)
      BY <1>1, <2>1, BehindFacts
    <3>2. "connection" \in Op
      BY DEF Op, UserCode
    <3>3. QED
      BY <1>2, <2>1, <3>1, <3>2, OpsOne
  <2>4. QED
    BY <1>1, <2>1, <2>2, <2>3 DEF Silent
<1>13. CASE handleRead
  <2>1. /\ work # <<>> /\ Head(work).op = "read"
        /\ UNCHANGED <<channel_, downs, peer>>
    BY <1>13 DEF handleRead, At, historyVars
  <2>2. ~Behind({"read"}) /\ ~Behind({"close"}) /\ ~Behind({"message"}) /\ ~Behind({"remove"})
    BY <1>1, <2>1, BehindFacts
  <2>3. \A a \in {"message", "error", "close"} : a \in Op
    BY DEF Op, UserCode
  <2>4. OpIn(work, {"read"}) /\ ~OpIn(work, {"remove"})
    BY <1>3, <2>1, <2>2
  <2>5. CASE unread /\ unread' = FALSE /\ Then(<<"message">>)
    <3>1. \A ops : OpIn(work', ops) <=> "message" \in ops \/ Behind(ops)
      BY <1>2, <2>1, <2>3, <2>5, OpsOne
    <3>2. ~Drained /\ downs = 0
      BY <1>4, <2>4, <2>5 DEF Drained
    <3>3. ~OpIn(work', {"read"}) /\ ~OpIn(work', {"close"})
      BY <2>2, <3>1
    <3>4. QED
      BY <1>1, <1>4, <2>1, <2>4, <2>5, <3>2, <3>3, SilentKept
  <2>6. CASE UNCHANGED unread /\ Then(<<"error">>)
    <3>1. \A ops : OpIn(work', ops) <=> "error" \in ops \/ Behind(ops)
      BY <1>2, <2>1, <2>3, <2>6, OpsOne
    <3>2. ~OpIn(work', {"read"}) /\ ~OpIn(work', {"close"}) /\ ~OpIn(work', {"message"})
      BY <2>2, <3>1
    <3>3. QED
      BY <1>1, <1>4, <1>5, <2>1, <2>4, <2>6, <3>2, SilentKept
  <2>7. CASE ~unread /\ UNCHANGED unread /\ Then(<<"close">>)
    <3>1. \A ops : OpIn(work', ops) <=> "close" \in ops \/ Behind(ops)
      BY <1>2, <2>1, <2>3, <2>7, OpsOne
    <3>2. ~OpIn(work', {"read"}) /\ ~OpIn(work', {"message"})
      BY <2>2, <3>1
    <3>3. Drained
      BY <1>4, <2>4, <2>7 DEF Drained
    <3>4. QED
      BY <1>1, <1>4, <1>5, <2>1, <2>4, <2>7, <3>2, <3>3, SilentKept
  <2>8. QED
    BY <1>13, <2>5, <2>6, <2>7 DEF handleRead
<1>14. CASE RemoveAfterCallback
  <2>1. /\ work # <<>> /\ Then(<<>>) /\ channel_' = RemoveChannel(channel_)
        /\ UNCHANGED <<downs, unread, peer>>
    BY <1>14 DEF RemoveAfterCallback, At, socketVars, historyVars
  <2>2. \A ops : OpIn(work', ops) <=> Behind(ops)
    BY <1>2, <2>1, OpsNone
  <2>3. /\ ~OpIn(work', {"close"}) /\ ~OpIn(work', {"message"})
        /\ ~OpIn(work', {"read"})
    BY <1>1, <1>14, <2>1, <2>2, BehindFacts DEF RemoveAfterCallback, At
  <2>4. Deaf' /\ channel_'.events = channel_.events
    BY <1>2, <2>1, RemovedProperties DEF Deaf
  <2>5. QED
    BY <1>1, <2>1, <2>3, <2>4 DEF Silent
<1>15. CASE handleClose
  <2>1. /\ work # <<>> /\ Head(work).op = "close" /\ Then(<<"connection", "closed">>)
        /\ channel_' = DisableAll(channel_) /\ UNCHANGED <<unread, peer>>
    BY <1>15 DEF handleClose, At, socketVars
  <2>2. ~Behind({"read"}) /\ ~Behind({"close"}) /\ ~Behind({"message"})
    BY <1>1, <2>1, BehindFacts
  <2>3. "connection" \in Op /\ "closed" \in Op
    BY DEF Op, UserCode
  <2>4. ~OpIn(work', {"read", "message", "close"})
    BY <1>2, <2>1, <2>2, <2>3, OpsTwo DEF Behind
  <2>5. Drained \/ Deaf
    BY <1>3, <1>4, <2>1
  <2>6. QED
    BY <1>1, <2>1, <2>4, <2>5, SilentDown
<1>16. CASE connectDestroyed
  <2>1. /\ work # <<>> /\ Head(work).op = "connectDestroyed" /\ UNCHANGED <<unread, peer>>
    BY <1>16 DEF connectDestroyed, At, socketVars
  <2>2. \A ops : ~Behind(ops)
    BY <1>1, <2>1, BehindFacts
  <2>3. CASE state_ = "kConnected"
    <3>1. Then(<<"connection", "remove">>) /\ channel_' = DisableAll(channel_)
      BY <1>16, <2>3 DEF connectDestroyed
    <3>2. "connection" \in Op /\ "remove" \in Op
      BY DEF Op, UserCode
    <3>3. \A ops : OpIn(work', ops) <=> "connection" \in ops \/ "remove" \in ops
      BY <1>2, <2>1, <2>2, <3>1, <3>2, OpsTwo
    <3>4. QED
      BY <1>1, <2>1, <3>1, <3>3, SilentDown
  <2>4. CASE state_ # "kConnected"
    <3>1. Then(<<>>) /\ channel_' = RemoveChannel(channel_) /\ downs' = downs
      BY <1>16, <2>4 DEF connectDestroyed
    <3>2. \A ops : ~OpIn(work', ops)
      BY <1>2, <2>1, <2>2, <3>1, OpsNone
    <3>3. Deaf' /\ channel_'.events = channel_.events
      BY <1>2, <3>1, RemovedProperties DEF Deaf
    <3>4. QED
      BY <1>1, <2>1, <3>1, <3>2, <3>3 DEF Silent
  <2>5. QED
    BY <2>3, <2>4
<1>17. QED
  BY <1>7, <1>8, <1>9, <1>10, <1>11, <1>12, <1>13, <1>14, <1>15, <1>16
     DEF Next, LoopStep, Aside, Finishing

------------------------------------------------------------------------------
(***************************************************************************)
(* What follows for the user and for the poller.                           *)
(***************************************************************************)
LEMMA CourseStep == CourseInv /\ [Next]_vars => CourseInv'
<1>1. CASE UNCHANGED vars
  BY <1>1 DEF vars, loopVars, userVars, serverVars, socketVars, historyVars, CourseInv, Typed,
       TypeOK, PollerConsistent, QueuesHoldFunctors, InLine, Once, Lacks, Unborn, Stated, OpIn,
       NotRemovedInHandler, DownIsReported, Silent, Drained, Deaf
<1>2. ASSUME CourseInv, Next
      PROVE  CourseInv'
  <2>1. Typed /\ QueuesHoldFunctors /\ InLine /\ Once /\ Unborn
    BY <1>2 DEF CourseInv
  <2>2. Typed'
    BY <1>2, <2>1, NextTyped
  <2>3. QueuesHoldFunctors' /\ InLine' /\ Once' /\ Unborn'
    BY <1>2, <2>1, QueuesStep, LineStep, OnceStep, UnbornStep
  <2>4. Stated' /\ Silent'
    BY <1>2, StatedStep, SilentStep
  <2>5. QED
    BY <2>2, <2>3, <2>4 DEF CourseInv
<1>3. QED
  BY <1>1, <1>2

LEMMA AlwaysCourse == Spec => []CourseInv
  BY InitCourse, CourseStep, PTL DEF Spec

\* After its down callback a connection delivers no message, although handleClose and
\* connectDestroyed leave the fd in the epoll set (TcpConnection.cc:193-207, 282-298).
THEOREM DownIsSilent == Spec => []NoMessageAfterDown
<1>1. CourseInv => NoMessageAfterDown
  <2> SUFFICES ASSUME CourseInv, downs > 0, At("message")
               PROVE  FALSE
    BY DEF NoMessageAfterDown
  <2>1. work \in Seq(Item) /\ downs \in 0 .. 2
    BY ConsistentNow DEF CourseInv
  <2>2. work[1].op = "message" /\ 1 \in 1 .. Len(work)
    BY <2>1, AtFirst
  <2>3. ~OpIn(work, {"message"})
    BY <2>1 DEF CourseInv, Silent
  <2>4. QED
    BY <2>2, <2>3 DEF OpIn
<1>2. QED
  BY <1>1, AlwaysCourse, PTL

\* Whatever closes the connection, and with one loop or several, its channel is in the
\* epoll set while its events are handled (TcpServer.cc:83-95).
THEOREM HandlerKeepsChannel == Spec => []NotRemovedInHandler
<1>1. CourseInv => NotRemovedInHandler
  BY DEF CourseInv, Stated
<1>2. QED
  BY <1>1, AlwaysCourse, PTL

\* A connection reported up is reported down before its channel leaves the poller, or
\* was being shut down (TcpConnection.cc:193-207).
THEOREM RemovalFollowsDown == Spec => []DownIsReported
<1>1. CourseInv => DownIsReported
  BY DEF CourseInv, Stated
<1>2. QED
  BY <1>1, AlwaysCourse, PTL

------------------------------------------------------------------------------
(***************************************************************************)
(* Without foreign users a connection in the poller is kept by the server, *)
(* or by the connectDestroyed on its way to the loop.                      *)
(***************************************************************************)
LoopHolds ==
  \/ OpIn(work, {"connectDestroyed", "remove"})
  \/ OpIn(pending, {"connectDestroyed"})
  \/ \E i \in next .. Len(functors) : functors[i].op = "connectDestroyed"

Kept == ups = 0 \/ channel_.mapped => inMap \/ LoopHolds
NoRaw == ~OpIn(work, RawFunctor) /\ ~OpIn(pending, RawFunctor) /\ ~OpIn(functors, RawFunctor)
Emptied == phase # "run" => Len(functors) = 0

KeptInv == CourseInv /\ Kept /\ NoRaw /\ Emptied

LEMMA InitKept == Init => KeptInv
<1> SUFFICES ASSUME Init
             PROVE  KeptInv
  OBVIOUS
<1>1. CourseInv
  BY InitCourse
<1>2. Kept
  BY DEF Init, Kept
<1>3. Len(<<>>) = 0 /\ Len(<<Do("connectEstablished")>>) = 1
      /\ <<Do("connectEstablished")>>[1].op = "connectEstablished"
  BY EmptySeq DEF Do
<1>4. functors = <<>> /\ work \in {<<>>, <<Do("connectEstablished")>>}
      /\ pending \in {<<>>, <<Do("connectEstablished")>>}
  BY DEF Init
<1>5. NoRaw /\ Emptied
  BY <1>3, <1>4 DEF NoRaw, OpIn, RawFunctor, Emptied
<1>6. QED
  BY <1>1, <1>2, <1>5 DEF KeptInv

\* The loop thread's step, when it takes the call at the head of its work away.
LEMMA HeadSteps ==
  ASSUME Typed, Next, ~connectDestroyed, ~RemoveAfterCallback
  PROVE  \/ work' = work
         \/ work = <<>> /\ ((\E writable \in BOOLEAN : Poll(writable)) \/ StartFunctor)
         \/ /\ work # <<>> /\ Head(work).op \notin {"connectDestroyed", "remove"}
            /\ \A ops : Behind(ops) => OpIn(work', ops)
            /\ \A ops : OpIn(work', ops)
                 => Behind(ops) \/ ops \cap {"connection", "message", "error", "close", "closed"} # {}
         \/ work # <<>> /\ \E writable \in BOOLEAN : Poll(writable)
<1>1. work \in Seq(Item)
  BY ConsistentNow
<1>2. {"connection", "message", "error", "close", "closed"} \subseteq Op
  BY DEF Op, UserCode
<1>3. CASE Finishing
  <2>1. work # <<>> /\ Then(<<>>) /\ Head(work).op # "remove"
    BY <1>3, FinishingFacts, FinishingEffect
  <2>2. Head(work).op # "connectDestroyed"
    BY <1>3 DEF Finishing, handleError, handleWrite, removeConnection, RemoveAfterCallback,
       SendFunctor, ShutdownFunctor, CallbackReturns, At, InUserCode, UserCode
  <2>3. QED
    BY <1>1, <2>1, <2>2, OpsNone
<1>4. CASE connectEstablished \/ handleRead
  <2>1. /\ work # <<>> /\ Head(work).op \notin {"connectDestroyed", "remove"}
        /\ \E a \in {"connection", "message", "error", "close"} : Then(<<a>>)
    BY <1>4 DEF connectEstablished, handleRead, At
  <2>2. QED
    BY <1>1, <1>2, <2>1, OpsOne
<1>5. CASE handleClose
  <2>1. /\ work # <<>> /\ Head(work).op \notin {"connectDestroyed", "remove"}
        /\ Then(<<"connection", "closed">>)
    BY <1>5 DEF handleClose, At
  <2>2. QED
    BY <1>1, <1>2, <2>1, OpsTwo
<1>6. CASE Aside
  BY <1>6, AsideKeepsWork
<1>7. CASE SwapPending \/ EndBatch
  BY <1>7 DEF SwapPending, EndBatch
<1>8. CASE StartFunctor
  BY <1>8 DEF StartFunctor
<1>9. QED
  BY <1>3, <1>4, <1>5, <1>6, <1>7, <1>8 DEF Next, LoopStep, Aside, Finishing

LEMMA EmptiedStep ==
  ASSUME Typed, Emptied, Next
  PROVE  Emptied'
<1>1. Len(<<>>) = 0
  BY EmptySeq
<1>2. CASE Aside
  BY <1>2, AsideKeepsWork DEF Emptied
<1>3. CASE Finishing
  BY <1>3, FinishingFacts DEF Emptied
<1>4. CASE \/ \E writable \in BOOLEAN : Poll(writable)
           \/ SwapPending \/ StartFunctor \/ EndBatch \/ connectEstablished
           \/ connectDestroyed \/ handleRead \/ handleClose
  BY <1>1, <1>4 DEF Poll, SwapPending, StartFunctor, EndBatch, connectEstablished,
     connectDestroyed, handleRead, handleClose, Emptied
<1>5. QED
  BY <1>2, <1>3, <1>4 DEF Next, LoopStep, Aside, Finishing

LEMMA RawStep ==
  ASSUME Typed, QueuesHoldFunctors, NoRaw, Emptied, User = {}, Next
  PROVE  NoRaw' /\ Emptied'
<1>1. /\ work \in Seq(Item) /\ functors \in Seq(Item) /\ pending \in Seq(Item)
      /\ Len(functors) \in Nat /\ Len(pending) \in Nat /\ next \in Nat \ {0}
      /\ Len(<<>>) = 0
  BY LenProperties, EmptySeq DEF Typed, TypeOK
<1>2. SwapPending \/ MorePending(Later)
  BY PendingStep
<1>3. ~OpIn(pending', RawFunctor)
  <2>1. CASE SwapPending
    BY <1>1, <2>1 DEF SwapPending, OpIn
  <2>2. CASE MorePending(Later)
    BY <1>1, <2>2 DEF MorePending, NoRaw, OpIn, Told, Later, RawFunctor
  <2>3. QED
    BY <1>2, <2>1, <2>2
<1>4. functors' \in {functors, <<>>} \/ functors' = pending
  BY BatchStep DEF SwapPending, StartFunctor, EndBatch
<1>5. ~OpIn(functors', RawFunctor)
  BY <1>1, <1>4 DEF NoRaw, OpIn
<1>6. ~OpIn(work', RawFunctor)
  <2>1. CASE StartFunctor
    <3>1. work' = <<functors[next]>> /\ next \in 1 .. Len(functors)
      BY <1>1, <2>1 DEF StartFunctor
    <3>2. Len(work') = 1 /\ work'[1].op \notin RawFunctor
      BY <3>1 DEF NoRaw, OpIn
    <3>3. QED
      BY <3>2 DEF OpIn
  <2>2. ASSUME NEW writable \in BOOLEAN, Poll(writable)
        PROVE  ~OpIn(work', RawFunctor)
    BY <2>2, PollCalls DEF OpIn, RawFunctor
  <2>3. CASE connectDestroyed \/ RemoveAfterCallback
    <3>1. work # <<>> /\ (Then(<<>>) \/ Then(<<"connection", "remove">>))
      BY <2>3 DEF connectDestroyed, RemoveAfterCallback, At
    <3>2. ~Behind(RawFunctor)
      BY <1>1, <3>1, OpsNow DEF NoRaw
    <3>3. "connection" \in Op /\ "remove" \in Op
      BY DEF Op, UserCode
    <3>4. QED
      BY <1>1, <3>1, <3>2, <3>3, OpsNone, OpsTwo DEF RawFunctor
  <2>4. CASE ~connectDestroyed /\ ~RemoveAfterCallback
    <3>1. work # <<>> => ~Behind(RawFunctor)
      BY <1>1, OpsNow DEF NoRaw
    <3>2. RawFunctor \cap {"connection", "message", "error", "close", "closed"} = {}
      BY DEF RawFunctor
    <3>3. QED
      BY <2>1, <2>2, <2>4, <3>1, <3>2, HeadSteps DEF NoRaw
  <2>5. QED
    BY <2>3, <2>4
<1>7. Emptied'
  BY EmptiedStep
<1>8. QED
  BY <1>3, <1>5, <1>6, <1>7 DEF NoRaw

\* The connectDestroyed that was queued goes on being queued, or at work, until it runs.
LEMMA HoldsStay ==
  ASSUME Typed, InLine, Emptied, LoopHolds, Next, ~connectDestroyed, ~RemoveAfterCallback
  PROVE  LoopHolds'
<1>1. /\ work \in Seq(Item) /\ functors \in Seq(Item) /\ pending \in Seq(Item)
      /\ Len(functors) \in Nat /\ Len(pending) \in Nat /\ next \in Nat \ {0}
      /\ Len(<<>>) = 0
  BY LenProperties, EmptySeq DEF Typed, TypeOK
<1>2. work = <<>> => ~OpIn(work, {"connectDestroyed", "remove"})
  BY <1>1 DEF OpIn
<1>3. CASE OpIn(work, {"connectDestroyed", "remove"})
  <2>1. work # <<>> => Head(work).op \in {"connectDestroyed", "remove"}
                       \/ Behind({"connectDestroyed", "remove"})
    BY <1>1, <1>3, OpsNow
  <2>2. ASSUME NEW writable \in BOOLEAN, Poll(writable)
        PROVE  work = <<>>
    BY <2>2 DEF Poll, InLine
  <2>3. OpIn(work', {"connectDestroyed", "remove"})
    BY <1>2, <1>3, <2>1, <2>2, HeadSteps
  <2>4. QED
    BY <2>3 DEF LoopHolds
<1>4. CASE OpIn(pending, {"connectDestroyed"})
  <2>1. PICK i \in 1 .. Len(pending) : pending[i].op = "connectDestroyed"
    BY <1>4 DEF OpIn
  <2>2. CASE SwapPending
    BY <2>1, <2>2 DEF SwapPending, LoopHolds
  <2>3. CASE \E ops : MorePending(ops)
    <3>1. pending'[i].op = "connectDestroyed" /\ Len(pending) <= Len(pending')
      BY <2>1, <2>3 DEF MorePending
    <3>2. Len(pending') \in Nat
      BY NextTyped, LenProperties DEF Typed, TypeOK
    <3>3. i \in 1 .. Len(pending')
      BY <1>1, <3>1, <3>2
    <3>4. QED
      BY <3>1, <3>3 DEF LoopHolds, OpIn
  <2>4. QED
    BY <2>2, <2>3, PendingStep
<1>5. CASE \E i \in next .. Len(functors) : functors[i].op = "connectDestroyed"
  <2>1. PICK i \in next .. Len(functors) : functors[i].op = "connectDestroyed"
    BY <1>5
  <2>2. CASE UNCHANGED <<functors, next>>
    BY <2>1, <2>2 DEF LoopHolds
  <2>3. CASE SwapPending \/ EndBatch
    BY <1>1, <2>1, <2>3 DEF SwapPending, EndBatch, Emptied
  <2>4. CASE StartFunctor
    <3>1. /\ work' = <<functors[next]>> /\ next' = next + 1 /\ functors' = functors
      BY <2>4 DEF StartFunctor
    <3>2. i = next \/ i \in next + 1 .. Len(functors)
      BY <1>1, <2>1
    <3>3. i = next => OpIn(work', {"connectDestroyed", "remove"})
      BY <2>1, <3>1 DEF OpIn
    <3>4. QED
      BY <2>1, <3>1, <3>2, <3>3 DEF LoopHolds
  <2>5. QED
    BY <2>2, <2>3, <2>4, BatchStep
<1>6. QED
  BY <1>3, <1>4, <1>5 DEF LoopHolds

\* The channel comes into the poller's map once, by connectEstablished.
LEMMA MappedStep ==
  ASSUME CourseInv, NoRaw, Next, channel_'.mapped
  PROVE  channel_.mapped \/ ups = 0
<1>1. Typed /\ InLine /\ Stated
  BY DEF CourseInv
<1>2. /\ channel_ \in ChannelType /\ Consistent(channel_) /\ work \in Seq(Item)
      /\ ups \in 0 .. 2 /\ (channel_.registered => channel_.mapped)
  BY <1>1, ConsistentNow
<1>3. state_ = "kConnected" => channel_.mapped
  BY <1>1, <1>2 DEF Stated
<1>4. \A op \in {"write", "close"} : At(op) => channel_.mapped \/ ups = 0
  <2> SUFFICES ASSUME NEW op \in {"write", "close"}, At(op), ups # 0
               PROVE  channel_.mapped
    OBVIOUS
  <2>1. work # <<>> /\ work[1].op = op /\ 1 \in 1 .. Len(work)
    BY <1>2, AtFirst DEF At
  <2>2. phase = "handle"
    BY <1>1, <2>1 DEF InLine
  <2>3. QED
    BY <1>1, <1>2, <2>1, <2>2 DEF Stated, NotRemovedInHandler
<1>5. ~At("sendInLoop")
  <2>1. At("sendInLoop") => work[1].op = "sendInLoop" /\ 1 \in 1 .. Len(work)
    BY <1>2, AtFirst
  <2>2. QED
    BY <2>1 DEF NoRaw, OpIn, RawFunctor
<1>6. CASE Aside
  BY <1>1, <1>3, <1>6, AsideEffect
<1>7. CASE Finishing /\ ~RemoveAfterCallback
  BY <1>1, <1>4, <1>5, <1>7, FinishingEffect
<1>8. CASE handleClose
  BY <1>4, <1>8 DEF handleClose
<1>9. CASE connectDestroyed \/ RemoveAfterCallback
  <2>1. channel_' = RemoveChannel(channel_) \/ state_ = "kConnected"
    BY <1>9 DEF connectDestroyed, RemoveAfterCallback
  <2>2. ~RemoveChannel(channel_).mapped
    BY <1>2, RemovedProperties
  <2>3. QED
    BY <1>3, <2>1, <2>2
<1>10. CASE connectEstablished
  <2>1. work[1].op = "connectEstablished" /\ 1 \in 1 .. Len(work)
    BY <1>2, <1>10, AtFirst DEF connectEstablished
  <2>2. QED
    BY <2>1 DEF CourseInv, Once, Lacks
<1>11. CASE \/ \E writable \in BOOLEAN : Poll(writable)
            \/ SwapPending \/ StartFunctor \/ EndBatch \/ handleRead
  BY <1>11 DEF Poll, SwapPending, StartFunctor, EndBatch, handleRead
<1>12. QED
  BY <1>6, <1>7, <1>8, <1>9, <1>10, <1>11 DEF Next, LoopStep, Aside, Finishing

\* Leaving connections_ queues connectDestroyed.
LEMMA MapStep ==
  ASSUME Typed, Next, inMap, ~inMap'
  PROVE  LoopHolds'
<1>1. pending \in Seq(Item) /\ Do("connectDestroyed") \in Item
  BY DoType DEF Typed, TypeOK, Op, Functor
<1>2. CASE removeConnection \/ MainLoopRemoves \/ ServerDestroyed
  <2>1. pending' = Append(pending, Do("connectDestroyed"))
    BY <1>2 DEF removeConnection, MainLoopRemoves, ServerDestroyed, removeConnectionInLoop
  <2>2. /\ Len(pending') = Len(pending) + 1 /\ Len(pending) \in Nat
        /\ pending'[Len(pending) + 1] = Do("connectDestroyed")
    BY <1>1, <2>1, AppendProperties, LenProperties
  <2>3. Len(pending) + 1 \in 1 .. Len(pending')
    BY <2>2
  <2>4. QED
    BY <2>2, <2>3 DEF LoopHolds, OpIn, Do
<1>3. CASE \/ \E writable \in BOOLEAN : Poll(writable)
           \/ SwapPending \/ StartFunctor \/ EndBatch \/ connectEstablished
           \/ connectDestroyed \/ RemoveAfterCallback \/ handleRead \/ handleError
           \/ handleClose \/ handleWrite \/ SendFunctor \/ ShutdownFunctor \/ CallbackReturns
  BY <1>3 DEF Poll, SwapPending, StartFunctor, EndBatch, connectEstablished, connectDestroyed,
     RemoveAfterCallback, handleRead, handleError, handleClose, handleWrite, SendFunctor,
     ShutdownFunctor, CallbackReturns, serverVars
<1>4. ASSUME NEW u \in User, UserStep(u)
      PROVE  LoopHolds'
  BY <1>4 DEF UserStep, Send, SendQueues, Shutdown, ShutdownSets, ShutdownQueues, serverVars
<1>5. CASE \/ \E m \in Message : SendInCallback(m) \/ FreeBuffer(m)
           \/ ShutdownInCallback \/ UsersRelease \/ PeerSends \/ PeerCloses \/ PeerResets
  BY <1>5 DEF SendInCallback, FreeBuffer, ShutdownInCallback, UsersRelease, PeerSends,
     PeerCloses, PeerResets, serverVars
<1>6. QED
  BY <1>2, <1>3, <1>4, <1>5 DEF Next, LoopStep

LEMMA KeptStep ==
  ASSUME KeptInv, User = {}, Next
  PROVE  KeptInv'
<1>1. CourseInv /\ Typed /\ InLine /\ QueuesHoldFunctors /\ Kept /\ NoRaw /\ Emptied
  BY DEF KeptInv, CourseInv
<1>2. CourseInv' /\ NoRaw' /\ Emptied'
  BY <1>1, CourseStep, RawStep
<1>3. ASSUME ups' = 0 \/ channel_'.mapped, ~inMap'
      PROVE  LoopHolds'
  <2>1. ups = 0 \/ channel_.mapped
    BY <1>1, <1>3, UpsStay, MappedStep
  <2>2. CASE inMap
    BY <1>1, <1>3, <2>2, MapStep
  <2>3. CASE LoopHolds /\ ~connectDestroyed /\ ~RemoveAfterCallback
    BY <1>1, <2>3, HoldsStay
  <2>4. CASE connectDestroyed \/ RemoveAfterCallback
    <3>1. /\ work # <<>> /\ Head(work).op # "connectEstablished" /\ ups' = ups
      BY <2>4 DEF connectDestroyed, RemoveAfterCallback, At, historyVars
    <3>2. channel_'.mapped
      BY <1>1, <1>3, <3>1, NothingBefore DEF CourseInv
    <3>3. channel_' # RemoveChannel(channel_)
      BY <1>1, <3>2, ConsistentNow, RemovedProperties
    <3>4. Then(<<"connection", "remove">>)
      BY <2>4, <3>3 DEF connectDestroyed, RemoveAfterCallback
    <3>5. "connection" \in Op /\ "remove" \in Op
      BY DEF Op, UserCode
    <3>6. OpIn(work', {"connectDestroyed", "remove"})
      BY <1>1, <3>1, <3>4, <3>5, ConsistentNow, OpsTwo
    <3>7. QED
      BY <3>6 DEF LoopHolds
  <2>5. QED
    BY <1>1, <2>1, <2>2, <2>3, <2>4 DEF Kept
<1>4. QED
  BY <1>2, <1>3 DEF KeptInv, Kept

LEMMA AlwaysKept ==
  ASSUME User = {}
  PROVE  Spec => []KeptInv
<1>1. KeptInv /\ [Next]_vars => KeptInv'
  <2>1. CASE UNCHANGED vars
    <3>1. CourseInv => CourseInv'
      BY <2>1, CourseStep
    <3>2. QED
      BY <2>1, <3>1 DEF vars, loopVars, userVars, serverVars, socketVars, historyVars, KeptInv,
         Kept, LoopHolds, OpIn, NoRaw, Emptied
  <2>2. QED
    BY <2>1, KeptStep
<1>2. QED
  BY InitKept, <1>1, PTL DEF Spec

\* With no thread but the loops' holding it, a connection is not destroyed while its
\* channel is in the poller: the shared_ptr in connections_, then the one bound to
\* connectDestroyed, keeps it (TcpServer.cc:89-95).
THEOREM PollerOutlived ==
  ASSUME User = {}
  PROVE  Spec => []RemovedBeforeDeath
<1>1. KeptInv => RemovedBeforeDeath
  <2> SUFFICES ASSUME KeptInv, channel_.mapped, ~inMap
               PROVE  Alive
    BY DEF RemovedBeforeDeath, Alive
  <2>1. LoopHolds
    BY DEF KeptInv, Kept
  <2>2. /\ work \in Seq(Item) /\ functors \in Seq(Item) /\ pending \in Seq(Item)
        /\ next \in Nat \ {0} /\ Len(functors) \in Nat
    BY LenProperties DEF KeptInv, CourseInv, Typed, TypeOK
  <2>3. \A items \in Seq(Item) :
          (\E i \in 1 .. Len(items) : items[i].op \in {"connectDestroyed", "remove"})
            => Holds(items)
    BY LenProperties DEF Holds, RawFunctor
  <2>4. next .. Len(functors) \subseteq 1 .. Len(functors)
    BY <2>2
  <2>5. QED
    BY <2>1, <2>2, <2>3, <2>4 DEF LoopHolds, OpIn, Alive
<1>2. QED
  BY <1>1, AlwaysKept, PTL
==============================================================================
