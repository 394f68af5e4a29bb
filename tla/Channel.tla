------------------------------- MODULE Channel -------------------------------
(***************************************************************************)
(* A Channel (Channel.cc) and its registration with an EPollPoller         *)
(* (EPollPoller.cc): which events the owner asked for, what the poller     *)
(* believes, what the kernel's epoll set holds, and which callbacks an     *)
(* event triggers.  No state of its own: operators on a record, used by    *)
(* the modules that have channels.                                         *)
(***************************************************************************)
EXTENDS Integers, Sequences

KNoneEvent == {}
\* Variant with a bug: EPOLLIN left out.
KReadEventPriorityOnly == {"PRI"}

KReadEvent == {"IN", "PRI"}
KWriteEvent == {"OUT"}

\* index_: the poller's view of the channel.
KNew == -1
KAdded == 1
KDeleted == 2

ChannelType ==
  [events     : SUBSET (KReadEvent \cup KWriteEvent),    \* events_
   index      : {KNew, KAdded, KDeleted},                \* index_
   mapped     : BOOLEAN,                                 \* Channels_[fd] is it
   registered : BOOLEAN,                                 \* fd in the epoll set
   interest   : SUBSET (KReadEvent \cup KWriteEvent)]    \* with these events

NewChannel ==
  [events |-> KNoneEvent, index |-> KNew, mapped |-> FALSE,
   registered |-> FALSE, interest |-> KNoneEvent]

IsNoneEvent(c) == c.events = KNoneEvent
IsWriting(c) == c.events \cap KWriteEvent # {}
IsReading(c) == c.events \cap KReadEvent # {}

\* epoll_ctl(2).  ADD of a registered fd fails with EEXIST, MOD and DEL of an
\* unregistered one with ENOENT; a failed call changes nothing and update()
\* only logs it.
EpollAdd(c) ==
  IF c.registered THEN c ELSE [c EXCEPT !.registered = TRUE, !.interest = c.events]
EpollMod(c) ==
  IF c.registered THEN [c EXCEPT !.interest = c.events] ELSE c
EpollDel(c) == [c EXCEPT !.registered = FALSE, !.interest = KNoneEvent]

\* Variant: the comparison EPollPoller.cc:78 leaves out, which lets OUT reach the
\* kernel, and with it handleWrite a live connection.
TakesAddBranchOfRemoved(c) == c.index \in {KNew, KDeleted}

\* The condition of EPollPoller.cc:78 as written: index == KNew || KDeleted,
\* whose second operand is the constant 2, not a comparison.
TakesAddBranch(c) == c.index = KNew \/ KDeleted # 0

UpdateChannel(c) ==
  IF TakesAddBranch(c)
  THEN EpollAdd([c EXCEPT !.mapped = @ \/ c.index = KNew, !.index = KAdded])
  ELSE IF IsNoneEvent(c)
       THEN [EpollDel(c) EXCEPT !.index = KDeleted]
       ELSE EpollMod(c)

\* Variants with a bug: the fd stays in the epoll set; the index is not reset.
RemoveWithoutDel(c) == [c EXCEPT !.mapped = FALSE, !.index = KNew]
RemoveKeepsIndex(c) == [(IF c.index = KAdded THEN EpollDel(c) ELSE c) EXCEPT !.mapped = FALSE]

RemoveChannel(c) ==
  [(IF c.index = KAdded THEN EpollDel(c) ELSE c)
     EXCEPT !.mapped = FALSE, !.index = KNew]

EnableReading(c) == UpdateChannel([c EXCEPT !.events = @ \cup KReadEvent])
DisableReading(c) == UpdateChannel([c EXCEPT !.events = @ \ KReadEvent])
EnableWriting(c) == UpdateChannel([c EXCEPT !.events = @ \cup KWriteEvent])
DisableWriting(c) == UpdateChannel([c EXCEPT !.events = @ \ KWriteEvent])
DisableAll(c) == UpdateChannel([c EXCEPT !.events = KNoneEvent])

\* handleEventWithGuard: the callbacks revents leads to, in the order they are
\* called.  The error test multiplies revents_ by EPOLLERR (Channel.cc:78), so it
\* passes whenever any event is set.
Calls(callback, condition) == IF condition THEN <<callback>> ELSE <<>>

HandleEvent(revents) ==
  Calls("close", "HUP" \in revents /\ "IN" \notin revents)
    \o Calls("error", revents # {})
    \o Calls("read", revents \cap KReadEvent # {})
    \o Calls("write", "OUT" \in revents)
==============================================================================
