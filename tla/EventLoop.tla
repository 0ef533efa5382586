------------------------------ MODULE EventLoop ------------------------------
(***************************************************************************)
(* One EventLoop (Util/eventloop.cc): the thread that runs Loop(), the     *)
(* functor list other threads append to under mutex_, and the eventfd that *)
(* gets the loop out of epoll_wait.                                        *)
(*                                                                         *)
(* A critical section of mutex_ is one statement in the code and one       *)
(* action here.  The push and the eventfd write of a foreign thread are    *)
(* two actions: the loop may swap the list between them.  The counter of   *)
(* the eventfd is reduced to "not zero", all that epoll and read() see.    *)
(* Channel events are those of an abstract set of channels, fewer than the *)
(* kDefaultEvents slots of epoll_wait's array.                             *)
(***************************************************************************)
EXTENDS Naturals, Sequences

CONSTANTS Threads,    \* the threads other than the loop's own
          Funcs,      \* the functions they, handlers and functors queue
          NoFunc,     \* no functor is being called
          Channels,   \* the channels of sockets and timers of this loop
          Wakeup,     \* wakeup_channel_
          MaxPending  \* bound: the list is not appended to beyond this length

ASSUME EventLoopAssumption == /\ NoFunc \notin Funcs
                              /\ Wakeup \notin Channels
                              /\ MaxPending \in Nat

VARIABLES pc,               \* where the loop thread is
          ready,            \* the channels whose file descriptor is readable
          active_channels,  \* those Poll returned and not yet handled
          wakeup_fd,        \* the counter of wakeup_fd_ is not zero
          to_do_list,       \* to_do_list_
          functors,         \* what is left of the local list of DoToDoList
          current,          \* the functor being called, or NoFunc
          calling_functors, \* calling_functors_
          waking            \* threads between the push and the write

vars == <<pc, ready, active_channels, wakeup_fd, to_do_list, functors,
          current, calling_functors, waking>>

PC == {"start", "poll", "events", "handler", "calls", "func"}

TypeOK ==
  /\ pc \in PC
  /\ ready \subseteq Channels
  /\ active_channels \subseteq Channels \cup {Wakeup}
  /\ wakeup_fd \in BOOLEAN
  /\ to_do_list \in Seq(Funcs)
  /\ functors \in Seq(Funcs)
  /\ current \in Funcs \cup {NoFunc}
  /\ calling_functors \in BOOLEAN
  /\ waking \subseteq Threads

Init ==
  /\ pc = "start"
  /\ ready = {}
  /\ active_channels = {}
  /\ wakeup_fd = FALSE
  /\ to_do_list = <<>>
  /\ functors = <<>>
  /\ current = NoFunc
  /\ calling_functors = FALSE
  /\ waking = {}

-----------------------------------------------------------------------------
(* The loop thread.                                                        *)

\* EventLoop::Loop is entered; other threads may have queued before.
Loop ==
  /\ pc = "start"
  /\ pc' = "poll"
  /\ UNCHANGED <<ready, active_channels, wakeup_fd, to_do_list, functors,
                 current, calling_functors, waking>>

\* Fault: FillActiveChannels walks all slots of the array, stale ones included.
ReadyWithStaleSlots == ready \cup {Wakeup}

\* What epoll_wait returns: level-triggered, all that is readable.
ReadyChannels == ready \cup (IF wakeup_fd THEN {Wakeup} ELSE {})

\* Epoller::Poll: epoll_wait has no timeout, it blocks while nothing is ready.
Poll ==
  /\ pc = "poll"
  /\ ReadyChannels # {}
  /\ active_channels' = ReadyChannels
  /\ pc' = "events"
  /\ UNCHANGED <<ready, wakeup_fd, to_do_list, functors, current,
                 calling_functors, waking>>

\* EventLoop::HandleRead, the read callback of wakeup_channel_: the read
\* resets the counter.
HandleRead ==
  /\ pc = "events"
  /\ Wakeup \in active_channels
  /\ active_channels' = active_channels \ {Wakeup}
  /\ wakeup_fd' = FALSE
  /\ UNCHANGED <<pc, ready, to_do_list, functors, current, calling_functors,
                 waking>>

\* Channel::HandleEvent of another channel: its callback consumes what made
\* the descriptor ready and may queue functors until it returns.
HandleEvent(c) ==
  /\ pc = "events"
  /\ c \in active_channels \ {Wakeup}
  /\ active_channels' = active_channels \ {c}
  /\ ready' = ready \ {c}
  /\ pc' = "handler"
  /\ UNCHANGED <<wakeup_fd, to_do_list, functors, current, calling_functors,
                 waking>>

HandlerReturns ==
  /\ pc = "handler"
  /\ pc' = "events"
  /\ UNCHANGED <<ready, active_channels, wakeup_fd, to_do_list, functors,
                 current, calling_functors, waking>>

\* DoToDoList up to the swap under the lock.
DoToDoList ==
  /\ pc = "events"
  /\ active_channels = {}
  /\ calling_functors' = TRUE
  /\ functors' = to_do_list
  /\ to_do_list' = <<>>
  /\ pc' = "calls"
  /\ UNCHANGED <<ready, active_channels, wakeup_fd, current, waking>>

\* The for loop of DoToDoList calls the next functor of the swapped list.
CallFunctor ==
  /\ pc = "calls"
  /\ functors # <<>>
  /\ current' = Head(functors)
  /\ functors' = Tail(functors)
  /\ pc' = "func"
  /\ UNCHANGED <<ready, active_channels, wakeup_fd, to_do_list,
                 calling_functors, waking>>

FunctorReturns ==
  /\ pc = "func"
  /\ current' = NoFunc
  /\ pc' = "calls"
  /\ UNCHANGED <<ready, active_channels, wakeup_fd, to_do_list, functors,
                 calling_functors, waking>>

\* Fault: DoToDoList goes on until the list is empty.
DrainToDoList ==
  /\ pc = "calls"
  /\ functors = <<>>
  /\ functors' = to_do_list
  /\ to_do_list' = <<>>
  /\ calling_functors' = (to_do_list # <<>>)
  /\ pc' = IF to_do_list = <<>> THEN "poll" ELSE "calls"
  /\ UNCHANGED <<ready, active_channels, wakeup_fd, current, waking>>

\* The end of DoToDoList, and back to the head of the while loop.
EndToDoList ==
  /\ pc = "calls"
  /\ functors = <<>>
  /\ calling_functors' = FALSE
  /\ pc' = "poll"
  /\ UNCHANGED <<ready, active_channels, wakeup_fd, to_do_list, functors,
                 current, waking>>

-----------------------------------------------------------------------------
(* EventLoop::QueueOneFunc.                                                *)

\* Fault: the function is moved from before it is stored.
PushMovedFrom(f) ==
  /\ Len(to_do_list) < MaxPending
  /\ to_do_list' = Append(to_do_list, NoFunc)

\* Fault: the function is stored at the wrong end.
PushInFront(f) ==
  /\ Len(to_do_list) < MaxPending
  /\ to_do_list' = <<f>> \o to_do_list

Push(f) ==
  /\ Len(to_do_list) < MaxPending
  /\ to_do_list' = Append(to_do_list, f)

\* Fault: the loop thread never writes, as if it always were before the swap.
LoopThreadNeverWrites == FALSE

\* The condition of the write when the caller is the loop thread.
LoopThreadMustWrite == calling_functors

\* Called by the loop thread itself, from a channel callback or a functor:
\* the eventfd is written only while DoToDoList runs.
QueueInLoop(f) ==
  /\ pc \in {"handler", "func"}
  /\ Push(f)
  /\ wakeup_fd' = (wakeup_fd \/ LoopThreadMustWrite)
  /\ UNCHANGED <<pc, ready, active_channels, functors, current,
                 calling_functors, waking>>

\* Called by another thread: the push under the lock ...
QueueFromThread(t, f) ==
  /\ t \notin waking
  /\ Push(f)
  /\ waking' = waking \cup {t}
  /\ UNCHANGED <<pc, ready, active_channels, wakeup_fd, functors, current,
                 calling_functors>>

\* ... and the write of the eventfd after the unlock.
WriteWakeup(t) ==
  /\ t \in waking
  /\ wakeup_fd' = TRUE
  /\ waking' = waking \ {t}
  /\ UNCHANGED <<pc, ready, active_channels, to_do_list, functors, current,
                 calling_functors>>

\* The kernel makes the descriptor of a channel readable.
BecomeReady(c) ==
  /\ c \notin ready
  /\ ready' = ready \cup {c}
  /\ UNCHANGED <<pc, active_channels, wakeup_fd, to_do_list, functors,
                 current, calling_functors, waking>>

-----------------------------------------------------------------------------

LoopThread == \/ Loop
              \/ Poll
              \/ HandleRead
              \/ \E c \in Channels : HandleEvent(c)
              \/ HandlerReturns
              \/ DoToDoList
              \/ CallFunctor
              \/ FunctorReturns
              \/ EndToDoList

Next == \/ LoopThread
        \/ \E f \in Funcs : QueueInLoop(f)
        \/ \E t \in Threads, f \in Funcs : QueueFromThread(t, f)
        \/ \E t \in Threads : WriteWakeup(t)
        \/ \E c \in Channels : BecomeReady(c)

Safety == Init /\ [][Next]_vars

\* The scheduler runs the loop thread, callbacks and functors return, and a
\* thread that pushed a functor gets to its write.
Spec == /\ Safety
        /\ WF_vars(LoopThread)
        /\ \A t \in Threads : WF_vars(WriteWakeup(t))

-----------------------------------------------------------------------------
(* Properties.                                                             *)

(* The lists live where DoToDoList leaves them: outside of it nothing is   *)
(* left to call.  This is the part of the inductive invariant that relates *)
(* the position of the loop thread to its local data.                      *)
LoopState ==
  /\ calling_functors <=> pc \in {"calls", "func"}
  /\ (pc \notin {"calls", "func"}) => functors = <<>>
  /\ current # NoFunc <=> pc = "func"
  /\ (pc \notin {"events", "handler"}) => active_channels = {}

(* No lost wakeup (eventloop.cc:69-81, 91-103): while the loop is blocked  *)
(* in epoll_wait, or on its way there with the list already swapped, a     *)
(* queued functor means the eventfd is readable or a thread is about to    *)
(* write it.                                                               *)
NoLostWakeup ==
  (pc \in {"start", "poll", "calls", "func"} /\ to_do_list # <<>>)
    => (wakeup_fd \/ waking # {})

(* assert(read_size == sizeof(read_one_byte)) of eventloop.cc:65: the      *)
(* non-blocking read of HandleRead always finds a count to read.           *)
WakeupReadSucceeds == Wakeup \in active_channels => wakeup_fd

(* What the loop promises (TaskExecutor): the functors left of the batch   *)
(* followed by the list are called in order, once each, and all of them.   *)
Executor == INSTANCE TaskExecutor
              WITH pending <- functors \o to_do_list, executing <- current

ImplementsExecutor == Executor!Spec

(* Functors that keep queueing functors cannot keep the loop from its      *)
(* channels: DoToDoList calls only what was queued before its swap, so a   *)
(* ready channel is always handled (eventloop.cc:94-101).                  *)
IoIsServed == \A c \in Channels : c \in ready ~> c \notin ready

=============================================================================
