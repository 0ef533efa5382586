------------------------------ MODULE TcpServer ------------------------------
(***************************************************************************)
(* The life of connections across the threads of the server: Acceptor and  *)
(* TcpServer in the base loop, TcpConnection, Channel and Epoller in the   *)
(* worker loops, and the idle timer of HttpServer, which runs in the base  *)
(* loop whatever loop its connection belongs to.                           *)
(*                                                                         *)
(* Each loop is the TaskExecutor that EventLoop implements, with the phases*)
(* of Loop(): epoll_wait, the channels it returned, the functors queued    *)
(* before the swap.  A handler is one step: other loops share with it only *)
(* the queues, which are locked, and state_, which it stores once.  The    *)
(* bytes of a connection are the subject of TcpConnection.                 *)
(*                                                                         *)
(* A TcpConnection is a shared_ptr.  Its references are counted where they *)
(* are kept, and its destructor, which closes the descriptor, is not an    *)
(* action: it is part of the step that drops the last reference.           *)
(***************************************************************************)
EXTENDS Naturals, Sequences, FiniteSets

CONSTANTS Conns,       \* the connections clients open, each used once
          NoConn,
          Fds,         \* the descriptors idlefd_ and connections share
          NoFd,
          Listener,    \* the channel of listenfd_
          TimerFd,     \* the channel of the base loop's TimerQueue
          ThreadNums,  \* the arguments SetThreadNums may be given
          AutoClose    \* auto_close_idleconnection_

ASSUME TcpServerAssumption == /\ NoConn \notin Conns
                              /\ NoFd \notin Fds
                              /\ Fds # {}
                              /\ Listener \notin Conns
                              /\ TimerFd \notin Conns
                              /\ Listener # TimerFd
                              /\ ThreadNums \subseteq Nat
                              /\ ThreadNums # {}
                              /\ AutoClose \in BOOLEAN

Base == 0
Loops == UNION {0..n : n \in ThreadNums}

\* What QueueOneFunc is given.  AddTimer binds a weak_ptr, the others a
\* shared_ptr.
Functor == [run : {"ConnectionEstablished", "HandleCloseInLoop",
                   "ConnectionDestructor", "AddTimer"},
            conn : Conns]

VARIABLES
  \* the clients and the kernel
  peer,          \* peer[c]: "none", "open" or "closed" by its client
  backlog,       \* connections in the accept queue of listenfd_
  unread,        \* connections with data in their receive buffer
  idlefd,        \* idlefd_
  fd,            \* fd[c]: fd_ of the TcpConnection, kept when it is gone
  \* TcpServer
  connections_,  \* by descriptor
  thread_nums,   \* thread_nums_ of the EventLoopThreadPool
  next,          \* its next_
  \* TcpConnection and Channel
  loop,          \* loop[c]: the loop of the connection
  state,         \* state[c]: state_ of the TcpConnection
  reading,       \* connections whose channel has EPOLLIN in events_
  channel,       \* channel[c]: state_ of the Channel
  \* Epoller
  channels_,     \* channels_[l]: by descriptor
  registered,    \* connections in the interest list of their loop's epollfd_
  \* EventLoop
  pc,            \* pc[l]: where loop l is
  active,        \* active[l]: channels returned by epoll_wait, not yet handled
  to_do,         \* to_do[l]: to_do_list_
  functors,      \* functors[l]: functors of the swapped list, not yet called
  called,        \* called[l]: connections the called ones still refer to
  \* the idle timers of HttpServer
  timer,         \* timer[c]: "none", "armed" or "expired"
  firing,        \* connections whose timer HandleRead is about to run
  held,          \* the connection HandleIdleConnection has locked, or NoConn
  recent         \* connections with a message since their timer was armed

kernelVars == <<peer, backlog, unread, idlefd, fd>>
serverVars == <<connections_, thread_nums, next>>
connVars   == <<loop, state, reading, channel, channels_, registered>>
loopVars   == <<pc, active, to_do, functors, called>>
timerVars  == <<timer, firing, held, recent>>
vars == <<kernelVars, serverVars, connVars, loopVars, timerVars>>

TypeOK ==
  /\ peer \in [Conns -> {"none", "open", "closed"}]
  /\ backlog \subseteq Conns
  /\ unread \subseteq Conns
  /\ idlefd \in Fds
  /\ fd \in [Conns -> Fds \cup {NoFd}]
  /\ connections_ \in [Fds -> Conns \cup {NoConn}]
  /\ thread_nums \in ThreadNums
  /\ next \in 0..thread_nums
  /\ loop \in [Conns -> Loops]
  /\ state \in [Conns -> {"kConnecting", "kConnected", "kDisconnecting",
                          "kDisconnected"}]
  /\ reading \subseteq Conns
  /\ channel \in [Conns -> {"kNew", "kAdded", "kDeleted"}]
  /\ channels_ \in [Loops -> [Fds -> Conns \cup {NoConn}]]
  /\ registered \subseteq Conns
  /\ pc \in [Loops -> {"poll", "events", "calls"}]
  /\ active \in [Loops -> SUBSET (Conns \cup {Listener, TimerFd})]
  /\ to_do \in [Loops -> Seq(Functor)]
  /\ functors \in [Loops -> Seq(Functor)]
  /\ called \in [Loops -> SUBSET Conns]
  /\ timer \in [Conns -> {"none", "armed", "expired"}]
  /\ firing \subseteq Conns
  /\ held \in Conns \cup {NoConn}
  /\ recent \subseteq Conns

Init ==
  /\ peer = [c \in Conns |-> "none"]
  /\ backlog = {}
  /\ unread = {}
  /\ idlefd \in Fds
  /\ fd = [c \in Conns |-> NoFd]
  /\ connections_ = [f \in Fds |-> NoConn]
  /\ thread_nums \in ThreadNums
  /\ next = IF thread_nums = 0 THEN Base ELSE 1
  /\ loop = [c \in Conns |-> Base]
  /\ state = [c \in Conns |-> "kConnecting"]
  /\ reading = {}
  /\ channel = [c \in Conns |-> "kNew"]
  /\ channels_ = [l \in Loops |-> [f \in Fds |-> NoConn]]
  /\ registered = {}
  /\ pc = [l \in Loops |-> "poll"]
  /\ active = [l \in Loops |-> {}]
  /\ to_do = [l \in Loops |-> <<>>]
  /\ functors = [l \in Loops |-> <<>>]
  /\ called = [l \in Loops |-> {}]
  /\ timer = [c \in Conns |-> "none"]
  /\ firing = {}
  /\ held = NoConn
  /\ recent = {}

-----------------------------------------------------------------------------
(* References and descriptors.                                             *)

\* The connections the functors of a list refer to.
ReferredBy(list) ==
  {list[i].conn : i \in {j \in DOMAIN list : list[j].run # "AddTimer"}}

Referred(c) ==
  \/ \E f \in Fds : connections_[f] = c
  \/ \E l \in Loops : \/ c \in ReferredBy(to_do[l])
                      \/ c \in ReferredBy(functors[l])
                      \/ c \in called[l]
  \/ held = c

\* The TcpConnection exists and its descriptor is open.
Alive(c) == Referred(c)

\* Fault: a descriptor is closed with the entry of the map.
FdsOfTheMap == {idlefd} \cup {f \in Fds : connections_[f] # NoConn}

OpenFds == {idlefd} \cup {fd[c] : c \in {d \in Conns : Alive(d)}}

\* accept4 takes the lowest of these; which one makes no difference here.
FreeFds == Fds \ OpenFds

-----------------------------------------------------------------------------
(* Clients and time.                                                       *)

PeerConnects(c) ==
  /\ peer[c] = "none"
  /\ peer' = [peer EXCEPT ![c] = "open"]
  /\ backlog' = backlog \cup {c}
  /\ UNCHANGED <<unread, idlefd, fd, serverVars, connVars, loopVars, timerVars>>

PeerSends(c) ==
  /\ peer[c] = "open"
  /\ unread' = unread \cup {c}
  /\ UNCHANGED <<peer, backlog, idlefd, fd, serverVars, connVars, loopVars,
                 timerVars>>

\* The client closes or shuts down its sending side: read will return 0.
PeerCloses(c) ==
  /\ peer[c] = "open"
  /\ peer' = [peer EXCEPT ![c] = "closed"]
  /\ UNCHANGED <<backlog, unread, idlefd, fd, serverVars, connVars, loopVars,
                 timerVars>>

\* kIdleConnectionTimeOuts have gone by.
Expire(c) ==
  /\ timer[c] = "armed"
  /\ timer' = [timer EXCEPT ![c] = "expired"]
  /\ UNCHANGED <<kernelVars, serverVars, connVars, loopVars, firing, held,
                 recent>>

-----------------------------------------------------------------------------
(* EventLoop.                                                              *)

Readable(c) == c \in unread \/ peer[c] = "closed"

\* What epoll_wait returns to loop l.
Ready(l) ==
  {c \in registered : loop[c] = l /\ c \in reading /\ Readable(c)}
  \cup (IF l = Base /\ backlog # {} THEN {Listener} ELSE {})
  \cup (IF l = Base /\ \E c \in Conns : timer[c] = "expired"
        THEN {TimerFd} ELSE {})

Poll(l) ==
  /\ pc[l] = "poll"
  /\ Ready(l) # {} \/ to_do[l] # <<>>
  /\ active' = [active EXCEPT ![l] = Ready(l)]
  /\ pc' = [pc EXCEPT ![l] = "events"]
  /\ UNCHANGED <<kernelVars, serverVars, connVars, to_do, functors, called,
                 timerVars>>

DoToDoList(l) ==
  /\ pc[l] = "events"
  /\ active[l] = {}
  /\ l = Base => firing = {} /\ held = NoConn
  /\ functors' = [functors EXCEPT ![l] = to_do[l]]
  /\ to_do' = [to_do EXCEPT ![l] = <<>>]
  /\ pc' = [pc EXCEPT ![l] = "calls"]
  /\ UNCHANGED <<kernelVars, serverVars, connVars, active, called, timerVars>>

\* The vector of DoToDoList is destroyed, and the functors with it.
EndToDoList(l) ==
  /\ pc[l] = "calls"
  /\ functors[l] = <<>>
  /\ called' = [called EXCEPT ![l] = {}]
  /\ pc' = [pc EXCEPT ![l] = "poll"]
  /\ UNCHANGED <<kernelVars, serverVars, connVars, active, to_do, functors,
                 timerVars>>

\* QueueOneFunc on loop l.
Queue(l, run, c) ==
  to_do' = [to_do EXCEPT ![l] = Append(@, [run |-> run, conn |-> c])]

\* Channel::HandleEvent of x is the next of loop l.
Handles(l, x) ==
  /\ pc[l] = "events"
  /\ x \in active[l]
  /\ l = Base => firing = {} /\ held = NoConn
  /\ active' = [active EXCEPT ![l] = @ \ {x}]
  /\ UNCHANGED <<pc, functors, called>>

-----------------------------------------------------------------------------
(* Epoller, reached through Channel::Update and EventLoop::Remove.         *)

\* Epoller::UpdateChannel.  epoll_ctl fails, which is logged, when it is to
\* add what it has or to delete what it has not: nothing changes then either.
UpdateChannel(op, c) ==
  \/ op = "EPOLL_CTL_ADD" /\ registered' = registered \cup {c}
  \/ op = "EPOLL_CTL_DEL" /\ registered' = registered \ {c}
  \/ op = "EPOLL_CTL_MOD" /\ UNCHANGED registered

\* Epoller::Update for the channel of c, whose descriptor is f.
Update(c, f) ==
  \/ /\ channel[c] # "kAdded"
     /\ channel' = [channel EXCEPT ![c] = "kAdded"]
     /\ channels_' = IF channel[c] = "kNew"
                     THEN [channels_ EXCEPT ![loop'[c]][f] = c] ELSE channels_
     /\ UpdateChannel("EPOLL_CTL_ADD", c)
  \/ /\ channel[c] = "kAdded"
     /\ c \notin reading'
     /\ channel' = [channel EXCEPT ![c] = "kDeleted"]
     /\ UpdateChannel("EPOLL_CTL_DEL", c)
     /\ UNCHANGED channels_
  \/ /\ channel[c] = "kAdded"
     /\ c \in reading'
     /\ UpdateChannel("EPOLL_CTL_MOD", c)
     /\ UNCHANGED <<channel, channels_>>

\* Channel::EnableReading and Channel::DisableAll.
EnableReading(c, f) == reading' = reading \cup {c} /\ Update(c, f)

DisableAll(c, f) == reading' = reading \ {c} /\ Update(c, f)

\* Fault: Remove is not called.
RemoveForgotten(c) == UNCHANGED <<channel, channels_, registered>>

\* Epoller::Remove.
Remove(c) ==
  /\ \/ channel[c] = "kAdded" /\ UpdateChannel("EPOLL_CTL_DEL", c)
     \/ channel[c] # "kAdded" /\ UNCHANGED registered
  /\ channel' = [channel EXCEPT ![c] = "kNew"]
  /\ channels_' = [channels_ EXCEPT ![loop[c]][fd[c]] = NoConn]

-----------------------------------------------------------------------------
(* Acceptor and TcpServer, in the base loop.                               *)

\* TcpConnection::ConnectionEstablished and HttpServer::ConnectionCallback,
\* whose RunAfter reaches the base loop's TimerQueue through RunOneFunc.
ConnectionEstablished(c, f) ==
  /\ state' = [state EXCEPT ![c] = "kConnected"]
  /\ EnableReading(c, f)
  /\ \/ ~AutoClose /\ UNCHANGED <<to_do, timer>>
     \/ /\ AutoClose
        /\ loop'[c] = Base
        /\ timer' = [timer EXCEPT ![c] = "armed"]
        /\ UNCHANGED to_do
     \/ /\ AutoClose
        /\ loop'[c] # Base
        /\ Queue(Base, "AddTimer", c)
        /\ UNCHANGED timer

\* EventLoopThreadPool::NextLoop returns loop next, and moves on.
NextLoop ==
  /\ next' = IF thread_nums = 0 THEN Base ELSE (next % thread_nums) + 1
  /\ UNCHANGED thread_nums

\* TcpServer::HandleNewConnection.
HandleNewConnection(c, f) ==
  /\ NextLoop
  /\ loop' = [loop EXCEPT ![c] = next]
  /\ fd' = [fd EXCEPT ![c] = f]
  /\ connections_' = [connections_ EXCEPT ![f] = c]
  /\ \/ /\ next = Base
        /\ ConnectionEstablished(c, f)
     \/ /\ next # Base
        /\ Queue(next, "ConnectionEstablished", c)
        /\ UNCHANGED <<state, reading, channel, channels_, registered,
                       timer>>
  /\ UNCHANGED <<peer, idlefd>>

\* A client sees its connection closed by the server.
Refuse(c) ==
  /\ peer' = [peer EXCEPT ![c] = "closed"]
  /\ UNCHANGED <<idlefd, fd, serverVars, connVars, to_do, timer>>

\* Fault: the descriptor table is full, and accept4 is tried again later.
LeaveInBacklog(c) ==
  UNCHANGED <<backlog, peer, idlefd, fd, serverVars, connVars, to_do, timer>>

\* Fault: "/dev/null" is not opened again.
RefuseOnce(c) ==
  /\ backlog' = backlog \ {c}
  /\ peer' = [peer EXCEPT ![c] = "closed"]
  /\ idlefd' = NoFd
  /\ UNCHANGED <<fd, serverVars, connVars, to_do, timer>>

\* accept4 fails with EMFILE: idlefd_ is closed, its descriptor takes the
\* connection, and is opened on "/dev/null" again when that one is closed.
RefuseWithIdleFd(c) ==
  /\ backlog' = backlog \ {c}
  /\ Refuse(c)

\* Acceptor::NewConnection, the read callback of the listening channel.
\* Setting the options of the new socket may fail: it is closed.
NewConnection ==
  /\ Handles(Base, Listener)
  /\ \E c \in backlog :
       \/ /\ FreeFds = {}
          /\ RefuseWithIdleFd(c)
       \/ /\ FreeFds # {}
          /\ backlog' = backlog \ {c}
          /\ \/ \E f \in FreeFds : HandleNewConnection(c, f)
             \/ Refuse(c)
  /\ UNCHANGED <<unread, firing, held, recent>>

\* Fault: the map keeps its reference.
CloseWithoutErase(c) ==
  /\ UNCHANGED connections_
  /\ Queue(loop[c], "ConnectionDestructor", c)

\* TcpServer::HandleCloseInLoop.
HandleCloseInLoop(c) ==
  /\ connections_' = [connections_ EXCEPT ![fd[c]] = NoConn]
  /\ Queue(loop[c], "ConnectionDestructor", c)

-----------------------------------------------------------------------------
(* TcpConnection, in its loop.                                             *)

\* Fault: DisableAll is not called.
CloseStillReading(l, c) ==
  /\ c \notin unread
  /\ peer[c] = "closed"
  /\ state' = [state EXCEPT ![c] = "kDisconnected"]
  /\ \/ l = Base /\ HandleCloseInLoop(c)
     \/ l # Base /\ Queue(Base, "HandleCloseInLoop", c) /\ UNCHANGED connections_
  /\ UNCHANGED <<reading, channel, channels_, registered, unread, recent>>

\* TcpConnection::HandleClose after read has returned 0, and
\* TcpServer::HandleClose, its close callback.
HandleClose(l, c) ==
  /\ c \notin unread
  /\ peer[c] = "closed"
  /\ state' = [state EXCEPT ![c] = "kDisconnected"]
  /\ DisableAll(c, fd[c])
  /\ \/ l = Base /\ HandleCloseInLoop(c)
     \/ l # Base /\ Queue(Base, "HandleCloseInLoop", c) /\ UNCHANGED connections_
  /\ UNCHANGED <<unread, recent>>

\* HttpServer::MessageCallback: an answered request may end in Shutdown,
\* after which messages are read and ignored.
MessageCallback(c) ==
  /\ c \in unread
  /\ unread' = unread \ {c}
  /\ recent' = IF AutoClose THEN recent \cup {c} ELSE recent
  /\ \/ UNCHANGED state
     \/ state' = [state EXCEPT ![c] = "kDisconnecting"]
  /\ UNCHANGED <<connections_, to_do, reading, channel, channels_, registered>>

\* TcpConnection::HandleMessage, the read callback of the channel of c.
HandleMessage(l, c) ==
  /\ Handles(l, c)
  /\ loop' = loop
  /\ HandleClose(l, c) \/ MessageCallback(c)
  /\ UNCHANGED <<peer, backlog, idlefd, fd, thread_nums, next, timer, firing,
                 held>>

\* TcpConnection::ConnectionDestructor.  DisableAll comes first when state_ is
\* kConnected or kDisconnecting.  It puts a channel that is kDeleted back into
\* the interest list, and Remove takes it out again.
ConnectionDestructor(c) ==
  /\ state' = [state EXCEPT ![c] = "kDisconnected"]
  /\ reading' = reading \ {c}
  /\ Remove(c)

\* DoToDoList calls the next functor.  The object stays in the vector.
CallFunctor(l) ==
  /\ pc[l] = "calls"
  /\ functors[l] # <<>>
  /\ functors' = [functors EXCEPT ![l] = Tail(@)]
  /\ LET run == Head(functors[l]).run
         c   == Head(functors[l]).conn
     IN /\ called' = IF run = "AddTimer" THEN called
                     ELSE [called EXCEPT ![l] = @ \cup {c}]
        /\ \/ /\ run = "ConnectionEstablished"
              /\ loop' = loop
              /\ ConnectionEstablished(c, fd[c])
              /\ UNCHANGED connections_
           \/ /\ run = "HandleCloseInLoop"
              /\ HandleCloseInLoop(c)
              /\ UNCHANGED <<connVars, timer>>
           \/ /\ run = "ConnectionDestructor"
              /\ ConnectionDestructor(c)
              /\ UNCHANGED <<loop, connections_, to_do, timer>>
           \/ /\ run = "AddTimer"
              /\ timer' = [timer EXCEPT ![c] = "armed"]
              /\ UNCHANGED <<connections_, connVars, to_do>>
  /\ UNCHANGED <<kernelVars, thread_nums, next, pc, active, firing, held,
                 recent>>

-----------------------------------------------------------------------------
(* HttpServer::HandleIdleConnection, in the base loop.                     *)

\* TimerQueue::HandleRead takes the expired timers.
TakeExpired ==
  /\ Handles(Base, TimerFd)
  /\ firing' = {c \in Conns : timer[c] = "expired"}
  /\ timer' = [c \in Conns |-> IF c \in firing' THEN "none" ELSE timer[c]]
  /\ UNCHANGED <<kernelVars, serverVars, connVars, to_do, held, recent>>

\* connection.lock(): nothing is left to do when the connection is gone.
LockConnection(c) ==
  /\ c \in firing
  /\ held = NoConn
  /\ firing' = firing \ {c}
  /\ held' = IF Alive(c) THEN c ELSE NoConn
  /\ UNCHANGED <<kernelVars, serverVars, connVars, loopVars, timer, recent>>

\* timestamp_ was old when it was read: Shutdown, from the base loop.  A
\* message may have come since.
ShutdownIdle ==
  /\ held # NoConn
  /\ state' = [state EXCEPT ![held] = "kDisconnecting"]
  /\ held' = NoConn
  /\ UNCHANGED <<kernelVars, serverVars, loop, reading, channel, channels_,
                 registered, loopVars, timer, firing, recent>>

\* Fault: the timer is not armed again.
TimerLost ==
  /\ held \in recent
  /\ recent' = recent \ {held}
  /\ held' = NoConn
  /\ UNCHANGED <<kernelVars, serverVars, connVars, loopVars, timer, firing>>

\* There has been a message: RunAfter again.
RearmTimer ==
  /\ held \in recent
  /\ timer' = [timer EXCEPT ![held] = "armed"]
  /\ recent' = recent \ {held}
  /\ held' = NoConn
  /\ UNCHANGED <<kernelVars, serverVars, connVars, loopVars, firing>>

HandleIdleConnection ==
  (\E c \in Conns : LockConnection(c)) \/ ShutdownIdle \/ RearmTimer

-----------------------------------------------------------------------------

LoopThread(l) ==
  \/ Poll(l)
  \/ l = Base /\ (NewConnection \/ TakeExpired \/ HandleIdleConnection)
  \/ \E c \in Conns : HandleMessage(l, c)
  \/ DoToDoList(l)
  \/ CallFunctor(l)
  \/ EndToDoList(l)

Next == \/ \E l \in Loops : LoopThread(l)
        \/ \E c \in Conns : \/ PeerConnects(c)
                             \/ PeerSends(c)
                             \/ PeerCloses(c)
                             \/ Expire(c)

\* Threads are scheduled and time passes; clients may do as they please.
Spec == /\ Init /\ [][Next]_vars
        /\ \A l \in Loops : WF_vars(LoopThread(l))
        /\ \A c \in Conns : WF_vars(Expire(c))

-----------------------------------------------------------------------------
(* Properties.                                                             *)

(* No dangling Channel*: epoll and the Epoller's map only know connections *)
(* that exist, under their descriptor, so neither data.ptr of epoll_event  *)
(* (epoller.cc:31) nor channels_ outlives the object, although its last    *)
(* reference may die in any of three places and in another thread.  What a *)
(* channel believes of its registration is what the kernel has, so that no *)
(* epoll_ctl fails (epoller.cc:87).                                        *)
ChannelsAlive ==
  \A l \in Loops :
    /\ \A c \in active[l] \cap Conns : Alive(c) /\ loop[c] = l
    /\ \A f \in Fds : LET c == channels_[l][f] IN
         c # NoConn => Alive(c) /\ loop[c] = l /\ fd[c] = f
    /\ \A c \in Conns :
         /\ channel[c] = "kAdded" => channels_[loop[c]][fd[c]] = c
         /\ channel[c] = "kAdded" <=> c \in registered

Pending(l) == {to_do[l][i] : i \in DOMAIN to_do[l]}
              \cup {functors[l][i] : i \in DOMAIN functors[l]}

(* The functors in flight find what they assert when they are called       *)
(* (tcpserver.cc:36, epoller.cc:43, 60), although descriptors are reused:  *)
(* the entry HandleCloseInLoop erases is the connection's own, and it is   *)
(* erased once; the channel ConnectionDestructor removes is registered     *)
(* and the one ConnectionEstablished adds is new to the Epoller.           *)
PendingCallsAreValid ==
  \A l \in Loops : \A p \in Pending(l) :
    LET c == p.conn IN
    /\ p.run = "HandleCloseInLoop" =>
         l = Base /\ connections_[fd[c]] = c /\ channels_[loop[c]][fd[c]] = c
    /\ p.run = "ConnectionDestructor" =>
         l = loop[c] /\ connections_[fd[c]] # c /\ channels_[l][fd[c]] = c
    /\ p.run = "ConnectionEstablished" =>
         l = loop[c] /\ connections_[fd[c]] = c /\ channels_[l][fd[c]] = NoConn

(* Each connection goes through the promised life.                         *)
Phase(c) ==
  IF fd[c] = NoFd THEN "none"
  ELSE IF ~Alive(c) THEN "gone"
  ELSE IF c \in reading THEN "reading"
  ELSE IF state[c] = "kConnecting" THEN "accepted"
  ELSE "closed"

Lifecycle == INSTANCE ConnectionLifecycle
               WITH phase <- [c \in Conns |-> Phase(c)],
                    owned <- [c \in Conns |-> IF Alive(c) THEN fd[c] ELSE NoFd]

ImplementsLifecycle == Lifecycle!Spec

(* Connections do not wait for ever in the accept queue, not even while    *)
(* every descriptor is in use: the loop would spin on a listening socket   *)
(* that stays readable (acceptor.cc:60-67, README.md:48).                  *)
AcceptQueueDrains == \A c \in Conns : c \in backlog ~> c \notin backlog

(* When its client is done, the three hops of the close (worker, base,     *)
(* worker) always complete, every reference is dropped and the descriptor  *)
(* is closed (tcpconnection.cc:50-56, tcpserver.cc:31-43).                 *)
ClosedByPeerIsReleased ==
  \A c \in Conns : (peer[c] = "closed" /\ Alive(c)) ~> ~Alive(c)

(* With auto_close_idleconnection_ no connection stays up and silent: in   *)
(* the end it is shut down or gone, unless its timer finds new messages    *)
(* again and again, and is armed again each time (httpserver.h:46-57).     *)
IdleIsShutDown ==
  \A c \in Conns :
    \/ []<>(~Alive(c) \/ state[c] # "kConnected")
    \/ []<><<c \in recent /\ c \notin recent'>>_vars

=============================================================================
