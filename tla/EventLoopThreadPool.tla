------------------------ MODULE EventLoopThreadPool ------------------------
(***************************************************************************)
(* How the server starts its worker loops and hands connections to them    *)
(* (Util/eventloopthreadpool.cc, eventloopthread.cc, thread.cc): a thread  *)
(* is started, first a Latch and then a Condition tell the starter how far *)
(* it has got, and NextLoop goes round the loops.                          *)
(*                                                                         *)
(* A critical section is one action.  A wait on a condition variable is a  *)
(* position of the main thread that a notify, or nothing at all, ends.     *)
(* Loop i is the EventLoop on the stack of thread i, 0 the base loop.      *)
(***************************************************************************)
EXTENDS Integers, Sequences

CONSTANTS NumThreads,  \* thread_nums_
          MaxConns     \* bound: connections handed to the loops

ASSUME PoolAssumption == NumThreads \in Nat /\ MaxConns \in Nat

Workers == 1..NumThreads
Base == 0
NullLoop == -1

VARIABLES
  main,        \* where the thread that calls TcpServer::Start is
  loops_,      \* the loops started
  next_,
  handed,      \* handed[l]: how many connections loop l has been given
  thread,      \* thread[i]: where the thread of EventLoopThread i is
  count_,      \* count_[i]: the counter of its latch_
  loop_,       \* loop_[i]
  thread_id_,  \* the counter of the threads, for their names
  id           \* id[i]: what thread i has read of it

mainVars == <<main, loops_, next_, handed>>
threadVars == <<thread, count_, loop_, thread_id_, id>>
vars == <<mainVars, threadVars>>

TypeOK ==
  /\ main \in {"start", "latch", "latch wait", "cond", "cond wait", "serve"}
  /\ loops_ \in Seq(Workers)
  /\ next_ \in 0..NumThreads
  /\ next_ < Len(loops_) \/ next_ = 0
  /\ handed \in [Workers \cup {Base} -> Nat]
  /\ thread \in [Workers -> {"none", "run", "read id", "name", "start func",
                             "loop"}]
  /\ count_ \in [Workers -> {0, 1}]
  /\ loop_ \in [Workers -> Workers \cup {NullLoop}]
  /\ thread_id_ \in Nat
  /\ id \in [Workers -> Nat]

Init ==
  /\ main = "start"
  /\ loops_ = <<>>
  /\ next_ = 0
  /\ handed = [l \in Workers \cup {Base} |-> 0]
  /\ thread = [i \in Workers |-> "none"]
  /\ count_ = [i \in Workers |-> 1]
  /\ loop_ = [i \in Workers |-> NullLoop]
  /\ thread_id_ = 1
  /\ id = [i \in Workers |-> 0]

\* The thread being started.
Started == Len(loops_) + 1

-----------------------------------------------------------------------------
(* The thread that starts the others.                                      *)

\* Thread::StartThread up to the wait: pthread_create.
StartThread ==
  /\ main = "start"
  /\ Started <= NumThreads
  /\ thread' = [thread EXCEPT ![Started] = "run"]
  /\ main' = "latch"
  /\ UNCHANGED <<loops_, next_, handed, count_, loop_, thread_id_, id>>

\* Latch::Wait.
LatchWait ==
  /\ main = "latch"
  /\ main' = IF count_[Started] > 0 THEN "latch wait" ELSE "cond"
  /\ UNCHANGED <<loops_, next_, handed, threadVars>>

\* Fault: loop_ is not waited for.
StartLoopAtOnce ==
  /\ main = "cond"
  /\ loops_' = Append(loops_, Started)
  /\ main' = "start"
  /\ UNCHANGED <<next_, handed, threadVars>>

\* The rest of EventLoopThread::StartLoop, and emplace_back in loops_.
StartLoop ==
  /\ main = "cond"
  /\ \/ /\ loop_[Started] = NullLoop
        /\ main' = "cond wait"
        /\ UNCHANGED loops_
     \/ /\ loop_[Started] # NullLoop
        /\ loops_' = Append(loops_, loop_[Started])
        /\ main' = "start"
  /\ UNCHANGED <<next_, handed, threadVars>>

\* The end of EventLoopThreadPool::StartLoop; then the base loop runs.
Serve ==
  /\ main = "start"
  /\ Started > NumThreads
  /\ main' = "serve"
  /\ UNCHANGED <<loops_, next_, handed, threadVars>>

\* A wait on a condition variable may end for no reason.
SpuriousWakeup ==
  /\ \/ main = "latch wait" /\ main' = "latch"
     \/ main = "cond wait" /\ main' = "cond"
  /\ UNCHANGED <<loops_, next_, handed, threadVars>>

\* Fault: next_ is not wrapped.
NextUnwrapped == next_ + 1

\* Fault: the last loop is left out.
NextLeavesOneOut == IF next_ + 1 >= Len(loops_) - 1 THEN 0 ELSE next_ + 1

\* next_ after the increment and the wrap of NextLoop.
Next_ == IF next_ + 1 = Len(loops_) THEN 0 ELSE next_ + 1

\* EventLoopThreadPool::NextLoop, called for a new connection.
NextLoop ==
  /\ main = "serve"
  /\ LET l == IF loops_ = <<>> THEN Base ELSE loops_[next_ + 1]
     IN /\ handed[l] < MaxConns
        /\ handed' = [handed EXCEPT ![l] = @ + 1]
  /\ next_' = IF loops_ = <<>> THEN next_ ELSE Next_
  /\ UNCHANGED <<main, loops_, threadVars>>

-----------------------------------------------------------------------------
(* A thread, from ThreadRun on.                                            *)

\* Latch::CountDown, and NotifyAll when the count is zero.
CountDown(i) ==
  /\ thread[i] = "run"
  /\ count_' = [count_ EXCEPT ![i] = @ - 1]
  /\ main' = IF main = "latch wait" /\ i = Started /\ count_'[i] = 0
             THEN "latch" ELSE main
  /\ thread' = [thread EXCEPT ![i] = "read id"]
  /\ UNCHANGED <<loops_, next_, handed, loop_, thread_id_, id>>

\* thread_id_++ is not atomic: the read ...
ReadId(i) ==
  /\ thread[i] = "read id"
  /\ id' = [id EXCEPT ![i] = thread_id_]
  /\ thread' = [thread EXCEPT ![i] = "name"]
  /\ UNCHANGED <<mainVars, count_, loop_, thread_id_>>

\* ... and the write.  The thread is named "WorkThread " and id[i].
SetName(i) ==
  /\ thread[i] = "name"
  /\ thread_id_' = id[i] + 1
  /\ thread' = [thread EXCEPT ![i] = "start func"]
  /\ UNCHANGED <<mainVars, count_, loop_, id>>

\* Fault: Notify is not called.
StartFuncNoNotify(i) ==
  /\ thread[i] = "start func"
  /\ loop_' = [loop_ EXCEPT ![i] = i]
  /\ thread' = [thread EXCEPT ![i] = "loop"]
  /\ UNCHANGED <<mainVars, count_, thread_id_, id>>

\* EventLoopThread::StartFunc: the EventLoop is made and published, then it
\* loops for ever.
StartFunc(i) ==
  /\ thread[i] = "start func"
  /\ loop_' = [loop_ EXCEPT ![i] = i]
  /\ main' = IF main = "cond wait" /\ i = Started THEN "cond" ELSE main
  /\ thread' = [thread EXCEPT ![i] = "loop"]
  /\ UNCHANGED <<loops_, next_, handed, count_, thread_id_, id>>

-----------------------------------------------------------------------------

Main == StartThread \/ LatchWait \/ StartLoop \/ Serve

ThreadRun(i) == CountDown(i) \/ ReadId(i) \/ SetName(i) \/ StartFunc(i)

Next == \/ Main
        \/ SpuriousWakeup
        \/ NextLoop
        \/ \E i \in Workers : ThreadRun(i)

\* All threads are scheduled; no wait is assumed to end by itself.
Spec == /\ Init /\ [][Next]_vars
        /\ WF_vars(Main)
        /\ \A i \in Workers : WF_vars(ThreadRun(i))

-----------------------------------------------------------------------------
(* Properties.                                                             *)

(* The pool has the loops in the order in which the threads were started,  *)
(* and only loops that exist: connections can be handed to each of them as *)
(* soon as StartLoop has returned (eventloopthread.cc:21-41).              *)
LoopsArePublished ==
  \A n \in DOMAIN loops_ : loops_[n] = n /\ thread[n] = "loop"

(* The threads of the pool have different names, although the counter for  *)
(* them is a plain int incremented after the starter has been told to go on*)
(* (thread.h:52-59): the second handshake is what keeps them apart.  The   *)
(* thread of the asynchronous log is not one of them: it uses the counter  *)
(* too, and nothing keeps it apart from one started at the same time.      *)
NamesDiffer ==
  \A i, j \in Workers :
    (i # j /\ thread[i] \in {"name", "start func", "loop"}
           /\ thread[j] \in {"name", "start func", "loop"}) => id[i] # id[j]

(* Round-Robin (README.md:41): no loop has been given more than one        *)
(* connection more than another.                                           *)
RoundRobin == \A i, j \in Workers : handed[i] <= handed[j] + 1

(* TcpServer::Start returns: neither wait of the starter misses its notify *)
(* (latch.h:14-27, eventloopthread.cc:21-41).                              *)
StartReturns == <>(main = "serve")

=============================================================================
