--------------------------- MODULE EventLoopProofs ---------------------------
(***************************************************************************)
(* What holds of an EventLoop for every number of threads, functors and    *)
(* channels: no wakeup is lost, HandleRead always finds a count, and the   *)
(* list, the swapped batch and the functor being called implement the      *)
(* TaskExecutor.  The inductive invariant is LoopInv; the proofs go over   *)
(* the actions of EventLoop one by one.                                    *)
(***************************************************************************)
EXTENDS EventLoop, SequenceTheorems, TLAPS

(* The inductive invariant: types, where the loop's data lives, and the    *)
(* two facts about the eventfd that need each other's bookkeeping.         *)
LoopInv == TypeOK /\ LoopState /\ NoLostWakeup /\ WakeupReadSucceeds

-----------------------------------------------------------------------------
(* Lemmas on the two lists.                                                *)

(* Appending to the list appends to what is pending (QueueOneFunc).        *)
LEMMA ConcatAppend ==
  ASSUME NEW S, NEW s \in Seq(S), NEW u \in Seq(S), NEW e \in S
  PROVE  s \o Append(u, e) = Append(s \o u, e)
  OBVIOUS

(* Taking the head of a non-empty batch takes the head of what is pending  *)
(* (the for loop of DoToDoList).                                           *)
LEMMA ConcatHeadTail ==
  ASSUME NEW S, NEW s \in Seq(S), NEW u \in Seq(S), s # <<>>
  PROVE  /\ s \o u # <<>>
         /\ Head(s \o u) = Head(s)
         /\ Tail(s \o u) = Tail(s) \o u
  OBVIOUS

(* Swapping the list into an empty batch leaves what is pending unchanged. *)
LEMMA ConcatSwap ==
  ASSUME NEW S, NEW u \in Seq(S)
  PROVE  u \o <<>> = <<>> \o u
  OBVIOUS

-----------------------------------------------------------------------------
(* The inductive invariant.                                                *)

(* A loop just constructed satisfies the inductive invariant. *)
LEMMA LoopInvInit == Init => LoopInv
<1> SUFFICES ASSUME Init PROVE LoopInv
  OBVIOUS
<1> USE DEF Init
<1>1. TypeOK
  <2>1. wakeup_fd \in BOOLEAN /\ calling_functors \in BOOLEAN
    OBVIOUS
  <2>2. to_do_list \in Seq(Funcs) /\ functors \in Seq(Funcs)
    BY EmptySeq
  <2>3. pc \in PC
    BY DEF PC
  <2>. QED
    BY <2>1, <2>2, <2>3, Zenon DEF TypeOK
<1>2. LoopState
  <2>1. /\ pc \notin {"calls", "func"}
        /\ pc # "func"
        /\ current = NoFunc
        /\ calling_functors = FALSE
    OBVIOUS
  <2>. QED
    BY <2>1, Zenon DEF LoopState
<1>3. NoLostWakeup /\ WakeupReadSucceeds
  BY DEF NoLostWakeup, WakeupReadSucceeds
<1>. QED
  BY <1>1, <1>2, <1>3 DEF LoopInv

(* Every step of the loop thread, of another thread or of a file descriptor
   keeps the inductive invariant. *)
LEMMA LoopInvStep == LoopInv /\ [Next]_vars => LoopInv'
<1> SUFFICES ASSUME LoopInv, [Next]_vars PROVE LoopInv'
  OBVIOUS
<1> USE EventLoopAssumption
<1> USE DEF LoopInv, TypeOK, LoopState, NoLostWakeup, WakeupReadSucceeds, PC
<1>1. CASE Loop
  BY <1>1 DEF Loop
<1>2. CASE Poll
  BY <1>2 DEF Poll, ReadyChannels
<1>3. CASE HandleRead
  BY <1>3 DEF HandleRead
<1>4. ASSUME NEW c \in Channels, HandleEvent(c) PROVE LoopInv'
  BY <1>4 DEF HandleEvent
<1>5. CASE HandlerReturns
  BY <1>5 DEF HandlerReturns
<1>6. CASE DoToDoList
  BY <1>6 DEF DoToDoList
<1>7. CASE CallFunctor
  <2>1. Head(functors) \in Funcs /\ Tail(functors) \in Seq(Funcs)
    BY <1>7, HeadTailProperties DEF CallFunctor
  <2>. QED
    BY <1>7, <2>1 DEF CallFunctor
<1>8. CASE FunctorReturns
  BY <1>8 DEF FunctorReturns
<1>9. CASE EndToDoList
  BY <1>9 DEF EndToDoList
<1>10. ASSUME NEW f \in Funcs, QueueInLoop(f) PROVE LoopInv'
  \* While DoToDoList runs the loop thread writes; in a handler the swap is
  \* still to come.
  BY <1>10 DEF QueueInLoop, Push, LoopThreadMustWrite
<1>11. ASSUME NEW t \in Threads, NEW f \in Funcs, QueueFromThread(t, f)
       PROVE  LoopInv'
  \* The thread itself is the one about to write.
  BY <1>11 DEF QueueFromThread, Push
<1>12. ASSUME NEW t \in Threads, WriteWakeup(t) PROVE LoopInv'
  BY <1>12 DEF WriteWakeup
<1>13. ASSUME NEW c \in Channels, BecomeReady(c) PROVE LoopInv'
  BY <1>13 DEF BecomeReady
<1>14. CASE UNCHANGED vars
  BY <1>14 DEF vars
<1>. QED
  BY <1>1, <1>2, <1>3, <1>4, <1>5, <1>6, <1>7, <1>8, <1>9, <1>10, <1>11,
     <1>12, <1>13, <1>14 DEF Next, LoopThread

(* The inductive invariant holds in every reachable state of EventLoop. *)
THEOREM LoopInvariant == Spec => []LoopInv
  BY LoopInvInit, LoopInvStep, PTL DEF Spec, Safety

(* Types, for every number of threads, functors and channels.              *)
THEOREM TypeCorrect == Spec => []TypeOK
<1>1. LoopInv => TypeOK
  BY DEF LoopInv
<1>. QED
  BY <1>1, LoopInvariant, PTL

(* A functor queued by whatever thread never waits on a loop that nothing  *)
(* will wake: the wakeup protocol of QueueOneFunc and DoToDoList.          *)
THEOREM WakeupNeverLost == Spec => []NoLostWakeup
<1>1. LoopInv => NoLostWakeup
  BY DEF LoopInv
<1>. QED
  BY <1>1, LoopInvariant, PTL

(* The assertion of HandleRead.                                            *)
THEOREM WakeupReadNeverFails == Spec => []WakeupReadSucceeds
<1>1. LoopInv => WakeupReadSucceeds
  BY DEF LoopInv
<1>. QED
  BY <1>1, LoopInvariant, PTL

-----------------------------------------------------------------------------
(* The event loop implements the task executor.                            *)

(* An EventLoop just constructed is an executor that has accepted nothing. *)
LEMMA ExecutorInit == Init => Executor!Init
  BY DEF Init, Executor!Init

(* Every step of EventLoop is a step of the executor or leaves it alone: the
   functors of to_do_list_ and those swapped out of it make one queue. *)
LEMMA ExecutorStep ==
  LoopInv /\ [Next]_vars => [Executor!Next]_(Executor!vars)
<1> SUFFICES ASSUME LoopInv, [Next]_vars
             PROVE  [Executor!Next]_(Executor!vars)
  OBVIOUS
<1> USE EventLoopAssumption DEF LoopInv, TypeOK, LoopState, Executor!vars
<1>1. ASSUME UNCHANGED <<to_do_list, functors, current>>
      PROVE  UNCHANGED Executor!vars
  BY <1>1
<1>2. CASE \/ Loop
           \/ Poll
           \/ HandleRead
           \/ \E c \in Channels : HandleEvent(c)
           \/ HandlerReturns
           \/ EndToDoList
           \/ \E t \in Threads : WriteWakeup(t)
           \/ \E c \in Channels : BecomeReady(c)
           \/ UNCHANGED vars
  <2>1. UNCHANGED <<to_do_list, functors, current>>
    BY <1>2 DEF Loop, Poll, HandleRead, HandleEvent, HandlerReturns,
                EndToDoList, WriteWakeup, BecomeReady, vars
  <2>. QED
    BY <1>1, <2>1
<1>3. CASE DoToDoList
  <2>1. functors = <<>> /\ functors' = to_do_list /\ to_do_list' = <<>>
    BY <1>3 DEF DoToDoList
  <2>2. (functors \o to_do_list)' = functors \o to_do_list
    BY <2>1, ConcatSwap
  <2>. QED
    BY <1>3, <2>2 DEF DoToDoList
<1>4. CASE CallFunctor
  <2>1. functors # <<>> /\ current = NoFunc
    BY <1>4 DEF CallFunctor
  <2>2. /\ functors \o to_do_list # <<>>
        /\ current' = Head(functors \o to_do_list)
        /\ (functors \o to_do_list)' = Tail(functors \o to_do_list)
    BY <1>4, <2>1, ConcatHeadTail DEF CallFunctor
  <2>3. Executor!Begin
    BY <2>1, <2>2 DEF Executor!Begin
  <2>. QED
    BY <2>3 DEF Executor!Next
<1>5. CASE FunctorReturns
  <2>1. Executor!End
    BY <1>5 DEF FunctorReturns, Executor!End
  <2>. QED
    BY <2>1 DEF Executor!Next
<1>6. ASSUME NEW f \in Funcs,
             to_do_list' = Append(to_do_list, f),
             UNCHANGED <<functors, current>>
      PROVE  Executor!Next
  <2>1. Executor!Submit(f)
    BY <1>6, ConcatAppend DEF Executor!Submit
  <2>. QED
    BY <2>1 DEF Executor!Next
<1>7. ASSUME NEW f \in Funcs, QueueInLoop(f) PROVE Executor!Next
  BY <1>6, <1>7 DEF QueueInLoop, Push
<1>8. ASSUME NEW t \in Threads, NEW f \in Funcs, QueueFromThread(t, f)
      PROVE  Executor!Next
  BY <1>6, <1>8 DEF QueueFromThread, Push
<1>. QED
  BY <1>2, <1>3, <1>4, <1>5, <1>7, <1>8 DEF Next, LoopThread

(* Every behaviour of the loop is one of the executor: functors are called *)
(* in the order they were queued, none twice and none dropped (the safety  *)
(* part of ImplementsExecutor; its liveness is model-checked).             *)
THEOREM ImplementsExecutorSafety == Spec => Executor!Safety
<1>1. Init => Executor!Init
  BY ExecutorInit
<1>2. LoopInv /\ [Next]_vars => [Executor!Next]_(Executor!vars)
  BY ExecutorStep
<1>. QED
  BY <1>1, <1>2, LoopInvariant, PTL DEF Spec, Safety, Executor!Safety

=============================================================================
