---------------------- MODULE EventLoopThreadPoolProofs ----------------------
(***************************************************************************)
(* EventLoopThreadPool, for any number of threads and connections.         *)
(***************************************************************************)
EXTENDS EventLoopThreadPool, SequenceTheorems, TLAPS

(* The threads are started one after the other: those before the one being *)
(* started are in their loop and have the number of their turn for a name, *)
(* those after it do not exist.  The counter stands still in between.      *)
OneAtATime ==
  /\ Len(loops_) <= NumThreads
  /\ \A n \in 1..Len(loops_) : loops_[n] = n
  /\ \A i \in Workers : thread[i] \in {"none", "run"} => count_[i] = 1
  /\ \A i \in Workers : loop_[i] # NullLoop => loop_[i] = i /\ thread[i] = "loop"
  /\ \A i \in Workers : i < Started => thread[i] = "loop" /\ id[i] = i
  /\ \A i \in Workers : (i > Started \/ (i = Started /\ main = "start"))
                          => thread[i] = "none"
  /\ main \notin {"start", "serve"} => Started <= NumThreads
  /\ main = "serve" => Len(loops_) = NumThreads

Counter ==
  /\ Started > NumThreads => thread_id_ = Started
  /\ Started <= NumThreads =>
       LET at == thread[Started] IN
       /\ at \in {"none", "run", "read id", "name"} => thread_id_ = Started
       /\ at \in {"start func", "loop"} => thread_id_ = Started + 1
       /\ at \in {"name", "start func", "loop"} => id[Started] = Started

(* A round is under way: the loops before next_ have had it, the others    *)
(* have not.                                                               *)
InRounds ==
  /\ main # "serve" => next_ = 0
  /\ \E k \in Nat : \A l \in Workers :
       handed[l] = IF l <= next_ THEN k + 1 ELSE k

PoolInv == TypeOK /\ OneAtATime /\ Counter /\ InRounds

-----------------------------------------------------------------------------

USE DEF Workers, Base, NullLoop

(* The pool just constructed satisfies the invariant. *)
LEMMA InitHolds == Init => PoolInv
<1> SUFFICES ASSUME Init PROVE PoolInv
  OBVIOUS
<1> USE DEF Init, Started
<1>0. NumThreads \in Nat
  BY PoolAssumption
<1>1. TypeOK
  BY <1>0 DEF TypeOK
<1>2. OneAtATime
  BY <1>0 DEF OneAtATime
<1>3. Counter
  <2>1. Started = 1
    OBVIOUS
  <2>2. 1 <= NumThreads => thread[1] = "none"
    BY <1>0
  <2> QED
    BY <2>1, <2>2 DEF Counter
<1>4. InRounds
  <2>1. \A l \in Workers : handed[l] = IF l <= next_ THEN 0 + 1 ELSE 0
    BY <1>0
  <2> QED
    BY <2>1 DEF InRounds
<1> QED
  BY <1>1, <1>2, <1>3, <1>4 DEF PoolInv

(* Steps that leave the connections alone keep the rounds.                 *)
LEMMA RoundsStand ==
  ASSUME InRounds, UNCHANGED <<next_, handed>>, main = "serve" => main' = "serve"
  PROVE  InRounds'
BY DEF InRounds

(* What the steps of the two threads have in common.                       *)
LEMMA Facts ==
  ASSUME PoolInv
  PROVE  /\ NumThreads \in Nat
         /\ Len(loops_) \in Nat /\ Started \in Nat /\ Started >= 1
         /\ Len(loops_) = Started - 1
<1>1. NumThreads \in Nat
  BY PoolAssumption
<1>2. loops_ \in Seq(Workers)
  BY DEF PoolInv, TypeOK
<1>3. Len(loops_) \in Nat
  BY <1>2, LenProperties
<1> QED
  BY <1>1, <1>3 DEF Started

(* pthread_create starts the next worker, which is in no other phase. *)
LEMMA StartThreadKeeps ==
  ASSUME PoolInv, StartThread
  PROVE  PoolInv'
<1> USE DEF StartThread
<1>0. TypeOK /\ OneAtATime /\ Counter /\ InRounds
  BY DEF PoolInv
<1>1. /\ Started \in Workers
      /\ Started' = Started
      /\ NumThreads \in Nat
  BY Facts DEF Started
<1>2. TypeOK'
  BY <1>0, <1>1 DEF TypeOK
<1>3. OneAtATime'
  BY <1>0, <1>1 DEF OneAtATime, TypeOK
<1>4. Counter'
  <2>1. thread[Started] = "none" /\ thread'[Started] = "run"
    BY <1>0, <1>1 DEF OneAtATime, TypeOK
  <2>2. thread_id_ = Started
    BY <1>0, <1>1, <2>1 DEF Counter
  <2> QED
    BY <1>1, <2>1, <2>2 DEF Counter
<1>5. InRounds'
  BY <1>0, RoundsStand
<1> QED
  BY <1>2, <1>3, <1>4, <1>5 DEF PoolInv

(* Latch::Wait changes only where the main thread is. *)
LEMMA LatchWaitKeeps ==
  ASSUME PoolInv, LatchWait
  PROVE  PoolInv'
<1> USE DEF LatchWait, threadVars
<1>0. TypeOK /\ OneAtATime /\ Counter /\ InRounds
  BY DEF PoolInv
<1>1. Started' = Started
  BY DEF Started
<1>2. TypeOK'
  BY <1>0 DEF TypeOK
<1>3. OneAtATime'
  BY <1>0, <1>1 DEF OneAtATime
<1>4. Counter'
  BY <1>0, <1>1 DEF Counter
<1>5. InRounds'
  BY <1>0, RoundsStand
<1> QED
  BY <1>2, <1>3, <1>4, <1>5 DEF PoolInv

(* EventLoopThread::StartLoop returns a loop only once it exists, and the pool
   then holds one loop more. *)
LEMMA StartLoopKeeps ==
  ASSUME PoolInv, StartLoop
  PROVE  PoolInv'
<1>0. TypeOK /\ OneAtATime /\ Counter /\ InRounds
  BY DEF PoolInv
<1>1. /\ main = "cond"
      /\ UNCHANGED <<next_, handed, thread, count_, loop_, thread_id_, id>>
  BY DEF StartLoop, threadVars
<1>2. CASE main' = "cond wait" /\ UNCHANGED loops_
  <2>1. Started' = Started
    BY <1>2 DEF Started
  <2>2. TypeOK'
    BY <1>0, <1>1, <1>2 DEF TypeOK
  <2>3. OneAtATime'
    BY <1>0, <1>1, <1>2, <2>1 DEF OneAtATime
  <2>4. Counter'
    BY <1>0, <1>1, <2>1 DEF Counter
  <2>5. InRounds'
    BY <1>0, <1>1, <1>2, RoundsStand
  <2> QED
    BY <2>2, <2>3, <2>4, <2>5 DEF PoolInv
<1>3. CASE /\ loop_[Started] # NullLoop
           /\ loops_' = Append(loops_, loop_[Started])
           /\ main' = "start"
  <2>1. /\ NumThreads \in Nat
        /\ Started \in Nat /\ Started >= 1
        /\ Len(loops_) = Started - 1
    BY Facts
  <2>2. Started \in Workers /\ Started <= NumThreads
    BY <1>0, <1>1, <2>1 DEF OneAtATime
  <2>3. loop_[Started] = Started /\ thread[Started] = "loop"
    BY <1>0, <1>1, <1>3, <2>2 DEF OneAtATime
  <2>4. /\ loops_' \in Seq(Workers)
        /\ Len(loops_') = Started
        /\ \A n \in 1..(Started - 1) : loops_'[n] = loops_[n]
        /\ loops_'[Started] = Started
    <3>1. loops_ \in Seq(Workers) /\ loops_' = Append(loops_, Started)
      BY <1>0, <1>1, <1>3, <2>3 DEF TypeOK
    <3>2. /\ Append(loops_, Started) \in Seq(Workers)
          /\ Len(Append(loops_, Started)) = Len(loops_) + 1
          /\ \A n \in 1..Len(loops_) : Append(loops_, Started)[n] = loops_[n]
          /\ Append(loops_, Started)[Len(loops_) + 1] = Started
      BY <2>2, <3>1, AppendProperties
    <3>3. Len(loops_) + 1 = Started
      BY <2>1
    <3> QED
      BY <2>1, <3>1, <3>2, <3>3
  <2>5. Started' = Started + 1
    BY <2>4 DEF Started
  <2>6. thread_id_ = Started + 1 /\ id[Started] = Started
    BY <1>0, <1>1, <2>2, <2>3 DEF Counter
  <2>7. TypeOK'
    BY <1>0, <1>1, <1>3, <2>4 DEF TypeOK, InRounds
  <2>8. OneAtATime'
    <3>1. \A n \in 1..Started : loops_'[n] = n
      <4>1. \A n \in 1..(Started - 1) : loops_[n] = n
        BY <1>0, <1>1, <2>1 DEF OneAtATime
      <4>2. ASSUME NEW n \in 1..Started
            PROVE  n \in 1..(Started - 1) \/ n = Started
        BY <2>1
      <4> QED
        BY <2>4, <4>1, <4>2
    <3>2. ASSUME NEW i \in Workers
          PROVE  /\ i < Started + 1 => thread[i] = "loop" /\ id[i] = i
                 /\ i >= Started + 1 => thread[i] = "none"
      <4>1. \/ i < Started
            \/ i = Started
            \/ i > Started /\ ~(i < Started + 1)
        BY <2>1
      <4>2. i < Started + 1 => i < Started \/ i = Started
        BY <2>1
      <4>3. i >= Started + 1 => i > Started
        BY <2>1
      <4> QED
        BY <1>0, <1>1, <2>3, <2>6, <4>2, <4>3 DEF OneAtATime
    <3>3. \A i \in Workers : (i > Started + 1 \/ i = Started + 1)
                              => i >= Started + 1
      BY <2>1
    <3> QED
      BY <1>0, <1>1, <1>3, <2>1, <2>2, <2>4, <2>5, <3>1, <3>2, <3>3 DEF OneAtATime
  <2>9. Counter'
    <3>1. Started + 1 <= NumThreads => thread[Started + 1] = "none"
      <4>1. Started + 1 <= NumThreads =>
              Started + 1 \in Workers /\ Started + 1 > Started
        BY <2>1
      <4> QED
        BY <1>0, <1>1, <4>1 DEF OneAtATime
    <3>2. /\ thread_id_' = Started'
          /\ Started' <= NumThreads => thread'[Started'] = "none"
      BY <1>1, <2>5, <2>6, <3>1
    <3> QED
      BY <3>2, Zenon DEF Counter
  <2>10. InRounds'
    BY <1>0, <1>1, <1>3, RoundsStand
  <2> QED
    BY <2>7, <2>8, <2>9, <2>10 DEF PoolInv
<1> QED
  BY <1>2, <1>3 DEF StartLoop

(* The pool goes on to serve once every thread has been started. *)
LEMMA ServeKeeps ==
  ASSUME PoolInv, Serve
  PROVE  PoolInv'
<1>0. TypeOK /\ OneAtATime /\ Counter /\ InRounds
  BY DEF PoolInv
<1>1. /\ main' = "serve"
      /\ Started > NumThreads
      /\ UNCHANGED <<loops_, next_, handed, thread, count_, loop_, thread_id_,
                     id>>
      /\ Started' = Started
      /\ main = "start"
  BY DEF Serve, threadVars, Started
<1>2. Len(loops_) = NumThreads
  <2>1. Len(loops_) <= NumThreads
    BY <1>0 DEF OneAtATime
  <2> QED
    BY <1>1, <2>1, Facts
<1>3. TypeOK'
  BY <1>0, <1>1 DEF TypeOK
<1>4. OneAtATime'
  BY <1>0, <1>1, <1>2 DEF OneAtATime
<1>5. Counter'
  BY <1>0, <1>1 DEF Counter
<1>6. InRounds'
  BY <1>0, <1>1, RoundsStand
<1> QED
  BY <1>3, <1>4, <1>5, <1>6 DEF PoolInv

(* A wakeup without a notification only sends the main thread back to its test. *)
LEMMA SpuriousWakeupKeeps ==
  ASSUME PoolInv, SpuriousWakeup
  PROVE  PoolInv'
<1>0. TypeOK /\ OneAtATime /\ Counter /\ InRounds
  BY DEF PoolInv
<1>1. /\ main \in {"latch wait", "cond wait"}
      /\ main' \in {"latch", "cond"}
      /\ UNCHANGED <<loops_, next_, handed, thread, count_, loop_, thread_id_,
                     id>>
      /\ Started' = Started
  BY DEF SpuriousWakeup, threadVars, Started
<1>2. TypeOK'
  BY <1>0, <1>1 DEF TypeOK
<1>3. OneAtATime'
  BY <1>0, <1>1 DEF OneAtATime
<1>4. Counter'
  BY <1>0, <1>1 DEF Counter
<1>5. InRounds'
  BY <1>0, <1>1, RoundsStand
<1> QED
  BY <1>2, <1>3, <1>4, <1>5 DEF PoolInv

(* A thread that is neither absent nor in its loop is the one being        *)
(* started, and the starter is waiting for it.                             *)
LEMMA InTurn ==
  ASSUME PoolInv, NEW i \in Workers, thread[i] \notin {"none", "loop"}
  PROVE  i = Started /\ main \notin {"start", "serve"}
<1>0. OneAtATime
  BY DEF PoolInv
<1>1. /\ i < Started => thread[i] = "loop"
      /\ i > Started => thread[i] = "none"
      /\ (i = Started /\ main = "start") => thread[i] = "none"
      /\ main = "serve" => Len(loops_) = NumThreads
  BY <1>0 DEF OneAtATime
<1>2. /\ Started \in Nat /\ NumThreads \in Nat
      /\ Len(loops_) = Started - 1
  BY Facts
<1>3. i = Started
  BY <1>1, <1>2
<1> QED
  BY <1>1, <1>2, <1>3

(* The thread's CountDown releases the main thread from the latch and no other. *)
LEMMA CountDownKeeps ==
  ASSUME PoolInv, NEW i \in Workers, CountDown(i)
  PROVE  PoolInv'
<1> USE DEF CountDown
<1>0. TypeOK /\ OneAtATime /\ Counter /\ InRounds
  BY DEF PoolInv
<1>1. i = Started /\ Started' = Started /\ main \notin {"start", "serve"}
  BY InTurn DEF Started
<1>2. main' \in {"latch", "latch wait", "cond", "cond wait"}
  BY <1>0, <1>1 DEF TypeOK
<1>3. TypeOK'
  <2>1. count_' \in [Workers -> {0, 1}]
    <3>1. count_[i] = 1 /\ count_ \in [Workers -> {0, 1}]
      BY <1>0 DEF OneAtATime, TypeOK
    <3>2. count_' = [count_ EXCEPT ![i] = count_[i] - 1]
      BY Zenon
    <3> HIDE DEF CountDown
    <3>3. count_' = [count_ EXCEPT ![i] = 0]
      BY <3>1, <3>2
    <3> QED
      BY <3>1, <3>3
  <2> QED
    BY <1>0, <1>2, <2>1 DEF TypeOK
<1>4. OneAtATime'
  BY <1>0, <1>1, <1>2 DEF OneAtATime, TypeOK
<1>5. Counter'
  BY <1>0, <1>1 DEF Counter, TypeOK
<1>6. InRounds'
  BY <1>0, <1>1, RoundsStand
<1> QED
  BY <1>3, <1>4, <1>5, <1>6 DEF PoolInv

(* The read of the static thread_id_ is made by the thread being started. *)
LEMMA ReadIdKeeps ==
  ASSUME PoolInv, NEW i \in Workers, ReadId(i)
  PROVE  PoolInv'
<1> USE DEF ReadId, mainVars
<1>0. TypeOK /\ OneAtATime /\ Counter /\ InRounds
  BY DEF PoolInv
<1>1. i = Started /\ Started' = Started
  BY InTurn DEF Started
<1>2. TypeOK'
  BY <1>0 DEF TypeOK
<1>3. OneAtATime'
  BY <1>0, <1>1 DEF OneAtATime, TypeOK
<1>4. Counter'
  BY <1>0, <1>1 DEF Counter, TypeOK
<1>5. InRounds'
  BY <1>0, RoundsStand
<1> QED
  BY <1>2, <1>3, <1>4, <1>5 DEF PoolInv

(* The write back of thread_id_ + 1 loses no other thread's increment. *)
LEMMA SetNameKeeps ==
  ASSUME PoolInv, NEW i \in Workers, SetName(i)
  PROVE  PoolInv'
<1>0. TypeOK /\ OneAtATime /\ Counter /\ InRounds
  BY DEF PoolInv
<1>1. /\ thread[i] = "name"
      /\ thread_id_' = id[i] + 1
      /\ thread' = [thread EXCEPT ![i] = "start func"]
      /\ UNCHANGED <<main, loops_, next_, handed, count_, loop_, id>>
  BY DEF SetName, mainVars
<1>2. i = Started /\ Started' = Started
  BY <1>1, InTurn DEF Started
<1>3. i \in Nat /\ i + 1 \in Nat /\ i <= NumThreads /\ ~(i > NumThreads)
  BY Facts
<1>4. id[i] = i
  BY <1>0, <1>1, <1>2, <1>3 DEF Counter
<1>5. thread_id_' = i + 1 /\ thread'[i] = "start func"
  BY <1>0, <1>1, <1>4 DEF TypeOK
<1>6. TypeOK'
  <2>1. thread_id_' \in Nat
    BY <1>3, <1>5, Zenon
  <2>2. thread' \in [Workers -> {"none", "run", "read id", "name",
                                "start func", "loop"}]
    BY <1>0, <1>1 DEF TypeOK
  <2> QED
    BY <1>0, <1>1, <2>1, <2>2 DEF TypeOK
<1>7. OneAtATime'
  BY <1>0, <1>1, <1>2 DEF OneAtATime, TypeOK
<1>8. Counter'
  <2>1. /\ thread'[Started'] = "start func"
        /\ thread_id_' = Started' + 1
        /\ id'[Started'] = Started'
    BY <1>1, <1>2, <1>4, <1>5
  <2>2. ~(Started' > NumThreads)
    BY <1>2, <1>3, Zenon
  <2> QED
    BY <2>1, <2>2 DEF Counter
<1>9. InRounds'
  BY <1>0, <1>1, RoundsStand
<1> QED
  BY <1>6, <1>7, <1>8, <1>9 DEF PoolInv

(* StartFunc publishes its own loop and wakes the main thread. *)
LEMMA StartFuncKeeps ==
  ASSUME PoolInv, NEW i \in Workers, StartFunc(i)
  PROVE  PoolInv'
<1> USE DEF StartFunc
<1>0. TypeOK /\ OneAtATime /\ Counter /\ InRounds
  BY DEF PoolInv
<1>1. i = Started /\ Started' = Started /\ main \notin {"start", "serve"}
  BY InTurn DEF Started
<1>2. main' \in {"latch", "latch wait", "cond", "cond wait"}
  BY <1>0, <1>1 DEF TypeOK
<1>3. TypeOK'
  <2>1. loop_' \in [Workers -> Workers \cup {NullLoop}]
    BY <1>0 DEF TypeOK
  <2>2. thread' \in [Workers -> {"none", "run", "read id", "name",
                                "start func", "loop"}]
    BY <1>0 DEF TypeOK
  <2>3. UNCHANGED <<loops_, next_, handed, count_, thread_id_, id>>
    OBVIOUS
  <2> HIDE DEF StartFunc
  <2> QED
    BY <1>0, <1>2, <2>1, <2>2, <2>3 DEF TypeOK
<1>4. OneAtATime'
  BY <1>0, <1>1, <1>2 DEF OneAtATime, TypeOK
<1>5. Counter'
  <2>1. thread[i] = "start func" /\ thread'[i] = "loop"
    BY <1>0 DEF TypeOK
  <2> QED
    BY <1>0, <1>1, <2>1 DEF Counter
<1>6. InRounds'
  BY <1>0, <1>1, RoundsStand
<1> QED
  BY <1>3, <1>4, <1>5, <1>6 DEF PoolInv

(* NextLoop goes on with the round, or begins another.                     *)
LEMMA NextLoopKeeps ==
  ASSUME PoolInv, NextLoop
  PROVE  PoolInv'
<1>0. TypeOK /\ OneAtATime /\ Counter /\ InRounds
  BY DEF PoolInv
<1>1. /\ main = "serve" /\ main' = "serve"
      /\ UNCHANGED <<loops_, thread, count_, loop_, thread_id_, id>>
      /\ Started' = Started
  BY DEF NextLoop, threadVars, Started
<1>2. NumThreads \in Nat /\ Len(loops_) = NumThreads
  BY <1>0, <1>1, PoolAssumption DEF OneAtATime
<1>3. /\ next_ \in 0..NumThreads
      /\ next_ < NumThreads \/ next_ = 0
      /\ handed \in [Workers \cup {Base} -> Nat]
      /\ loops_ \in Seq(Workers)
  BY <1>0, <1>2 DEF TypeOK
<1>4. OneAtATime'
  BY <1>0, <1>1 DEF OneAtATime
<1>5. Counter'
  BY <1>0, <1>1 DEF Counter
<1>6. CASE loops_ = <<>>
  <2>1. /\ handed' = [handed EXCEPT ![Base] = @ + 1]
        /\ next_' = next_
    BY <1>6, Zenon DEF NextLoop
  <2>2. handed' \in [Workers \cup {Base} -> Nat]
    BY <1>3, <2>1
  <2>3. TypeOK'
    BY <1>0, <1>1, <2>1, <2>2 DEF TypeOK
  <2>4. NumThreads = 0
    BY <1>2, <1>6
  <2>5. InRounds'
    BY <1>1, <2>4 DEF InRounds
  <2> QED
    BY <1>4, <1>5, <2>3, <2>5 DEF PoolInv
<1>7. CASE loops_ # <<>>
  <2>1. /\ handed' = [handed EXCEPT ![loops_[next_ + 1]] = @ + 1]
        /\ next_' = IF next_ + 1 = Len(loops_) THEN 0 ELSE next_ + 1
    BY <1>7, Zenon DEF NextLoop, Next_
  <2>2. NumThreads > 0 /\ next_ \in Nat /\ next_ + 1 \in 1..NumThreads
    BY <1>2, <1>3, <1>7, EmptySeq
  <2>3. loops_[next_ + 1] = next_ + 1
    BY <1>0, <1>2, <2>2 DEF OneAtATime
  <2>4. handed' = [handed EXCEPT ![next_ + 1] = @ + 1]
    BY <2>1, <2>3
  <2>5. next_' = IF next_ + 1 = NumThreads THEN 0 ELSE next_ + 1
    BY <1>2, <2>1
  <2>6. handed' \in [Workers \cup {Base} -> Nat]
    BY <1>3, <2>2, <2>4
  <2>7. next_' \in 0..NumThreads /\ (next_' < NumThreads \/ next_' = 0)
    BY <1>2, <2>2, <2>5
  <2>8. TypeOK'
    BY <1>0, <1>1, <1>2, <2>6, <2>7 DEF TypeOK
  <2>9. InRounds'
    <3>1. PICK k \in Nat : \A l \in Workers :
                             handed[l] = IF l <= next_ THEN k + 1 ELSE k
      BY <1>0 DEF InRounds
    <3>2. \A l \in Workers : handed'[l] = IF l <= next_ + 1 THEN k + 1 ELSE k
      <4>1. ASSUME NEW l \in Workers
            PROVE  handed'[l] = IF l <= next_ + 1 THEN k + 1 ELSE k
        <5>1. handed'[l] = IF l = next_ + 1 THEN handed[l] + 1 ELSE handed[l]
          BY <1>3, <2>2, <2>4
        <5>2. handed[l] = IF l <= next_ THEN k + 1 ELSE k
          BY <3>1
        <5> QED
          BY <1>2, <2>2, <5>1, <5>2
      <4> QED
        BY <4>1
    <3>3. CASE next_ + 1 = NumThreads
      <4>1. \A l \in Workers : handed'[l] = IF l <= 0 THEN (k + 1) + 1 ELSE k + 1
        BY <1>2, <3>2, <3>3
      <4> QED
        BY <1>1, <2>5, <3>3, <4>1 DEF InRounds
    <3>4. CASE next_ + 1 # NumThreads
      BY <1>1, <2>5, <3>2, <3>4 DEF InRounds
    <3> QED
      BY <3>3, <3>4
  <2> QED
    BY <1>4, <1>5, <2>8, <2>9 DEF PoolInv
<1> QED
  BY <1>6, <1>7

-----------------------------------------------------------------------------
(* The theorems.                                                           *)

(* The inductive invariant holds in every reachable state of the pool. *)
THEOREM PoolInvariant == Spec => []PoolInv
<1>1. PoolInv /\ [Next]_vars => PoolInv'
  <2> SUFFICES ASSUME PoolInv, [Next]_vars
               PROVE  PoolInv'
    OBVIOUS
  <2>1. CASE Main
    BY <2>1, StartThreadKeeps, LatchWaitKeeps, StartLoopKeeps, ServeKeeps DEF Main
  <2>2. CASE SpuriousWakeup
    BY <2>2, SpuriousWakeupKeeps
  <2>3. CASE NextLoop
    BY <2>3, NextLoopKeeps
  <2>4. ASSUME NEW i \in Workers, ThreadRun(i)
        PROVE  PoolInv'
    BY <2>4, CountDownKeeps, ReadIdKeeps, SetNameKeeps, StartFuncKeeps
       DEF ThreadRun
  <2>5. CASE UNCHANGED vars
    <3>1. UNCHANGED <<main, loops_, next_, handed, thread, count_, loop_,
                      thread_id_, id>>
      BY <2>5 DEF vars, mainVars, threadVars
    <3> QED
      BY <3>1 DEF PoolInv, TypeOK, OneAtATime, Counter, InRounds, Started
  <2> QED
    BY <2>1, <2>2, <2>3, <2>4, <2>5 DEF Next
<1> QED
  BY <1>1, InitHolds, PTL DEF Spec

(* The types of the pool (TypeOK).                                         *)
THEOREM TypeCorrect == Spec => []TypeOK
<1>1. PoolInv => TypeOK
  BY DEF PoolInv
<1> QED
  BY <1>1, PoolInvariant, PTL

(* The pool never has a loop that does not exist (LoopsArePublished).      *)
THEOREM LoopsExist == Spec => []LoopsArePublished
<1>1. PoolInv => LoopsArePublished
  <2> SUFFICES ASSUME PoolInv, NEW n \in DOMAIN loops_
               PROVE  loops_[n] = n /\ thread[n] = "loop"
    BY DEF LoopsArePublished
  <2>1. TypeOK /\ OneAtATime
    BY DEF PoolInv
  <2>2. n \in 1..Len(loops_) /\ Len(loops_) \in Nat /\ NumThreads \in Nat
    BY <2>1, Facts, LenProperties DEF TypeOK
  <2>3. n \in Workers /\ n < Started
    BY <2>1, <2>2 DEF OneAtATime, Started
  <2> QED
    BY <2>1, <2>2, <2>3 DEF OneAtATime
<1> QED
  BY <1>1, PoolInvariant, PTL

(* No two threads have the same name (NamesDiffer).                        *)
THEOREM ThreadsAreToldApart == Spec => []NamesDiffer
<1>1. PoolInv => NamesDiffer
  <2> SUFFICES ASSUME PoolInv
               PROVE  NamesDiffer
    OBVIOUS
  <2>1. OneAtATime /\ Counter
    BY DEF PoolInv
  <2>2. ASSUME NEW i \in Workers,
               thread[i] \in {"name", "start func", "loop"}
        PROVE  id[i] = i
    <3>1. /\ i < Started => id[i] = i
          /\ ~(i > Started)
      BY <2>1, <2>2 DEF OneAtATime
    <3>2. i = Started => id[i] = i
      <4>1. i <= NumThreads
        BY Facts
      <4> QED
        BY <2>1, <2>2, <4>1 DEF Counter
    <3>3. Started \in Nat /\ NumThreads \in Nat
      BY Facts
    <3>4. i < Started \/ i = Started \/ i > Started
      BY <3>3
    <3> QED
      BY <3>1, <3>2, <3>4
  <2> QED
    BY <2>2 DEF NamesDiffer
<1> QED
  BY <1>1, PoolInvariant, PTL

(* Connections are spread evenly over the loops (RoundRobin).              *)
THEOREM LoadIsEven == Spec => []RoundRobin
<1>1. PoolInv => RoundRobin
  <2> SUFFICES ASSUME PoolInv, NEW i \in Workers, NEW j \in Workers
               PROVE  handed[i] <= handed[j] + 1
    BY DEF RoundRobin
  <2>1. PICK k \in Nat : \A l \in Workers :
                           handed[l] = IF l <= next_ THEN k + 1 ELSE k
    BY DEF PoolInv, InRounds
  <2>2. handed[i] \in {k, k + 1} /\ handed[j] \in {k, k + 1}
    BY <2>1
  <2> QED
    BY <2>2
<1> QED
  BY <1>1, PoolInvariant, PTL

=============================================================================
