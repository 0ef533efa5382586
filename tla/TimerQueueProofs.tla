-------------------------- MODULE TimerQueueProofs --------------------------
(***************************************************************************)
(* Proofs about TimerQueue, for any set of timers, any delays and any      *)
(* number of ticks per second: a loop that may block is woken for its      *)
(* earliest timer, no callback comes early, and no timer is used after it  *)
(* was deleted.                                                            *)
(***************************************************************************)
EXTENDS TimerQueue, WellFoundedInduction, TLAPS

-----------------------------------------------------------------------------
(* The earliest of some timers.                                            *)

(* A non-empty set of times has a least one.                               *)
LEMMA LeastTime ==
  ASSUME NEW S \in SUBSET Nat, S # {}
  PROVE  \E x \in S : \A y \in S : x <= y
<1>1. PICK x \in S : \A y \in S : ~(<<y, x>> \in OpToRel(<, Nat))
  BY NatLessThanWellFounded, WFMin
<1>2. ASSUME NEW y \in S PROVE x <= y
  <2>1. <<y, x>> \in OpToRel(<, Nat) <=> y < x
    BY Zenon DEF OpToRel
  <2>2. ~(y < x)
    BY <1>1, <2>1, Zenon
  <2> QED
    BY <2>2
<1> QED
  BY <1>2

(* It is what Min says.                                                    *)
LEMMA MinIsLeast ==
  ASSUME NEW S \in SUBSET Nat, S # {}
  PROVE  Min(S) \in S /\ \A y \in S : Min(S) <= y
<1>1. \E x \in S : \A y \in S : x <= y
  BY LeastTime
<1> QED
  BY <1>1 DEF Min

(* Of some timers there is an earliest one, and Earliest finds it.         *)
LEMMA EarliestIsFirst ==
  ASSUME expiration \in [Timers -> Nat], NEW S \in SUBSET Timers, S # {}
  PROVE  Earliest(S) \in S /\ \A u \in S : expiration[Earliest(S)] <= expiration[u]
<1> DEFINE T == {expiration[t] : t \in S}
<1>1. T \in SUBSET Nat /\ T # {}
  OBVIOUS
<1>2. PICK x \in T : \A y \in T : x <= y
  <2> HIDE DEF T
  <2> QED
    BY <1>1, LeastTime
<1>3. \E t \in S : \A u \in S : expiration[t] <= expiration[u]
  BY <1>2
<1> QED
  BY <1>3 DEF Earliest

(* AddTime never goes back.                                                *)
LEMMA AddTimeType ==
  ASSUME NEW time \in Nat, NEW delay \in Nat
  PROVE  AddTime(time, delay) \in Nat
<1>1. TicksPerSecond \in Nat /\ TicksPerSecond > 0
  BY TimerQueueAssumption
<1>2. delay \div TicksPerSecond \in Nat
  BY <1>1
<1>3. \A a, b \in Nat : a * b \in Nat
  OBVIOUS
<1>4. (delay \div TicksPerSecond) * TicksPerSecond \in Nat
  BY <1>1, <1>2, <1>3
<1> QED
  BY <1>4 DEF AddTime

-----------------------------------------------------------------------------
(* Types.                                                                  *)

(* The types hold at the start.                                            *)
LEMMA TypesInit == Init => TypeOK
<1> SUFFICES ASSUME Init PROVE TypeOK
  OBVIOUS
<1>1. 0 \in Time
  BY TimerQueueAssumption DEF Time
<1>2. /\ [t \in Timers |-> 0] \in [Timers -> Nat]
      /\ [t \in Timers |-> 0] \in [Timers -> Delays \cup {0}]
  OBVIOUS
<1> QED
  BY <1>1, <1>2, Zenon DEF Init, TypeOK

(* They are kept: Rearm is given a least expiration, and Run a timer.      *)
LEMMA TypesNext == TypeOK /\ [Next]_vars => TypeOK'
<1> SUFFICES ASSUME TypeOK, [Next]_vars PROVE TypeOK'
  OBVIOUS
<1> USE TimerQueueAssumption DEF TypeOK
<1>1. CASE Tick
  <2>1. now' \in Time /\ readable' \in BOOLEAN
    BY <1>1 DEF Tick, Time
  <2>2. countdown' \in (Nat \ {0}) \cup {Off}
    BY <1>1 DEF Tick
  <2> QED
    BY <1>1, <2>1, <2>2 DEF Tick
<1>2. CASE SetClock
  BY <1>2 DEF SetClock, fdVars
<1>3. ASSUME NEW e \in Nat, ResetTimer(e) \/ UNCHANGED fdVars
      PROVE  countdown' \in (Nat \ {0}) \cup {Off} /\ readable' \in BOOLEAN
  <2>1. now \in Int
    BY DEF Time
  <2>2. CASE ResetTimer(e)
    <3>1. (IF e - now < 1 THEN 1 ELSE e - now) \in Nat \ {0}
      BY <2>1
    <3> QED
      BY <2>2, <3>1, Zenon DEF ResetTimer
  <2>3. CASE UNCHANGED fdVars
    BY <2>3 DEF fdVars
  <2> QED
    BY <1>3, <2>2, <2>3
<1>4. ASSUME NEW t \in Timers, NEW delay \in Delays, NEW repeat \in BOOLEAN,
             NewTimer(t, delay, repeat)
      PROVE  /\ AddTime(now, delay) \in Nat
             /\ expiration' \in [Timers -> Nat]
             /\ interval' \in [Timers -> Delays \cup {0}]
  <2>1. AddTime(now, delay) \in Nat
    <3>1. now \in Nat /\ delay \in Nat
      BY DEF Time
    <3> QED
      BY <3>1, AddTimeType
  <2>2. expiration' \in [Timers -> Nat]
    BY <1>4, <2>1 DEF NewTimer
  <2>3. (IF repeat THEN delay ELSE 0) \in Delays \cup {0}
    OBVIOUS
  <2>4. interval' \in [Timers -> Delays \cup {0}]
    BY <1>4, <2>3 DEF NewTimer
  <2> QED
    BY <2>1, <2>2, <2>4
<1>5. ASSUME NEW t \in Timers, NEW delay \in Delays, NEW repeat \in BOOLEAN,
             AddTimerHere(t, delay, repeat)
      PROVE  TypeOK'
  <2>1. countdown' \in (Nat \ {0}) \cup {Off} /\ readable' \in BOOLEAN
    BY <1>3, <1>4, <1>5 DEF AddTimerHere, AddTimerInLoop
  <2> QED
    BY <1>4, <1>5, <2>1 DEF AddTimerHere, AddTimerInLoop, timeVars
<1>6. ASSUME NEW t \in Timers, NEW delay \in Delays, NEW repeat \in BOOLEAN,
             AddTimerElsewhere(t, delay, repeat)
      PROVE  TypeOK'
  BY <1>4, <1>6 DEF AddTimerElsewhere, timeVars, fdVars
<1>7. ASSUME NEW t \in Timers, AddQueued(t) PROVE TypeOK'
  <2>1. countdown' \in (Nat \ {0}) \cup {Off} /\ readable' \in BOOLEAN
    BY <1>3, <1>7 DEF AddQueued, AddTimerInLoop
  <2> QED
    BY <1>7, <2>1 DEF AddQueued, AddTimerInLoop, timeVars
<1>8. CASE Poll
  BY <1>8 DEF Poll, timeVars, fdVars
<1>9. CASE HandleRead
  BY <1>9 DEF HandleRead, Expired, timeVars
<1>10. CASE Run
  <2>1. Earliest(to_run) \in Timers
    BY <1>10, EarliestIsFirst DEF Run
  <2> QED
    BY <1>10, <2>1 DEF Run, timeVars, fdVars
<1>11. CASE ResetTimers
  <2>1. \A t \in Timers : interval[t] > 0 => AddTime(now, interval[t]) \in Nat
    <3>1. ASSUME NEW t \in Timers PROVE AddTime(now, interval[t]) \in Nat
      <4>1. now \in Nat
        BY DEF Time
      <4>2. interval[t] \in Delays \cup {0}
        OBVIOUS
      <4>3. interval[t] \in Nat
        <5>1. Delays \cup {0} \subseteq Nat
          OBVIOUS
        <5> HIDE DEF TypeOK
        <5> QED
          BY <4>2, <5>1, Zenon
      <4> HIDE DEF TypeOK
      <4> QED
        BY <4>1, <4>3, AddTimeType, Zenon
    <3> QED
      BY <3>1
  <2>2. expiration' \in [Timers -> Nat]
    BY <1>11, <2>1 DEF ResetTimers
  <2>3. timers' \subseteq Timers /\ deleted' \subseteq Timers
    BY <1>11 DEF ResetTimers, Over
  <2>4. countdown' \in (Nat \ {0}) \cup {Off} /\ readable' \in BOOLEAN
    <3>1. CASE timers' = {}
      BY <1>11, <3>1 DEF ResetTimers, Rearm, fdVars
    <3>2. CASE timers' # {}
      <4> DEFINE T == {expiration'[t] : t \in timers'}
      <4>1. T \in SUBSET Nat /\ T # {} /\ ResetTimer(Min(T))
        BY <1>11, <2>2, <2>3, <3>2 DEF ResetTimers, Rearm
      <4> HIDE DEF T
      <4>2. Min(T) \in Nat
        BY <4>1, MinIsLeast
      <4> QED
        BY <1>3, <4>1, <4>2
    <3> QED
      BY <3>1, <3>2
  <2> QED
    BY <1>11, <2>2, <2>3, <2>4 DEF ResetTimers, timeVars
<1>12. CASE UNCHANGED vars
  BY <1>12 DEF vars, timeVars, fdVars
<1> QED
  BY <1>1, <1>2, <1>5, <1>6, <1>7, <1>8, <1>9, <1>10, <1>11, <1>12
     DEF Next, Loop

(* The variables have their types, for any timers and delays.              *)
THEOREM TypeCorrect == Spec => []TypeOK
BY TypesInit, TypesNext, PTL DEF Spec
-----------------------------------------------------------------------------
(* A timer is in one list.                                                 *)

(* What moves from one list to another leaves the first.                   *)
LEMMA ListsNext == NoUseAfterDelete /\ [Next]_vars => NoUseAfterDelete'
<1> SUFFICES ASSUME NoUseAfterDelete, [Next]_vars PROVE NoUseAfterDelete'
  OBVIOUS
<1> USE DEF NoUseAfterDelete
<1>1. CASE Tick \/ SetClock \/ Poll \/ Run \/ UNCHANGED vars
  BY <1>1 DEF Tick, SetClock, Poll, Run, vars
<1>2. ASSUME NEW t \in Timers, NEW delay \in Delays, NEW repeat \in BOOLEAN,
             \/ AddTimerHere(t, delay, repeat)
             \/ AddTimerElsewhere(t, delay, repeat)
      PROVE  NoUseAfterDelete'
  BY <1>2 DEF AddTimerHere, AddTimerElsewhere, NewTimer, Used, AddTimerInLoop
<1>3. ASSUME NEW t \in Timers, AddQueued(t) PROVE NoUseAfterDelete'
  BY <1>3 DEF AddQueued, AddTimerInLoop
<1>4. CASE HandleRead
  BY <1>4 DEF HandleRead, Expired
<1>5. CASE ResetTimers
  <2>1. {t \in active : interval[t] > 0} \cap Over = {}
    BY DEF Over
  <2>2. {t \in active : interval[t] > 0} \subseteq active /\ Over \subseteq active
    BY DEF Over
  <2>3. /\ timers' = timers \cup {t \in active : interval[t] > 0}
        /\ deleted' = deleted \cup Over
        /\ active' = {} /\ queued' = queued
    BY <1>5 DEF ResetTimers
  <2> QED
    BY <2>1, <2>2, <2>3, Zenon
<1> QED
  BY <1>1, <1>2, <1>3, <1>4, <1>5 DEF Next, Loop

(* A Timer that was deleted is in no list, whatever is inserted and        *)
(* whenever the timerfd fires.                                             *)
THEOREM DeletedIsGone == Spec => []NoUseAfterDelete
<1>1. Init => NoUseAfterDelete
  BY DEF Init, NoUseAfterDelete
<1> QED
  BY <1>1, ListsNext, PTL DEF Spec

-----------------------------------------------------------------------------
(* No callback comes early.                                                *)

(* The timers to be run have expired, and the clock has not gone back.     *)
DueTimers ==
  /\ \A t \in to_run : clock_set \/ expiration[t] <= now
  /\ to_run # {} => pc = "run"
  /\ to_run \subseteq active

(* They stay so until they are run.                                        *)
LEMMA DueNext == TypeOK /\ DueTimers /\ [Next]_vars => DueTimers'
<1> SUFFICES ASSUME TypeOK, DueTimers, [Next]_vars PROVE DueTimers'
  OBVIOUS
<1>1. CASE Tick
  <2>1. now' \in Nat /\ now \in Nat /\ now <= now'
    BY <1>1, TimerQueueAssumption DEF Tick, TypeOK, Time
  <2>2. /\ to_run' = to_run /\ expiration' = expiration /\ active' = active
        /\ clock_set' = clock_set /\ pc' = pc
    BY <1>1 DEF Tick
  <2>3. \A t \in to_run : expiration[t] \in Nat
    BY DEF TypeOK, DueTimers
  <2>4. \A t \in to_run : expiration[t] <= now => expiration[t] <= now'
    BY <2>1, <2>3
  <2> QED
    BY <2>2, <2>4, Zenon DEF DueTimers
<1>2. CASE SetClock
  BY <1>2 DEF SetClock, DueTimers
<1>3. CASE Poll \/ HandleRead \/ ResetTimers \/ UNCHANGED vars
  BY <1>3 DEF Poll, HandleRead, ResetTimers, Expired, DueTimers, vars, timeVars
<1>4. CASE Run
  BY <1>4 DEF Run, DueTimers, timeVars
<1>5. ASSUME NEW t \in Timers, NEW delay \in Delays, NEW repeat \in BOOLEAN,
             \/ AddTimerHere(t, delay, repeat)
             \/ AddTimerElsewhere(t, delay, repeat)
      PROVE  DueTimers'
  <2>1. t \notin active /\ \A u \in Timers : u # t => expiration'[u] = expiration[u]
    BY <1>5 DEF AddTimerHere, AddTimerElsewhere, NewTimer, Used, TypeOK
  <2>2. /\ to_run' = to_run /\ active' = active /\ pc' = pc
        /\ UNCHANGED timeVars
    BY <1>5 DEF AddTimerHere, AddTimerElsewhere
  <2>3. \A u \in to_run : expiration'[u] = expiration[u]
    BY <2>1 DEF DueTimers, TypeOK
  <2> QED
    BY <2>2, <2>3 DEF DueTimers, timeVars
<1>6. ASSUME NEW t \in Timers, AddQueued(t) PROVE DueTimers'
  BY <1>6 DEF AddQueued, DueTimers, timeVars
<1> QED
  BY <1>1, <1>2, <1>3, <1>4, <1>5, <1>6 DEF Next, Loop

(* A callback is not called before its timer has expired, as long as the   *)
(* wall clock is not set.                                                  *)
THEOREM NoneIsEarly == Spec => NeverEarly
<1>1. Init => DueTimers
  BY DEF Init, DueTimers
<1>2. DueTimers /\ [Next]_vars =>
        [\A t \in to_run \ to_run' : clock_set \/ expiration[t] <= now]_vars
  BY DEF DueTimers
<1> QED
  BY <1>1, <1>2, TypeCorrect, DueNext, PTL DEF Spec, NeverEarly

-----------------------------------------------------------------------------
(* The loop is woken for its earliest timer.                               *)

(* The timerfd rings for the timer t: it has rung, or does before the      *)
(* timer expires or with the shortest delay.                               *)
Rings(t) == \/ readable
            \/ /\ countdown # Off
               /\ \/ countdown <= expiration[t] - now
                  \/ countdown = 1
                  \/ clock_set

Covered == pc = "poll" => \A t \in timers : Rings(t)

(* Every step keeps the timerfd armed for all timers.                      *)
LEMMA CoveredNext == TypeOK /\ Covered /\ [Next]_vars => Covered'
<1> SUFFICES ASSUME TypeOK, Covered, [Next]_vars PROVE Covered'
  OBVIOUS
<1> USE TimerQueueAssumption
<1>0. /\ now \in Nat /\ countdown \in (Nat \ {0}) \cup {Off} /\ Off \notin Int
      /\ \A t \in Timers : expiration[t] \in Nat
      /\ timers \subseteq Timers
  BY DEF TypeOK, Time
<1>1. CASE Tick
  <2>1. now' \in Nat /\ (now' = now + 1 \/ now' = now)
    BY <1>0, <1>1 DEF Tick
  <2>2. /\ timers' = timers /\ pc' = pc /\ expiration' = expiration
        /\ clock_set' = clock_set
        /\ countdown' = IF countdown \in {1, Off} THEN Off ELSE countdown - 1
        /\ readable' = (readable \/ countdown = 1)
    BY <1>1 DEF Tick
  <2>3. ASSUME NEW t \in timers, Rings(t) PROVE Rings(t)'
    <3>1. CASE readable \/ countdown = 1
      <4>1. readable'
        BY <2>2, <3>1
      <4> QED
        BY <4>1 DEF Rings
    <3>2. CASE ~(readable \/ countdown = 1)
      <4>1. countdown \in Nat /\ countdown > 1
        BY <1>0, <2>3, <3>2 DEF Rings
      <4>2. countdown' = countdown - 1 /\ countdown' # Off
        BY <1>0, <2>2, <4>1
      <4>3. countdown <= expiration[t] - now \/ clock_set
        BY <2>3, <3>2 DEF Rings
      <4>4. expiration[t] \in Nat /\ expiration'[t] = expiration[t]
        BY <1>0, <2>2
      <4>5. countdown <= expiration[t] - now => countdown' <= expiration'[t] - now'
        BY <1>0, <2>1, <4>1, <4>2, <4>4
      <4> QED
        BY <2>2, <4>2, <4>3, <4>5 DEF Rings
    <3> QED
      BY <3>1, <3>2
  <2> QED
    BY <2>2, <2>3 DEF Covered
<1>2. CASE SetClock
  BY <1>2 DEF SetClock, fdVars, Covered, Rings
<1>3. ASSUME NEW e \in Nat, ResetTimer(e), now' = now
      PROVE  /\ countdown' # Off
             /\ countdown' <= e - now' \/ countdown' = 1
  <2>1. countdown' = IF e - now < 1 THEN 1 ELSE e - now
    BY <1>3 DEF ResetTimer
  <2> QED
    BY <1>0, <1>3, <2>1
<1>4. ASSUME NEW t \in Timers, NEW e \in Nat, AddTimerInLoop(t, e),
             e = expiration'[t], UNCHANGED <<timeVars, pc>>,
             \A u \in timers : expiration'[u] = expiration[u]
      PROVE  Covered'
  <2>1. now' = now /\ clock_set' = clock_set /\ pc' = pc
    BY <1>4 DEF timeVars
  <2>2. timers' = timers \cup {t}
    BY <1>4 DEF AddTimerInLoop
  <2>3. CASE ResetInstantly(e) /\ ResetTimer(e)
    <3>1. /\ countdown' # Off
          /\ countdown' <= e - now' \/ countdown' = 1
      BY <1>3, <2>1, <2>3
    <3>2. \A u \in timers' : expiration'[u] \in Nat /\ e <= expiration'[u]
      BY <1>0, <1>4, <2>2, <2>3 DEF ResetInstantly
    <3>3. countdown' \in Int /\ now' \in Int
      BY <1>0, <2>1, <2>3 DEF ResetTimer
    <3>4. ASSUME NEW u \in timers'
          PROVE  countdown' <= expiration'[u] - now' \/ countdown' = 1
      <4>1. expiration'[u] \in Nat /\ e <= expiration'[u]
        BY <3>2
      <4>2. \A c, n, y \in Int : c <= e - n /\ e <= y => c <= y - n
        OBVIOUS
      <4>3. \A y \in Nat : y \in Int
        OBVIOUS
      <4>4. countdown' <= e - now' => countdown' <= expiration'[u] - now'
        BY <3>3, <4>1, <4>2, <4>3, Zenon
      <4> QED
        BY <3>1, <4>4, Zenon
    <3> QED
      BY <3>1, <3>4 DEF Covered, Rings
  <2>4. CASE ~ResetInstantly(e) /\ UNCHANGED fdVars
    <3>1. countdown' = countdown /\ readable' = readable
      BY <2>4 DEF fdVars
    <3>2. ASSUME NEW u \in timers, Rings(u) PROVE Rings(u)'
      BY <1>4, <2>1, <3>1, <3>2 DEF Rings
    <3>3. PICK u \in timers : expiration[u] <= e
      BY <1>0, <2>4 DEF ResetInstantly
    <3>4. ASSUME Rings(u) PROVE Rings(t)'
      <4>1. expiration[u] - now <= expiration'[t] - now'
        BY <1>0, <1>4, <2>1, <3>3
      <4>2. countdown <= expiration[u] - now => countdown <= expiration'[t] - now'
        BY <1>0, <1>4, <2>1, <4>1
      <4> QED
        BY <2>1, <3>1, <3>4, <4>2 DEF Rings
    <3> QED
      BY <2>1, <2>2, <3>1, <3>2, <3>4 DEF Covered
  <2> QED
    BY <1>4, <2>3, <2>4 DEF AddTimerInLoop
<1>5. ASSUME NEW t \in Timers, NEW delay \in Delays, NEW repeat \in BOOLEAN,
             AddTimerHere(t, delay, repeat)
      PROVE  Covered'
  <2>1. AddTime(now, delay) \in Nat
    <3>1. delay \in Nat
      OBVIOUS
    <3> QED
      BY <1>0, <3>1, AddTimeType
  <2>2. /\ expiration'[t] = AddTime(now, delay)
        /\ \A u \in timers : expiration'[u] = expiration[u]
    BY <1>0, <1>5 DEF AddTimerHere, NewTimer, Used, TypeOK
  <2> QED
    BY <1>4, <1>5, <2>1, <2>2 DEF AddTimerHere
<1>6. ASSUME NEW t \in Timers, NEW delay \in Delays, NEW repeat \in BOOLEAN,
             AddTimerElsewhere(t, delay, repeat)
      PROVE  Covered'
  <2>1. \A u \in timers : expiration'[u] = expiration[u]
    BY <1>0, <1>6 DEF AddTimerElsewhere, NewTimer, Used, TypeOK
  <2> QED
    BY <1>6, <2>1 DEF AddTimerElsewhere, timeVars, fdVars, Covered, Rings
<1>7. ASSUME NEW t \in Timers, AddQueued(t) PROVE Covered'
  <2>1. expiration[t] \in Nat /\ expiration' = expiration
    BY <1>0, <1>7 DEF AddQueued
  <2> QED
    BY <1>4, <1>7, <2>1 DEF AddQueued
<1>8. CASE Poll \/ HandleRead \/ Run
  BY <1>8 DEF Poll, HandleRead, Run, Covered, fdVars
<1>9. CASE ResetTimers
  <2>1. expiration' \in [Timers -> Nat] /\ timers' \subseteq Timers
    BY TypesNext DEF TypeOK
  <2>2. CASE timers' = {}
    BY <1>9, <2>2 DEF ResetTimers, Rearm, fdVars, Covered
  <2>3. CASE timers' # {}
    <3> DEFINE T == {expiration'[t] : t \in timers'}
    <3>1. T \in SUBSET Nat /\ T # {} /\ ResetTimer(Min(T)) /\ now' = now
      BY <1>9, <2>1, <2>3 DEF ResetTimers, Rearm, timeVars
    <3>2. \A t \in timers' : expiration'[t] \in T /\ expiration'[t] \in Nat
      BY <2>1
    <3> HIDE DEF T
    <3>3. Min(T) \in Nat /\ \A y \in T : Min(T) <= y
      BY <3>1, MinIsLeast
    <3>4. /\ countdown' # Off
          /\ countdown' <= Min(T) - now' \/ countdown' = 1
      BY <1>3, <3>1, <3>3
    <3>5. countdown' \in Int /\ now' \in Int
      BY <1>0, <3>1, <3>3 DEF ResetTimer
    <3>6. \A t \in timers' : countdown' <= expiration'[t] - now' \/ countdown' = 1
      BY <3>2, <3>3, <3>4, <3>5
    <3> QED
      BY <3>4, <3>6 DEF Covered, Rings
  <2> QED
    BY <2>2, <2>3
<1>10. CASE UNCHANGED vars
  BY <1>10 DEF vars, timeVars, fdVars, Covered, Rings
<1> QED
  BY <1>1, <1>2, <1>5, <1>6, <1>7, <1>8, <1>9, <1>10 DEF Next, Loop

(* A loop that may block has its timerfd armed for the earliest of its     *)
(* timers, whatever was added, repeated or deleted meanwhile.              *)
THEOREM EarliestStaysCovered == Spec => []EarliestIsCovered
<1>1. Init => Covered
  BY DEF Init, Covered
<1>2. TypeOK /\ Covered => EarliestIsCovered
  <2> SUFFICES ASSUME TypeOK, Covered, pc = "poll", timers # {}
               PROVE  Rings(Earliest(timers))
    BY DEF EarliestIsCovered, Rings
  <2>1. Earliest(timers) \in timers
    BY EarliestIsFirst DEF TypeOK
  <2> QED
    BY <2>1 DEF Covered
<1> QED
  BY <1>1, <1>2, TypeCorrect, CoveredNext, PTL DEF Spec

=============================================================================
