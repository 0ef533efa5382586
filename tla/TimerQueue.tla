----------------------------- MODULE TimerQueue -----------------------------
(***************************************************************************)
(* The timers of an EventLoop (Timer/timerqueue.h, timerqueue.cc): a set   *)
(* ordered by expiration and one timerfd, armed for the earliest of them.  *)
(*                                                                         *)
(* A tick is the shortest delay ResetTimer asks for, 100 microseconds in   *)
(* the code.  Expirations are wall clock times (gettimeofday), the timerfd *)
(* counts on the monotonic clock: SetClock moves only the former.          *)
(***************************************************************************)
EXTENDS Integers, FiniteSetsExt

CONSTANTS Timers,          \* the Timer objects, each allocated once
          Delays,          \* the delays and intervals asked for, in ticks
          TicksPerSecond,
          MaxTime,         \* bound: the wall clock stops here
          Off              \* the timerfd is not armed

ASSUME TimerQueueAssumption == /\ Delays \subseteq Nat
                               /\ TicksPerSecond \in Nat \ {0}
                               /\ MaxTime \in Nat
                               /\ Off \notin Int

VARIABLES
  now,         \* Timestamp::Now()
  clock_set,   \* the wall clock has been set
  countdown,   \* ticks until the timerfd expires, or Off
  readable,    \* it has expired and not been read
  expiration,  \* expiration[t]: expiration_
  interval,    \* interval[t]: interval_, 0 when repeat_ is false
  queued,      \* timers whose AddTimerInLoop is in the loop's list
  timers,      \* timers_
  active,      \* active_timers_ while HandleRead runs
  to_run,      \* those whose callback is still to be called
  deleted,     \* timers deleted
  ran,         \* timers whose callback has been called
  pc           \* where the loop thread is

timeVars == <<now, clock_set>>
fdVars == <<countdown, readable>>
vars == <<timeVars, fdVars, expiration, interval, queued, timers, active,
          to_run, deleted, ran, pc>>

Time == 0..MaxTime
Used == queued \cup timers \cup active \cup deleted

TypeOK ==
  /\ now \in Time
  /\ clock_set \in BOOLEAN
  /\ countdown \in (Nat \ {0}) \cup {Off}
  /\ readable \in BOOLEAN
  /\ expiration \in [Timers -> Nat]
  /\ interval \in [Timers -> Delays \cup {0}]
  /\ queued \subseteq Timers
  /\ timers \subseteq Timers
  /\ active \subseteq Timers
  /\ to_run \subseteq active
  /\ deleted \subseteq Timers
  /\ ran \subseteq Timers
  /\ pc \in {"poll", "events", "run"}

Init ==
  /\ now = 0
  /\ clock_set = FALSE
  /\ countdown = Off
  /\ readable = FALSE
  /\ expiration = [t \in Timers |-> 0]
  /\ interval = [t \in Timers |-> 0]
  /\ queued = {}
  /\ timers = {}
  /\ active = {}
  /\ to_run = {}
  /\ deleted = {}
  /\ ran = {}
  /\ pc = "poll"

-----------------------------------------------------------------------------
(* Time.                                                                   *)

\* At its bound the wall clock stops and the timerfd goes on counting.
Tick ==
  /\ now < MaxTime \/ countdown # Off
  /\ now' = IF now < MaxTime THEN now + 1 ELSE now
  /\ countdown' = IF countdown \in {1, Off} THEN Off ELSE countdown - 1
  /\ readable' = (readable \/ countdown = 1)
  /\ UNCHANGED <<clock_set, expiration, interval, queued, timers, active,
                 to_run, deleted, ran, pc>>

\* Once, forwards or backwards.
SetClock ==
  /\ ~clock_set
  /\ clock_set' = TRUE
  /\ now' \in Time \ {now}
  /\ UNCHANGED <<fdVars, expiration, interval, queued, timers, active, to_run,
                 deleted, ran, pc>>

\* Timestamp::AddTime drops the fraction of a second.
AddTime(time, delay) ==
  time + (delay \div TicksPerSecond) * TicksPerSecond

-----------------------------------------------------------------------------
(* The set of timers and the timerfd.                                      *)

Earliest(S) == CHOOSE t \in S : \A u \in S : expiration[t] <= expiration[u]

\* Fault: the delay is not raised to the shortest one.
ResetTimerInPast(e) ==
  /\ countdown' = e - now
  /\ readable' = FALSE

\* TimerQueue::ResetTimer for a timer that expires at e: timerfd_settime also
\* takes back an expiration not yet read.
ResetTimer(e) ==
  /\ countdown' = IF e - now < 1 THEN 1 ELSE e - now
  /\ readable' = FALSE

\* Fault: the timerfd is left alone unless it is not armed at all.
FirstOnly(e) == timers = {}

\* What Insert returns: the new timer is the earliest.
ResetInstantly(e) == \A u \in timers : e < expiration[u]

\* TimerQueue::AddTimerInLoop, for a timer that expires at e.
AddTimerInLoop(t, e) ==
  /\ timers' = timers \cup {t}
  /\ \/ ResetInstantly(e) /\ ResetTimer(e)
     \/ ~ResetInstantly(e) /\ UNCHANGED fdVars

NewTimer(t, delay, repeat) ==
  /\ t \notin Used
  /\ expiration' = [expiration EXCEPT ![t] = AddTime(now, delay)]
  /\ interval' = [interval EXCEPT ![t] = IF repeat THEN delay ELSE 0]

\* RunAfter or RunEvery in the loop thread: a handler, a functor or the
\* callback of a timer.
AddTimerHere(t, delay, repeat) ==
  /\ NewTimer(t, delay, repeat)
  /\ AddTimerInLoop(t, AddTime(now, delay))
  /\ UNCHANGED <<timeVars, queued, active, to_run, deleted, ran, pc>>

\* The same in another thread: AddTimer goes through RunOneFunc.
AddTimerElsewhere(t, delay, repeat) ==
  /\ NewTimer(t, delay, repeat)
  /\ queued' = queued \cup {t}
  /\ UNCHANGED <<timeVars, fdVars, timers, active, to_run, deleted, ran, pc>>

\* The loop calls the functor.
AddQueued(t) ==
  /\ pc = "poll"
  /\ t \in queued
  /\ queued' = queued \ {t}
  /\ AddTimerInLoop(t, expiration[t])
  /\ UNCHANGED <<timeVars, expiration, interval, active, to_run, deleted, ran,
                 pc>>

-----------------------------------------------------------------------------
(* The loop.                                                               *)

\* epoll_wait returns the timerfd; other channels may be handled before it.
Poll ==
  /\ pc = "poll"
  /\ readable
  /\ pc' = "events"
  /\ UNCHANGED <<timeVars, fdVars, expiration, interval, queued, timers, active,
                 to_run, deleted, ran>>

\* Fault: the bound of the search is a tick too late.
ExpiredSoon == {t \in timers : expiration[t] <= now + 1}

\* Those before lower_bound of now.
Expired == {t \in timers : expiration[t] <= now}

\* TimerQueue::HandleRead up to the callbacks.  There may be nothing to read.
HandleRead ==
  /\ pc = "events"
  /\ readable' = FALSE
  /\ active' = Expired
  /\ to_run' = Expired
  /\ timers' = timers \ Expired
  /\ pc' = "run"
  /\ UNCHANGED <<timeVars, countdown, expiration, interval, queued, deleted, ran>>

\* Timer::Run of the next one.
Run ==
  /\ pc = "run"
  /\ to_run # {}
  /\ to_run' = to_run \ {Earliest(to_run)}
  /\ ran' = ran \cup {Earliest(to_run)}
  /\ UNCHANGED <<timeVars, fdVars, expiration, interval, queued, timers, active,
                 deleted, pc>>

\* Fault: nothing is left to do after the callbacks.
KeepArmed == UNCHANGED fdVars

\* The timerfd is armed again for the earliest timer.
Rearm ==
  IF timers' = {} THEN UNCHANGED fdVars
  ELSE ResetTimer(Min({expiration'[t] : t \in timers'}))

\* Fault: a timer is deleted whether it repeats or not.
AllOver == active

\* The timers to delete.
Over == {t \in active : interval[t] = 0}

\* TimerQueue::ResetTimers.
ResetTimers ==
  /\ pc = "run"
  /\ to_run = {}
  /\ expiration' = [t \in Timers |-> IF t \in active /\ interval[t] > 0
                                     THEN AddTime(now, interval[t])
                                     ELSE expiration[t]]
  /\ timers' = timers \cup {t \in active : interval[t] > 0}
  /\ deleted' = deleted \cup Over
  /\ active' = {}
  /\ Rearm
  /\ pc' = "poll"
  /\ UNCHANGED <<timeVars, interval, queued, to_run, ran>>

-----------------------------------------------------------------------------

Loop == Poll \/ HandleRead \/ Run \/ ResetTimers \/ \E t \in Timers : AddQueued(t)

Next == \/ Tick
        \/ SetClock
        \/ Loop
        \/ \E t \in Timers, delay \in Delays, repeat \in BOOLEAN :
             AddTimerHere(t, delay, repeat) \/ AddTimerElsewhere(t, delay, repeat)

\* Time goes on, the loop is not blocked by its handlers, and it calls every
\* functor it is given, as the TaskExecutor does.
Spec == /\ Init /\ [][Next]_vars
        /\ WF_vars(Tick)
        /\ WF_vars(Loop)
        /\ \A t \in Timers : SF_vars(AddQueued(t))

-----------------------------------------------------------------------------
(* Properties.                                                             *)

(* While the loop may block the timerfd is armed if there is a timer, and  *)
(* for the earliest: not later than its expiration, or one tick when that  *)
(* has passed, whatever was inserted from callbacks, handlers or other     *)
(* threads meanwhile.  A wall clock that is set makes it ring at another   *)
(* time but leaves it armed (timerqueue.h:69-84, timerqueue.cc:35-53).     *)
EarliestIsCovered ==
  (pc = "poll" /\ timers # {}) =>
    LET wait == expiration[Earliest(timers)] - now
    IN \/ readable
       \/ countdown # Off /\ (countdown <= wait \/ countdown = 1 \/ clock_set)

(* No callback is called before its timer has expired, by the wall clock   *)
(* as it is then.                                                          *)
NeverEarly == [][\A t \in to_run \ to_run' : clock_set \/ expiration[t] <= now]_vars

(* A timer that was deleted is in no list (timerqueue.h:53-67); a one-shot *)
(* timer is in one list at a time, so its callback is called once.         *)
NoUseAfterDelete ==
  /\ deleted \cap (queued \cup timers \cup active) = {}
  /\ queued \cap (timers \cup active) = {}
  /\ timers \cap active = {}

(* Every timer whose time comes is called, although the timerfd is set     *)
(* again and again under it by callbacks, handlers and repeating timers,   *)
(* and the wall clock under them.                                          *)
TimersRun ==
  \A t \in Timers :
    (t \in Used /\ expiration[t] <= MaxTime) ~> (t \in ran)

=============================================================================
