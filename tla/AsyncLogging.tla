---------------------------- MODULE AsyncLogging ----------------------------
(***************************************************************************)
(* The asynchronous log (Logging/asynclogging.cc): any thread appends lines*)
(* to current_, full buffers queue up in buffers_to_write_, and the backend*)
(* thread swaps them out, writes them to its LogFile and hands two empty   *)
(* buffers back.                                                           *)
(*                                                                         *)
(* A critical section of mutex_ is one action.  A buffer has the numbers of*)
(* its lines, given in the order of the calls of Append, and the room that *)
(* is left; a BufferPtr is a buffer or Null.                               *)
(***************************************************************************)
EXTENDS LogFile

CONSTANTS Null,
          Cap,                    \* bound: the bytes of a buffer
          MaxLines,               \* bound: lines appended
          kSingleFileMaximumSize

ASSUME AsyncLoggingAssumption == /\ Cap \in Nat
                                 /\ MaxLines \in Nat
                                 /\ kSingleFileMaximumSize \in Nat

VARIABLES
  main,               \* where the thread is that starts and stops the log
  running_,
  appended,           \* how many lines Append has been called with
  current_,
  next_,
  buffers_to_write_,
  pc,                 \* where ThreadFunc is
  newbuffer_current,  \* its spare buffers
  newbuffer_next,
  buffers,            \* the buffers it has swapped out
  at                  \* the first of them that is not yet written

queueVars == <<appended, current_, next_, buffers_to_write_>>
backendVars == <<newbuffer_current, newbuffer_next, buffers, at>>
vars == <<main, running_, queueVars, pc, backendVars, now, logFileVars>>

Line == 1..MaxLines
Buffer == [lines : Seq(Line), room : 0..Cap]
BufferPtr == Buffer \cup {Null}

ASSUME NullAssumption == Null \notin Buffer

TypeOK ==
  /\ now \in StartTime..EndTime
  /\ file \in Seq(Line)
  /\ times \in Seq(StartTime..now)
  /\ Len(times) = Len(file)
  /\ opened \in 0..Len(file)
  /\ flushed \in 0..Len(file)
  /\ written_bytes_ \in Nat
  /\ lastwrite_ \in {0} \cup StartTime..now
  /\ lastflush_ \in {0} \cup StartTime..now
  /\ main \in {"new", "starting", "started", "joining", "joined"}
  /\ running_ \in BOOLEAN
  /\ appended \in 0..MaxLines
  /\ current_ \in Buffer
  /\ next_ \in BufferPtr
  /\ buffers_to_write_ \in Seq(Buffer)
  /\ pc \in {"none", "start", "while", "lock", "wait", "write", "refill", "end",
             "crashed"}
  /\ newbuffer_current \in BufferPtr
  /\ newbuffer_next \in BufferPtr
  /\ buffers \in Seq(Buffer)
  /\ at \in 1..(Len(buffers) + 1)

EmptyBuffer == [lines |-> <<>>, room |-> Cap]

\* FixedBuffer::len.
BytesOf(buffer) == Cap - buffer.room

\* AsyncLogging::AsyncLogging.
Init ==
  /\ LogFileInit
  /\ main = "new"
  /\ running_ = FALSE
  /\ appended = 0
  /\ current_ = EmptyBuffer
  /\ next_ = EmptyBuffer
  /\ buffers_to_write_ = <<>>
  /\ pc = "none"
  /\ newbuffer_current = Null
  /\ newbuffer_next = Null
  /\ buffers = <<>>
  /\ at = 1

-----------------------------------------------------------------------------
(* The threads that log.                                                   *)

Fits(len) == current_.room >= len

\* AsyncLogging::Append of a line of len bytes.
AppendFits(len) ==
  /\ Fits(len)
  /\ current_' = [lines |-> Append(current_.lines, appended + 1),
                  room |-> current_.room - len]
  /\ UNCHANGED <<next_, buffers_to_write_>>

\* The line that does not fit makes the buffers rotate; it is not stored.
AppendRotates(len) ==
  /\ ~Fits(len)
  /\ buffers_to_write_' = Append(buffers_to_write_, current_)
  /\ current_' = IF next_ # Null THEN next_ ELSE EmptyBuffer
  /\ next_' = Null

AppendLine(len) ==
  /\ appended < MaxLines
  /\ appended' = appended + 1
  /\ AppendFits(len) \/ AppendRotates(len)
  /\ UNCHANGED <<main, running_, pc, backendVars, now, logFileVars>>

-----------------------------------------------------------------------------
(* The thread that starts and stops the log.                               *)

\* StartAsyncLogging, up to latch_.Wait.
StartAsyncLogging ==
  /\ main = "new"
  /\ main' = "starting"
  /\ running_' = TRUE
  /\ pc' = "start"
  /\ UNCHANGED <<queueVars, backendVars, now, logFileVars>>

LatchWaitReturns ==
  /\ main = "starting"
  /\ pc # "start"
  /\ main' = "started"
  /\ UNCHANGED <<running_, queueVars, pc, backendVars, now, logFileVars>>

\* Stop, up to thread_.Join.
Stop ==
  /\ main = "started"
  /\ main' = "joining"
  /\ running_' = FALSE
  /\ UNCHANGED <<queueVars, pc, backendVars, now, logFileVars>>

JoinReturns ==
  /\ main = "joining"
  /\ pc = "end"
  /\ main' = "joined"
  /\ UNCHANGED <<running_, queueVars, pc, backendVars, now, logFileVars>>

-----------------------------------------------------------------------------
(* ThreadFunc.                                                             *)

\* latch_.CountDown, the spare buffers and the LogFile.
Start ==
  /\ pc = "start"
  /\ pc' = "while"
  /\ newbuffer_current' = EmptyBuffer
  /\ newbuffer_next' = EmptyBuffer
  /\ UNCHANGED <<main, running_, queueVars, buffers, at, now, logFileVars>>

\* ThreadFunc returns, and its LogFile is destroyed.
End ==
  /\ pc = "while"
  /\ ~running_
  /\ pc' = "end"
  /\ Close
  /\ UNCHANGED <<main, running_, queueVars, backendVars, now>>

While ==
  /\ pc = "while"
  /\ running_
  /\ pc' = "lock"
  /\ UNCHANGED <<main, running_, queueVars, backendVars, now, logFileVars>>

\* Nothing is queued: WaitForFewSeconds releases the lock.
Wait ==
  /\ pc = "lock"
  /\ buffers_to_write_ = <<>>
  /\ pc' = "wait"
  /\ UNCHANGED <<main, running_, queueVars, backendVars, now, logFileVars>>

\* Fault: the wait has no timeout, and the notify of Stop may come before it.
WakesForBuffers == buffers_to_write_ # <<>>

\* A wait ends when Append or Stop notifies, or with its timeout.
Wakes == TRUE

\* Fault: what comes last is written first.
CurrentFirst == <<current_>> \o buffers_to_write_

\* Fault: the buffer that is not full waits.
OnlyFull == buffers_to_write_

\* What the swap takes: the full buffers, then the current one.
SwappedOut == Append(buffers_to_write_, current_)

\* The rest of the critical section, lock held.
Swap ==
  /\ \/ pc = "lock" /\ buffers_to_write_ # <<>>
     \/ pc = "wait" /\ Wakes
  /\ buffers' = SwappedOut
  /\ at' = 1
  /\ buffers_to_write_' = <<>>
  /\ current_' = newbuffer_current
  /\ newbuffer_current' = Null
  /\ \/ /\ next_ = Null
        /\ next_' = newbuffer_next
        /\ newbuffer_next' = Null
     \/ /\ next_ # Null
        /\ UNCHANGED <<next_, newbuffer_next>>
  /\ pc' = "write"
  /\ UNCHANGED <<main, running_, appended, now, logFileVars>>

\* log->Write of one buffer after the other.
Write ==
  /\ pc = "write"
  /\ at <= Len(buffers)
  /\ WriteLines(buffers[at].lines, BytesOf(buffers[at]))
  /\ at' = at + 1
  /\ UNCHANGED <<main, running_, queueVars, pc, newbuffer_current,
                 newbuffer_next, buffers, now>>

\* A file that has grown too large is replaced.
Roll ==
  /\ pc = "write"
  /\ at > Len(buffers)
  /\ pc' = "refill"
  /\ \/ written_bytes_ >= kSingleFileMaximumSize /\ Reopen
     \/ written_bytes_ < kSingleFileMaximumSize /\ UNCHANGED logFileVars
  /\ UNCHANGED <<main, running_, queueVars, backendVars, now>>

\* Buffers left over after two of them are kept as spares.
Kept == SubSeq(buffers, 1, IF Len(buffers) > 2 THEN 2 ELSE Len(buffers))

\* Fault: SetBufferZero is not called.
RefillKeepsLines ==
  /\ pc = "refill"
  /\ newbuffer_current' = buffers[1]
  /\ pc' = IF newbuffer_next = Null /\ Len(Kept) < 2 THEN "crashed" ELSE "while"
  /\ buffers' = <<>>
  /\ at' = 1
  /\ UNCHANGED <<main, running_, queueVars, newbuffer_next, now, logFileVars>>

\* The end of the loop: the backend takes its spares back.  When next_ took
\* newbuffer_next, the second of them replaces newbuffer_current, and when
\* there is no second one back() and pop_back() are called on an empty vector.
Refill ==
  /\ pc = "refill"
  /\ newbuffer_current' = EmptyBuffer
  /\ pc' = IF newbuffer_next = Null /\ Len(Kept) < 2 THEN "crashed" ELSE "while"
  /\ buffers' = <<>>
  /\ at' = 1
  /\ UNCHANGED <<main, running_, queueVars, newbuffer_next, now, logFileVars>>

-----------------------------------------------------------------------------

ThreadFunc == Start \/ While \/ Wait \/ Swap \/ Write \/ Roll \/ Refill \/ End

Main == StartAsyncLogging \/ LatchWaitReturns \/ Stop \/ JoinReturns

Clock == Tick /\ UNCHANGED <<main, running_, queueVars, pc, backendVars,
                             logFileVars>>

Next == Main \/ (\E len \in 1..Cap : AppendLine(len)) \/ ThreadFunc \/ Clock

\* The backend thread and the one that waits for it are scheduled.
Fairness == WF_vars(ThreadFunc) /\ WF_vars(LatchWaitReturns \/ JoinReturns)

Spec == Init /\ [][Next]_vars /\ Fairness

-----------------------------------------------------------------------------
(* Properties.                                                             *)

\* The lines that have been stored, in the order in which they get to the
\* file: those in it, then buffer after buffer.
LinesOf(list) == [i \in DOMAIN list |-> list[i].lines]

Chain == <<file>> \o LinesOf(SubSeq(buffers, at, Len(buffers)))
         \o LinesOf(buffers_to_write_) \o <<current_.lines>>

IsStored(n) == \E i \in DOMAIN Chain : \E j \in DOMAIN Chain[i] : Chain[i][j] = n

(* The file has the lines in the order of the calls of Append, and no line *)
(* twice, however the buffers change hands (asynclogging.cc:9-22, 38-54).  *)
LinesInOrder ==
  \A i, k \in DOMAIN Chain : \A a \in DOMAIN Chain[i], b \in DOMAIN Chain[k] :
    (i < k \/ (i = k /\ a < b)) => Chain[i][a] < Chain[k][b]

(* A rotation costs the one line that did not fit (asynclogging.cc:13), and*)
(* never two in a row: what becomes current_ is empty, so the next fits.   *)
LossesAreSingle ==
  \A n \in 1..(appended - 1) : IsStored(n) \/ IsStored(n + 1)

(* What a crash of the process loses of the lines that the backend has     *)
(* written (logfile.cc:18-38): none of a file that has been replaced, none *)
(* once the log was stopped, and none that is older by more than           *)
(* kFlushInterval than the last line written.  How long ago that was does  *)
(* not matter: when the traffic stops the tail stays where it is.          *)
UnflushedIsRecent ==
  \A i \in (flushed + 1)..Len(file) :
    /\ pc # "end"
    /\ i > opened
    /\ lastwrite_ - times[i] <= kFlushInterval

(* A line that was stored gets to the file although its buffer never fills,*)
(* unless the log is stopped before (asynclogging.cc:40-49), or its backend*)
(* crashes for want of a spare buffer (asynclogging.cc:70-73), as it does  *)
(* where TwoSpareBuffers fails.                                            *)
StoredLinesAreWritten ==
  \A n \in Line :
    IsStored(n) ~> ((\E i \in DOMAIN file : file[i] = n)
                    \/ main \in {"new", "joining", "joined"} \/ pc = "crashed")

(* Stop does not wait for ever in Join, whatever the backend was doing     *)
(* when running_ was cleared (asynclogging.h:45-49), unless the backend    *)
(* crashed as above, and the process with it.                              *)
StopReturns == main = "joining" ~> (main = "joined" \/ pc = "crashed")

(* README.md:42, the double buffering: whenever it takes the lock, the     *)
(* backend has two empty buffers to hand over.                             *)
TwoSpareBuffers ==
  pc \in {"lock", "wait"} => newbuffer_current # Null /\ newbuffer_next # Null

=============================================================================
