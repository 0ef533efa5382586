------------------------- MODULE AsyncLoggingProofs -------------------------
(***************************************************************************)
(* Proofs about AsyncLogging, for lines and buffers of any size, and about *)
(* the Logger and LogStream that use it, for statements of any kind.       *)
(*                                                                         *)
(* The lines on their way to the file form a Chain: the file, the buffers  *)
(* swapped out and not yet written, those queued, and current_.  Whatever  *)
(* a step does to the buffers, it does one of five things to the Chain     *)
(* (ChainSteps), and what becomes current_ is always empty (Spares).       *)
(*                                                                         *)
(* What a Logger writes is computed by recursive functions: they are shown *)
(* to exist, and what they give by induction, as the set of the numbers    *)
(* for which it holds (Induction).                                         *)
(***************************************************************************)
EXTENDS Logger, SequenceTheorems, WellFoundedInduction, TLAPS

-----------------------------------------------------------------------------
(* Types.                                                                  *)

(* The buffers that are kept ready are empty, the backend has one to hand  *)
(* over when it takes the lock, and nothing that it has swapped out is     *)
(* left when it goes to wait.                                              *)
Spares ==
  /\ next_ # Null => next_ = EmptyBuffer
  /\ newbuffer_current # Null => newbuffer_current = EmptyBuffer
  /\ newbuffer_next # Null => newbuffer_next = EmptyBuffer
  /\ pc \in {"while", "lock", "wait"} => newbuffer_current # Null
  /\ main = "new" => pc = "none"
  /\ pc \notin {"write", "refill"} => buffers = <<>>
  /\ pc = "refill" => at > Len(buffers)

Types == TypeOK /\ Spares

(* What current_ is replaced with is a buffer.                             *)
LEMMA EmptyIsBuffer == EmptyBuffer \in Buffer /\ EmptyBuffer # Null
<1>1. <<>> \in Seq(Line)
  OBVIOUS
<1>2. Cap \in 0..Cap
  BY AsyncLoggingAssumption
<1>3. EmptyBuffer \in Buffer
  BY <1>1, <1>2 DEF EmptyBuffer, Buffer
<1> QED
  BY <1>3, NullAssumption

(* The types hold at the start.                                            *)
LEMMA TypesInit == Init => Types
<1> SUFFICES ASSUME Init PROVE Types
  OBVIOUS
<1> USE AsyncLoggingAssumption, LogFileAssumption, EmptyIsBuffer
<1>0. /\ <<>> \in Seq(Line) /\ <<>> \in Seq(Buffer)
      /\ Len(<<>>) = 0
      /\ EmptyBuffer \in Buffer /\ EmptyBuffer \in BufferPtr
      /\ Null \in BufferPtr
  BY DEF BufferPtr
<1>1. TypeOK
  <2>1. /\ now \in StartTime..EndTime
        /\ file \in Seq(Line)
        /\ times \in Seq(StartTime..now) /\ Len(times) = Len(file)
        /\ opened \in 0..Len(file)
        /\ flushed \in 0..Len(file)
        /\ written_bytes_ \in Nat
        /\ lastwrite_ = 0 /\ lastflush_ = 0
    BY <1>0 DEF Init, LogFileInit
  <2>2. /\ appended \in 0..MaxLines
        /\ current_ \in Buffer /\ next_ \in BufferPtr
        /\ newbuffer_current \in BufferPtr /\ newbuffer_next \in BufferPtr
        /\ buffers_to_write_ \in Seq(Buffer) /\ buffers \in Seq(Buffer)
    BY <1>0 DEF Init
  <2>3. at \in 1..(Len(buffers) + 1)
    BY <1>0 DEF Init
  <2> QED
    BY <2>1, <2>2, <2>3 DEF Init, TypeOK
<1>2. Spares
  BY DEF Init, LogFileInit, Spares
<1> QED
  BY <1>1, <1>2 DEF Types

(* A sequence over a set is one over a larger set.                         *)
LEMMA SeqOfMore ==
  ASSUME NEW S, NEW T, S \subseteq T, NEW s \in Seq(S)
  PROVE  s \in Seq(T)
OBVIOUS

(* The lines of a Write get the time that it is.                           *)
LEMMA TimesOfWrite ==
  ASSUME NEW lines \in Seq(Line), NEW s \in Seq(StartTime..now),
         now \in StartTime..now
  PROVE  LET all == s \o [i \in DOMAIN lines |-> now]
         IN /\ all \in Seq(StartTime..now)
            /\ Len(all) = Len(s) + Len(lines)
            /\ \A i \in 1..Len(s) : all[i] = s[i]
            /\ \A i \in (Len(s) + 1)..Len(all) : all[i] = now
<1>1. Len(lines) \in Nat /\ DOMAIN lines = 1..Len(lines) /\ Len(s) \in Nat
  OBVIOUS
<1>2. PICK later : later = [i \in 1..Len(lines) |-> now]
  OBVIOUS
<1>3. /\ later \in Seq(StartTime..now) /\ Len(later) = Len(lines)
      /\ \A i \in 1..Len(lines) : later[i] = now
  BY <1>1, <1>2
<1>4. PICK all : all = s \o later
  OBVIOUS
<1>5. /\ all \in Seq(StartTime..now) /\ Len(all) = Len(s) + Len(lines)
      /\ \A i \in 1..(Len(s) + Len(lines)) :
           all[i] = IF i <= Len(s) THEN s[i] ELSE later[i - Len(s)]
  <2>1. /\ s \o later \in Seq(StartTime..now)
        /\ Len(s \o later) = Len(s) + Len(later)
        /\ \A i \in 1..(Len(s) + Len(later)) :
             (s \o later)[i] = IF i <= Len(s) THEN s[i] ELSE later[i - Len(s)]
    BY <1>3, ConcatProperties, Zenon
  <2> QED
    BY <1>3, <1>4, <2>1, Zenon
<1>6. ASSUME NEW i \in (Len(s) + 1)..Len(all) PROVE all[i] = now
  <2>1. i \in 1..(Len(s) + Len(lines)) /\ ~(i <= Len(s)) /\ i - Len(s) \in 1..Len(lines)
    BY <1>1, <1>5
  <2> QED
    BY <1>3, <1>5, <2>1
<1>7. \A i \in 1..Len(s) : all[i] = s[i]
  BY <1>1, <1>5
<1> QED
  BY <1>1, <1>2, <1>4, <1>5, <1>6, <1>7, Zenon

(* The steps keep them: what Refill gives back is empty, and Swap takes it.*)
LEMMA TypesNext == Types /\ [Next]_vars => Types'
<1> SUFFICES ASSUME Types, [Next]_vars PROVE Types'
  OBVIOUS
<1> USE AsyncLoggingAssumption, LogFileAssumption, EmptyIsBuffer
<1>1. ASSUME NEW len \in 1..Cap, AppendLine(len) PROVE Types'
  <2>1. CASE AppendFits(len)
    <3>1. current_.lines \in Seq(Line) /\ current_.room \in 0..Cap
      BY DEF Types, TypeOK, Buffer
    <3>2. appended + 1 \in Line /\ appended' \in 0..MaxLines
      BY <1>1 DEF Types, TypeOK, AppendLine, Line
    <3>3. Append(current_.lines, appended + 1) \in Seq(Line)
      BY <3>1, <3>2
    <3>4. current_.room - len \in 0..Cap
      BY <2>1, <3>1 DEF AppendFits, Fits
    <3>5. current_' \in Buffer
      BY <2>1, <3>3, <3>4 DEF AppendFits, Buffer
    <3>6. TypeOK'
      BY <1>1, <2>1, <3>2, <3>5 DEF Types, TypeOK, AppendLine, AppendFits,
         backendVars, logFileVars, lineVars
    <3>7. Spares'
      BY <1>1, <2>1 DEF Types, Spares, AppendLine, AppendFits, backendVars
    <3> QED
      BY <3>6, <3>7 DEF Types
  <2>2. CASE AppendRotates(len)
    <3>1. appended' \in 0..MaxLines
      BY <1>1 DEF Types, TypeOK, AppendLine
    <3>2. buffers_to_write_' \in Seq(Buffer)
      BY <2>2 DEF Types, TypeOK, AppendRotates
    <3>3. current_' \in Buffer /\ next_' \in BufferPtr
      BY <2>2 DEF Types, TypeOK, AppendRotates, BufferPtr
    <3>4. TypeOK'
      BY <1>1, <3>1, <3>2, <3>3 DEF Types, TypeOK, AppendLine, backendVars,
         logFileVars, lineVars
    <3>5. Spares'
      BY <1>1, <2>2 DEF Types, Spares, AppendLine, AppendRotates, backendVars
    <3> QED
      BY <3>4, <3>5 DEF Types
  <2> QED
    BY <1>1, <2>1, <2>2 DEF AppendLine
<1>2. ASSUME StartAsyncLogging \/ LatchWaitReturns \/ Stop \/ JoinReturns
      PROVE  Types'
  <2>1. TypeOK'
    BY <1>2 DEF Types, TypeOK, StartAsyncLogging, LatchWaitReturns, Stop,
       JoinReturns, queueVars, backendVars, logFileVars, lineVars
  <2>2. Spares'
    BY <1>2 DEF Types, Spares, StartAsyncLogging, LatchWaitReturns, Stop,
       JoinReturns, queueVars, backendVars
  <2> QED
    BY <2>1, <2>2 DEF Types
<1>3. ASSUME Start \/ While \/ Wait PROVE Types'
  <2>1. TypeOK'
    BY <1>3 DEF Types, TypeOK, Start, While, Wait, BufferPtr, queueVars,
       backendVars, logFileVars, lineVars
  <2>2. Spares'
    BY <1>3 DEF Types, Spares, Start, While, Wait, queueVars, backendVars
  <2> QED
    BY <2>1, <2>2 DEF Types
<1>4. ASSUME End PROVE Types'
  <2>1. flushed' \in 0..Len(file)
    BY <1>4 DEF Types, TypeOK, End, Close
  <2>2. TypeOK'
    BY <1>4, <2>1 DEF Types, TypeOK, End, Close, lineVars, queueVars, backendVars
  <2>3. Spares'
    BY <1>4 DEF Types, Spares, End, queueVars, backendVars
  <2> QED
    BY <2>2, <2>3 DEF Types
<1>5. ASSUME Swap PROVE Types'
  <2>1. newbuffer_current # Null
    BY <1>5 DEF Types, Spares, Swap
  <2>2. current_' \in Buffer
    BY <1>5, <2>1 DEF Types, TypeOK, Swap, BufferPtr
  <2>3. buffers' \in Seq(Buffer) /\ Len(buffers') >= 1 /\ at' = 1
    BY <1>5 DEF Types, TypeOK, Swap, SwappedOut
  <2>4. next_' \in BufferPtr /\ newbuffer_next' \in BufferPtr
    BY <1>5 DEF Types, TypeOK, Swap, BufferPtr
  <2>5. buffers_to_write_' \in Seq(Buffer)
    BY <1>5 DEF Swap
  <2>6. TypeOK'
    BY <1>5, <2>2, <2>3, <2>4, <2>5 DEF Types, TypeOK, Swap, BufferPtr,
       logFileVars, lineVars
  <2>7. Spares'
    BY <1>5 DEF Types, Spares, Swap
  <2> QED
    BY <2>6, <2>7 DEF Types
<1>6. ASSUME Write PROVE Types'
  <2>1. buffers[at] \in Buffer /\ at \in 1..Len(buffers) /\ at' = at + 1
    BY <1>6 DEF Types, TypeOK, Write
  <2>2. buffers[at].lines \in Seq(Line) /\ BytesOf(buffers[at]) \in 0..Cap
    BY <2>1 DEF Buffer, BytesOf
  <2>3. /\ file' \in Seq(Line)
        /\ Len(file') = Len(file) + Len(buffers[at].lines)
    BY <1>6, <2>2 DEF Types, TypeOK, Write, WriteLines
  <2>4. flushed' \in 0..Len(file')
    <3>1. flushed \in 0..Len(file) /\ Len(file) \in Nat
      BY DEF Types, TypeOK
    <3>2. Len(buffers[at].lines) \in Nat
      BY <2>2
    <3>3. \/ flushed' = Len(file) + Len(buffers[at].lines)
          \/ flushed' \in flushed..(Len(file) + Len(buffers[at].lines))
      BY <1>6 DEF Write, WriteLines
    <3> QED
      BY <2>3, <3>1, <3>2, <3>3
  <2>5. written_bytes_' \in Nat
    <3>1. written_bytes_' = written_bytes_ + BytesOf(buffers[at])
      BY <1>6 DEF Write, WriteLines
    <3>2. written_bytes_ \in Nat
      BY DEF Types, TypeOK
    <3> QED
      BY <2>2, <3>1, <3>2
  <2>6. now \in StartTime..now
    BY DEF Types, TypeOK
  <2>11. times' \in Seq(StartTime..now) /\ Len(times') = Len(file')
    <3>1. PICK lines \in Seq(Line) : lines = buffers[at].lines
      BY <2>2
    <3>4. times' = times \o [i \in DOMAIN lines |-> now]
      BY <1>6, <3>1 DEF Write, WriteLines
    <3>5. times \in Seq(StartTime..now) /\ Len(times) = Len(file)
      BY DEF Types, TypeOK
    <3>6. times' \in Seq(StartTime..now) /\ Len(times') = Len(times) + Len(lines)
      BY <2>6, <3>4, <3>5, TimesOfWrite, Zenon
    <3> QED
      BY <2>3, <3>1, <3>5, <3>6, Zenon
  <2>12. opened' \in 0..Len(file')
    <3>1. opened' = opened /\ opened \in 0..Len(file) /\ Len(file) \in Nat
      BY <1>6 DEF Types, TypeOK, Write, WriteLines
    <3>2. Len(buffers[at].lines) \in Nat
      BY <2>2
    <3> QED
      BY <2>3, <3>1, <3>2
  <2>7. lastwrite_' \in {0} \cup StartTime..now
    BY <1>6, <2>6 DEF Types, TypeOK, Write, WriteLines, WriteTime
  <2>8. lastflush_' \in {0} \cup StartTime..now
    BY <1>6, <2>6 DEF Types, TypeOK, Write, WriteLines
  <2>13. at' \in 1..(Len(buffers') + 1)
    <3>1. buffers' = buffers /\ Len(buffers) \in Nat
      BY <1>6 DEF Types, TypeOK, Write
    <3> QED
      BY <2>1, <3>1
  <2>14. /\ UNCHANGED <<now, main, running_, appended, current_, next_>>
         /\ UNCHANGED <<buffers_to_write_, pc, newbuffer_current,
                        newbuffer_next, buffers>>
    BY <1>6 DEF Write, queueVars
  <2>15. /\ now' \in StartTime..EndTime
         /\ times' \in Seq(StartTime..now')
         /\ lastwrite_' \in {0} \cup StartTime..now'
         /\ lastflush_' \in {0} \cup StartTime..now'
    BY <2>7, <2>8, <2>11, <2>14 DEF Types, TypeOK
  <2>9. TypeOK'
    BY <2>3, <2>4, <2>5, <2>11, <2>12, <2>13, <2>14, <2>15
       DEF Types, TypeOK
  <2>10. Spares'
    BY <1>6 DEF Types, Spares, Write, queueVars
  <2> QED
    BY <2>9, <2>10 DEF Types
<1>7. ASSUME Roll PROVE Types'
  <2>1. /\ file' \in Seq(Line)
        /\ times' \in Seq(StartTime..now) /\ Len(times') = Len(file')
        /\ opened' \in 0..Len(file')
        /\ flushed' \in 0..Len(file')
        /\ written_bytes_' \in Nat
        /\ lastwrite_' \in {0} \cup StartTime..now
        /\ lastflush_' \in {0} \cup StartTime..now
    <3>1. Len(file) \in 0..Len(file) /\ 0 \in Nat
      BY DEF Types, TypeOK
    <3>2. UNCHANGED <<file, times, now>>
      BY <1>7 DEF Roll, Reopen, NewFile, logFileVars, lineVars
    <3>3. \/ /\ opened' = Len(file) /\ flushed' = Len(file)
             /\ written_bytes_' = 0 /\ lastwrite_' = 0 /\ lastflush_' = 0
          \/ UNCHANGED <<opened, flushed, written_bytes_, lastwrite_, lastflush_>>
      BY <1>7 DEF Roll, Reopen, NewFile, logFileVars
    <3> QED
      BY <3>1, <3>2, <3>3 DEF Types, TypeOK
  <2>2. TypeOK'
    BY <1>7, <2>1 DEF Types, TypeOK, Roll, queueVars, backendVars
  <2>3. Spares'
    BY <1>7 DEF Types, TypeOK, Spares, Roll, queueVars, backendVars
  <2> QED
    BY <2>2, <2>3 DEF Types
<1>8. ASSUME Refill PROVE Types'
  <2>1. TypeOK'
    BY <1>8 DEF Types, TypeOK, Refill, BufferPtr, queueVars, logFileVars,
       lineVars
  <2>2. Spares'
    BY <1>8 DEF Types, Spares, Refill, queueVars
  <2> QED
    BY <2>1, <2>2 DEF Types
<1>9. ASSUME Clock PROVE Types'
  <2>1. now' \in StartTime..EndTime /\ StartTime..now \subseteq StartTime..now'
    BY <1>9 DEF Types, TypeOK, Clock, Tick
  <2>4. times' \in Seq(StartTime..now')
    <3>1. times' = times /\ times \in Seq(StartTime..now)
      BY <1>9 DEF Types, TypeOK, Clock, logFileVars, lineVars
    <3> QED
      BY <2>1, <3>1, SeqOfMore, Zenon
  <2>2. TypeOK'
    BY <1>9, <2>1, <2>4 DEF Types, TypeOK, Clock, queueVars, backendVars,
       logFileVars, lineVars
  <2>3. Spares'
    BY <1>9 DEF Types, Spares, Clock, queueVars, backendVars
  <2> QED
    BY <2>2, <2>3 DEF Types
<1>10. ASSUME UNCHANGED vars PROVE Types'
  BY <1>10 DEF Types, TypeOK, Spares, vars, queueVars, backendVars, logFileVars,
     lineVars
<1> QED
  BY <1>1, <1>2, <1>3, <1>4, <1>5, <1>6, <1>7, <1>8, <1>9, <1>10
     DEF Next, Main, ThreadFunc

(* The variables have their types, for buffers and files of any size.      *)
THEOREM TypeCorrect == Spec => []TypeOK
<1>1. Spec => []Types
  BY TypesInit, TypesNext, PTL DEF Spec
<1>2. Types => TypeOK
  BY DEF Types
<1> QED
  BY <1>1, <1>2, PTL

-----------------------------------------------------------------------------
(* The Chain, place by place.                                              *)

(* The buffers that are swapped out and not yet written.                   *)
Pending == SubSeq(buffers, at, Len(buffers))

(* The lines of a list of buffers have its length.                         *)
LEMMA LinesOfList ==
  ASSUME NEW list \in Seq(Buffer)
  PROVE  /\ LinesOf(list) \in Seq(Seq(Line))
         /\ Len(LinesOf(list)) = Len(list)
         /\ \A i \in 1..Len(list) : LinesOf(list)[i] = list[i].lines
<1>1. ASSUME NEW i \in 1..Len(list) PROVE list[i].lines \in Seq(Line)
  <2>1. list[i] \in Buffer
    OBVIOUS
  <2> QED
    BY <2>1 DEF Buffer
<1>2. DOMAIN list = 1..Len(list) /\ Len(list) \in Nat
  OBVIOUS
<1>3. LinesOf(list) \in [1..Len(list) -> Seq(Line)]
  BY <1>1, <1>2 DEF LinesOf
<1> QED
  BY <1>2, <1>3 DEF LinesOf

(* The buffers that are left are a list of buffers.                        *)
LEMMA PendingList ==
  ASSUME TypeOK
  PROVE  /\ Pending \in Seq(Buffer)
         /\ Len(Pending) = Len(buffers) - at + 1
         /\ \A i \in 1..Len(Pending) : Pending[i] = buffers[at + i - 1]
<1>1. /\ buffers \in Seq(Buffer) /\ Len(buffers) \in Nat
      /\ at \in 1..(Len(buffers) + 1)
  BY DEF TypeOK
<1>2. \A i \in at..Len(buffers) : buffers[i] \in Buffer
  BY <1>1
<1>3. CASE at <= Len(buffers)
  BY <1>1, <1>2, <1>3, SubSeqProperties DEF Pending
<1>4. CASE at = Len(buffers) + 1
  BY <1>1, <1>4, SubSeqProperties DEF Pending
<1> QED
  BY <1>1, <1>3, <1>4

(* What is at which place of the Chain.                                    *)
Places ==
  LET n == Len(Pending)
      m == Len(buffers_to_write_)
  IN /\ Chain \in Seq(Seq(Line))
     /\ n \in Nat /\ m \in Nat
     /\ n = Len(buffers) - at + 1
     /\ Len(Chain) = n + m + 2
     /\ Chain[1] = file
     /\ \A i \in 1..n : Chain[1 + i] = buffers[at + i - 1].lines
     /\ \A i \in 1..m : Chain[1 + n + i] = buffers_to_write_[i].lines
     /\ Chain[n + m + 2] = current_.lines

(* The Chain has the file, the buffers, and current_ in their places.      *)
LEMMA ChainPlaces == TypeOK => Places
<1> SUFFICES ASSUME TypeOK PROVE Places
  OBVIOUS
<1> DEFINE n == Len(Pending)
           m == Len(buffers_to_write_)
           P == LinesOf(Pending)
           W == LinesOf(buffers_to_write_)
<1>1. /\ P \in Seq(Seq(Line)) /\ Len(P) = n /\ n \in Nat
      /\ \A i \in 1..n : P[i] = Pending[i].lines
  BY PendingList, LinesOfList
<1>2. /\ W \in Seq(Seq(Line)) /\ Len(W) = m /\ m \in Nat
      /\ \A i \in 1..m : W[i] = buffers_to_write_[i].lines
  BY LinesOfList DEF TypeOK
<1>3. file \in Seq(Line) /\ current_.lines \in Seq(Line)
  BY DEF TypeOK, Buffer
<1>4. Chain = <<file>> \o P \o W \o <<current_.lines>>
  BY DEF Chain, Pending
<1> HIDE DEF n, m, P, W
<1>5. /\ <<file>> \in Seq(Seq(Line)) /\ Len(<<file>>) = 1 /\ <<file>>[1] = file
      /\ <<current_.lines>> \in Seq(Seq(Line)) /\ Len(<<current_.lines>>) = 1
      /\ <<current_.lines>>[1] = current_.lines
  BY <1>3
<1>6. /\ <<file>> \o P \in Seq(Seq(Line))
      /\ Len(<<file>> \o P) = 1 + n
      /\ (<<file>> \o P)[1] = file
      /\ \A i \in 1..n : (<<file>> \o P)[1 + i] = P[i]
  <2>1. PICK first \in Seq(Seq(Line)) :
          first = <<file>> /\ Len(first) = 1 /\ first[1] = file
    BY <1>5, Zenon
  <2>2. P \in Seq(Seq(Line)) /\ Len(P) = n /\ n \in Nat
    BY <1>1
  <2>3. /\ first \o P \in Seq(Seq(Line))
        /\ Len(first \o P) = 1 + n
        /\ \A i \in 1..(1 + n) :
             (first \o P)[i] = IF i <= 1 THEN first[i] ELSE P[i - 1]
    BY <2>1, <2>2, ConcatProperties
  <2>4. /\ 1 \in 1..(1 + n) /\ 1 <= 1
        /\ \A i \in 1..n : 1 + i \in 1..(1 + n) /\ ~(1 + i <= 1) /\ (1 + i) - 1 = i
    BY <2>2
  <2>5. (first \o P)[1] = file /\ \A i \in 1..n : (first \o P)[1 + i] = P[i]
    BY <2>1, <2>3, <2>4
  <2> QED
    BY <2>1, <2>3, <2>5
<1>7. /\ (<<file>> \o P) \o W \in Seq(Seq(Line))
      /\ Len((<<file>> \o P) \o W) = 1 + n + m
      /\ ((<<file>> \o P) \o W)[1] = file
      /\ \A i \in 1..n : ((<<file>> \o P) \o W)[1 + i] = P[i]
      /\ \A i \in 1..m : ((<<file>> \o P) \o W)[1 + n + i] = W[i]
  <2> DEFINE F == <<file>> \o P
  <2>1. F \in Seq(Seq(Line)) /\ Len(F) = 1 + n
    BY <1>6
  <2> HIDE DEF F
  <2>2. /\ F \o W \in Seq(Seq(Line))
        /\ Len(F \o W) = 1 + n + m
        /\ \A i \in 1..(1 + n) : (F \o W)[i] = F[i]
        /\ \A i \in 1..m : (F \o W)[1 + n + i] = W[i]
    <3>1. /\ F \o W \in Seq(Seq(Line))
          /\ Len(F \o W) = Len(F) + Len(W)
          /\ \A i \in 1..(Len(F) + Len(W)) :
               (F \o W)[i] = IF i <= Len(F) THEN F[i] ELSE W[i - Len(F)]
      BY <1>2, <2>1, ConcatProperties
    <3> QED
      BY <1>1, <1>2, <2>1, <3>1
  <2>3. 1 \in 1..(1 + n) /\ \A i \in 1..n : 1 + i \in 1..(1 + n)
    BY <1>1
  <2> QED
    BY <1>6, <2>2, <2>3 DEF F
<1>8. /\ Chain \in Seq(Seq(Line))
      /\ Len(Chain) = n + m + 2
      /\ Chain[1] = file
      /\ \A i \in 1..n : Chain[1 + i] = P[i]
      /\ \A i \in 1..m : Chain[1 + n + i] = W[i]
      /\ Chain[n + m + 2] = current_.lines
  <2> DEFINE G == <<file>> \o P \o W
  <2>1. /\ G \in Seq(Seq(Line)) /\ Len(G) = 1 + n + m
        /\ Chain = G \o <<current_.lines>>
    BY <1>4, <1>7
  <2> HIDE DEF G
  <2>2. /\ Chain \in Seq(Seq(Line))
        /\ Len(Chain) = n + m + 2
        /\ \A i \in 1..(1 + n + m) : Chain[i] = G[i]
        /\ Chain[1 + n + m + 1] = current_.lines
    <3> DEFINE T == <<current_.lines>>
    <3>1. /\ T \in Seq(Seq(Line)) /\ Len(T) = 1 /\ T[1] = current_.lines
          /\ Chain = G \o T
      BY <1>5, <2>1
    <3> HIDE DEF T
    <3>2. /\ G \o T \in Seq(Seq(Line))
          /\ Len(G \o T) = Len(G) + Len(T)
          /\ \A i \in 1..(Len(G) + Len(T)) :
               (G \o T)[i] = IF i <= Len(G) THEN G[i] ELSE T[i - Len(G)]
      BY <2>1, <3>1, ConcatProperties
    <3>3. \A i \in 1..(1 + n + m) : (G \o T)[i] = G[i]
      BY <1>1, <1>2, <2>1, <3>1, <3>2
    <3>4. (G \o T)[1 + n + m + 1] = T[1]
      <4>1. ASSUME NEW k \in Nat, k = 1 + n + m + 1
            PROVE  (G \o T)[k] = T[1]
        <5>1. /\ k \in 1..(Len(G) + Len(T))
              /\ ~(k <= Len(G))
              /\ k - Len(G) = 1
          BY <1>1, <1>2, <2>1, <3>1, <4>1
        <5>2. (G \o T)[k] = T[k - Len(G)]
          BY <3>2, <5>1
        <5> QED
          BY <5>1, <5>2
      <4>2. 1 + n + m + 1 \in Nat
        BY <1>1, <1>2
      <4> QED
        BY <4>1, <4>2
    <3>5. Len(G \o T) = n + m + 2
      BY <1>1, <1>2, <2>1, <3>1, <3>2
    <3> QED
      BY <3>1, <3>2, <3>3, <3>4, <3>5
  <2>3. /\ 1 \in 1..(1 + n + m)
        /\ \A i \in 1..n : 1 + i \in 1..(1 + n + m)
        /\ \A i \in 1..m : 1 + n + i \in 1..(1 + n + m)
        /\ 1 + n + m + 1 = n + m + 2
    BY <1>1, <1>2
  <2> QED
    BY <1>7, <2>2, <2>3 DEF G
<1>9. /\ n = Len(buffers) - at + 1
      /\ \A i \in 1..n : Pending[i] = buffers[at + i - 1]
  BY PendingList DEF n
<1> QED
  BY <1>1, <1>2, <1>8, <1>9 DEF n, m, Places

-----------------------------------------------------------------------------
(* What the steps do to the Chain.                                         *)

Same ==
  /\ Len(Chain') = Len(Chain)
  /\ \A i \in 1..Len(Chain) : Chain'[i] = Chain[i]

(* An empty buffer becomes the last.                                       *)
Opens ==
  /\ Len(Chain') = Len(Chain) + 1
  /\ \A i \in 1..Len(Chain) : Chain'[i] = Chain[i]
  /\ Chain'[Len(Chain) + 1] = <<>>

(* The next line goes to the end of the last.                              *)
Extends ==
  /\ Len(Chain') = Len(Chain)
  /\ \A i \in 1..(Len(Chain) - 1) : Chain'[i] = Chain[i]
  /\ Chain'[Len(Chain)] = Append(Chain[Len(Chain)], appended + 1)

(* The first buffer goes to the end of the file.                           *)
Merges ==
  /\ Len(Chain) >= 3
  /\ Len(Chain') = Len(Chain) - 1
  /\ Chain'[1] = Chain[1] \o Chain[2]
  /\ \A i \in 2..(Len(Chain) - 1) : Chain'[i] = Chain[i + 1]

ChainStep ==
  \/ Same /\ appended' = appended /\ current_' = current_
  \/ Opens /\ appended' = appended /\ current_' = EmptyBuffer
  \/ /\ Opens /\ appended' = appended + 1 /\ current_' = EmptyBuffer
     /\ current_.room # Cap
  \/ Extends /\ appended' = appended + 1
  \/ Merges /\ appended' = appended /\ current_' = current_

(* Two chains have the same file, the same n buffers after it, and the same*)
(* m after these.                                                          *)
AgreeOn(n, m, C, D) ==
  /\ D[1] = C[1]
  /\ \A i \in 1..n : D[1 + i] = C[1 + i]
  /\ \A i \in 1..m : D[1 + n + i] = C[1 + n + i]

(* They agree place by place.                                              *)
LEMMA Agree ==
  ASSUME NEW n \in Nat, NEW m \in Nat, NEW C, NEW D, AgreeOn(n, m, C, D)
  PROVE  \A i \in 1..(n + m + 1) : D[i] = C[i]
<1> USE DEF AgreeOn
<1> SUFFICES ASSUME NEW i \in 1..(n + m + 1) PROVE D[i] = C[i]
  OBVIOUS
<1>1. CASE i = 1
  BY <1>1
<1>2. CASE i \in 2..(n + 1)
  <2>1. PICK k \in 1..n : i = 1 + k
    <3>1. i - 1 \in 1..n /\ i = 1 + (i - 1)
      BY <1>2
    <3> QED
      BY <3>1
  <2> QED
    BY <2>1
<1>3. CASE i \in (n + 2)..(n + m + 1)
  <2>1. PICK k \in 1..m : i = 1 + n + k
    <3>1. i - 1 - n \in 1..m /\ i = 1 + n + (i - 1 - n)
      BY <1>3
    <3> QED
      BY <3>1
  <2> QED
    BY <2>1
<1> QED
  BY <1>1, <1>2, <1>3

(* A Chain whose lists of buffers are left alone changes at most at its    *)
(* two ends.                                                               *)
LEMMA BuffersStay ==
  ASSUME Places, Places', file' = file,
         UNCHANGED <<buffers, at, buffers_to_write_>>
  PROVE  /\ Len(Chain) \in Nat /\ Len(Chain) >= 2
         /\ Len(Chain') = Len(Chain)
         /\ \A i \in 1..(Len(Chain) - 1) : Chain'[i] = Chain[i]
         /\ Chain[Len(Chain)] = current_.lines
         /\ Chain'[Len(Chain)] = current_'.lines
<1>1. PICK n \in Nat, m \in Nat :
        /\ n = Len(Pending) /\ m = Len(buffers_to_write_)
        /\ n = Len(buffers) - at + 1
  BY DEF Places
<1>2. Len(Pending)' = n /\ Len(buffers_to_write_)' = m
  BY <1>1 DEF Pending
<1>3. /\ Len(Chain) = n + m + 2
      /\ Chain[1] = file
      /\ \A i \in 1..n : Chain[1 + i] = buffers[at + i - 1].lines
      /\ \A i \in 1..m : Chain[1 + n + i] = buffers_to_write_[i].lines
      /\ Chain[n + m + 2] = current_.lines
  BY <1>1 DEF Places
<1>4. /\ Len(Chain') = n + m + 2
      /\ Chain'[1] = file
      /\ \A i \in 1..n : Chain'[1 + i] = buffers[at + i - 1].lines
      /\ \A i \in 1..m : Chain'[1 + n + i] = buffers_to_write_[i].lines
      /\ Chain'[n + m + 2] = current_'.lines
  BY <1>2 DEF Places
<1>5. \A i \in 1..(n + m + 1) : Chain'[i] = Chain[i]
  <2>1. AgreeOn(n, m, Chain, Chain')
    BY <1>3, <1>4 DEF AgreeOn
  <2> QED
    BY <2>1, Agree
<1>6. n + m + 2 \in Nat /\ n + m + 2 >= 2 /\ (n + m + 2) - 1 = n + m + 1
  OBVIOUS
<1> QED
  BY <1>3, <1>4, <1>5, <1>6

(* What Append does.                                                       *)
LEMMA AppendAdds ==
  ASSUME NEW s \in Seq(Buffer), NEW b \in Buffer
  PROVE  /\ Append(s, b) \in Seq(Buffer)
         /\ Len(Append(s, b)) = Len(s) + 1
         /\ \A i \in 1..Len(s) : Append(s, b)[i] = s[i]
         /\ Append(s, b)[Len(s) + 1] = b
OBVIOUS

(* A step does one of five things to the Chain, and whatever becomes       *)
(* current_ is empty.                                                      *)
LEMMA ChainSteps ==
  ASSUME Types, Types', Places, Places', [Next]_vars
  PROVE  ChainStep
<1>1. ASSUME NEW len \in 1..Cap, AppendLine(len), AppendFits(len)
      PROVE  ChainStep
  <2>1. /\ UNCHANGED <<file, buffers, at, buffers_to_write_>>
        /\ appended' = appended + 1
        /\ current_'.lines = Append(current_.lines, appended + 1)
    BY <1>1 DEF AppendLine, AppendFits, backendVars, logFileVars, lineVars
  <2>2. Extends
    BY <2>1, BuffersStay DEF Extends
  <2> QED
    BY <2>1, <2>2 DEF ChainStep
<1>2. ASSUME NEW len \in 1..Cap, AppendLine(len), AppendRotates(len)
      PROVE  ChainStep
  <2>1. /\ UNCHANGED <<file, buffers, at>>
        /\ buffers_to_write_' = Append(buffers_to_write_, current_)
        /\ appended' = appended + 1
        /\ current_.room # Cap
    BY <1>2 DEF AppendLine, AppendRotates, Fits, backendVars, logFileVars, lineVars,
       Types, TypeOK, Buffer
  <2>2. current_' = EmptyBuffer
    BY <1>2 DEF AppendRotates, Types, Spares
  <2>3. PICK n \in Nat, m \in Nat :
          /\ n = Len(Pending) /\ m = Len(buffers_to_write_)
          /\ n = Len(buffers) - at + 1
    BY DEF Places
  <2>4. Len(Pending)' = n /\ Len(buffers_to_write_)' = m + 1
    <3>1. buffers_to_write_ \in Seq(Buffer) /\ current_ \in Buffer
      BY DEF Types, TypeOK
    <3>2. Len(buffers_to_write_') = m + 1
      BY <2>1, <2>3, <3>1, AppendAdds
    <3>3. Pending' = Pending
      BY <2>1 DEF Pending
    <3> QED
      BY <2>3, <3>2, <3>3
  <2>5. /\ Len(Chain) = n + m + 2
        /\ Chain[1] = file
        /\ \A i \in 1..n : Chain[1 + i] = buffers[at + i - 1].lines
        /\ \A i \in 1..m : Chain[1 + n + i] = buffers_to_write_[i].lines
        /\ Chain[n + m + 2] = current_.lines
    BY <2>3 DEF Places
  <2>6. /\ Len(Chain') = n + (m + 1) + 2
        /\ Chain'[1] = file
        /\ \A i \in 1..n : Chain'[1 + i] = buffers[at + i - 1].lines
        /\ \A i \in 1..(m + 1) :
             Chain'[1 + n + i] = buffers_to_write_'[i].lines
        /\ Chain'[n + (m + 1) + 2] = <<>>
    BY <2>1, <2>2, <2>4 DEF Places, EmptyBuffer
  <2>7. /\ \A i \in 1..m : buffers_to_write_'[i] = buffers_to_write_[i]
        /\ buffers_to_write_'[m + 1] = current_
        /\ m + 1 \in 1..(m + 1) /\ \A i \in 1..m : i \in 1..(m + 1)
    <3>1. buffers_to_write_ \in Seq(Buffer) /\ current_ \in Buffer
      BY DEF Types, TypeOK
    <3>2. /\ \A i \in 1..m : buffers_to_write_'[i] = buffers_to_write_[i]
          /\ buffers_to_write_'[m + 1] = current_
      BY <2>1, <2>3, <3>1, AppendAdds
    <3>3. m + 1 \in 1..(m + 1) /\ \A i \in 1..m : i \in 1..(m + 1)
      OBVIOUS
    <3> QED
      BY <3>2, <3>3
  <2>8. \A i \in 1..(n + m + 1) : Chain'[i] = Chain[i]
    <3>1. \A i \in 1..m : Chain'[1 + n + i] = Chain[1 + n + i]
      BY <2>5, <2>6, <2>7
    <3>2. AgreeOn(n, m, Chain, Chain')
      BY <2>5, <2>6, <3>1 DEF AgreeOn
    <3> QED
      BY <3>2, Agree
  <2>9. Chain'[1 + n + (m + 1)] = Chain[n + m + 2]
    BY <2>5, <2>6, <2>7
  <2>10. /\ 1 + n + (m + 1) = n + m + 2
         /\ n + (m + 1) + 2 = n + m + 3
         /\ \A i \in 1..(n + m + 2) : i \in 1..(n + m + 1) \/ i = n + m + 2
    OBVIOUS
  <2>11. Opens
    BY <2>5, <2>6, <2>8, <2>9, <2>10 DEF Opens
  <2> QED
    BY <2>1, <2>2, <2>11 DEF ChainStep
<1>3. ASSUME \/ Main \/ Start \/ While \/ Wait \/ End \/ Clock
             \/ UNCHANGED vars
      PROVE  ChainStep
  <2>1. UNCHANGED <<file, buffers, at, buffers_to_write_, current_, appended>>
    BY <1>3 DEF Main, StartAsyncLogging, LatchWaitReturns, Stop, JoinReturns,
       Start, While, Wait, End, Close, Clock, vars, queueVars, backendVars,
       logFileVars, lineVars
  <2>2. Same
    BY <2>1 DEF Same, Chain, LinesOf
  <2> QED
    BY <2>1, <2>2 DEF ChainStep
<1>4. ASSUME Swap PROVE ChainStep
  <2>1. /\ UNCHANGED <<file, appended>>
        /\ buffers' = Append(buffers_to_write_, current_) /\ at' = 1
        /\ buffers_to_write_' = <<>>
        /\ buffers = <<>> /\ at = 1
    BY <1>4 DEF Swap, SwappedOut, logFileVars, lineVars, Types, TypeOK, Spares
  <2>2. current_' = EmptyBuffer
    BY <1>4 DEF Swap, Types, Spares
  <2>3. PICK m \in Nat : m = Len(buffers_to_write_) /\ Len(Pending) = 0
    <3>1. /\ Len(buffers_to_write_) \in Nat
          /\ Len(Pending) = Len(buffers) - at + 1
      BY DEF Places
    <3>2. Len(<<>>) - 1 + 1 = 0
      OBVIOUS
    <3>3. Len(Pending) = 0
      BY <2>1, <3>1, <3>2
    <3> QED
      BY <3>1, <3>3
  <2>4. Len(Pending)' = m + 1 /\ Len(buffers_to_write_)' = 0
    <3>1. Len(Pending)' = Len(buffers') - at' + 1
      BY DEF Places
    <3>2. Len(buffers') = m + 1
      <4>1. buffers_to_write_ \in Seq(Buffer) /\ current_ \in Buffer
        BY DEF Types, TypeOK
      <4> QED
        BY <2>1, <2>3, <4>1, AppendAdds
    <3>3. (m + 1) - 1 + 1 = m + 1 /\ Len(<<>>) = 0
      OBVIOUS
    <3>4. Len(buffers_to_write_') = 0
      BY <2>1, <3>3
    <3> QED
      BY <2>1, <3>1, <3>2, <3>3, <3>4
  <2>5. /\ Len(Chain) = m + 2
        /\ Chain[1] = file
        /\ \A i \in 1..m : Chain[1 + i] = buffers_to_write_[i].lines
        /\ Chain[m + 2] = current_.lines
    <3>1. PICK l \in Nat : l = 0
      OBVIOUS
    <3>2. Len(Pending) = l
      BY <2>3, <3>1
    <3>3. /\ Len(Chain) = l + m + 2
          /\ Chain[1] = file
          /\ \A i \in 1..m : Chain[1 + l + i] = buffers_to_write_[i].lines
          /\ Chain[l + m + 2] = current_.lines
      BY <2>3, <3>2 DEF Places
    <3> QED
      BY <3>1, <3>3
  <2>6. /\ Len(Chain') = m + 3
        /\ Chain'[1] = file
        /\ \A i \in 1..(m + 1) : Chain'[1 + i] = buffers'[1 + i - 1].lines
        /\ Chain'[m + 3] = <<>>
    <3>1. /\ Len(Chain') = (m + 1) + 0 + 2
          /\ Chain'[1] = file
          /\ \A i \in 1..(m + 1) : Chain'[1 + i] = buffers'[1 + i - 1].lines
          /\ Chain'[(m + 1) + 0 + 2] = <<>>
      <4>1. current_'.lines = <<>>
        BY <2>2 DEF EmptyBuffer
      <4>2. PICK k \in Nat, l \in Nat : k = m + 1 /\ l = 0
        OBVIOUS
      <4>3. Len(Pending)' = k /\ Len(buffers_to_write_)' = l
        BY <2>4, <4>2
      <4>4. /\ Len(Chain') = k + l + 2
            /\ Chain'[1] = file'
            /\ \A i \in 1..k : Chain'[1 + i] = buffers'[at' + i - 1].lines
            /\ Chain'[k + l + 2] = <<>>
        BY <4>1, <4>3 DEF Places
      <4> QED
        BY <2>1, <4>2, <4>4
    <3>2. (m + 1) + 0 + 2 = m + 3
      OBVIOUS
    <3> QED
      BY <3>1, <3>2
  <2>7. /\ \A i \in 1..m : buffers'[1 + i - 1] = buffers_to_write_[i]
        /\ buffers'[1 + (m + 1) - 1] = current_
        /\ m + 1 \in 1..(m + 1) /\ \A i \in 1..m : i \in 1..(m + 1)
    <3>1. buffers_to_write_ \in Seq(Buffer) /\ current_ \in Buffer
      BY DEF Types, TypeOK
    <3>2. /\ \A i \in 1..m : buffers'[i] = buffers_to_write_[i]
          /\ buffers'[m + 1] = current_
      BY <2>1, <2>3, <3>1, AppendAdds
    <3>3. /\ \A i \in 1..m : 1 + i - 1 = i
          /\ 1 + (m + 1) - 1 = m + 1
          /\ m + 1 \in 1..(m + 1) /\ \A i \in 1..m : i \in 1..(m + 1)
      OBVIOUS
    <3> QED
      BY <3>2, <3>3
  <2>8. \A i \in 1..(m + 0 + 1) : Chain'[i] = Chain[i]
    <3>1. \A i \in 1..m : Chain'[1 + i] = Chain[1 + i]
      BY <2>5, <2>6, <2>7
    <3>2. 0 \in Nat /\ \A i \in 1..0 : FALSE
      OBVIOUS
    <3>3. AgreeOn(m, 0, Chain, Chain')
      BY <2>5, <2>6, <3>1, <3>2 DEF AgreeOn
    <3> QED
      BY <3>2, <3>3, Agree
  <2>9. Chain'[1 + (m + 1)] = Chain[m + 2]
    BY <2>5, <2>6, <2>7
  <2>10. /\ 1 + (m + 1) = m + 2
         /\ \A i \in 1..(m + 2) : i \in 1..(m + 0 + 1) \/ i = m + 2
    OBVIOUS
  <2>11. Opens
    BY <2>5, <2>6, <2>8, <2>9, <2>10 DEF Opens
  <2> QED
    BY <2>1, <2>2, <2>11 DEF ChainStep
<1>5. ASSUME Write PROVE ChainStep
  <2>1. /\ UNCHANGED <<buffers, appended, buffers_to_write_, current_>>
        /\ at <= Len(buffers) /\ at' = at + 1
        /\ file' = file \o buffers[at].lines
    BY <1>5 DEF Write, WriteLines, queueVars
  <2>2. PICK n \in Nat, m \in Nat :
          /\ n + 1 = Len(Pending) /\ m = Len(buffers_to_write_)
          /\ n + 1 = Len(buffers) - at + 1
    <3>1. /\ Len(Pending) = Len(buffers) - at + 1
          /\ Len(buffers_to_write_) \in Nat
      BY DEF Places
    <3>2. Len(buffers) - at \in Nat
      BY <2>1 DEF Types, TypeOK
    <3> QED
      BY <3>1, <3>2
  <2>3. Len(Pending)' = n /\ Len(buffers_to_write_)' = m
    <3>1. Len(Pending)' = Len(buffers) - (at + 1) + 1
      BY <2>1 DEF Places
    <3>2. Len(buffers) \in Int /\ at \in Int
      BY DEF Types, TypeOK
    <3>3. Len(buffers) - (at + 1) + 1 = n
      BY <2>2, <3>2
    <3> QED
      BY <2>1, <2>2, <3>1, <3>3
  <2>4. /\ Len(Chain) = (n + 1) + m + 2
        /\ Chain[1] = file
        /\ \A i \in 1..(n + 1) : Chain[1 + i] = buffers[at + i - 1].lines
        /\ \A i \in 1..m : Chain[1 + (n + 1) + i] = buffers_to_write_[i].lines
        /\ Chain[(n + 1) + m + 2] = current_.lines
    BY <2>2 DEF Places
  <2>5. /\ Len(Chain') = n + m + 2
        /\ Chain'[1] = file \o buffers[at].lines
        /\ \A i \in 1..n : Chain'[1 + i] = buffers[(at + 1) + i - 1].lines
        /\ \A i \in 1..m : Chain'[1 + n + i] = buffers_to_write_[i].lines
        /\ Chain'[n + m + 2] = current_.lines
    BY <2>1, <2>3 DEF Places
  <2>6. Chain[2] = buffers[at].lines
    <3>1. at \in Int /\ at + 1 - 1 = at /\ 1 \in 1..(n + 1) /\ 1 + 1 = 2
      BY DEF Types, TypeOK
    <3>2. Chain[1 + 1] = buffers[at + 1 - 1].lines
      BY <2>4, <3>1
    <3> QED
      BY <3>1, <3>2
  <2>7. ASSUME NEW i \in 2..(n + m + 2) PROVE Chain'[i] = Chain[i + 1]
    <3>1. CASE i <= n + 1
      <4>1. PICK k \in 1..n : i = 1 + k
        <5>1. i - 1 \in 1..n /\ i = 1 + (i - 1)
          BY <3>1
        <5> QED
          BY <5>1
      <4>2. /\ k + 1 \in 1..(n + 1) /\ at + (k + 1) - 1 = (at + 1) + k - 1
            /\ 1 + (k + 1) = i + 1
        BY <4>1 DEF Types, TypeOK
      <4>3. Chain[1 + (k + 1)] = buffers[at + (k + 1) - 1].lines
        BY <2>4, <4>2
      <4>4. Chain'[i] = buffers[(at + 1) + k - 1].lines
        BY <2>5, <4>1
      <4> QED
        BY <4>2, <4>3, <4>4
    <3>2. CASE i \in (n + 2)..(n + m + 1)
      <4>1. PICK k \in 1..m : i = 1 + n + k
        <5>1. i - 1 - n \in 1..m /\ i = 1 + n + (i - 1 - n)
          BY <3>2
        <5> QED
          BY <5>1
      <4>2. 1 + (n + 1) + k = i + 1
        BY <4>1
      <4>3. Chain[1 + (n + 1) + k] = buffers_to_write_[k].lines
        BY <2>4
      <4>4. Chain'[i] = buffers_to_write_[k].lines
        BY <2>5, <4>1
      <4> QED
        BY <4>2, <4>3, <4>4
    <3>3. CASE i = n + m + 2
      <4>1. (n + 1) + m + 2 = i + 1
        BY <3>3
      <4> QED
        BY <2>4, <2>5, <3>3, <4>1
    <3>4. i <= n + 1 \/ i \in (n + 2)..(n + m + 1) \/ i = n + m + 2
      OBVIOUS
    <3> QED
      BY <3>1, <3>2, <3>3, <3>4
  <2>8. /\ (n + 1) + m + 2 >= 3
        /\ (n + 1) + m + 2 - 1 = n + m + 2
    OBVIOUS
  <2>9. Merges
    BY <2>4, <2>5, <2>6, <2>7, <2>8 DEF Merges
  <2> QED
    BY <2>1, <2>9 DEF ChainStep
<1>6. ASSUME Roll PROVE ChainStep
  <2>1. UNCHANGED <<file, buffers, at, buffers_to_write_, current_, appended>>
    BY <1>6 DEF Roll, Reopen, NewFile, queueVars, backendVars, logFileVars,
       lineVars
  <2>2. Same
    BY <2>1 DEF Same, Chain, LinesOf
  <2> QED
    BY <2>1, <2>2 DEF ChainStep
<1>7. ASSUME Refill PROVE ChainStep
  <2>1. /\ UNCHANGED <<file, buffers_to_write_, current_, appended>>
        /\ at = Len(buffers) + 1 /\ buffers' = <<>> /\ at' = 1
    BY <1>7 DEF Refill, queueVars, logFileVars, lineVars, Types, TypeOK, Spares
  <2>2. Pending' = <<>> /\ Pending = <<>>
    <3>1. Len(Pending) = 0 /\ Pending \in Seq(Buffer)
      BY <2>1, PendingList DEF Types, TypeOK
    <3>2. Len(Pending') = 0 /\ Pending' \in Seq(Buffer)
      <4>1. Pending' = SubSeq(<<>>, 1, 0)
        BY <2>1 DEF Pending
      <4> QED
        BY <4>1
    <3> QED
      BY <3>1, <3>2, EmptySeq
  <2>3. Chain' = Chain
    <3>1. /\ Chain = <<file>> \o LinesOf(Pending) \o LinesOf(buffers_to_write_)
                     \o <<current_.lines>>
          /\ Chain' = <<file>> \o LinesOf(Pending') \o LinesOf(buffers_to_write_)
                     \o <<current_.lines>>
      BY <2>1 DEF Chain, Pending, LinesOf
    <3> QED
      BY <2>2, <3>1
  <2>4. Same
    BY <2>3 DEF Same
  <2> QED
    BY <2>1, <2>4 DEF ChainStep
<1> QED
  BY <1>1, <1>2, <1>3, <1>4, <1>5, <1>6, <1>7
     DEF Next, ThreadFunc, AppendLine

-----------------------------------------------------------------------------
(* The lines are in order.                                                 *)

(* Only lines that have been given to Append are on their way.             *)
Numbered ==
  \A i \in DOMAIN Chain : \A a \in DOMAIN Chain[i] :
    Chain[i][a] \in 1..appended

Order == LinesInOrder /\ Numbered

(* A Chain is a sequence of sequences of lines.                            *)
Shape ==
  /\ Len(Chain) \in Nat /\ Len(Chain) >= 2
  /\ DOMAIN Chain = 1..Len(Chain)
  /\ \A i \in 1..Len(Chain) : /\ Chain[i] \in Seq(Line)
                              /\ Len(Chain[i]) \in Nat
                              /\ DOMAIN Chain[i] = 1..Len(Chain[i])

(* That is its shape.                                                      *)
LEMMA ChainShape == Places => Shape
<1> SUFFICES ASSUME Places PROVE Shape
  OBVIOUS
<1>1. Chain \in Seq(Seq(Line)) /\ \E n, m \in Nat : Len(Chain) = n + m + 2
  BY DEF Places
<1>2. /\ Len(Chain) \in Nat /\ Len(Chain) >= 2
      /\ DOMAIN Chain = 1..Len(Chain)
      /\ \A i \in 1..Len(Chain) : Chain[i] \in Seq(Line)
  BY <1>1
<1> QED
  BY <1>2 DEF Shape

(* An unchanged Chain stays in order.                                      *)
LEMMA OrderSame ==
  ASSUME Shape, Shape', Order, Same, appended' = appended
  PROVE  Order'
<1>1. /\ DOMAIN Chain' = DOMAIN Chain
      /\ \A i \in DOMAIN Chain : Chain'[i] = Chain[i]
  BY DEF Same, Shape
<1> QED
  BY <1>1 DEF Order, LinesInOrder, Numbered

(* An empty buffer does not disturb the order.                             *)
LEMMA OrderOpens ==
  ASSUME Shape, Shape', Order, Opens, appended \in Nat,
         appended' \in {appended, appended + 1}
  PROVE  Order'
<1>1. ASSUME NEW i \in DOMAIN Chain', NEW a \in DOMAIN Chain'[i]
      PROVE  i \in DOMAIN Chain /\ a \in DOMAIN Chain[i] /\ Chain'[i] = Chain[i]
  <2>1. i # Len(Chain) + 1
    BY <1>1 DEF Opens
  <2>2. i \in 1..Len(Chain)
    BY <1>1, <2>1 DEF Opens, Shape
  <2> QED
    BY <1>1, <2>2 DEF Opens, Shape
<1>2. LinesInOrder'
  BY <1>1 DEF Order, LinesInOrder
<1>3. Numbered'
  <2>1. 1..appended \subseteq 1..appended'
    OBVIOUS
  <2> QED
    BY <1>1, <2>1 DEF Order, Numbered
<1> QED
  BY <1>2, <1>3 DEF Order

(* The next line is greater than all of them.                              *)
LEMMA OrderExtends ==
  ASSUME Shape, Shape', Order, Extends, appended \in Nat,
         appended' = appended + 1
  PROVE  Order'
<1> DEFINE l == Len(Chain)
           e == Len(Chain[l]) + 1
<1>1. /\ l \in Nat /\ l >= 2 /\ Len(Chain[l]) \in Nat /\ e \in Nat
      /\ Len(Chain') = l /\ DOMAIN Chain' = DOMAIN Chain
      /\ l \in DOMAIN Chain /\ DOMAIN Chain = 1..l
      /\ DOMAIN Chain[l] = 1..Len(Chain[l])
  BY DEF Shape, Extends
<1>2. /\ Chain'[l][e] = appended + 1
      /\ DOMAIN Chain'[l] = 1..e
      /\ \A a \in 1..Len(Chain[l]) : Chain'[l][a] = Chain[l][a]
  <2>1. Chain[l] \in Seq(Line) /\ Chain'[l] = Append(Chain[l], appended + 1)
    BY <1>1 DEF Shape, Extends
  <2> QED
    BY <1>1, <2>1
<1> HIDE DEF l, e
<1>3. ASSUME NEW i \in DOMAIN Chain, NEW a \in DOMAIN Chain'[i]
      PROVE  \/ /\ a \in DOMAIN Chain[i] /\ Chain'[i][a] = Chain[i][a]
                /\ Chain'[i][a] \in 1..appended
                /\ ~(i = l /\ a = e)
             \/ i = l /\ a = e /\ Chain'[i][a] = appended + 1
  <2>1. CASE i # l
    <3>1. i \in 1..(l - 1)
      BY <1>1, <2>1
    <3>2. Chain'[i] = Chain[i]
      BY <3>1 DEF Extends, l
    <3> QED
      BY <1>3, <2>1, <3>2 DEF Order, Numbered
  <2>2. CASE i = l
    <3>1. CASE a = e
      BY <1>2, <2>2, <3>1
    <3>2. CASE a # e
      <4>1. a \in 1..Len(Chain[l])
        BY <1>1, <1>2, <1>3, <2>2, <3>2 DEF e
      <4> QED
        BY <1>1, <1>2, <2>2, <3>2, <4>1 DEF Order, Numbered
    <3> QED
      BY <3>1, <3>2
  <2> QED
    BY <2>1, <2>2
<1>4. ASSUME NEW i \in DOMAIN Chain', NEW k \in DOMAIN Chain',
             NEW a \in DOMAIN Chain'[i], NEW b \in DOMAIN Chain'[k],
             i < k \/ (i = k /\ a < b)
      PROVE  Chain'[i][a] < Chain'[k][b]
  <2>1. i \in 1..l /\ k \in 1..l
    BY <1>1
  <2>2. CASE i = l /\ a = e
    <3>1. k = l /\ b \in 1..e /\ a < b
      BY <1>1, <1>2, <1>4, <2>1, <2>2
    <3> QED
      BY <1>1, <2>2, <3>1
  <2>3. CASE ~(i = l /\ a = e)
    <3>1. /\ a \in DOMAIN Chain[i] /\ Chain'[i][a] = Chain[i][a]
          /\ Chain'[i][a] \in 1..appended
      BY <1>1, <1>3, <2>3
    <3>2. CASE k = l /\ b = e
      <4>1. Chain'[k][b] = appended + 1
        BY <1>2, <3>2
      <4> QED
        BY <3>1, <4>1
    <3>3. CASE ~(k = l /\ b = e)
      <4>1. b \in DOMAIN Chain[k] /\ Chain'[k][b] = Chain[k][b]
        BY <1>1, <1>3, <3>3
      <4> QED
        BY <1>1, <1>4, <3>1, <4>1 DEF Order, LinesInOrder
    <3> QED
      BY <3>2, <3>3
  <2> QED
    BY <2>2, <2>3
<1>5. LinesInOrder'
  BY <1>4 DEF LinesInOrder
<1>6. Numbered'
  <2>1. ASSUME NEW i \in DOMAIN Chain', NEW a \in DOMAIN Chain'[i]
        PROVE  Chain'[i][a] \in 1..appended'
    <3>1. Chain'[i][a] \in 1..appended \/ Chain'[i][a] = appended + 1
      BY <1>1, <1>3, <2>1
    <3> QED
      BY <3>1
  <2> QED
    BY <2>1 DEF Numbered
<1> QED
  BY <1>5, <1>6 DEF Order

(* A line of the merged Chain comes from one place of the old one, and     *)
(* places that come one after the other come from such places.             *)
LEMMA OrderMerges ==
  ASSUME Shape, Shape', Order, Merges, appended' = appended
  PROVE  Order'
<1> DEFINE l == Len(Chain)
           f == Len(Chain[1])
           g == Len(Chain[2])
<1>1. /\ l \in Nat /\ l >= 3 /\ f \in Nat /\ g \in Nat
      /\ DOMAIN Chain = 1..l /\ DOMAIN Chain' = 1..(l - 1)
      /\ DOMAIN Chain[1] = 1..f /\ DOMAIN Chain[2] = 1..g
      /\ 1 \in DOMAIN Chain /\ 2 \in DOMAIN Chain
  BY DEF Shape, Merges
<1>2. /\ DOMAIN Chain'[1] = 1..(f + g)
      /\ \A a \in 1..(f + g) :
           Chain'[1][a] = IF a <= f THEN Chain[1][a] ELSE Chain[2][a - f]
  <2>1. Chain[1] \in Seq(Line) /\ Chain[2] \in Seq(Line)
    BY <1>1 DEF Shape
  <2>2. Chain'[1] = Chain[1] \o Chain[2]
    BY DEF Merges
  <2> QED
    BY <1>1, <2>1, <2>2
<1>3. \A i \in 2..(l - 1) : i + 1 \in DOMAIN Chain /\ Chain'[i] = Chain[i + 1]
  BY <1>1 DEF Merges
<1> HIDE DEF l, f, g
<1> DEFINE From(i, a) == IF i = 1 THEN IF a <= f THEN <<1, a>> ELSE <<2, a - f>>
                         ELSE <<i + 1, a>>
<1>4. ASSUME NEW i \in DOMAIN Chain', NEW a \in DOMAIN Chain'[i]
      PROVE  /\ From(i, a)[1] \in DOMAIN Chain
             /\ From(i, a)[2] \in DOMAIN Chain[From(i, a)[1]]
             /\ Chain'[i][a] = Chain[From(i, a)[1]][From(i, a)[2]]
  <2>1. CASE i = 1 /\ a <= f
    <3>1. a \in 1..f /\ Chain'[1][a] = Chain[1][a] /\ From(i, a) = <<1, a>>
      <4>1. a \in DOMAIN Chain'[1]
        BY <1>4, <2>1
      <4>2. a \in 1..f /\ Chain'[1][a] = Chain[1][a]
        BY <1>1, <1>2, <2>1, <4>1
      <4> QED
        BY <2>1, <4>2
    <3> HIDE DEF From
    <3>2. From(i, a)[1] = 1 /\ From(i, a)[2] = a
      BY <3>1
    <3>3. Chain'[i][a] = Chain[1][a] /\ a \in DOMAIN Chain[1]
      BY <1>1, <2>1, <3>1
    <3> QED
      BY <1>1, <3>2, <3>3
  <2>2. CASE i = 1 /\ ~(a <= f)
    <3>1. a - f \in 1..g /\ Chain'[1][a] = Chain[2][a - f]
      <4>1. a \in DOMAIN Chain'[1]
        BY <1>4, <2>2
      <4> QED
        BY <1>1, <1>2, <2>2, <4>1
    <3>2. From(i, a) = <<2, a - f>>
      BY <2>2
    <3> HIDE DEF From
    <3>3. From(i, a)[1] = 2 /\ From(i, a)[2] = a - f
      BY <3>2
    <3>4. Chain'[i][a] = Chain[2][a - f] /\ a - f \in DOMAIN Chain[2]
      BY <1>1, <2>2, <3>1
    <3> QED
      BY <1>1, <3>3, <3>4
  <2>3. CASE i # 1
    <3>1. i \in 2..(l - 1)
      BY <1>1, <2>3
    <3>2. i + 1 \in DOMAIN Chain /\ Chain'[i] = Chain[i + 1]
      BY <1>3, <3>1
    <3> QED
      BY <1>4, <2>3, <3>2
  <2> QED
    BY <2>1, <2>2, <2>3
<1>5. ASSUME NEW i \in DOMAIN Chain', NEW k \in DOMAIN Chain',
             NEW a \in DOMAIN Chain'[i], NEW b \in DOMAIN Chain'[k],
             i < k \/ (i = k /\ a < b)
      PROVE  \/ From(i, a)[1] < From(k, b)[1]
             \/ From(i, a)[1] = From(k, b)[1] /\ From(i, a)[2] < From(k, b)[2]
  <2>1. i \in 1..(l - 1) /\ k \in 1..(l - 1)
    BY <1>1
  <2>2. CASE i # 1
    <3>1. /\ i + 1 < k + 1 \/ (i + 1 = k + 1 /\ a < b)
          /\ k # 1
      BY <1>5, <2>1, <2>2
    <3>2. From(i, a) = <<i + 1, a>> /\ From(k, b) = <<k + 1, b>>
      BY <2>2, <3>1
    <3> HIDE DEF From
    <3> QED
      BY <3>1, <3>2
  <2>3. CASE i = 1 /\ k # 1
    <3>1. 1 < k + 1 /\ 2 < k + 1
      BY <2>1, <2>3
    <3>2. /\ From(i, a) = <<1, a>> \/ From(i, a) = <<2, a - f>>
          /\ From(k, b) = <<k + 1, b>>
      BY <2>3
    <3> HIDE DEF From
    <3>3. From(i, a)[1] = 1 \/ From(i, a)[1] = 2
      BY <3>2
    <3>4. From(k, b)[1] = k + 1
      BY <3>2
    <3>5. From(i, a)[1] < From(k, b)[1]
      BY <3>1, <3>3, <3>4
    <3> QED
      BY <3>5
  <2>4. CASE i = 1 /\ k = 1
    <3>1. a \in 1..(f + g) /\ b \in 1..(f + g) /\ a < b
      <4>1. a \in DOMAIN Chain'[1] /\ b \in DOMAIN Chain'[1]
        BY <1>5, <2>4
      <4>2. a < b
        BY <1>5, <2>4
      <4> QED
        BY <1>2, <4>1, <4>2
    <3>2. CASE b <= f
      <4>1. a <= f
        BY <1>1, <3>1, <3>2
      <4> QED
        BY <2>4, <3>1, <3>2, <4>1
    <3>3. CASE ~(b <= f) /\ a <= f
      BY <2>4, <3>3
    <3>4. CASE ~(b <= f) /\ ~(a <= f)
      <4>1. a - f < b - f
        BY <1>1, <3>1
      <4>2. From(i, a) = <<2, a - f>> /\ From(k, b) = <<2, b - f>>
        BY <2>4, <3>4
      <4> HIDE DEF From
      <4> QED
        BY <4>1, <4>2
    <3> QED
      BY <3>2, <3>3, <3>4
  <2> QED
    BY <2>2, <2>3, <2>4
<1> HIDE DEF From
<1>6. LinesInOrder'
  BY <1>4, <1>5 DEF Order, LinesInOrder
<1>7. Numbered'
  BY <1>4 DEF Order, Numbered
<1> QED
  BY <1>6, <1>7 DEF Order

(* A Chain without lines is in order.                                      *)
LEMMA OrderInit == Init /\ Places => Order
<1> SUFFICES ASSUME Init, Places PROVE Order
  OBVIOUS
<1>1. /\ file = <<>> /\ buffers = <<>> /\ buffers_to_write_ = <<>>
      /\ current_.lines = <<>> /\ at = 1
  BY DEF Init, LogFileInit, EmptyBuffer
<1>2. Len(buffers) = 0 /\ Len(buffers_to_write_) = 0
  BY <1>1
<1>3. Len(Pending) = 0
  BY <1>1, <1>2 DEF Places
<1>4. Len(Chain) = 2 /\ Chain[1] = <<>> /\ Chain[2] = <<>>
  <2>1. PICK l \in Nat : l = 0
    OBVIOUS
  <2>2. Len(Chain) = l + l + 2 /\ Chain[1] = <<>> /\ Chain[l + l + 2] = <<>>
    BY <1>1, <1>2, <1>3, <2>1 DEF Places
  <2>3. l + l + 2 = 2
    BY <2>1
  <2> QED
    BY <2>2, <2>3
<1>5. DOMAIN Chain = {1, 2} /\ DOMAIN <<>> = {}
  BY <1>4, ChainShape DEF Shape
<1>6. \A i \in DOMAIN Chain : DOMAIN Chain[i] = {}
  BY <1>4, <1>5
<1> QED
  BY <1>6 DEF Order, LinesInOrder, Numbered

(* So the order is kept by every step.                                     *)
LEMMA OrderNext ==
  Types /\ Types' /\ Places /\ Places' /\ Shape /\ Shape' /\ Order /\ [Next]_vars
    => Order'
<1> SUFFICES ASSUME Types, Types', Places, Places', Shape, Shape', Order,
                    [Next]_vars
             PROVE  Order'
  OBVIOUS
<1>1. ChainStep
  BY ChainSteps
<1>2. appended \in Nat
  BY AsyncLoggingAssumption DEF Types, TypeOK
<1> QED
  BY <1>1, <1>2, OrderSame, OrderOpens, OrderExtends, OrderMerges DEF ChainStep

(* The file has the lines in the order of the calls of Append, whatever    *)
(* the sizes of the lines and of the buffers.                              *)
THEOREM LinesKeepOrder == Spec => []LinesInOrder
<1>1. Types => Places /\ Shape
  BY ChainPlaces, ChainShape DEF Types
<1>2. Init => Order
  BY <1>1, TypesInit, OrderInit
<1>3. Order => LinesInOrder
  BY DEF Order
<1> QED
  BY <1>1, <1>2, <1>3, TypesInit, TypesNext, OrderNext, PTL DEF Spec

-----------------------------------------------------------------------------
(* No two lines in a row are lost.                                         *)

(* The line with the number n is in the chain C.                           *)
OnChain(n, C) == \E i \in DOMAIN C : \E j \in DOMAIN C[i] : C[i][j] = n

(* While the last line is not stored, current_ is empty: the rotation that *)
(* lost it has made it so.                                                 *)
LostLeavesRoom == appended >= 1 /\ ~IsStored(appended) => current_.room = Cap

Losses == LossesAreSingle /\ LostLeavesRoom

(* A concatenation has the elements of both sequences.                     *)
LEMMA ConcatKeeps ==
  ASSUME NEW c \in Seq(Line), NEW d \in Seq(Line)
  PROVE  /\ \A a \in DOMAIN c : a \in DOMAIN (c \o d) /\ (c \o d)[a] = c[a]
         /\ \A a \in DOMAIN d : /\ a + Len(c) \in DOMAIN (c \o d)
                              /\ (c \o d)[a + Len(c)] = d[a]
<1>1. /\ c \o d \in Seq(Line) /\ Len(c \o d) = Len(c) + Len(d)
      /\ Len(c) \in Nat /\ Len(d) \in Nat
      /\ DOMAIN c = 1..Len(c) /\ DOMAIN d = 1..Len(d)
      /\ DOMAIN (c \o d) = 1..(Len(c) + Len(d))
  OBVIOUS
<1>2. \A a \in 1..(Len(c) + Len(d)) :
        (c \o d)[a] = IF a <= Len(c) THEN c[a] ELSE d[a - Len(c)]
  BY ConcatProperties
<1>3. \A a \in 1..Len(c) : a \in 1..(Len(c) + Len(d)) /\ a <= Len(c)
  BY <1>1
<1>4. \A a \in 1..Len(d) : /\ a + Len(c) \in 1..(Len(c) + Len(d))
                           /\ ~(a + Len(c) <= Len(c))
                           /\ (a + Len(c)) - Len(c) = a
  BY <1>1
<1>5. \A a \in 1..Len(d) : (c \o d)[a + Len(c)] = d[a]
  BY <1>2, <1>4
<1> QED
  BY <1>1, <1>2, <1>3, <1>4, <1>5

(* A stored line stays on its way.                                         *)
LEMMA StoredStays ==
  ASSUME Shape, Shape', ChainStep, NEW n, OnChain(n, Chain)
  PROVE  OnChain(n, Chain')
<1>1. PICK i \in DOMAIN Chain : \E j \in DOMAIN Chain[i] : Chain[i][j] = n
  BY DEF OnChain
<1>2. PICK j \in DOMAIN Chain[i] : Chain[i][j] = n
  BY <1>1
<1>3. i \in 1..Len(Chain)
  BY DEF Shape
<1>4. CASE Same \/ Opens
  <2>1. i \in DOMAIN Chain' /\ Chain'[i] = Chain[i]
    <3>1. DOMAIN Chain' = 1..Len(Chain') /\ Len(Chain) \in Nat
      BY DEF Shape
    <3>2. /\ Chain'[i] = Chain[i]
          /\ Len(Chain') = Len(Chain) \/ Len(Chain') = Len(Chain) + 1
      BY <1>3, <1>4 DEF Same, Opens
    <3>3. i \in 1..Len(Chain')
      <4>1. PICK l \in Nat : l = Len(Chain)
        BY <3>1
      <4>2. Len(Chain') = l \/ Len(Chain') = l + 1
        BY <3>2, <4>1
      <4>3. i \in 1..l
        BY <1>3, <4>1
      <4> QED
        BY <4>2, <4>3
    <3> QED
      BY <1>3, <3>1, <3>2, <3>3
  <2> QED
    BY <1>2, <2>1 DEF OnChain
<1>5. CASE Extends
  <2>1. i \in DOMAIN Chain'
    BY <1>3, <1>5 DEF Extends, Shape
  <2>2. CASE i # Len(Chain)
    <3>1. Chain'[i] = Chain[i]
      BY <1>3, <1>5, <2>2 DEF Extends, Shape
    <3> QED
      BY <1>2, <2>1, <3>1 DEF OnChain
  <2>3. CASE i = Len(Chain)
    <3>1. Chain[i] \in Seq(Line) /\ Chain'[i] = Append(Chain[i], appended + 1)
      BY <1>3, <1>5, <2>3 DEF Extends, Shape
    <3>2. \A c \in Seq(Line) : \A d \in DOMAIN c :
            /\ d \in DOMAIN Append(c, appended + 1)
            /\ Append(c, appended + 1)[d] = c[d]
      OBVIOUS
    <3>3. j \in DOMAIN Chain'[i] /\ Chain'[i][j] = Chain[i][j]
      BY <1>2, <3>1, <3>2
    <3> QED
      BY <1>2, <2>1, <3>3 DEF OnChain
  <2> QED
    BY <2>2, <2>3
<1>6. CASE Merges
  <2>1. /\ Len(Chain) \in Nat /\ Len(Chain) >= 3
        /\ Chain'[1] = Chain[1] \o Chain[2]
        /\ Chain[1] \in Seq(Line) /\ Chain[2] \in Seq(Line)
        /\ DOMAIN Chain' = 1..(Len(Chain) - 1)
    BY <1>6 DEF Merges, Shape
  <2>2. 1 \in DOMAIN Chain'
    BY <2>1
  <2>3. /\ \A b \in DOMAIN Chain[1] : /\ b \in DOMAIN Chain'[1]
                                     /\ Chain'[1][b] = Chain[1][b]
        /\ \A b \in DOMAIN Chain[2] :
             /\ b + Len(Chain[1]) \in DOMAIN Chain'[1]
             /\ Chain'[1][b + Len(Chain[1])] = Chain[2][b]
    <3> DEFINE X == Chain[1]
               Y == Chain[2]
    <3>1. X \in Seq(Line) /\ Y \in Seq(Line) /\ Chain'[1] = X \o Y
      BY <2>1
    <3> HIDE DEF X, Y
    <3>2. /\ \A b \in DOMAIN X : b \in DOMAIN (X \o Y) /\ (X \o Y)[b] = X[b]
          /\ \A b \in DOMAIN Y : /\ b + Len(X) \in DOMAIN (X \o Y)
                               /\ (X \o Y)[b + Len(X)] = Y[b]
      BY <3>1, ConcatKeeps
    <3> QED
      BY <3>1, <3>2, Zenon DEF X, Y
  <2>4. CASE i = 1
    <3>1. j \in DOMAIN Chain[1] /\ Chain[1][j] = n
      BY <1>2, <2>4
    <3>2. j \in DOMAIN Chain'[1] /\ Chain'[1][j] = n
      BY <2>3, <3>1
    <3> QED
      BY <2>2, <3>2 DEF OnChain
  <2>5. CASE i = 2
    <3>1. j \in DOMAIN Chain[2] /\ Chain[2][j] = n
      BY <1>2, <2>5
    <3>2. /\ j + Len(Chain[1]) \in DOMAIN Chain'[1]
          /\ Chain'[1][j + Len(Chain[1])] = n
      BY <2>3, <3>1
    <3> QED
      BY <2>2, <3>2 DEF OnChain
  <2>6. CASE i >= 3
    <3>1. PICK k \in 2..(Len(Chain) - 1) : k + 1 = i
      <4>1. i - 1 \in 2..(Len(Chain) - 1) /\ (i - 1) + 1 = i
        BY <1>3, <2>1, <2>6
      <4> QED
        BY <4>1
    <3>2. k \in DOMAIN Chain' /\ Chain'[k] = Chain[i]
      BY <1>6, <2>1, <3>1 DEF Merges
    <3> QED
      BY <1>2, <3>2 DEF OnChain
  <2> QED
    BY <1>3, <2>1, <2>4, <2>5, <2>6
<1> QED
  BY <1>4, <1>5, <1>6 DEF ChainStep

(* The line that fits is stored.                                           *)
LEMMA FittingIsStored ==
  ASSUME Shape, Shape', Extends
  PROVE  OnChain(appended + 1, Chain')
<1>1. PICK l \in Nat : l = Len(Chain) /\ l >= 2
  BY DEF Shape
<1>2. Chain[l] \in Seq(Line) /\ Chain'[l] = Append(Chain[l], appended + 1)
  BY <1>1 DEF Shape, Extends
<1>3. l \in DOMAIN Chain'
  BY <1>1 DEF Shape, Extends
<1>4. PICK e \in Nat : e = Len(Chain[l]) + 1
  BY <1>2
<1>5. e \in DOMAIN Chain'[l] /\ Chain'[l][e] = appended + 1
  BY <1>2, <1>4
<1> QED
  BY <1>3, <1>5 DEF OnChain

(* A line is lost only after one that is stored.                           *)
LEMMA LossesNext ==
  Types /\ Types' /\ Places /\ Places' /\ Shape /\ Shape' /\ Losses
    /\ [Next]_vars => Losses'
<1> SUFFICES ASSUME Types, Types', Places, Places', Shape, Shape', Losses,
                    [Next]_vars
             PROVE  Losses'
  OBVIOUS
<1>1. ChainStep
  BY ChainSteps
<1>2. appended \in Nat /\ EmptyBuffer.room = Cap
  BY AsyncLoggingAssumption DEF Types, TypeOK, EmptyBuffer
<1>3. \A n : OnChain(n, Chain) => OnChain(n, Chain')
  BY <1>1, StoredStays
<1>4. /\ \A n \in 1..(appended - 1) :
           OnChain(n, Chain) \/ OnChain(n + 1, Chain)
      /\ appended >= 1 /\ ~OnChain(appended, Chain) => current_.room = Cap
  BY DEF Losses, LossesAreSingle, LostLeavesRoom, IsStored, OnChain
<1>5. SUFFICES
        /\ \A n \in 1..(appended' - 1) :
             OnChain(n, Chain') \/ OnChain(n + 1, Chain')
        /\ appended' >= 1 /\ ~OnChain(appended', Chain') => current_'.room = Cap
  BY DEF Losses, LossesAreSingle, LostLeavesRoom, IsStored, OnChain
<1>6. CASE appended' = appended
  <2>1. current_' = current_ \/ current_'.room = Cap
    BY <1>1, <1>2, <1>6 DEF ChainStep
  <2> QED
    BY <1>3, <1>4, <1>6, <2>1
<1>7. CASE Extends /\ appended' = appended + 1
  <2>1. OnChain(appended', Chain')
    BY <1>7, FittingIsStored
  <2>2. ASSUME NEW n \in 1..(appended' - 1)
        PROVE  OnChain(n, Chain') \/ OnChain(n + 1, Chain')
    <3>1. CASE n = appended
      BY <1>7, <2>1, <3>1
    <3>2. CASE n # appended
      <4>1. n \in 1..(appended - 1)
        BY <1>2, <1>7, <3>2
      <4> QED
        BY <1>3, <1>4, <4>1
    <3> QED
      BY <3>1, <3>2
  <2> QED
    BY <2>1, <2>2
<1>8. CASE appended' = appended + 1 /\ current_' = EmptyBuffer
           /\ current_.room # Cap
  <2>1. ASSUME NEW n \in 1..(appended' - 1)
        PROVE  OnChain(n, Chain') \/ OnChain(n + 1, Chain')
    <3>1. CASE n = appended
      <4>1. appended >= 1
        BY <3>1
      <4>2. OnChain(appended, Chain)
        BY <1>4, <1>8, <4>1
      <4> QED
        BY <1>3, <3>1, <4>2
    <3>2. CASE n # appended
      <4>1. n \in 1..(appended - 1)
        BY <1>2, <1>8, <3>2
      <4> QED
        BY <1>3, <1>4, <4>1
    <3> QED
      BY <3>1, <3>2
  <2> QED
    BY <1>2, <1>8, <2>1
<1> QED
  BY <1>1, <1>6, <1>7, <1>8 DEF ChainStep

(* A rotation costs one line, and the next one is always stored: no line   *)
(* that fits an empty buffer is lost after another.                        *)
THEOREM NoTwoInARowAreLost == Spec => []LossesAreSingle
<1>1. Types => Places /\ Shape
  BY ChainPlaces, ChainShape DEF Types
<1>2. Init => Losses
  <2> SUFFICES ASSUME Init PROVE Losses
    OBVIOUS
  <2>1. appended = 0 /\ \A n \in 1..(0 - 1) : FALSE
    BY DEF Init
  <2> QED
    BY <2>1 DEF Losses, LossesAreSingle, LostLeavesRoom
<1>3. Losses => LossesAreSingle
  BY DEF Losses
<1> QED
  BY <1>1, <1>2, <1>3, TypesInit, TypesNext, LossesNext, PTL DEF Spec

-----------------------------------------------------------------------------
(* What has not left the process.                                          *)

(* The last flush is not older by more than kFlushInterval than the last   *)
(* write, and every line that has not left the process came after it.      *)
Unflushed ==
  /\ flushed < Len(file) => /\ pc # "end"
                            /\ lastwrite_ - lastflush_ <= kFlushInterval
  /\ \A i \in (flushed + 1)..Len(file) : i > opened /\ lastflush_ <= times[i]

(* An index above one number is above a smaller one.                       *)
LEMMA LaterIndex ==
  ASSUME NEW a \in Nat, NEW b \in Nat, NEW n \in Nat, NEW m \in Nat, a <= b,
         NEW i \in (b + 1)..m, i <= n
  PROVE  i \in (a + 1)..n /\ i \in 1..n
OBVIOUS

(* A Write that does not flush was made within kFlushInterval of the last  *)
(* one that did, and a file that is replaced or closed is flushed.         *)
LEMMA UnflushedNext == TypeOK /\ Unflushed /\ [Next]_vars => Unflushed'
<1> SUFFICES ASSUME TypeOK, Unflushed, [Next]_vars PROVE Unflushed'
  OBVIOUS
<1>1. ASSUME flushed' = Len(file'), Len(file') \in Nat PROVE Unflushed'
  BY <1>1 DEF Unflushed
<1>2. CASE Write
  <2>1. PICK lines \in Seq(Line), len \in Int : WriteLines(lines, len)
    <3>1. buffers[at] \in Buffer
      BY <1>2 DEF TypeOK, Write
    <3>2. buffers[at].lines \in Seq(Line) /\ BytesOf(buffers[at]) \in Int
      BY <3>1, AsyncLoggingAssumption DEF Buffer, BytesOf
    <3> QED
      BY <1>2, <3>2 DEF Write
  <2>2. Len(file') = Len(file) + Len(lines) /\ Len(file') \in Nat
    BY <2>1 DEF WriteLines, TypeOK
  <2>3. pc' # "end"
    BY <1>2 DEF Write
  <2>4. CASE WriteTime(len) - lastflush_ > kFlushInterval
    <3>1. flushed' = Len(file')
      BY <2>1, <2>2, <2>4 DEF WriteLines
    <3> QED
      BY <1>1, <2>2, <3>1
  <2>5. CASE ~(WriteTime(len) - lastflush_ > kFlushInterval)
    <3>1. /\ lastwrite_' = WriteTime(len) /\ lastflush_' = lastflush_
          /\ flushed' >= flushed /\ flushed' \in Nat /\ opened' = opened
      BY <2>1, <2>5 DEF WriteLines, TypeOK
    <3>2. /\ WriteTime(len) \in Int /\ lastflush_ \in Int /\ now \in Nat
          /\ lastflush_ <= now /\ kFlushInterval \in Int
      BY LogFileAssumption DEF TypeOK, WriteTime
    <3>3. lastwrite_' - lastflush_' <= kFlushInterval
      BY <2>5, <3>1, <3>2
    <3>4. /\ \A i \in 1..Len(file) : times'[i] = times[i]
          /\ \A i \in (Len(file) + 1)..Len(file') : times'[i] = now
      <4>1. times' = times \o [i \in DOMAIN lines |-> now]
        BY <2>1 DEF WriteLines
      <4>2. times \in Seq(StartTime..now) /\ Len(times) = Len(file)
        BY DEF TypeOK
      <4>3. now \in StartTime..now
        BY DEF TypeOK
      <4>4. /\ Len(times') = Len(times) + Len(lines)
            /\ \A i \in 1..Len(times) : times'[i] = times[i]
            /\ \A i \in (Len(times) + 1)..Len(times') : times'[i] = now
        BY <4>1, <4>2, <4>3, TimesOfWrite, Zenon
      <4> QED
        BY <2>2, <4>2, <4>4, Zenon
    <3>5. /\ flushed \in 0..Len(file) /\ opened \in 0..Len(file)
          /\ Len(file) \in Nat
      BY DEF TypeOK
    <3>7. /\ flushed \in Nat /\ flushed' \in Nat /\ Len(file) \in Nat
          /\ flushed <= flushed'
      BY <3>1, <3>5
    <3>6. ASSUME NEW i \in (flushed' + 1)..Len(file')
          PROVE  i > opened' /\ lastflush_' <= times'[i]
      <4>1. CASE i <= Len(file)
        <5>1. i \in (flushed + 1)..Len(file) /\ i \in 1..Len(file)
          BY <2>2, <3>7, <4>1, <3>6, LaterIndex, Zenon
        <5>2. i > opened /\ lastflush_ <= times[i]
          BY <5>1 DEF Unflushed
        <5> QED
          BY <3>1, <3>4, <5>1, <5>2
      <4>2. CASE i > Len(file)
        <5>1. i \in (Len(file) + 1)..Len(file') /\ i > opened
          BY <2>2, <3>1, <3>5, <3>6, <4>2
        <5> QED
          BY <3>1, <3>2, <3>4, <5>1
      <4> QED
        BY <2>2, <3>1, <3>5, <3>6, <4>1, <4>2
    <3> QED
      BY <2>3, <3>3, <3>6 DEF Unflushed
  <2> QED
    BY <2>4, <2>5
<1>3. CASE End \/ (Roll /\ Reopen)
  <2>1. flushed' = Len(file') /\ Len(file') \in Nat
    BY <1>3 DEF End, Roll, Close, Reopen, NewFile, lineVars, TypeOK
  <2> QED
    BY <1>1, <2>1
<1>4. ASSUME UNCHANGED logFileVars, pc' = "end" => pc = "end"
      PROVE  Unflushed'
  BY <1>4 DEF Unflushed, logFileVars, lineVars
<1>5. CASE \/ Main \/ Clock \/ UNCHANGED vars
           \/ \E len \in 1..Cap : AppendLine(len)
  <2>1. UNCHANGED logFileVars /\ (pc' = "end" => pc = "end")
    BY <1>5 DEF Main, StartAsyncLogging, LatchWaitReturns, Stop, JoinReturns,
       Clock, AppendLine, vars
  <2> QED
    BY <1>4, <2>1
<1>6. CASE \/ Start \/ While \/ Wait \/ Swap \/ Refill
           \/ (Roll /\ UNCHANGED logFileVars)
  <2>1. UNCHANGED logFileVars /\ pc' # "end"
    BY <1>6 DEF Start, While, Wait, Swap, Refill, Roll
  <2> QED
    BY <1>4, <2>1
<1>7. CASE Roll
  BY <1>3, <1>6, <1>7 DEF Roll
<1> QED
  BY <1>2, <1>3, <1>5, <1>6, <1>7 DEF Next, ThreadFunc

(* What a crash of the process loses is of the file being written, not     *)
(* older by more than kFlushInterval than the last line written, and Stop  *)
(* leaves nothing unflushed, for any interval and any times of the writes. *)
THEOREM UnflushedStaysRecent == Spec => []UnflushedIsRecent
<1>1. Init => Unflushed
  <2> SUFFICES ASSUME Init PROVE Unflushed
    OBVIOUS
  <2>1. flushed = 0 /\ Len(file) = 0
    BY DEF Init, LogFileInit
  <2> QED
    BY <2>1 DEF Unflushed
<1>2. TypeOK /\ Unflushed => UnflushedIsRecent
  <2> SUFFICES ASSUME TypeOK, Unflushed, NEW i \in (flushed + 1)..Len(file)
               PROVE  /\ pc # "end" /\ i > opened
                      /\ lastwrite_ - times[i] <= kFlushInterval
    BY DEF UnflushedIsRecent
  <2>1. /\ flushed \in Nat /\ Len(file) \in Nat /\ StartTime \in Nat
        /\ lastwrite_ \in Nat /\ lastflush_ \in Nat /\ kFlushInterval \in Nat
    <3>1. /\ file \in Seq(Line) /\ flushed \in 0..Len(file)
          /\ lastwrite_ \in {0} \cup StartTime..now
          /\ lastflush_ \in {0} \cup StartTime..now
      BY DEF TypeOK
    <3>2. Len(file) \in Nat
      BY <3>1
    <3> QED
      BY <3>1, <3>2, LogFileAssumption
  <2>2. times[i] \in Nat
    <3>1. times \in Seq(StartTime..now) /\ Len(times) = Len(file)
      BY DEF TypeOK
    <3>2. i \in 1..Len(times)
      BY <2>1, <3>1
    <3>3. times[i] \in StartTime..now
      BY <3>1, <3>2, ElementOfSeq, Zenon
    <3> QED
      BY <2>1, <3>3
  <2>3. pc # "end" /\ lastwrite_ - lastflush_ <= kFlushInterval
    BY <2>1 DEF Unflushed
  <2>4. i > opened /\ lastflush_ <= times[i]
    BY DEF Unflushed
  <2> QED
    BY <2>1, <2>2, <2>3, <2>4
<1> QED
  BY <1>1, <1>2, TypeCorrect, UnflushedNext, PTL DEF Spec

-----------------------------------------------------------------------------
(* Induction, and what recursive functions are.                            *)

(* A set of natural numbers has a least one.                               *)
LEMMA LeastNumber ==
  ASSUME NEW S \in SUBSET Nat, S # {}
  PROVE  \E x \in S : \A y \in S : x <= y
<1>1. PICK x \in S : \A y \in S : ~(<<y, x>> \in OpToRel(<, Nat))
  BY NatLessThanWellFounded, WFMin
<1>2. ASSUME NEW y \in S PROVE x <= y
  <2>1. <<y, x>> \in OpToRel(<, Nat) <=> y < x
    BY Zenon DEF OpToRel
  <2>2. ~(y < x)
    BY <1>1, <2>1, Zenon
  <2> QED
    BY <2>2
<1> QED
  BY <1>2

(* Induction over the first n numbers: the set is that of those of which   *)
(* something holds.                                                        *)
LEMMA Induction ==
  ASSUME NEW n \in Nat, NEW S, 0 \in S,
         \A i \in 1..n : i - 1 \in S => i \in S
  PROVE  0..n \subseteq S
<1> DEFINE Rest == {i \in 0..n : i \notin S}
<1>1. Rest \in SUBSET Nat
  OBVIOUS
<1>2. ASSUME NEW m \in Rest, \A k \in Rest : m <= k PROVE FALSE
  <2>1. m \in 1..n /\ m - 1 \in 0..n /\ ~(m <= m - 1)
    BY <1>2
  <2>2. m - 1 \in S
    BY <1>2, <2>1
  <2> QED
    BY <1>2, <2>1, <2>2
<1>3. Rest = {}
  <2> HIDE DEF Rest
  <2> QED
    BY <1>1, <1>2, LeastNumber
<1> QED
  BY <1>3

-----------------------------------------------------------------------------
(* The digits that FormatInteger finds.                                    *)

Abs(num) == IF num < 0 THEN -num ELSE num

(* The loop ends: the quotient of a number is nearer to 0.                 *)
LEMMA QuotientIs ==
  ASSUME NEW num \in Int
  PROVE  /\ Quotient(num) \in Int /\ Remainder(num) \in -9..9
         /\ num = 10 * Quotient(num) + Remainder(num)
         /\ Abs(num) = 10 * Abs(Quotient(num)) + Abs(Remainder(num))
         /\ Abs(num) \in Nat /\ Abs(Quotient(num)) \in Nat
         /\ Quotient(num) # 0 => Abs(Quotient(num)) < Abs(num)
         /\ num = 0 => Quotient(num) = 0
<1>1. CASE num >= 0
  BY <1>1 DEF Quotient, Remainder, Abs
<1>2. CASE num < 0
  BY <1>2 DEF Quotient, Remainder, Abs
<1> QED
  BY <1>1, <1>2

DigitsStep(f, num) ==
  <<Zero(Remainder(num))>>
    \o (IF Quotient(num) = 0 THEN <<>> ELSE f[Quotient(num)])

Span(n) == {num \in Int : Abs(num) <= n}

\* f gives the digits of the numbers up to n.
GivesDigits(f, n) == f = [num \in Span(n) |-> DigitsStep(f, num)]

(* There is such a function.                                               *)
LEMMA DigitsExist ==
  ASSUME NEW n \in Nat
  PROVE  \E f : GivesDigits(f, n)
<1> DEFINE S == {k \in Nat : \E f : GivesDigits(f, k)}
<1>1. 0 \in S
  <2> DEFINE f == [num \in Span(0) |-> <<Zero(Remainder(num))>> \o <<>>]
  <2>1. \A num \in Span(0) : Quotient(num) = 0
    <3>1. \A num \in Int : Abs(num) <= 0 => num = 0
      BY DEF Abs
    <3> QED
      BY <3>1, QuotientIs DEF Span
  <2>2. GivesDigits(f, 0)
    BY <2>1 DEF GivesDigits, DigitsStep
  <2> QED
    BY <2>2
<1>2. ASSUME NEW k \in 1..n, k - 1 \in S PROVE k \in S
  <2>1. PICK f : GivesDigits(f, k - 1)
    BY <1>2
  <2> DEFINE g == [num \in Span(k) |-> DigitsStep(f, num)]
  <2>2. \A num \in Span(k - 1) : g[num] = f[num]
    <3>1. \A num \in Span(k - 1) : num \in Span(k)
      BY DEF Span, Abs
    <3>2. \A num \in Span(k - 1) : f[num] = DigitsStep(f, num)
      BY <2>1, Zenon DEF GivesDigits
    <3> QED
      BY <3>1, <3>2
  <2>3. \A num \in Span(k) : Quotient(num) # 0 => Quotient(num) \in Span(k - 1)
    BY QuotientIs DEF Span
  <2> HIDE DEF g
  <2>4. \A num \in Span(k) : DigitsStep(g, num) = DigitsStep(f, num)
    BY <2>2, <2>3 DEF DigitsStep
  <2>5. GivesDigits(g, k)
    <3>1. g = [num \in Span(k) |-> DigitsStep(f, num)]
      BY DEF g
    <3> QED
      BY <2>4, <3>1 DEF GivesDigits
  <2> QED
    BY <2>5
<1>3. 0..n \subseteq S
  <2> HIDE DEF S
  <2> QED
    BY <1>1, <1>2, Induction
<1> QED
  BY <1>3

(* And only one.                                                           *)
LEMMA DigitsAgree ==
  ASSUME NEW n \in Nat, NEW m \in Nat, n <= m, NEW f, NEW g,
         GivesDigits(f, n), GivesDigits(g, m)
  PROVE  \A num \in Span(n) : f[num] = g[num]
<1> DEFINE S == {k \in Nat : \A num \in Span(n) : Abs(num) <= k => f[num] = g[num]}
<1>1. /\ \A num \in Span(n) : f[num] = DigitsStep(f, num)
      /\ \A num \in Span(n) : g[num] = DigitsStep(g, num)
  <2>1. \A num \in Span(n) : num \in Span(m)
    BY DEF Span, Abs
  <2>2. \A num \in Span(n) : f[num] = DigitsStep(f, num)
    BY Zenon DEF GivesDigits
  <2>3. \A num \in Span(m) : g[num] = DigitsStep(g, num)
    BY Zenon DEF GivesDigits
  <2> QED
    BY <2>1, <2>2, <2>3
<1>2. 0 \in S
  <2>1. \A num \in Span(n) : Abs(num) <= 0 => Quotient(num) = 0
    <3>1. \A num \in Int : Abs(num) <= 0 => num = 0
      BY DEF Abs
    <3> QED
      BY <3>1, QuotientIs DEF Span
  <2>2. \A num \in Span(n) : Quotient(num) = 0 => f[num] = g[num]
    BY <1>1 DEF DigitsStep
  <2> QED
    BY <2>1, <2>2
<1>3. ASSUME NEW k \in 1..n, k - 1 \in S PROVE k \in S
  <2>1. ASSUME NEW num \in Span(n), Abs(num) <= k PROVE f[num] = g[num]
    <3>1. CASE Quotient(num) = 0
      BY <1>1, <3>1 DEF DigitsStep
    <3>2. CASE Quotient(num) # 0
      <4>1. Quotient(num) \in Span(n) /\ Abs(Quotient(num)) <= k - 1
        BY <2>1, <3>2, QuotientIs DEF Span
      <4>2. f[Quotient(num)] = g[Quotient(num)]
        BY <1>3, <4>1
      <4> QED
        BY <1>1, <4>2 DEF DigitsStep
    <3> QED
      BY <3>1, <3>2
  <2> QED
    BY <2>1
<1>4. 0..n \subseteq S
  <2> HIDE DEF S
  <2> QED
    BY <1>2, <1>3, Induction
<1> QED
  <2>1. n \in S
    BY <1>4
  <2> QED
    BY <2>1 DEF Span

(* Digits is what its definition says.                                     *)
LEMMA DigitsAre ==
  ASSUME NEW num \in Int
  PROVE  Digits[num] = DigitsStep(Digits, num)
<1> DEFINE Part(k) == CHOOSE f : GivesDigits(f, k)
           F == [x \in Int |-> Part(Abs(x))[x]]
<1>1. \A k \in Nat : GivesDigits(Part(k), k)
  BY DigitsExist
<1> HIDE DEF Part
<1>2. \A x \in Int : F[x] = DigitsStep(F, x)
  <2> SUFFICES ASSUME NEW x \in Int PROVE F[x] = DigitsStep(F, x)
    OBVIOUS
  <2>1. Abs(x) \in Nat /\ x \in Span(Abs(x)) /\ Quotient(x) \in Int
    BY QuotientIs DEF Span
  <2>2. F[x] = DigitsStep(Part(Abs(x)), x)
    <3>1. GivesDigits(Part(Abs(x)), Abs(x))
      BY <1>1, <2>1
    <3>2. Part(Abs(x))[x] = DigitsStep(Part(Abs(x)), x)
      BY <2>1, <3>1, Zenon DEF GivesDigits
    <3> QED
      BY <3>2
  <2>3. CASE Quotient(x) = 0
    BY <2>2, <2>3 DEF DigitsStep
  <2>4. CASE Quotient(x) # 0
    <3>1. /\ Abs(Quotient(x)) \in Nat /\ Abs(Quotient(x)) <= Abs(x)
          /\ Quotient(x) \in Span(Abs(Quotient(x)))
      BY <2>1, <2>4, QuotientIs DEF Span
    <3>2. Part(Abs(Quotient(x)))[Quotient(x)] = Part(Abs(x))[Quotient(x)]
      BY <1>1, <2>1, <3>1, DigitsAgree
    <3>3. F[Quotient(x)] = Part(Abs(x))[Quotient(x)]
      BY <2>1, <3>2
    <3> HIDE DEF F
    <3> QED
      BY <2>2, <3>3 DEF DigitsStep
  <2> QED
    BY <2>3, <2>4
<1>3. F = [x \in Int |-> DigitsStep(F, x)]
  BY <1>2
<1> HIDE DEF F
<1>4. Digits = CHOOSE f : f = [x \in Int |-> DigitsStep(f, x)]
  BY Zenon DEF Digits, DigitsStep
<1>5. Digits = [x \in Int |-> DigitsStep(Digits, x)]
  BY <1>3, <1>4
<1> QED
  BY <1>5, Zenon

-----------------------------------------------------------------------------
(* The number that places stand for.                                       *)

PlaceOf(char) == CHOOSE d \in 0..9 : Decimals[d + 1] = char

\* f gives the values of the first places.
GivesValues(f, places, n) ==
  f = [i \in 0..n |-> IF i = 0 THEN 0 ELSE 10 * f[i - 1] + PlaceOf(places[i])]

(* There is such a function.                                               *)
LEMMA ValuesExist ==
  ASSUME NEW places, NEW n \in Nat
  PROVE  \E f : GivesValues(f, places, n)
<1> DEFINE S == {k \in Nat : \E f : GivesValues(f, places, k)}
<1>1. 0 \in S
  <2> DEFINE f == [i \in 0..0 |-> 0]
  <2>1. GivesValues(f, places, 0)
    BY DEF GivesValues
  <2> QED
    BY <2>1
<1>2. ASSUME NEW k \in 1..n, k - 1 \in S PROVE k \in S
  <2>1. PICK f : GivesValues(f, places, k - 1)
    BY <1>2
  <2> DEFINE g == [i \in 0..k |-> IF i = 0 THEN 0
                                  ELSE 10 * f[i - 1] + PlaceOf(places[i])]
  <2>2. \A i \in 0..(k - 1) : g[i] = f[i]
    <3>1. \A i \in 0..(k - 1) : i \in 0..k
      OBVIOUS
    <3>2. \A i \in 0..(k - 1) : f[i] = IF i = 0 THEN 0
                                       ELSE 10 * f[i - 1] + PlaceOf(places[i])
      BY <2>1, Zenon DEF GivesValues
    <3> QED
      BY <3>1, <3>2
  <2>3. \A i \in 0..k : i # 0 => i - 1 \in 0..(k - 1)
    OBVIOUS
  <2>4. g = [i \in 0..k |-> IF i = 0 THEN 0 ELSE 10 * g[i - 1] + PlaceOf(places[i])]
    BY <2>2, <2>3
  <2>5. GivesValues(g, places, k)
    BY <2>4, Zenon DEF GivesValues
  <2> QED
    BY <2>5
<1>3. 0..n \subseteq S
  <2> HIDE DEF S
  <2> QED
    BY <1>1, <1>2, Induction
<1> QED
  BY <1>3

(* A place has one value.                                                  *)
LEMMA PlaceIs ==
  ASSUME NEW d \in 0..9
  PROVE  PlaceOf(Decimals[d + 1]) = d
<1>1. \A k \in 0..9 : Decimals[k + 1] = Decimals[d + 1] => k = d
  BY DEF Decimals
<1> QED
  BY <1>1 DEF PlaceOf

Decimal == {Decimals[d + 1] : d \in 0..9}

\* The values of the places from the first on.
Values(places) == CHOOSE f : GivesValues(f, places, Len(places))

(* The value of no places is 0, of one more ten times as much and the     *)
(* place.                                                                  *)
LEMMA ValuesAre ==
  ASSUME NEW places \in Seq(Decimal)
  PROVE  /\ ValueOf(places) = Values(places)[Len(places)]
         /\ Values(places)[0] = 0
         /\ \A i \in 1..Len(places) :
              Values(places)[i] = 10 * Values(places)[i - 1] + PlaceOf(places[i])
         /\ \A i \in 0..Len(places) : Values(places)[i] \in Nat
<1>1. Len(places) \in Nat /\ \A i \in 1..Len(places) : places[i] \in Decimal
  OBVIOUS
<1>2. GivesValues(Values(places), places, Len(places))
  BY <1>1, ValuesExist DEF Values
<1>3. ValueOf(places) = Values(places)[Len(places)]
  BY Zenon DEF ValueOf, Values, GivesValues, PlaceOf
<1>4. PICK f : f = Values(places)
  OBVIOUS
<1>5. \A i \in 0..Len(places) :
        f[i] = IF i = 0 THEN 0 ELSE 10 * f[i - 1] + PlaceOf(places[i])
  BY <1>2, <1>4, Zenon DEF GivesValues
<1>6. f[0] = 0 /\ \A i \in 1..Len(places) : f[i] = 10 * f[i - 1] + PlaceOf(places[i])
  BY <1>1, <1>5
<1>7. \A i \in 1..Len(places) : PlaceOf(places[i]) \in Nat
  BY <1>1, PlaceIs DEF Decimal
<1>8. \A i \in 0..Len(places) : f[i] \in Nat
  <2> DEFINE S == {i \in Nat : f[i] \in Nat}
  <2>1. 0 \in S
    BY <1>6
  <2>2. \A i \in 1..Len(places) : i - 1 \in S => i \in S
    BY <1>6, <1>7
  <2>3. 0..Len(places) \subseteq S
    <3> HIDE DEF S
    <3> QED
      BY <1>1, <2>1, <2>2, Induction
  <2> QED
    BY <2>3
<1> QED
  BY <1>3, <1>4, <1>6, <1>8

(* A place more makes the number ten times as much, and the place.        *)
LEMMA ValueAppend ==
  ASSUME NEW places \in Seq(Decimal), NEW d \in 0..9
  PROVE  /\ ValueOf(Append(places, Decimals[d + 1])) = 10 * ValueOf(places) + d
         /\ ValueOf(places) \in Nat
<1>1. PICK more : more = Append(places, Decimals[d + 1])
  OBVIOUS
<1>2. Decimals[d + 1] \in Decimal /\ Len(places) \in Nat
  BY DEF Decimal
<1>3. /\ more \in Seq(Decimal) /\ Len(more) = Len(places) + 1
      /\ more[Len(places) + 1] = Decimals[d + 1]
      /\ \A i \in 1..Len(places) : more[i] = places[i]
  BY <1>1, <1>2, AppendProperties
<1>4. PICK f : f = Values(places)
  OBVIOUS
<1>5. PICK g : g = Values(more)
  OBVIOUS
<1>6. /\ ValueOf(places) = f[Len(places)] /\ f[0] = 0
      /\ \A i \in 1..Len(places) : f[i] = 10 * f[i - 1] + PlaceOf(places[i])
      /\ \A i \in 0..Len(places) : f[i] \in Nat
  BY <1>4, ValuesAre
<1>7. /\ ValueOf(more) = g[Len(places) + 1] /\ g[0] = 0
      /\ \A i \in 1..(Len(places) + 1) : g[i] = 10 * g[i - 1] + PlaceOf(more[i])
  BY <1>3, <1>5, ValuesAre
<1>8. \A i \in 0..Len(places) : g[i] = f[i]
  <2> DEFINE S == {i \in Nat : g[i] = f[i]}
  <2>1. 0 \in S
    BY <1>6, <1>7
  <2>2. ASSUME NEW i \in 1..Len(places), i - 1 \in S PROVE i \in S
    <3>1. i \in 1..(Len(places) + 1) /\ more[i] = places[i]
      BY <1>2, <1>3
    <3> QED
      BY <1>6, <1>7, <2>2, <3>1
  <2>3. 0..Len(places) \subseteq S
    <3> HIDE DEF S
    <3> QED
      BY <1>2, <2>1, <2>2, Induction
  <2> QED
    BY <2>3
<1>9. g[Len(places) + 1] = 10 * g[Len(places)] + PlaceOf(Decimals[d + 1])
  <2>1. Len(places) + 1 \in 1..(Len(places) + 1) /\ (Len(places) + 1) - 1 = Len(places)
    BY <1>2
  <2> QED
    BY <1>3, <1>7, <2>1
<1>10. ValueOf(more) = 10 * f[Len(places)] + d
  <2>1. Len(places) \in 0..Len(places)
    BY <1>2
  <2>2. g[Len(places)] = f[Len(places)]
    BY <1>8, <2>1
  <2> QED
    BY <1>7, <1>9, <2>2, PlaceIs
<1>11. f[Len(places)] \in Nat
  BY <1>2, <1>6
<1> QED
  BY <1>1, <1>6, <1>10, <1>11

-----------------------------------------------------------------------------
(* What FormatInteger writes is the numeral of the number.                 *)

(* A remainder gives its digit, whatever its sign.                         *)
LEMMA ZeroIs ==
  ASSUME NEW remainder \in -9..9
  PROVE  /\ Zero(remainder) = Decimals[Abs(remainder) + 1]
         /\ Abs(remainder) \in 0..9
         /\ remainder # 0 => Zero(remainder) # "0"
BY DEF Zero, digits, Decimals, Abs

(* Turning round what begins with a digit puts the digit last.             *)
LEMMA ReverseOfMore ==
  ASSUME NEW S, NEW rest \in Seq(S), NEW char \in S
  PROVE  /\ Reverse(<<char>> \o rest) = Append(Reverse(rest), char)
         /\ Reverse(rest) \in Seq(S)
<1>1. Len(rest) \in Nat
  OBVIOUS
<1>2. PICK all : all = <<char>> \o rest
  OBVIOUS
<1>3. /\ Len(all) = Len(rest) + 1 /\ all[1] = char
      /\ \A i \in 1..Len(rest) : all[i + 1] = rest[i]
  BY <1>1, <1>2
<1>4. PICK back : back = Reverse(rest)
  OBVIOUS
<1>5. /\ back \in Seq(S) /\ Len(back) = Len(rest)
      /\ \A i \in 1..Len(rest) : back[i] = rest[Len(rest) - i + 1]
  <2>1. back = [i \in 1..Len(rest) |-> rest[(Len(rest) - i) + 1]]
    BY <1>4 DEF Reverse
  <2>2. \A i \in 1..Len(rest) : rest[(Len(rest) - i) + 1] \in S
    BY <1>1
  <2> QED
    BY <1>1, <2>1, <2>2
<1>6. Append(back, char) = [i \in 1..(Len(rest) + 1) |->
                              IF i = Len(rest) + 1 THEN char ELSE back[i]]
  <2>1. PICK more \in Seq(S) : more = Append(back, char)
    <3>1. Append(back, char) \in Seq(S)
      BY <1>5, AppendProperties, Zenon
    <3> QED
      BY <3>1, Zenon
  <2>2. /\ Len(more) = Len(rest) + 1 /\ more[Len(rest) + 1] = char
        /\ \A i \in 1..Len(rest) : more[i] = back[i]
    BY <1>5, <2>1, AppendProperties
  <2>3. more = [i \in 1..Len(more) |-> more[i]]
    OBVIOUS
  <2>4. \A i \in 1..(Len(rest) + 1) :
          more[i] = IF i = Len(rest) + 1 THEN char ELSE back[i]
    BY <1>1, <2>2
  <2>5. more = [i \in 1..(Len(rest) + 1) |-> more[i]]
    BY <2>2, <2>3
  <2>6. [i \in 1..(Len(rest) + 1) |-> more[i]]
          = [i \in 1..(Len(rest) + 1) |-> IF i = Len(rest) + 1 THEN char ELSE back[i]]
    BY <2>4
  <2> QED
    BY <2>1, <2>5, <2>6
<1>7. Reverse(all) = [i \in 1..(Len(rest) + 1) |-> all[(Len(rest) + 1 - i) + 1]]
  BY <1>3 DEF Reverse
<1>8. \A i \in 1..(Len(rest) + 1) :
        all[(Len(rest) + 1 - i) + 1] = IF i = Len(rest) + 1 THEN char ELSE back[i]
  <2> SUFFICES ASSUME NEW i \in 1..(Len(rest) + 1)
               PROVE  all[(Len(rest) + 1 - i) + 1]
                        = IF i = Len(rest) + 1 THEN char ELSE back[i]
    OBVIOUS
  <2>1. CASE i = Len(rest) + 1
    BY <1>1, <1>3, <2>1
  <2>2. CASE i # Len(rest) + 1
    <3>1. PICK k \in 1..Len(rest) : k = Len(rest) - i + 1
      BY <1>1, <2>2
    <3>2. all[k + 1] = rest[k] /\ back[i] = rest[k]
      BY <1>1, <1>3, <1>5, <2>2, <3>1
    <3>3. (Len(rest) + 1 - i) + 1 = k + 1
      BY <1>1, <3>1
    <3> QED
      BY <2>2, <3>2, <3>3
  <2> QED
    BY <2>1, <2>2
<1>9. [i \in 1..(Len(rest) + 1) |-> all[(Len(rest) + 1 - i) + 1]]
        = [i \in 1..(Len(rest) + 1) |->
             IF i = Len(rest) + 1 THEN char ELSE back[i]]
  BY <1>8, Zenon
<1>10. Reverse(all) = Append(back, char)
  BY <1>6, <1>7, <1>9, Zenon
<1> QED
  BY <1>2, <1>4, <1>5, <1>10, Zenon

\* The digits found are those of a numeral without its sign.
DigitsOf(num) ==
  /\ Digits[num] \in Seq(Decimal)
  /\ Digits[num] # <<>>
  /\ num = 0 => Len(Digits[num]) = 1
  /\ num # 0 => Digits[num][Len(Digits[num])] # "0"
  /\ ValueOf(Reverse(Digits[num])) = Abs(num)

(* One digit is found.                                                     *)
LEMMA LastDigit ==
  ASSUME NEW num \in Int, Quotient(num) = 0
  PROVE  DigitsOf(num)
<1>1. /\ Remainder(num) \in -9..9 /\ num = Remainder(num)
  <2>1. /\ Remainder(num) \in -9..9
        /\ num = 10 * Quotient(num) + Remainder(num)
    BY QuotientIs, Zenon
  <2>2. PICK remainder \in -9..9 : remainder = Remainder(num)
    BY <2>1, Zenon
  <2>3. num = 10 * 0 + remainder
    BY <2>1, <2>2, Zenon
  <2> QED
    BY <2>2, <2>3
<1>2. Zero(num) = Decimals[Abs(num) + 1] /\ Abs(num) \in 0..9
      /\ (num # 0 => Zero(num) # "0")
  BY <1>1, ZeroIs
<1>3. Digits[num] = <<Zero(num)>> \o <<>>
  BY <1>1, DigitsAre DEF DigitsStep
<1>4. PICK char \in Decimal : char = Zero(num)
  BY <1>2 DEF Decimal
<1>5. Digits[num] = <<char>>
  BY <1>3, <1>4
<1>6. <<>> \in Seq(Decimal) /\ Reverse(<<>>) = <<>>
  BY DEF Reverse
<1>7. ValueOf(<<>>) = 0
  BY <1>6, ValuesAre
<1>8. Reverse(Digits[num]) = Append(<<>>, char)
  <2>1. Reverse(<<char>> \o <<>>) = Append(Reverse(<<>>), char)
    BY <1>6, ReverseOfMore
  <2> QED
    BY <1>3, <1>4, <1>6, <2>1
<1>9. ValueOf(Append(<<>>, char)) = 10 * ValueOf(<<>>) + Abs(num)
  BY <1>2, <1>4, <1>6, ValueAppend
<1>10. ValueOf(Reverse(Digits[num])) = Abs(num)
  BY <1>2, <1>7, <1>8, <1>9
<1> QED
  BY <1>2, <1>4, <1>5, <1>10 DEF DigitsOf

(* One more digit is found.                                                *)
LEMMA OneMoreDigit ==
  ASSUME NEW num \in Int, Quotient(num) # 0, DigitsOf(Quotient(num))
  PROVE  DigitsOf(num)
<1>1. /\ Remainder(num) \in -9..9
      /\ Abs(num) = 10 * Abs(Quotient(num)) + Abs(Remainder(num))
      /\ num # 0
  BY QuotientIs
<1>2. PICK d \in 0..9 : d = Abs(Remainder(num)) /\ Zero(Remainder(num)) = Decimals[d + 1]
  BY <1>1, ZeroIs
<1>3. PICK char \in Decimal : char = Decimals[d + 1]
  BY DEF Decimal
<1>4. PICK rest \in Seq(Decimal) :
        /\ rest = Digits[Quotient(num)] /\ rest # <<>>
        /\ rest[Len(rest)] # "0"
        /\ ValueOf(Reverse(rest)) = Abs(Quotient(num))
  BY DEF DigitsOf
<1>5. Digits[num] = <<char>> \o rest
  BY <1>2, <1>3, <1>4, DigitsAre DEF DigitsStep
<1>6. PICK all : all = <<char>> \o rest
  OBVIOUS
<1>7. /\ all \in Seq(Decimal) /\ all # <<>>
      /\ all[Len(all)] # "0"
  <2>1. Len(rest) \in Nat /\ Len(rest) # 0
    BY <1>4, EmptySeq
  <2>2. all \in Seq(Decimal) /\ Len(all) = Len(rest) + 1
        /\ all[Len(rest) + 1] = rest[Len(rest)]
    BY <1>6, <2>1
  <2> QED
    BY <1>4, <2>1, <2>2, EmptySeq
<1>8. ValueOf(Reverse(all)) = Abs(num)
  <2>1. /\ Reverse(all) = Append(Reverse(rest), Decimals[d + 1])
        /\ Reverse(rest) \in Seq(Decimal)
    BY <1>3, <1>6, ReverseOfMore
  <2>2. ValueOf(Append(Reverse(rest), Decimals[d + 1])) = 10 * ValueOf(Reverse(rest)) + d
    BY <2>1, ValueAppend
  <2> QED
    BY <1>1, <1>2, <1>4, <2>1, <2>2
<1>9. Digits[num] = all
  BY <1>5, <1>6
<1> QED
  BY <1>1, <1>7, <1>8, <1>9 DEF DigitsOf

(* The digits that are found are those of the number, whatever it is.      *)
LEMMA AllDigits ==
  ASSUME NEW num \in Int
  PROVE  DigitsOf(num)
<1> DEFINE S == {k \in Nat : \A x \in Int : Abs(x) <= k => DigitsOf(x)}
<1>1. 0 \in S
  <2>1. \A x \in Int : Abs(x) <= 0 => Quotient(x) = 0
    <3>1. \A x \in Int : Abs(x) <= 0 => x = 0
      BY DEF Abs
    <3> QED
      BY <3>1, QuotientIs
  <2> QED
    BY <2>1, LastDigit
<1>2. ASSUME NEW k \in 1..Abs(num), k - 1 \in S PROVE k \in S
  <2>1. ASSUME NEW x \in Int, Abs(x) <= k PROVE DigitsOf(x)
    <3>1. CASE Quotient(x) = 0
      BY <3>1, LastDigit
    <3>2. CASE Quotient(x) # 0
      <4>1. Quotient(x) \in Int /\ Abs(Quotient(x)) <= k - 1
        BY <2>1, <3>2, QuotientIs
      <4>2. DigitsOf(Quotient(x))
        BY <1>2, <4>1
      <4> QED
        BY <3>2, <4>2, OneMoreDigit
    <3> QED
      BY <3>1, <3>2
  <2> QED
    BY <2>1
<1>3. Abs(num) \in Nat
  BY QuotientIs
<1>4. 0..Abs(num) \subseteq S
  <2> HIDE DEF S
  <2> QED
    BY <1>1, <1>2, <1>3, Induction
<1> QED
  <2>1. Abs(num) \in S
    BY <1>3, <1>4
  <2> QED
    BY <2>1, <1>3

(* Turning round a sequence makes its last element the first one.          *)
LEMMA ReverseFirst ==
  ASSUME NEW S, NEW seq \in Seq(S), seq # <<>>
  PROVE  /\ Reverse(seq) \in Seq(S) /\ Len(Reverse(seq)) = Len(seq)
         /\ Reverse(seq)[1] = seq[Len(seq)]
<1>1. Len(seq) \in Nat /\ Len(seq) # 0
  BY EmptySeq
<1>2. Reverse(seq) = [i \in 1..Len(seq) |-> seq[(Len(seq) - i) + 1]]
  BY DEF Reverse
<1>3. \A i \in 1..Len(seq) : seq[(Len(seq) - i) + 1] \in S
  BY <1>1
<1>4. 1 \in 1..Len(seq) /\ (Len(seq) - 1) + 1 = Len(seq)
  BY <1>1
<1> QED
  BY <1>1, <1>2, <1>3, <1>4

(* Turning round puts what is last in front of the rest.                   *)
LEMMA ReverseOfLast ==
  ASSUME NEW S, NEW seq \in Seq(S), NEW char
  PROVE  /\ Head(Reverse(seq \o <<char>>)) = char
         /\ Tail(Reverse(seq \o <<char>>)) = Reverse(seq)
<1>1. Len(seq) \in Nat
  OBVIOUS
<1>2. PICK all : all = seq \o <<char>>
  OBVIOUS
<1>3. /\ Len(all) = Len(seq) + 1 /\ all[Len(seq) + 1] = char
      /\ \A i \in 1..Len(seq) : all[i] = seq[i]
  BY <1>1, <1>2
<1>4. PICK back : back = Reverse(all)
  OBVIOUS
<1>5. back = [i \in 1..(Len(seq) + 1) |-> all[((Len(seq) + 1) - i) + 1]]
  BY <1>3, <1>4 DEF Reverse
<1>6. Head(back) = char
  <2>1. 1 \in 1..(Len(seq) + 1) /\ ((Len(seq) + 1) - 1) + 1 = Len(seq) + 1
    BY <1>1
  <2>2. back[1] = char
    BY <1>3, <1>5, <2>1
  <2> QED
    BY <2>2
<1>7. Tail(back) = [i \in 1..Len(seq) |-> back[i + 1]]
  <2>1. Len(back) = Len(seq) + 1
    BY <1>1, <1>5
  <2>2. Tail(back) = [i \in 1..(Len(back) - 1) |-> back[i + 1]]
    BY <1>1, <1>5, <2>1
  <2> QED
    BY <1>1, <2>1, <2>2
<1>8. \A i \in 1..Len(seq) : back[i + 1] = seq[(Len(seq) - i) + 1]
  <2> SUFFICES ASSUME NEW i \in 1..Len(seq) PROVE back[i + 1] = seq[(Len(seq) - i) + 1]
    OBVIOUS
  <2>1. /\ i + 1 \in 1..(Len(seq) + 1)
        /\ ((Len(seq) + 1) - (i + 1)) + 1 = (Len(seq) - i) + 1
        /\ (Len(seq) - i) + 1 \in 1..Len(seq)
    BY <1>1
  <2> QED
    BY <1>3, <1>5, <2>1
<1>9. Tail(back) = Reverse(seq)
  BY <1>7, <1>8 DEF Reverse
<1> QED
  BY <1>2, <1>4, <1>6, <1>9

(* FormatInteger writes the numeral of every number, negative or not.      *)
LEMMA CharactersAreNumeral ==
  ASSUME NEW num \in Int
  PROVE  /\ IsNumeral(Characters(num), num)
         /\ Characters(num) \in Seq(Decimal \cup {"-"})
         /\ Characters(num) # <<>>
<1>1. PICK found \in Seq(Decimal) :
        /\ found = Digits[num] /\ found # <<>>
        /\ num = 0 => Len(found) = 1
        /\ num # 0 => found[Len(found)] # "0"
        /\ ValueOf(Reverse(found)) = Abs(num)
  BY AllDigits DEF DigitsOf
<1>2. PICK places : places = Reverse(found)
  OBVIOUS
<1>3. /\ places \in Seq(Decimal) /\ Len(places) = Len(found)
      /\ places[1] = found[Len(found)]
  BY <1>1, <1>2, ReverseFirst
<1>4. /\ places # <<>>
      /\ \A i \in DOMAIN places : \E d \in 0..9 : places[i] = Decimals[d + 1]
      /\ Len(places) > 1 => places[1] # "0"
      /\ ValueOf(places) = Abs(num)
  <2>1. places # <<>>
    BY <1>1, <1>3, EmptySeq
  <2>2. \A i \in DOMAIN places : places[i] \in Decimal
    BY <1>3
  <2>3. Len(places) > 1 => places[1] # "0"
    BY <1>1, <1>3
  <2> QED
    BY <1>1, <1>2, <2>1, <2>2, <2>3 DEF Decimal
<1>5. CASE num < 0
  <2>1. Characters(num) = Reverse(found \o <<"-">>)
    BY <1>1, <1>5 DEF Characters
  <2>2. Head(Characters(num)) = "-" /\ Tail(Characters(num)) = places
    BY <1>2, <2>1, ReverseOfLast
  <2>3. IsNumeral(Characters(num), num)
    BY <1>4, <1>5, <2>2, Zenon DEF IsNumeral, Abs
  <2>4. found \o <<"-">> \in Seq(Decimal \cup {"-"}) /\ found \o <<"-">> # <<>>
    <3>1. found \in Seq(Decimal \cup {"-"}) /\ <<"-">> \in Seq(Decimal \cup {"-"})
      OBVIOUS
    <3> QED
      BY <3>1
  <2>5. /\ Characters(num) \in Seq(Decimal \cup {"-"})
        /\ Len(Characters(num)) = Len(found \o <<"-">>)
    BY <2>1, <2>4, ReverseFirst
  <2> QED
    BY <2>3, <2>4, <2>5, EmptySeq
<1>6. CASE ~(num < 0)
  <2>1. Characters(num) = places
    <3>1. found \o <<>> = found
      BY <1>1
    <3> QED
      BY <1>1, <1>2, <1>6, <3>1 DEF Characters
  <2>2. IsNumeral(Characters(num), num)
    BY <1>4, <1>6, <2>1, Zenon DEF IsNumeral, Abs
  <2>3. places \in Seq(Decimal \cup {"-"})
    BY <1>3
  <2> QED
    BY <1>4, <2>1, <2>2, <2>3
<1> QED
  BY <1>5, <1>6

-----------------------------------------------------------------------------
(* A line is put together piece by piece.                                  *)

\* The characters of a stream (to the provers a literal is no string).
Char == STRING \cup Decimal \cup Levels \cup {"-", "t", "i", "f", ":", "\n"}

\* The pieces that operator<< is given, those of the Logger included.
Said == {piece \in [kind : {"number"}, num : Int] :
           Len(Characters(piece.num)) < kNum2MaxStringLength}
        \cup [kind : {"text"}, data : Seq(Char)]

Data(piece) == IF piece.kind = "number" THEN Characters(piece.num) ELSE piece.data

\* So much of the line that a short piece may be missing.
IsFull(buf) == Len(buf) > kSmallSize - kNum2MaxStringLength

(* What a piece says is a sequence of characters; a number, which fits     *)
(* where there is room for the longest, is not empty and is its numeral.   *)
LEMMA PieceSays ==
  ASSUME NEW piece \in Said
  PROVE  /\ Data(piece) \in Seq(Char)
         /\ piece.kind = "number" => /\ Len(Data(piece)) < kNum2MaxStringLength
                                     /\ Data(piece) = Characters(piece.num)
                                     /\ IsNumeral(Characters(piece.num), piece.num)
         /\ piece.kind # "number" => Data(piece) = piece.data
<1>1. CASE piece.kind = "number"
  <2>1. piece.num \in Int /\ Len(Characters(piece.num)) < kNum2MaxStringLength
    BY <1>1 DEF Said
  <2>2. /\ IsNumeral(Characters(piece.num), piece.num)
        /\ Characters(piece.num) \in Seq(Decimal \cup {"-"})
    BY <2>1, CharactersAreNumeral
  <2>3. Decimal \cup {"-"} \subseteq Char
    BY DEF Char
  <2>4. Characters(piece.num) \in Seq(Char)
    BY <2>2, <2>3
  <2> QED
    BY <1>1, <2>1, <2>2, <2>4 DEF Data
<1>2. CASE piece.kind # "number"
  <2>1. piece.data \in Seq(Char)
    BY <1>2 DEF Said
  <2> QED
    BY <1>2, <2>1 DEF Data
<1> QED
  BY <1>1, <1>2

(* An insertion adds all of a piece or leaves the stream as good as full,  *)
(* takes nothing away and does not exceed the stream.                      *)
LEMMA InsertAdds ==
  ASSUME NEW buf \in Seq(Char), Len(buf) <= kSmallSize, NEW piece \in Said
  PROVE  /\ Insert(buf, piece) \in Seq(Char)
         /\ Len(Insert(buf, piece)) <= kSmallSize
         /\ Len(Insert(buf, piece)) >= Len(buf)
         /\ Insert(buf, piece) = buf \o Data(piece) \/ IsFull(Insert(buf, piece))
<1>1. /\ kSmallSize \in Nat /\ kNum2MaxStringLength \in Nat
      /\ 0 < kNum2MaxStringLength
  BY LoggerAssumption
<1>2. PICK data \in Seq(Char) : data = Data(piece)
  BY PieceSays
<1>3. PICK room \in Nat : room = kSmallSize - Len(buf) /\ room = writablebytes(buf)
  BY <1>1 DEF writablebytes
<1>4. PICK new : new = Insert(buf, piece)
  OBVIOUS
<1>5. /\ buf \o data \in Seq(Char)
      /\ Len(buf \o data) = Len(buf) + Len(data)
      /\ Len(buf) \in Nat /\ Len(data) \in Nat
  OBVIOUS
<1>6. CASE piece.kind = "number"
  <2>1. data = Characters(piece.num) /\ Len(data) < kNum2MaxStringLength
    BY <1>2, <1>6, PieceSays
  <2>2. new = IF room >= kNum2MaxStringLength THEN buf \o data ELSE buf
    BY <1>3, <1>4, <1>6, <2>1 DEF Insert, FormatInteger
  <2>3. CASE room >= kNum2MaxStringLength
    <3>1. new = buf \o data /\ Len(data) <= room
      BY <1>1, <1>5, <2>1, <2>2, <2>3
    <3>2. Len(new) <= kSmallSize /\ Len(new) >= Len(buf)
      BY <1>1, <1>3, <1>5, <3>1
    <3> QED
      BY <1>2, <1>4, <1>5, <3>1, <3>2
  <2>4. CASE ~(room >= kNum2MaxStringLength)
    BY <1>1, <1>3, <1>4, <1>5, <2>2, <2>4 DEF IsFull
  <2> QED
    BY <2>3, <2>4
<1>7. CASE piece.kind # "number"
  <2>1. new = buf \o (IF room < Len(data) THEN SubSeq(data, 1, room) ELSE data)
    BY <1>2, <1>3, <1>4, <1>7, PieceSays DEF Insert, FixedAppend
  <2>2. CASE room < Len(data)
    <3>1. \A i \in 1..room : data[i] \in Char
      BY <1>5, <2>2
    <3>2. SubSeq(data, 1, room) \in Seq(Char) /\ Len(SubSeq(data, 1, room)) = room
      BY <3>1, SubSeqProperties
    <3>3. /\ new \in Seq(Char) /\ Len(new) = Len(buf) + room
      BY <2>1, <2>2, <3>2
    <3> QED
      BY <1>1, <1>3, <1>4, <1>5, <3>3 DEF IsFull
  <2>3. CASE ~(room < Len(data))
    BY <1>1, <1>2, <1>3, <1>4, <1>5, <2>1, <2>3
  <2> QED
    BY <2>2, <2>3
<1> QED
  BY <1>6, <1>7

\* f gives the stream after the first insertions.
GivesStreams(f, statement, n) ==
  f = [i \in 0..n |-> IF i = 0 THEN <<>> ELSE Insert(f[i - 1], statement[i])]

\* f puts the first of the sequences of list together.
GivesJoins(f, list, n) ==
  f = [i \in 1..n |-> IF i = 1 THEN list[i] ELSE f[i - 1] \o list[i]]

(* There are such functions.                                               *)
LEMMA StreamsExist ==
  ASSUME NEW statement, NEW n \in Nat
  PROVE  \E f : GivesStreams(f, statement, n)
<1> DEFINE S == {k \in Nat : \E f : GivesStreams(f, statement, k)}
<1>1. 0 \in S
  <2> DEFINE f == [i \in 0..0 |-> <<>>]
  <2>1. GivesStreams(f, statement, 0)
    BY DEF GivesStreams
  <2> QED
    BY <2>1
<1>2. ASSUME NEW k \in 1..n, k - 1 \in S PROVE k \in S
  <2>1. PICK f : GivesStreams(f, statement, k - 1)
    BY <1>2
  <2> DEFINE g == [i \in 0..k |-> IF i = 0 THEN <<>>
                                  ELSE Insert(f[i - 1], statement[i])]
  <2>2. \A i \in 0..(k - 1) : g[i] = f[i]
    <3>1. \A i \in 0..(k - 1) : i \in 0..k
      OBVIOUS
    <3>2. \A i \in 0..(k - 1) : f[i] = IF i = 0 THEN <<>>
                                       ELSE Insert(f[i - 1], statement[i])
      BY <2>1, Zenon DEF GivesStreams
    <3> QED
      BY <3>1, <3>2
  <2>3. \A i \in 0..k : i # 0 => i - 1 \in 0..(k - 1)
    OBVIOUS
  <2>4. g = [i \in 0..k |-> IF i = 0 THEN <<>> ELSE Insert(g[i - 1], statement[i])]
    BY <2>2, <2>3
  <2>5. GivesStreams(g, statement, k)
    BY <2>4, Zenon DEF GivesStreams
  <2> QED
    BY <2>5
<1>3. 0..n \subseteq S
  <2> HIDE DEF S
  <2> QED
    BY <1>1, <1>2, Induction
<1> QED
  BY <1>3

(* And such.                                                               *)
LEMMA JoinsExist ==
  ASSUME NEW list, NEW n \in Nat
  PROVE  \E f : GivesJoins(f, list, n)
<1> DEFINE S == {k \in Nat : \E f : GivesJoins(f, list, k)}
<1>1. 0 \in S
  <2> DEFINE f == [i \in 1..0 |-> <<>>]
  <2>1. GivesJoins(f, list, 0)
    BY DEF GivesJoins
  <2> QED
    BY <2>1
<1>2. ASSUME NEW k \in 1..n, k - 1 \in S PROVE k \in S
  <2>1. PICK f : GivesJoins(f, list, k - 1)
    BY <1>2
  <2> DEFINE g == [i \in 1..k |-> IF i = 1 THEN list[i] ELSE f[i - 1] \o list[i]]
  <2>2. \A i \in 1..(k - 1) : g[i] = f[i]
    <3>1. \A i \in 1..(k - 1) : i \in 1..k
      OBVIOUS
    <3>2. \A i \in 1..(k - 1) : f[i] = IF i = 1 THEN list[i]
                                       ELSE f[i - 1] \o list[i]
      BY <2>1, Zenon DEF GivesJoins
    <3> QED
      BY <3>1, <3>2
  <2>3. \A i \in 1..k : i # 1 => i - 1 \in 1..(k - 1)
    OBVIOUS
  <2>4. g = [i \in 1..k |-> IF i = 1 THEN list[i] ELSE g[i - 1] \o list[i]]
    BY <2>2, <2>3
  <2>5. GivesJoins(g, list, k)
    BY <2>4, Zenon DEF GivesJoins
  <2> QED
    BY <2>5
<1>3. 0..n \subseteq S
  <2> HIDE DEF S
  <2> QED
    BY <1>1, <1>2, Induction
<1> QED
  BY <1>3

\* What the pieces of a statement say.
DataOf(statement) ==
  [i \in DOMAIN statement |->
     IF statement[i].kind = "number" THEN Characters(statement[i].num)
     ELSE statement[i].data]

(* A line is all of its statement or as good as full, and not empty when   *)
(* the statement begins with a text that is not.                           *)
LEMMA LineIs ==
  ASSUME NEW statement \in Seq(Said), statement # <<>>,
         statement[1].kind # "number", Len(statement[1].data) = 1
  PROVE  /\ Len(LineOf(statement)) \in 1..kSmallSize
         /\ LineOf(statement) = Unbounded(statement) \/ IsFull(LineOf(statement))
<1>1. Len(statement) \in Nat /\ Len(statement) # 0 /\ 1 \in 1..Len(statement)
  BY EmptySeq
<1>2. \A i \in 1..Len(statement) : statement[i] \in Said
  OBVIOUS
<1>3. PICK n \in Nat : n = Len(statement)
  BY <1>1
<1>4. PICK f : f = CHOOSE g : GivesStreams(g, statement, n)
  OBVIOUS
<1>5. PICK all : all = CHOOSE g : GivesJoins(g, DataOf(statement), n)
  OBVIOUS
<1>6. GivesStreams(f, statement, n) /\ GivesJoins(all, DataOf(statement), n)
  BY <1>4, <1>5, StreamsExist, JoinsExist
<1>7. /\ LineOf(statement) = f[n]
      /\ Unbounded(statement) = all[n]
  <2>1. LineOf(statement) = f[n]
    BY <1>3, <1>4, Zenon DEF LineOf, GivesStreams
  <2>2. Len(DataOf(statement)) = n
    BY <1>3 DEF DataOf
  <2>3. FlattenSeq(DataOf(statement)) = all[n]
    BY <1>1, <1>3, <1>5, <2>2, Zenon DEF FlattenSeq, GivesJoins
  <2> QED
    BY <2>1, <2>3 DEF Unbounded, DataOf
<1>8. \A i \in 1..n : DataOf(statement)[i] = Data(statement[i])
  BY <1>3 DEF DataOf, Data
<1>9. /\ f[0] = <<>>
      /\ \A i \in 1..n : f[i] = Insert(f[i - 1], statement[i])
  <2>1. \A i \in 0..n : f[i] = IF i = 0 THEN <<>> ELSE Insert(f[i - 1], statement[i])
    BY <1>6, Zenon DEF GivesStreams
  <2>2. 0 \in 0..n /\ \A i \in 1..n : i \in 0..n /\ i # 0
    BY <1>3
  <2> QED
    BY <2>1, <2>2, Zenon
<1>10. \A i \in 1..n : all[i] = IF i = 1 THEN Data(statement[1])
                                ELSE all[i - 1] \o Data(statement[i])
  <2>1. \A i \in 1..n : all[i] = IF i = 1 THEN DataOf(statement)[i]
                                 ELSE all[i - 1] \o DataOf(statement)[i]
    BY <1>6, Zenon DEF GivesJoins
  <2> QED
    BY <1>8, <2>1
<1> DEFINE P(i) == /\ f[i] \in Seq(Char) /\ Len(f[i]) <= kSmallSize
                   /\ i >= 1 => /\ Len(f[i]) >= 1
                                /\ f[i] = all[i] \/ IsFull(f[i])
           S == {i \in Nat : P(i)}
<1>11. 0 \in S
  <2>1. /\ <<>> \in Seq(Char) /\ Len(<<>>) = 0 /\ 0 <= kSmallSize
        /\ ~(0 >= 1)
    BY LoggerAssumption
  <2>2. P(0)
    BY <1>9, <2>1
  <2> QED
    BY <2>2
<1>12. ASSUME NEW i \in 1..n, i - 1 \in S PROVE i \in S
  <2>1. PICK buf \in Seq(Char) : buf = f[i - 1]
    BY <1>12
  <2>2. PICK piece \in Said : piece = statement[i]
    BY <1>2, <1>3
  <2>3. PICK new : new = Insert(buf, piece)
    OBVIOUS
  <2>4. f[i] = new
    BY <1>9, <2>1, <2>2, <2>3
  <2>5. Len(buf) <= kSmallSize
    BY <1>12, <2>1
  <2>6. /\ new \in Seq(Char) /\ Len(new) <= kSmallSize /\ Len(new) >= Len(buf)
        /\ new = buf \o Data(piece) \/ IsFull(new)
    BY <2>3, <2>5, InsertAdds
  <2>7. CASE i = 1
    <3>1. buf = <<>>
      BY <1>9, <2>1, <2>7
    <3>2. Data(piece) \in Seq(Char) /\ Len(Data(piece)) = 1 /\ all[i] = Data(piece)
      BY <1>10, <2>2, <2>7, PieceSays
    <3>3. buf \o Data(piece) = all[i] /\ Len(buf \o Data(piece)) = 1
      BY <3>1, <3>2
    <3>4. Len(new) >= 1
      <4>1. IsFull(new) => Len(new) >= 1
        BY <2>6, LoggerAssumption DEF IsFull
      <4> QED
        BY <2>6, <3>3, <4>1
    <3> QED
      BY <2>4, <2>6, <3>3, <3>4
  <2>8. CASE i # 1
    <3>1. /\ Len(buf) >= 1
          /\ buf = all[i - 1] \/ IsFull(buf)
      BY <1>12, <2>1, <2>8
    <3>2. all[i] = all[i - 1] \o Data(piece)
      BY <1>10, <2>2, <2>8
    <3>3. IsFull(buf) => IsFull(new)
      BY <2>6, LoggerAssumption DEF IsFull
    <3>4. new = all[i] \/ IsFull(new)
      BY <2>6, <3>1, <3>2, <3>3
    <3>5. Len(new) >= 1
      <4>1. Len(buf) \in Nat /\ Len(new) \in Nat
        BY <2>6
      <4> QED
        BY <2>6, <3>1, <4>1
    <3> QED
      BY <2>4, <2>6, <3>4, <3>5
  <2> QED
    BY <2>7, <2>8
<1>13. 0..n \subseteq S
  <2> HIDE DEF S
  <2> QED
    BY <1>11, <1>12, Induction
<1>14. P(n)
  BY <1>13
<1> QED
  BY <1>1, <1>3, <1>7, <1>14

(* Whatever the statement is given, what the Logger adds to it makes it    *)
(* pieces of which the first is a text.                                    *)
LEMMA StatementIs ==
  ASSUME NEW level \in Levels, NEW has_tid \in BOOLEAN, NEW pieces \in Seq(Piece),
         NEW line, Number(line) \in Piece
  PROVE  LET statement == Statement(level, has_tid, pieces, line)
         IN /\ statement \in Seq(Said) /\ statement # <<>>
            /\ statement[1].kind # "number" /\ Len(statement[1].data) = 1
<1>1. Piece \subseteq Said
  <2>1. Seq(STRING) \subseteq Seq(Char)
    BY DEF Char
  <2> QED
    BY <2>1 DEF Piece, Said
<1>2. \A char \in Char : Text(<<char>>) \in Said /\ Text(<<>>) \in Said
  BY DEF Text, Said
<1>3. /\ "t" \in Char /\ "i" \in Char /\ "f" \in Char /\ "-" \in Char
      /\ ":" \in Char /\ "\n" \in Char /\ level \in Char
  BY DEF Char
<1>4. PICK t \in Said : t = Text(<<"t">>)
  BY <1>2, <1>3
<1>5. Text(IF has_tid THEN <<"i">> ELSE <<>>) \in Said
  BY <1>2, <1>3
<1>6. PICK name \in Said : name = Text(<<level>>)
  BY <1>2, <1>3
<1>7. PICK tid \in Said : tid = Text(IF has_tid THEN <<"i">> ELSE <<>>)
  BY <1>5
<1>8. FormattedTime(level, has_tid) = <<t, tid, name>>
  BY <1>4, <1>6, <1>7, Zenon DEF FormattedTime
<1>9. Finish(line) \in Seq(Said)
  BY <1>1, <1>2, <1>3 DEF Finish, FileInfo
<1>10. pieces \in Seq(Said)
  BY <1>1
<1>11. PICK first \in Seq(Said) :
        first = FormattedTime(level, has_tid) /\ Len(first) = 3 /\ first[1] = t
  <2>1. /\ <<t, tid, name>> \in Seq(Said) /\ Len(<<t, tid, name>>) = 3
        /\ <<t, tid, name>>[1] = t
    OBVIOUS
  <2> QED
    BY <1>8, <2>1, Zenon
<1>12. PICK rest \in Seq(Said) : rest = pieces \o Finish(line)
  <2>1. pieces \o Finish(line) \in Seq(Said)
    BY <1>9, <1>10, ConcatProperties
  <2> QED
    BY <2>1, Zenon
<1>13. Statement(level, has_tid, pieces, line) = first \o rest
  <2>1. Statement(level, has_tid, pieces, line) = (first \o pieces) \o Finish(line)
    BY <1>11, Zenon DEF Statement
  <2>2. PICK end \in Seq(Said) : end = Finish(line)
    BY <1>9, Zenon
  <2>3. (first \o pieces) \o end = first \o (pieces \o end)
    BY <1>10, ConcatAssociative
  <2> QED
    BY <1>12, <2>1, <2>2, <2>3, Zenon
<1>14. /\ first \o rest \in Seq(Said) /\ Len(first \o rest) = 3 + Len(rest)
       /\ (first \o rest)[1] = t /\ Len(rest) \in Nat
  <2>1. Len(rest) \in Nat /\ 1 \in 1..(3 + Len(rest)) /\ 1 <= 3
    OBVIOUS
  <2>2. /\ first \o rest \in Seq(Said) /\ Len(first \o rest) = 3 + Len(rest)
        /\ \A i \in 1..(3 + Len(rest)) :
             (first \o rest)[i] = IF i <= 3 THEN first[i] ELSE rest[i - 3]
    <3>1. /\ first \o rest \in Seq(Said)
          /\ Len(first \o rest) = Len(first) + Len(rest)
          /\ \A i \in 1..(Len(first) + Len(rest)) :
               (first \o rest)[i] = IF i <= Len(first) THEN first[i]
                                    ELSE rest[i - Len(first)]
      BY ConcatProperties, Zenon
    <3>2. Len(first) = 3
      BY <1>11, Zenon
    <3> QED
      BY <3>1, <3>2, Zenon
  <2> QED
    BY <1>11, <2>1, <2>2
<1>15. first \o rest # <<>>
  BY <1>14, EmptySeq
<1>16. t.kind # "number" /\ Len(t.data) = 1
  BY <1>4 DEF Text
<1> QED
  BY <1>13, <1>14, <1>15, <1>16

-----------------------------------------------------------------------------
(* The lines of the log's users.                                           *)

(* What a statement gives to g_Output is a line that is whole or as good as*)
(* full, and it is not empty.                                              *)
LEMMA OutputIs ==
  ASSUME NEW statement \in Statements \cup Inputs, NEW has_tid \in BOOLEAN
  PROVE  /\ LineIsWholeOrFull(statement, has_tid)
         /\ Len(Output(statement, has_tid)) \in 1..kSmallSize
<1>1. /\ statement.level \in Levels /\ statement.pieces \in Seq(Piece)
      /\ Number(statement.line) \in Piece
  BY LoggerAssumption
<1>2. PICK said : said = Statement(statement.level, has_tid, statement.pieces,
                                   statement.line)
  OBVIOUS
<1>3. /\ said \in Seq(Said) /\ said # <<>>
      /\ said[1].kind # "number" /\ Len(said[1].data) = 1
  BY <1>1, <1>2, StatementIs
<1>4. PICK line : line = Output(statement, has_tid)
  OBVIOUS
<1>5. line = LineOf(said)
  BY <1>2, <1>4 DEF Output
<1>6. /\ Len(line) \in 1..kSmallSize
      /\ line = Unbounded(said) \/ Len(line) > kSmallSize - kNum2MaxStringLength
  BY <1>3, <1>5, LineIs DEF IsFull
<1>7. \A i \in DOMAIN said :
        said[i].kind = "number" => IsNumeral(Characters(said[i].num), said[i].num)
  <2>1. \A i \in DOMAIN said : said[i] \in Said
    BY <1>3
  <2> QED
    BY <2>1, PieceSays
<1>8. Len(line) <= kSmallSize
  BY <1>6, LoggerAssumption
<1>9. LineIsWholeOrFull(statement, has_tid)
  BY <1>2, <1>4, <1>6, <1>7, <1>8, Zenon DEF LineIsWholeOrFull
<1> QED
  BY <1>4, <1>6, <1>9

(* The lines that reach the log fit into a buffer.                         *)
LEMMA LengthsFit ==
  /\ Lengths \subseteq 1..kSmallSize
  /\ kSmallSize \in Nat /\ Cap \in Nat /\ kSmallSize <= Cap
<1>1. kSmallSize \in Nat /\ Cap \in Nat /\ kSmallSize <= Cap
  BY LoggerAssumption, AsyncLoggingAssumption
<1>2. ASSUME NEW statement \in Statements, NEW has_tid \in BOOLEAN
      PROVE  Len(Output(statement, has_tid)) \in 1..kSmallSize
  BY OutputIs
<1>3. Lengths \subseteq 1..kSmallSize
  BY <1>2 DEF Lengths, Lines
<1> QED
  BY <1>1, <1>3

(* A step of the log as it is used is one of the log with lines of any     *)
(* size.                                                                   *)
LEMMA LoggerStep == [LoggerNext]_vars => [Next]_vars
<1>1. Lengths \subseteq 1..Cap
  BY LengthsFit
<1> QED
  BY <1>1 DEF LoggerNext, Log, Next

(* The log that the LOG_ macros write to is the asynchronous log with lines*)
(* of one byte to a whole buffer: what is proved of it holds for the macros*)
(* (logging.cc, main.cc:24-27).                                            *)
THEOREM LoggerUsesTheLog == LoggerSpec => Spec
BY LoggerStep, PTL DEF LoggerSpec, Spec

(* So the lines of the macros are in the order of the calls, no two in a   *)
(* row are lost and what is not flushed is recent (asynclogging.cc:9-22,   *)
(* logfile.cc:18-38).                                                      *)
THEOREM LoggerKeepsItsLines ==
  LoggerSpec => [](LinesInOrder /\ LossesAreSingle /\ UnflushedIsRecent)
BY LoggerUsesTheLog, LinesKeepOrder, NoTwoInARowAreLost, UnflushedStaysRecent, PTL

\* The lines of current_ take no more than a stream each.
CurrentIsShort == BytesOf(current_) <= Len(current_.lines) * kSmallSize

(* A line adds no more than a stream to current_, and what replaces it is  *)
(* empty.                                                                  *)
LEMMA ShortNext == Types /\ CurrentIsShort /\ [LoggerNext]_vars => CurrentIsShort'
<1> SUFFICES ASSUME Types, CurrentIsShort, [LoggerNext]_vars PROVE CurrentIsShort'
  OBVIOUS
<1>0. kSmallSize \in Nat /\ Cap \in Nat
  BY LengthsFit
<1>1. ASSUME current_' = EmptyBuffer PROVE CurrentIsShort'
  BY <1>0, <1>1 DEF CurrentIsShort, BytesOf, EmptyBuffer
<1>2. ASSUME current_' = current_ PROVE CurrentIsShort'
  BY <1>2 DEF CurrentIsShort, BytesOf
<1>3. ASSUME NEW len \in Lengths, AppendLine(len) PROVE CurrentIsShort'
  <2>1. CASE AppendFits(len)
    <3>1. current_.lines \in Seq(Line) /\ current_.room \in Nat
      BY DEF Types, TypeOK, Buffer
    <3>2. len \in Nat /\ len <= kSmallSize
      BY LengthsFit
    <3>3. PICK n \in Nat : n = Len(current_.lines)
      BY <3>1
    <3>4. /\ current_'.room = current_.room - len
          /\ Len(current_'.lines) = n + 1
      BY <2>1, <3>1, <3>3 DEF AppendFits
    <3>5. Cap - current_.room <= n * kSmallSize
      BY <3>3 DEF CurrentIsShort, BytesOf
    <3>6. (n + 1) * kSmallSize = n * kSmallSize + kSmallSize
      BY <1>0
    <3>7. n * kSmallSize \in Nat
      BY <1>0
    <3>8. Cap - (current_.room - len) <= (n + 1) * kSmallSize
      BY <1>0, <3>1, <3>2, <3>5, <3>6, <3>7
    <3> QED
      BY <3>4, <3>8 DEF CurrentIsShort, BytesOf
  <2>2. CASE AppendRotates(len)
    BY <1>1, <2>2 DEF AppendRotates, Types, Spares
  <2> QED
    BY <1>3, <2>1, <2>2 DEF AppendLine
<1>4. CASE Swap
  <2>1. newbuffer_current = EmptyBuffer
    BY <1>4 DEF Swap, Types, Spares
  <2> QED
    BY <1>1, <1>4, <2>1 DEF Swap
<1>5. CASE Main \/ Clock \/ UNCHANGED vars
  BY <1>2, <1>5 DEF Main, StartAsyncLogging, LatchWaitReturns, Stop, JoinReturns,
     Clock, vars, queueVars
<1>6. CASE Start \/ While \/ Wait \/ Write \/ Roll \/ Refill \/ End
  BY <1>2, <1>6 DEF Start, While, Wait, Write, Roll, Refill, End, queueVars
<1> QED
  BY <1>3, <1>4, <1>5, <1>6 DEF LoggerNext, Log, ThreadFunc

(* A line is what its statement says, every integer the numeral of its     *)
(* value, unless the stream is as good as full; and current_ never holds   *)
(* more than a stream per line: for any statements, streams and buffers,   *)
(* and however the threads interleave (logstream.h:38-45 and 79-96).       *)
THEOREM LinesStayWhole == LoggerSpec => []LinesAreWholeOrFull
<1>1. AllAreWholeOrFull
  BY OutputIs DEF AllAreWholeOrFull
<1>2. Init => CurrentIsShort
  <2>1. kSmallSize \in Nat /\ Cap \in Nat
    BY LengthsFit
  <2> QED
    BY <2>1 DEF Init, CurrentIsShort, BytesOf, EmptyBuffer
<1>3. CurrentIsShort => LinesAreWholeOrFull
  BY <1>1 DEF CurrentIsShort, LinesAreWholeOrFull
<1>4. LoggerSpec => []Types
  BY LoggerStep, TypesInit, TypesNext, PTL DEF LoggerSpec
<1>5. LoggerSpec => []CurrentIsShort
  BY <1>2, <1>4, ShortNext, PTL DEF LoggerSpec
<1> QED
  BY <1>3, <1>5, PTL

=============================================================================
