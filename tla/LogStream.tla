------------------------------ MODULE LogStream ------------------------------
(***************************************************************************)
(* How a line of the log is put together (Logging/logstream.h, logging.h): *)
(* a Logger writes what it is given into the FixedBuffer of its LogStream, *)
(* a header before it and the place in the source behind it.               *)
(*                                                                         *)
(* A stream lives on the stack of its thread, so these are operators on its*)
(* content, the sequence of characters before cur_.  Lengths are scaled    *)
(* down; a text is so many characters "x".                                 *)
(***************************************************************************)
EXTENDS Integers, SequencesExt


CONSTANTS kSmallSize,            \* the size of the buffer
          kNum2MaxStringLength   \* what an integer and its '\0' may take

-----------------------------------------------------------------------------
(* FixedBuffer.                                                            *)

writablebytes(buf) == kSmallSize - Len(buf)

\* FixedBuffer::Append: what does not fit is cut off.
FixedAppend(buf, data) ==
  buf \o (IF writablebytes(buf) < Len(data)
          THEN SubSeq(data, 1, writablebytes(buf)) ELSE data)

-----------------------------------------------------------------------------
(* LogStream.                                                              *)

digits == <<"9", "8", "7", "6", "5", "4", "3", "2", "1", "0",
            "1", "2", "3", "4", "5", "6", "7", "8", "9">>

\* Fault: a remainder is taken never to be negative.
ZeroNotCentred(remainder) == digits[10 + (remainder % 10)]

\* zero[remainder]: the remainder of a negative number is negative.
Zero(remainder) == digits[10 + remainder]

\* C division rounds towards zero.
Quotient(num) == IF num < 0 THEN -((-num) \div 10) ELSE num \div 10
Remainder(num) == num - 10 * Quotient(num)

\* The digits in the order in which the loop of FormatInteger finds them.
Digits[num \in Int] ==
  <<Zero(Remainder(num))>>
    \o (IF Quotient(num) = 0 THEN <<>> ELSE Digits[Quotient(num)])

\* The characters it writes, turned round.
Characters(num) == Reverse(Digits[num] \o (IF num < 0 THEN <<"-">> ELSE <<>>))

\* LogStream::FormatInteger: without room for the longest there is none.
FormatInteger(buf, num) ==
  IF writablebytes(buf) >= kNum2MaxStringLength
  THEN buf \o Characters(num)
  ELSE buf

\* What operator<< is given: a short, int, long or bool is a number, anything
\* else a text.
Number(num) == [kind |-> "number", num |-> num]
Text(data) == [kind |-> "text", data |-> data]

\* operator<<.
Insert(buf, piece) ==
  IF piece.kind = "number" THEN FormatInteger(buf, piece.num)
                           ELSE FixedAppend(buf, piece.data)

-----------------------------------------------------------------------------
(* Logger.                                                                 *)

Levels == {"DEBUG", "INFO", "WARN", "ERROR", "FATAL"}

Rank == [DEBUG |-> 0, INFO |-> 1, WARN |-> 2, ERROR |-> 3, FATAL |-> 4]

\* LOG_DEBUG and LOG_INFO look at g_level, the others do not.
IsLogged(level, g_level) ==
  level \in {"DEBUG", "INFO"} => Rank[g_level] <= Rank[level]

\* FormattedTime: the time, the thread's number once CurrentThread::tid has
\* been called in it, and GetLogLevel.
FormattedTime(level, has_tid) ==
  <<Text(<<"t">>), Text(IF has_tid THEN <<"i">> ELSE <<>>), Text(<<level>>)>>

\* SourceClass: the file's name without its directories.
FileInfo == Text(<<"f">>)

\* Implement::Finish: " - ", the file, ':', the line's number and the end of
\* the line.
Finish(line) ==
  <<Text(<<"-">>), FileInfo, Text(<<":">>), Number(line), Text(<<"\n">>)>>

\* All that goes into the stream from the Logger's constructor to its
\* destructor.
Statement(level, has_tid, pieces, line) ==
  FormattedTime(level, has_tid) \o pieces \o Finish(line)

\* What g_Output is given, once all of a statement is inserted.
LineOf(statement) ==
  LET buf[i \in 0..Len(statement)] ==
        IF i = 0 THEN <<>> ELSE Insert(buf[i - 1], statement[i])
  IN buf[Len(statement)]

-----------------------------------------------------------------------------
(* What the line should be.                                                *)

Decimals == <<"0", "1", "2", "3", "4", "5", "6", "7", "8", "9">>

\* The number that decimal places stand for, the first of them the highest.
ValueOf(places) ==
  LET value[i \in 0..Len(places)] ==
        IF i = 0 THEN 0
        ELSE 10 * value[i - 1]
             + (CHOOSE d \in 0..9 : Decimals[d + 1] = places[i])
  IN value[Len(places)]

\* These characters are the decimal numeral of num.
IsNumeral(chars, num) ==
  LET places == IF num < 0 THEN Tail(chars) ELSE chars
  IN /\ num < 0 => Head(chars) = "-"
     /\ places # <<>>
     /\ \A i \in DOMAIN places : \E d \in 0..9 : places[i] = Decimals[d + 1]
     /\ Len(places) > 1 => places[1] # "0"
     /\ ValueOf(places) = (IF num < 0 THEN -num ELSE num)

\* All of a statement, one piece after the other.
Unbounded(statement) ==
  FlattenSeq([i \in DOMAIN statement |->
                IF statement[i].kind = "number" THEN Characters(statement[i].num)
                ELSE statement[i].data])

=============================================================================
