------------------------------- MODULE Logger -------------------------------
(***************************************************************************)
(* The log as its users see it: a LOG_ statement, in any thread, formats a *)
(* line on its own stack (LogStream) and gives it to g_Output, which main  *)
(* sets to the Append of the asynchronous log (AsyncLogging).              *)
(***************************************************************************)
EXTENDS AsyncLogging, LogStream

CONSTANTS g_level,    \* what SetLogLevel has been called with
          Statements, \* bound: the statements that log, [level, pieces, line]
          Inputs      \* bound: those whose lines are compared

\* What a statement is given: kNum2MaxStringLength is enough for an integer
\* and its '\0'.
Piece == {piece \in [kind : {"number"}, num : Int] :
            Len(Characters(piece.num)) < kNum2MaxStringLength}
         \cup [kind : {"text"}, data : Seq(STRING)]

ASSUME LoggerAssumption ==
  /\ kNum2MaxStringLength \in Nat
  /\ kSmallSize \in Nat
  /\ 0 < kNum2MaxStringLength /\ kNum2MaxStringLength <= kSmallSize
  /\ kSmallSize <= Cap
  /\ g_level \in Levels
  /\ \A statement \in Statements \cup Inputs :
       /\ statement.level \in Levels
       /\ statement.pieces \in Seq(Piece)
       /\ Number(statement.line) \in Piece

\* What the destructor of the statement's Logger gives to g_Output.
Output(statement, has_tid) ==
  LineOf(Statement(statement.level, has_tid, statement.pieces, statement.line))

\* The lines that reach AsyncOutputFunc: what a LOG_ macro tests comes first,
\* and the tid is there after the thread's first line.
Lines == {Output(statement, has_tid) :
            statement \in {s \in Statements : IsLogged(s.level, g_level)},
            has_tid \in BOOLEAN}

Lengths == {Len(line) : line \in Lines}

\* AsyncOutputFunc.
Log == \E len \in Lengths : AppendLine(len)

LoggerNext == Main \/ Log \/ ThreadFunc \/ Clock

LoggerSpec == Init /\ [][LoggerNext]_vars /\ Fairness

-----------------------------------------------------------------------------
(* Properties.                                                             *)

LineIsWholeOrFull(statement, has_tid) ==
  LET line == Output(statement, has_tid)
      said == Statement(statement.level, has_tid, statement.pieces, statement.line)
  IN /\ Len(line) <= kSmallSize
     /\ line = Unbounded(said) \/ Len(line) > kSmallSize - kNum2MaxStringLength
     /\ \A i \in DOMAIN said :
          said[i].kind = "number" => IsNumeral(Characters(said[i].num), said[i].num)

AllAreWholeOrFull ==
  \A statement \in Inputs, has_tid \in BOOLEAN :
    LineIsWholeOrFull(statement, has_tid)

(* A line is what the statement says, numerals included, unless its stream *)
(* was as good as full: an integer needs kNum2MaxStringLength characters of*)
(* room however short it is, and text is cut off (logstream.h:38-45 and    *)
(* 79-96).  It outgrows neither the stream nor what a line may take of a   *)
(* buffer of the log.                                                      *)
LinesAreWholeOrFull ==
  /\ AllAreWholeOrFull
  /\ BytesOf(current_) <= Len(current_.lines) * kSmallSize

=============================================================================
