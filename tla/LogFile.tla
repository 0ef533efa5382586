------------------------------- MODULE LogFile -------------------------------
(***************************************************************************)
(* The file of the asynchronous log (Logging/logfile.cc).  What Write is   *)
(* given stays in the FILE of the process until stdio writes it out or     *)
(* Flush does, and Flush is only called by a Write that finds more than    *)
(* kFlushInterval seconds between the last two.                            *)
(*                                                                         *)
(* The actions are those of one LogFile; file goes on over all the files   *)
(* of a log, which a file that has grown too large is replaced in.         *)
(***************************************************************************)
EXTENDS Integers, Sequences

CONSTANTS kFlushInterval,
          StartTime,  \* what time(nullptr) says first
          EndTime     \* bound: and last

ASSUME LogFileAssumption == /\ kFlushInterval \in Nat
                            /\ StartTime \in Nat
                            /\ StartTime > kFlushInterval
                            /\ EndTime \in Nat
                            /\ EndTime >= StartTime

VARIABLES
  now,             \* time(nullptr)
  file,            \* the lines written to the log's files
  times,           \* when each of them was written
  opened,          \* how many of them are in files that have been replaced
  flushed,         \* how many of them have left the process
  written_bytes_,
  lastwrite_,
  lastflush_

lineVars == <<file, times>>
logFileVars == <<lineVars, opened, flushed, written_bytes_, lastwrite_,
                 lastflush_>>

\* LogFile::LogFile: a log without a line, its clocks at 0.
LogFileInit ==
  /\ now = StartTime
  /\ file = <<>>
  /\ times = <<>>
  /\ opened = 0
  /\ flushed = 0
  /\ written_bytes_ = 0
  /\ lastwrite_ = 0
  /\ lastflush_ = 0

Tick ==
  /\ now < EndTime
  /\ now' = now + 1

\* lastwrite_ after a Write of len bytes.
WriteTime(len) == IF len # 0 THEN now ELSE lastwrite_

\* LogFile::Write.  Without Flush, stdio writes out what it likes.
WriteLines(lines, len) ==
  /\ file' = file \o lines
  /\ times' = times \o [i \in DOMAIN lines |-> now]
  /\ written_bytes_' = written_bytes_ + len
  /\ lastwrite_' = WriteTime(len)
  /\ \/ /\ WriteTime(len) - lastflush_ > kFlushInterval
        /\ flushed' = Len(file) + Len(lines)
        /\ lastflush_' = now
     \/ /\ ~(WriteTime(len) - lastflush_ > kFlushInterval)
        /\ flushed' \in flushed..(Len(file) + Len(lines))
        /\ UNCHANGED lastflush_
  /\ UNCHANGED opened

\* The new LogFile of a log that goes on.
NewFile ==
  /\ opened' = Len(file)
  /\ written_bytes_' = 0
  /\ lastwrite_' = 0
  /\ lastflush_' = 0
  /\ UNCHANGED lineVars

\* Fault: the old one is forgotten as it is.
ReopenUnflushed ==
  /\ NewFile
  /\ UNCHANGED flushed

\* log.reset(new LogFile(filepath_)): the old one is flushed and closed.
Reopen ==
  /\ NewFile
  /\ flushed' = Len(file)

\* LogFile::~LogFile.
Close ==
  /\ flushed' = Len(file)
  /\ UNCHANGED <<lineVars, opened, written_bytes_, lastwrite_, lastflush_>>

=============================================================================
