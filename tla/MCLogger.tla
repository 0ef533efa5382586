------------------------------ MODULE MCLogger ------------------------------
EXTENDS Logger

\* The integers that are logged: those of a byte, at the ends and between.
MCNumbers == {-128, -127, -10, -7, 0, 9, 10, 99, 100, 127}

MCPieces == {Number(num) : num \in MCNumbers}
            \cup {Text([i \in 1..n |-> "x"]) : n \in {0, 1, 5, 12}}

MCInputs ==
  {[level |-> "WARN", pieces |-> pieces, line |-> line] :
     pieces \in {<<>>} \cup [1..2 -> MCPieces], line \in {7, 42}}

\* One that is not logged, one of the shortest and one that fills a stream.
MCStatements ==
  {[level |-> "DEBUG", pieces |-> <<>>, line |-> 7],
   [level |-> "ERROR", pieces |-> <<>>, line |-> 7],
   [level |-> "FATAL", pieces |-> <<Text([i \in 1..18 |-> "x"])>>, line |-> 7]}

=============================================================================
