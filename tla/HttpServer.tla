----------------------------- MODULE HttpServer -----------------------------
(***************************************************************************)
(* Requests on one connection: HttpServer::MessageCallback, the parser     *)
(* state HttpContent keeps between two reads, and the answers.             *)
(*                                                                         *)
(* The parser looks at nothing before it has found a CRLF, so input is a   *)
(* sequence of lines, each complete once its CRLF is there; a read that    *)
(* stops within a line adds no line.  A line is the sequence of its words; *)
(* the colon of a header is a word.                                        *)
(***************************************************************************)
EXTENDS HttpResponse, Sequences, FiniteSets

CONSTANTS Lines,        \* bound: the lines a client may send
          Streams,      \* sequences of them a client may send at its own pace
          Requests,     \* those of one that waits for each answer
          WithoutQuery  \* WithoutQuery[word]: what comes before the "?" of a
                        \* word that has one

-----------------------------------------------------------------------------
(* What the parser makes of a line (HttpRequest).                          *)

Methods == {"GET", "POST", "PUT", "DELETE", "TRACE", "OPTIONS", "CONNECT",
            "PATCH"}

Versions == {"HTTP/1.0", "HTTP/1.1"}

\* The path of a request's target: the query is cut off.
Path(target) ==
  IF target \in DOMAIN WithoutQuery THEN WithoutQuery[target] ELSE target

\* ParseRequestLine looks for a "?" up to the end of the line and has no path
\* for one behind the target: such lines are left out.
ASSUME HttpServerAssumption ==
  /\ Streams \subseteq Seq(Lines)
  /\ Requests \subseteq Seq(Lines)
  /\ \A line \in Lines : \A i \in 3..Len(line) :
       line[1] \in Methods => line[i] \notin DOMAIN WithoutQuery

\* ParseRequestLine returns true: a method, a path and a version.
IsRequestLine(line) ==
  /\ Len(line) = 3
  /\ line[1] \in Methods
  /\ line[3] \in Versions

\* There is a colon before the CRLF.
HasColon(line) == \E i \in DOMAIN line : line[i] = ":"

VARIABLES
  waits,        \* the client waits for each answer
  sent,         \* the lines it sends
  unread,       \* those of them not yet read
  buffer,       \* input_buffer_
  parse_state,  \* parse_state_
  request,      \* request_: of its headers, "Connection"
  pc,           \* where the thread of the connection is
  closing,      \* IsShutdown()
  answers       \* what it has sent

clientVars == <<waits, sent>>
vars == <<clientVars, unread, buffer, parse_state, request, pc, closing, answers>>

TypeOK ==
  /\ waits \in BOOLEAN
  /\ sent \in Streams \cup Requests
  /\ unread \in Seq(Lines)
  /\ buffer \in Seq(Lines)
  /\ parse_state \in {"kParseRequestLine", "kParseHeaders",
                      "kParseGotCompleteRequest"}
  /\ request \in [method : Methods \cup {"none"}, path : STRING,
                  version : Versions \cup {"none"}, connection : STRING]
  /\ pc \in {"poll", "parse", "answer"}
  /\ closing \in BOOLEAN
  /\ answers \in Seq([status : {200, 400, 404}, body : Nat,
                      length : Nat \cup {NoLength}])

\* GetHeader of a name that has not been sent is "".
NoRequest == [method |-> "none", path |-> "", version |-> "none",
              connection |-> ""]

EmptyLine == <<>>

Init ==
  /\ \/ waits = FALSE /\ sent \in Streams
     \/ waits = TRUE /\ sent \in Requests
  /\ unread = sent
  /\ buffer = <<>>
  /\ parse_state = "kParseRequestLine"
  /\ request = NoRequest
  /\ pc = "poll"
  /\ closing = FALSE
  /\ answers = <<>>

-----------------------------------------------------------------------------
(* Reading.                                                                *)

\* A client that waits sends nothing between the empty line of a request and
\* its answer: line n may follow the lines read before it.
MaySend(n) ==
  LET before == 1..(Len(sent) - Len(unread) + n - 1) IN
  waits => Cardinality({i \in before : sent[i] = EmptyLine}) <= Len(answers)

\* TcpConnection::HandleMessage and the start of MessageCallback: a read
\* returns up to n complete lines, none when it stops within the next one.
HandleMessage ==
  /\ pc = "poll"
  /\ unread # <<>>
  /\ \E n \in 0..Len(unread) :
       /\ MaySend(IF n = 0 THEN 1 ELSE n)
       /\ buffer' = buffer \o SubSeq(unread, 1, n)
       /\ unread' = SubSeq(unread, n + 1, Len(unread))
  /\ pc' = IF closing THEN "poll" ELSE "parse"
  /\ UNCHANGED <<clientVars, parse_state, request, closing, answers>>

-----------------------------------------------------------------------------
(* HttpContent::ParseContent: an action is a turn of its while loop.       *)

FindCRLF == buffer # <<>>
Line == Head(buffer)

\* RetrieveUntilIndex(CRLF + 2).
AfterLine == Tail(buffer)

\* Fault: the parser starts over with the next read.
StartOver ==
  /\ pc = "parse"
  /\ ~FindCRLF
  /\ pc' = "poll"
  /\ parse_state' = "kParseRequestLine"
  /\ UNCHANGED <<clientVars, unread, buffer, request, closing, answers>>

\* No CRLF in the buffer: the parser waits for more, in the state it is in.
NoMoreLine ==
  /\ pc = "parse"
  /\ ~FindCRLF
  /\ pc' = "poll"
  /\ UNCHANGED <<clientVars, unread, buffer, parse_state, request, closing, answers>>

ParseRequestLine ==
  /\ pc = "parse"
  /\ parse_state = "kParseRequestLine"
  /\ FindCRLF
  /\ IsRequestLine(Line)
  /\ request' = [request EXCEPT !.method = Line[1], !.path = Path(Line[2]),
                                !.version = Line[3]]
  /\ parse_state' = "kParseHeaders"
  /\ buffer' = AfterLine
  /\ UNCHANGED <<clientVars, unread, pc, closing, answers>>

\* ParseRequestLine fails: MessageCallback sends "400 Bad Request" and calls
\* Shutdown.
BadRequestLine ==
  /\ pc = "parse"
  /\ parse_state = "kParseRequestLine"
  /\ FindCRLF
  /\ ~IsRequestLine(Line)
  /\ answers' = Append(answers, BadRequest)
  /\ closing' = TRUE
  /\ buffer' = AfterLine
  /\ pc' = "poll"
  /\ UNCHANGED <<clientVars, unread, parse_state, request>>

\* headers_[name] = value; only "Connection" is looked up.
WithHeader(line) ==
  IF line[1] = "Connection" THEN [request EXCEPT !.connection = line[3]]
  ELSE request

ParseHeaders ==
  /\ pc = "parse"
  /\ parse_state = "kParseHeaders"
  /\ FindCRLF
  /\ HasColon(Line)
  /\ request' = WithHeader(Line)
  /\ buffer' = AfterLine
  /\ UNCHANGED <<clientVars, unread, parse_state, pc, closing, answers>>

\* Any line without a colon ends the request.
EndOfHeaders ==
  /\ pc = "parse"
  /\ parse_state = "kParseHeaders"
  /\ FindCRLF
  /\ ~HasColon(Line)
  /\ parse_state' = "kParseGotCompleteRequest"
  /\ buffer' = AfterLine
  /\ pc' = "answer"
  /\ UNCHANGED <<clientVars, unread, request, closing, answers>>

-----------------------------------------------------------------------------
(* HttpServer::DealWithRequest.                                            *)

CloseConnection(req) ==
  \/ req.connection = "Close"
  \/ req.version = "HTTP/1.0" /\ req.connection # "Keep-Alive"

\* Fault: what the callback thinks of the connection does not count.
ShutsOnRequest(response) == CloseConnection(request)

\* The Shutdown after the answer.
ShutsDown(response) == response.close

\* Fault: the headers are kept.
KeepHeaders ==
  /\ request' = [NoRequest EXCEPT !.connection = request.connection]
  /\ parse_state' = "kParseRequestLine"

ResetContentState ==
  /\ request' = NoRequest
  /\ parse_state' = "kParseRequestLine"

\* The end of MessageCallback.  What follows the request in the buffer is left
\* for the next read.
DealWithRequest ==
  /\ pc = "answer"
  /\ LET response == HttpResponseCallback(request,
                                          Response(CloseConnection(request)))
     IN /\ answers' = Append(answers, AppendToBuffer(response))
        /\ closing' = ShutsDown(response)
  /\ ResetContentState
  /\ pc' = "poll"
  /\ UNCHANGED <<clientVars, unread, buffer>>

-----------------------------------------------------------------------------

MessageCallback == \/ NoMoreLine
                   \/ ParseRequestLine
                   \/ BadRequestLine
                   \/ ParseHeaders
                   \/ EndOfHeaders
                   \/ DealWithRequest

Next == HandleMessage \/ MessageCallback

Spec == Init /\ [][Next]_vars

-----------------------------------------------------------------------------
(* The answers the lines call for, whatever the reads.                     *)

\* A request line is expected at line i of the lines ls.
StartsRequest(ls) ==
  LET start[i \in 1..Len(ls)] ==
        i = 1 \/ (~start[i - 1] /\ ~HasColon(ls[i - 1]))
  IN start

\* A client that waits ends the header of each request with an empty line.
ASSUME RequestsAssumption ==
  \A ls \in Requests : \A i \in 1..Len(ls) :
    ~StartsRequest(ls)[i] /\ ~HasColon(ls[i]) => ls[i] = EmptyLine

Starts(i) == StartsRequest(sent)[i]

\* Line i completes a request or is refused in place of one.
IsAnswered(i) == IF Starts(i) THEN ~IsRequestLine(sent[i]) ELSE ~HasColon(sent[i])

\* Line j is the request line of what line i belongs to.
IsRequestOf(j, i) == Starts(j) /\ \A k \in (j + 1)..i : ~Starts(k)

\* The last "Connection" of a request line j, up to line i, has this value.
Says(j, i, value) ==
  LET Named(k) == HasColon(sent[k]) /\ sent[k][1] = "Connection" IN
  \E k \in (j + 1)..i : /\ Named(k)
                        /\ sent[k][3] = value
                        /\ \A m \in (k + 1)..i : ~Named(m)

\* The answer due at line i.
AnswerAt(i) ==
  LET j    == CHOOSE k \in 1..i : IsRequestOf(k, i)
      line == sent[j]
      path == Path(line[2])
      Refused(status) == [status |-> status, body |-> 0, close |-> TRUE]
  IN IF j = i \/ line[1] # "GET" THEN Refused(400)
     ELSE IF path \notin DOMAIN Pages THEN Refused(404)
     ELSE [status |-> 200, body |-> Pages[path],
           close |-> IF line[3] = "HTTP/1.0" THEN ~Says(j, i, "Keep-Alive")
                     ELSE Says(j, i, "Close")]

\* The lines answered among the first n: none after an answer that closes.
Due(n) == {i \in 1..n : /\ IsAnswered(i)
                        /\ \A j \in 1..(i - 1) :
                             IsAnswered(j) => ~AnswerAt(j).close}

\* The answers given are those due for the first n lines, in their order, and
\* the last one closed or not.
Gives(n) ==
  /\ Len(answers) = Cardinality(Due(n))
  /\ \A i \in Due(n) : LET given == answers[Cardinality(Due(i))] IN
       given.status = AnswerAt(i).status /\ given.body = AnswerAt(i).body
  /\ closing <=> \E i \in Due(n) : AnswerAt(i).close

-----------------------------------------------------------------------------
(* Properties.                                                             *)

(* However the bytes are cut into reads, each answer is the one its own    *)
(* lines call for, they come in the order of the requests, none is skipped *)
(* or given twice, and none follows the one that closes                    *)
(* (httpserver.cc:28-61, httpcontent.cc:15-59).                            *)
AnswersAreRight ==
  pc # "answer" => Gives(Len(sent) - Len(buffer) - Len(unread))

(* The client can tell where each answer ends, whoever decided that the   *)
(* connection closes, the request or the callback: an answer has the length*)
(* of its body, or it is the last and the server shuts its side down       *)
(* (httpserver.cc:45-61, httpresponse.cc:22-28).                           *)
AnswersAreDelimited ==
  \A i \in DOMAIN answers :
    \/ answers[i].length = answers[i].body
    \/ answers[i].length = NoLength /\ i = Len(answers) /\ closing

(* A client that waits for each answer gets one to every request, so that  *)
(* it and the server never wait for each other (README.md:4: GET requests  *)
(* are answered, on persistent connections).                               *)
NoRequestIsLeft ==
  (waits /\ pc = "poll" /\ unread = <<>>) => Gives(Len(sent))

=============================================================================
