---------------------------- MODULE HttpResponse ----------------------------
(***************************************************************************)
(* An answer: HttpResponse, the callback main.cc sets, which fills it in,  *)
(* and what AppendToBuffer makes of it.  A body is its size, and of the    *)
(* header only what tells a client where the answer ends is kept.          *)
(***************************************************************************)
EXTENDS Integers

CONSTANT Pages  \* Pages[p]: the size of the page that path p names

ASSUME HttpResponseAssumption ==
  \A path \in DOMAIN Pages : Pages[path] \in Nat

\* HttpResponse::HttpResponse; status_code_ is not initialised.
Response(close) == [status |-> 0, body |-> 0, close |-> close]

SetStatusCode(response, code) == [response EXCEPT !.status = code]
SetCloseConnection(response, close) == [response EXCEPT !.close = close]
SetBody(response, size) == [response EXCEPT !.body = size]

\* HttpResponseCallback of main.cc: what is not a GET is a bad request, and
\* what is no page is not found; the connection is closed after both.
HttpResponseCallback(request, response) ==
  IF request.method # "GET" THEN
    SetCloseConnection(SetStatusCode(response, 400), TRUE)
  ELSE IF request.path \in DOMAIN Pages THEN
    SetBody(SetStatusCode(response, 200), Pages[request.path])
  ELSE
    SetCloseConnection(SetStatusCode(response, 404), TRUE)

NoLength == -1

\* AppendToBuffer: Content-Length is only said when the connection stays open.
AppendToBuffer(response) ==
  [status |-> response.status, body |-> response.body,
   length |-> IF response.close THEN NoLength ELSE response.body]

\* The answer to a line that is no request line.
BadRequest == [status |-> 400, body |-> 0, length |-> NoLength]

=============================================================================
