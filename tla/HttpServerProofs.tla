-------------------------- MODULE HttpServerProofs --------------------------
(***************************************************************************)
(* Proofs about HttpServer, for any pages, any lines and any cut into      *)
(* reads: each answer is the one its own lines call for, a client can tell *)
(* where it ends, and one that waits for its answers gets them.            *)
(***************************************************************************)
EXTENDS HttpServer, SequenceTheorems, FiniteSetTheorems,
        WellFoundedInduction, TLAPS

Answer == [status : Nat, body : Nat, length : Nat \cup {NoLength}]

\* The answer has the length of its body.
HasLength(answer) == answer.length = answer.body

\* Once the sending side is shut down nothing more is answered, and until
\* then every answer has its length.
DelimitedInv ==
  /\ answers \in Seq(Answer)
  /\ closing \in BOOLEAN
  /\ closing => pc = "poll"
  /\ ~closing => \A i \in DOMAIN answers : HasLength(answers[i])
  /\ AnswersAreDelimited

-----------------------------------------------------------------------------

ResponseType == [status : Nat, body : Nat, close : BOOLEAN]

(* What the setters make of a response is one.                             *)
LEMMA SettersKeepType ==
  ASSUME NEW response \in ResponseType
  PROVE  /\ \A code \in Nat : SetStatusCode(response, code) \in ResponseType
         /\ \A size \in Nat : SetBody(response, size) \in ResponseType
         /\ SetCloseConnection(response, TRUE) \in ResponseType
BY DEF ResponseType, SetStatusCode, SetBody, SetCloseConnection

(* The answer the callback gives has a length if and only if the           *)
(* connection stays open, whoever decided that it closes.                  *)
LEMMA LengthUnlessClosed ==
  ASSUME NEW req, NEW close \in BOOLEAN,
         NEW response, response = HttpResponseCallback(req, Response(close))
  PROVE  /\ AppendToBuffer(response) \in Answer
         /\ response.close \in BOOLEAN
         /\ response.close => AppendToBuffer(response).length = NoLength
         /\ ~response.close => HasLength(AppendToBuffer(response))
<1> DEFINE coded(code) == SetStatusCode(Response(close), code)
<1>1. \A code \in Nat : coded(code) \in ResponseType
  <2>1. Response(close) \in ResponseType
    BY DEF Response, ResponseType
  <2> QED
    BY <2>1, SettersKeepType
<1>2. /\ SetCloseConnection(coded(400), TRUE) \in ResponseType
      /\ SetCloseConnection(coded(404), TRUE) \in ResponseType
  <2>1. coded(400) \in ResponseType /\ coded(404) \in ResponseType
    BY <1>1
  <2> QED
    BY <2>1, SettersKeepType, Zenon
<1>3. HttpResponseCallback(req, Response(close)) \in ResponseType
  <2>1. CASE req.method # "GET"
    BY <1>2, <2>1, Zenon DEF HttpResponseCallback
  <2>2. CASE req.method = "GET" /\ req.path \in DOMAIN Pages
    <3>1. Pages[req.path] \in Nat
      BY <2>2, HttpResponseAssumption
    <3>2. SetBody(coded(200), Pages[req.path]) \in ResponseType
      <4>1. coded(200) \in ResponseType
        BY <1>1
      <4> QED
        BY <3>1, <4>1, SettersKeepType, Zenon
    <3> QED
      BY <2>2, <3>2, Zenon DEF HttpResponseCallback
  <2>3. CASE req.method = "GET" /\ req.path \notin DOMAIN Pages
    BY <1>2, <2>3, Zenon DEF HttpResponseCallback
  <2> QED
    BY <2>1, <2>2, <2>3
<1>4. response \in ResponseType
  BY <1>3
<1> QED
  BY <1>4 DEF ResponseType, AppendToBuffer, HasLength, Answer, NoLength

(* An answer is added to those given before while the connection is open:  *)
(* it has its length, or the connection closes with it.                    *)
LEMMA AnotherAnswer ==
  ASSUME DelimitedInv, ~closing, NEW answer \in Answer,
         answers' = Append(answers, answer), closing' \in BOOLEAN,
         pc' = "poll",
         closing' => answer.length = NoLength,
         ~closing' => HasLength(answer)
  PROVE  DelimitedInv'
<1>1. /\ answers' \in Seq(Answer)
      /\ Len(answers') = Len(answers) + 1
      /\ answers'[Len(answers) + 1] = answer
      /\ \A i \in DOMAIN answers : answers'[i] = answers[i]
      /\ Len(answers) \in Nat /\ DOMAIN answers = 1..Len(answers)
      /\ DOMAIN answers' = 1..(Len(answers) + 1)
  BY AppendProperties DEF DelimitedInv
<1>2. \A i \in DOMAIN answers' : i \in DOMAIN answers \/ i = Len(answers')
  BY <1>1
<1>3. \A i \in DOMAIN answers : HasLength(answers'[i])
  BY <1>1 DEF DelimitedInv
<1>4. AnswersAreDelimited'
  BY <1>1, <1>2, <1>3 DEF AnswersAreDelimited, HasLength
<1>5. ~closing' => \A i \in DOMAIN answers' : HasLength(answers'[i])
  BY <1>1, <1>2, <1>3
<1> QED
  BY <1>1, <1>4, <1>5 DEF DelimitedInv

(* No step, whatever it reads or answers, breaks the invariant.            *)
LEMMA DelimitedNext == DelimitedInv /\ [Next]_vars => DelimitedInv'
<1> SUFFICES ASSUME DelimitedInv, [Next]_vars PROVE DelimitedInv'
  OBVIOUS
<1>1. ASSUME answers' = answers, closing' = closing, closing => pc' = "poll"
      PROVE  DelimitedInv'
  BY <1>1 DEF DelimitedInv, AnswersAreDelimited
<1>2. CASE HandleMessage
  BY <1>1, <1>2 DEF HandleMessage
<1>3. CASE NoMoreLine
  BY <1>1, <1>3 DEF NoMoreLine
<1>4. CASE ParseRequestLine \/ ParseHeaders \/ EndOfHeaders
  <2>1. pc = "parse" /\ answers' = answers /\ closing' = closing
    BY <1>4, Zenon DEF ParseRequestLine, ParseHeaders, EndOfHeaders
  <2> QED
    BY <1>1, <2>1 DEF DelimitedInv
<1>5. CASE BadRequestLine
  <2>1. BadRequest \in Answer /\ BadRequest.length = NoLength
    BY DEF BadRequest, Answer, NoLength
  <2>2. /\ pc = "parse" /\ answers' = Append(answers, BadRequest)
        /\ closing' = TRUE /\ pc' = "poll"
    BY <1>5 DEF BadRequestLine
  <2>3. ~closing
    BY <2>2 DEF DelimitedInv
  <2> QED
    BY <2>1, <2>2, <2>3, AnotherAnswer
<1>6. CASE DealWithRequest
  <2> DEFINE close == CloseConnection(request)
             response == HttpResponseCallback(request, Response(close))
  <2>1. /\ pc = "answer" /\ pc' = "poll"
        /\ answers' = Append(answers, AppendToBuffer(response))
        /\ closing' = response.close
    BY <1>6 DEF DealWithRequest, ShutsDown
  <2>2. close \in BOOLEAN
    BY DEF CloseConnection
  <2>3. /\ AppendToBuffer(response) \in Answer
        /\ response.close \in BOOLEAN
        /\ response.close => AppendToBuffer(response).length = NoLength
        /\ ~response.close => HasLength(AppendToBuffer(response))
    BY <2>2, LengthUnlessClosed
  <2>4. ~closing
    BY <2>1 DEF DelimitedInv
  <2> HIDE DEF response
  <2> QED
    BY <2>1, <2>3, <2>4, AnotherAnswer
<1>7. CASE UNCHANGED vars
  <2>1. answers' = answers /\ closing' = closing /\ pc' = pc
    BY <1>7 DEF vars
  <2> QED
    BY <1>1, <2>1 DEF DelimitedInv
<1> QED
  BY <1>2, <1>3, <1>4, <1>5, <1>6, <1>7 DEF Next, MessageCallback

(* Nothing is answered before the first read.                              *)
LEMMA DelimitedInit == Init => DelimitedInv
<1> SUFFICES ASSUME Init PROVE DelimitedInv
  OBVIOUS
<1>1. answers = <<>> /\ closing = FALSE
  BY DEF Init
<1>2. answers \in Seq(Answer) /\ DOMAIN answers = {}
  BY <1>1
<1> QED
  BY <1>1, <1>2 DEF DelimitedInv, AnswersAreDelimited

(* Each answer has its length or is the last before the sending side is    *)
(* shut down, whatever the lines, the pages and the reads, and whether the *)
(* request or the callback decided to close.                               *)
THEOREM AnswersEnd == Spec => []AnswersAreDelimited
<1>1. DelimitedInv => AnswersAreDelimited
  BY DEF DelimitedInv
<1> QED
  BY <1>1, DelimitedInit, DelimitedNext, PTL DEF Spec

-----------------------------------------------------------------------------
(* The reference: which lines are answered, and how.                       *)

(* A set of natural numbers has a least one.                               *)
LEMMA LeastNumber ==
  ASSUME NEW S \in SUBSET Nat, S # {}
  PROVE  \E x \in S : \A y \in S : x <= y
<1>1. PICK x \in S : \A y \in S : ~(<<y, x>> \in OpToRel(<, Nat))
  BY NatLessThanWellFounded, WFMin
<1>2. ASSUME NEW y \in S PROVE x <= y
  <2>1. <<y, x>> \in OpToRel(<, Nat) <=> y < x
    BY Zenon DEF OpToRel
  <2>2. ~(y < x)
    BY <1>1, <2>1, Zenon
  <2> QED
    BY <2>2
<1> QED
  BY <1>2

\* f says of the first n lines of ls where a request line is expected.
SaysStarts(ls, f, n) ==
  f = [i \in 1..n |-> i = 1 \/ (~f[i - 1] /\ ~HasColon(ls[i - 1]))]

(* There is such a function for any number of lines: were there none, one  *)
(* for the lines before the first that has none would do for it too.       *)
LEMMA StartsExist ==
  ASSUME NEW ls, NEW n \in Nat
  PROVE  \E f : SaysStarts(ls, f, n)
<1> DEFINE Bad == {k \in Nat : ~\E f : SaysStarts(ls, f, k)}
<1>1. Bad \in SUBSET Nat
  OBVIOUS
<1>2. ASSUME NEW m \in Bad, \A k \in Bad : m <= k PROVE FALSE
  <2>1. CASE m = 0
    <3> DEFINE f == [i \in 1..0 |-> TRUE]
    <3>1. SaysStarts(ls, f, 0)
      BY DEF SaysStarts
    <3> QED
      BY <1>2, <2>1, <3>1
  <2>2. CASE m # 0
    <3>1. m \in Nat /\ m - 1 \in Nat /\ m - 1 \notin Bad
      BY <1>2, <2>2
    <3>2. PICK f : SaysStarts(ls, f, m - 1)
      BY <3>1
    <3> DEFINE g == [i \in 1..m |-> i = 1 \/ (~f[i - 1] /\ ~HasColon(ls[i - 1]))]
    <3>3. \A i \in 1..(m - 1) : f[i] = (i = 1 \/ (~f[i - 1] /\ ~HasColon(ls[i - 1])))
      BY <3>2, Zenon DEF SaysStarts
    <3>4. \A i \in 1..(m - 1) : g[i] = f[i]
      <4>1. \A i \in 1..(m - 1) : i \in 1..m
        BY <3>1
      <4> QED
        BY <3>3, <4>1
    <3>5. \A i \in 1..m : i = 1 \/ i - 1 \in 1..(m - 1)
      BY <3>1
    <3>6. \A i \in 1..m : (i = 1 \/ (~f[i - 1] /\ ~HasColon(ls[i - 1])))
                            = (i = 1 \/ (~g[i - 1] /\ ~HasColon(ls[i - 1])))
      BY <3>4, <3>5
    <3>7. g = [i \in 1..m |-> i = 1 \/ (~g[i - 1] /\ ~HasColon(ls[i - 1]))]
      BY <3>6
    <3>8. SaysStarts(ls, g, m)
      BY <3>7, Zenon DEF SaysStarts
    <3> QED
      BY <1>2, <3>8
  <2> QED
    BY <2>1, <2>2
<1>3. Bad = {}
  <2> HIDE DEF Bad
  <2> QED
    BY <1>1, <1>2, LeastNumber
<1> QED
  BY <1>3

(* A request line is expected first, and after the end of a request.       *)
LEMMA StartsAre ==
  ASSUME NEW ls, Len(ls) \in Nat, NEW i \in 1..Len(ls)
  PROVE  StartsRequest(ls)[i] <=>
           i = 1 \/ (~StartsRequest(ls)[i - 1] /\ ~HasColon(ls[i - 1]))
<1>1. SaysStarts(ls, StartsRequest(ls), Len(ls))
  <2>1. \E f : SaysStarts(ls, f, Len(ls))
    BY StartsExist
  <2>2. StartsRequest(ls) = CHOOSE f : SaysStarts(ls, f, Len(ls))
    BY Zenon DEF StartsRequest, SaysStarts
  <2> QED
    BY <2>1, <2>2
<1>2. PICK f : f = StartsRequest(ls)
  OBVIOUS
<1>3. f = [j \in 1..Len(ls) |-> j = 1 \/ (~f[j - 1] /\ ~HasColon(ls[j - 1]))]
  BY <1>1, <1>2, Zenon DEF SaysStarts
<1>4. f[i] <=> i = 1 \/ (~f[i - 1] /\ ~HasColon(ls[i - 1]))
  BY <1>3, Zenon
<1> QED
  BY <1>2, <1>4

\* Line n ends a request, or there is none yet.
Ends(n) == n = 0 \/ (~Starts(n) /\ ~HasColon(sent[n]))

(* A request line is expected where a request has ended.                   *)
LEMMA StartsAfterEnds ==
  ASSUME Len(sent) \in Nat, NEW n \in Nat, n < Len(sent)
  PROVE  Starts(n + 1) <=> Ends(n)
<1>1. n + 1 \in 1..Len(sent) /\ (n + 1) - 1 = n /\ (n + 1 = 1 <=> n = 0)
  OBVIOUS
<1>2. StartsRequest(sent)[n + 1] <=>
        n + 1 = 1 \/ (~StartsRequest(sent)[n] /\ ~HasColon(sent[n]))
  BY <1>1, StartsAre
<1> QED
  BY <1>1, <1>2 DEF Starts, Ends

(* A line belongs to one request.                                          *)
LEMMA OneRequest ==
  ASSUME NEW i \in Nat, NEW j \in 1..i, NEW k \in 1..i,
         IsRequestOf(j, i), IsRequestOf(k, i)
  PROVE  j = k
<1>1. ~(j < k) /\ ~(k < j)
  BY DEF IsRequestOf
<1> QED
  BY <1>1

\* A response and what is in it.
Filled(status, body, close) ==
  [status |-> status, body |-> body, close |-> close]

\* The request that line j begins and line i completes says to close.
Closes(j, i) == IF sent[j][3] = "HTTP/1.0" THEN ~Says(j, i, "Keep-Alive")
                ELSE Says(j, i, "Close")

\* The answer to it.
AnswerTo(j, i) ==
  IF j = i \/ sent[j][1] # "GET" THEN Filled(400, 0, TRUE)
  ELSE IF Path(sent[j][2]) \notin DOMAIN Pages THEN Filled(404, 0, TRUE)
  ELSE Filled(200, Pages[Path(sent[j][2])], Closes(j, i))

\* The line that begins what line i belongs to.
BeginOf(i) == CHOOSE k \in 1..i : IsRequestOf(k, i)

AnswersItsRequest == \A i : AnswerAt(i) = AnswerTo(BeginOf(i), i)

(* The answer at a line is the one to its request.                         *)
LEMMA AnswerOfRequest == AnswersItsRequest
BY Zenon DEF AnswersItsRequest, AnswerAt, AnswerTo, BeginOf, Filled, Closes

(* Whichever line is found to begin it.                                    *)
LEMMA AnswerIs ==
  ASSUME NEW i \in Nat, NEW j \in 1..i, IsRequestOf(j, i)
  PROVE  AnswerAt(i) = AnswerTo(j, i)
<1>1. j = BeginOf(i)
  BY OneRequest DEF BeginOf
<1> QED
  BY <1>1, AnswerOfRequest DEF AnswersItsRequest

(* The next line belongs to the same request unless it starts another.     *)
LEMMA SameRequest ==
  ASSUME NEW n \in Nat, NEW j \in 1..n, IsRequestOf(j, n), ~Starts(n + 1)
  PROVE  IsRequestOf(j, n + 1)
BY DEF IsRequestOf

Named(k) == HasColon(sent[k]) /\ sent[k][1] = "Connection"

(* What is said of "Connection" up to the next line.                       *)
LEMMA SaysNext ==
  ASSUME NEW n \in Nat, NEW j \in 1..n, NEW v
  PROVE  /\ Named(n + 1) => (Says(j, n + 1, v) <=> sent[n + 1][3] = v)
         /\ ~Named(n + 1) => (Says(j, n + 1, v) <=> Says(j, n, v))
<1>1. \A i \in Nat : Says(j, i, v) <=>
        \E k \in (j + 1)..i : /\ Named(k)
                              /\ sent[k][3] = v
                              /\ \A m \in (k + 1)..i : ~Named(m)
  BY DEF Says, Named
<1>2. /\ n + 1 \in (j + 1)..(n + 1) /\ n + 1 \in Nat
      /\ \A k \in (j + 1)..n : k \in (j + 1)..(n + 1) /\ n + 1 \in (k + 1)..(n + 1)
      /\ \A k \in (j + 1)..(n + 1) : k = n + 1 \/ k \in (j + 1)..n
      /\ \A k \in (j + 1)..n : \A m \in (k + 1)..(n + 1) : m = n + 1 \/ m \in (k + 1)..n
      /\ \A k \in (j + 1)..n : \A m \in (k + 1)..n : m \in (k + 1)..(n + 1)
      /\ \A m \in ((n + 1) + 1)..(n + 1) : FALSE
  OBVIOUS
<1>3. ASSUME Named(n + 1) PROVE Says(j, n + 1, v) <=> sent[n + 1][3] = v
  <2>1. ASSUME Says(j, n + 1, v) PROVE sent[n + 1][3] = v
    <3>1. PICK k \in (j + 1)..(n + 1) : /\ sent[k][3] = v
                                        /\ \A m \in (k + 1)..(n + 1) : ~Named(m)
      BY <1>1, <1>2, <2>1
    <3>2. k = n + 1
      BY <1>2, <1>3, <3>1
    <3> QED
      BY <3>1, <3>2
  <2>2. ASSUME sent[n + 1][3] = v PROVE Says(j, n + 1, v)
    BY <1>1, <1>2, <1>3, <2>2
  <2> QED
    BY <2>1, <2>2
<1>4. ASSUME ~Named(n + 1) PROVE Says(j, n + 1, v) <=> Says(j, n, v)
  <2>1. ASSUME Says(j, n + 1, v) PROVE Says(j, n, v)
    <3>1. PICK k \in (j + 1)..(n + 1) : /\ Named(k) /\ sent[k][3] = v
                                        /\ \A m \in (k + 1)..(n + 1) : ~Named(m)
      BY <1>1, <1>2, <2>1
    <3>2. k \in (j + 1)..n
      BY <1>2, <1>4, <3>1
    <3>3. \A m \in (k + 1)..n : ~Named(m)
      BY <1>2, <3>1, <3>2
    <3> QED
      BY <1>1, <3>1, <3>2, <3>3
  <2>2. ASSUME Says(j, n, v) PROVE Says(j, n + 1, v)
    <3>1. PICK k \in (j + 1)..n : /\ Named(k) /\ sent[k][3] = v
                                  /\ \A m \in (k + 1)..n : ~Named(m)
      BY <1>1, <2>2
    <3>2. \A m \in (k + 1)..(n + 1) : ~Named(m)
      BY <1>2, <1>4, <3>1
    <3> QED
      BY <1>1, <1>2, <3>1, <3>2
  <2> QED
    BY <2>1, <2>2
<1> QED
  BY <1>3, <1>4

-----------------------------------------------------------------------------
(* The lines whose answers are due.                                        *)

\* No answer due for the first n lines closes the connection.
Open(n) == \A i \in 1..n : IsAnswered(i) => ~AnswerAt(i).close

(* While none closes, every line that is answered is due.                  *)
LEMMA DueOpen ==
  ASSUME NEW n \in Nat, Open(n)
  PROVE  /\ Due(n) = {i \in 1..n : IsAnswered(i)}
         /\ Due(n + 1) = {i \in 1..(n + 1) : IsAnswered(i)}
<1>1. \A i \in 1..(n + 1) : \A j \in 1..(i - 1) : j \in 1..n
  OBVIOUS
<1>2. \A i \in 1..n : i \in 1..(n + 1)
  OBVIOUS
<1> QED
  BY <1>1, <1>2 DEF Due, Open

(* There are finitely many, and those of the first lines are among them.   *)
LEMMA DueFinite ==
  ASSUME NEW n \in Nat
  PROVE  /\ IsFiniteSet(Due(n)) /\ Cardinality(Due(n)) \in Nat
         /\ Due(n) \subseteq 1..n
         /\ \A i \in 1..n : Due(i) = Due(n) \cap 1..i
<1>1. Due(n) \subseteq 1..n
  BY DEF Due
<1>2. IsFiniteSet(1..n)
  BY FS_Interval
<1>3. IsFiniteSet(Due(n))
  BY <1>1, <1>2, FS_Subset
<1>4. \A i \in 1..n : Due(i) = Due(n) \cap 1..i
  <2>1. \A i \in 1..n : \A k \in 1..i : k \in 1..n
    OBVIOUS
  <2> QED
    BY <2>1 DEF Due
<1> QED
  BY <1>1, <1>3, <1>4, FS_CardinalityType

(* An answered line is one more, and the last.                             *)
LEMMA DueNext ==
  ASSUME NEW n \in Nat, Open(n)
  PROVE  /\ ~IsAnswered(n + 1) => Due(n + 1) = Due(n)
         /\ IsAnswered(n + 1) =>
              /\ Due(n + 1) = Due(n) \cup {n + 1}
              /\ n + 1 \notin Due(n)
              /\ Cardinality(Due(n + 1)) = Cardinality(Due(n)) + 1
<1>1. \A i : i \in 1..(n + 1) <=> i \in 1..n \/ i = n + 1
  OBVIOUS
<1>2. n + 1 \notin 1..n
  OBVIOUS
<1>3. ~IsAnswered(n + 1) => Due(n + 1) = Due(n)
  BY <1>1, DueOpen
<1>4. IsAnswered(n + 1) => Due(n + 1) = Due(n) \cup {n + 1} /\ n + 1 \notin Due(n)
  BY <1>1, <1>2, DueOpen
<1>5. IsFiniteSet(Due(n))
  BY DueFinite
<1> QED
  BY <1>3, <1>4, <1>5, FS_AddElement

(* All this is about the lines sent, whatever the server does.             *)
LEMMA ReferenceStands ==
  ASSUME sent' = sent
  PROVE  /\ \A i : (Starts(i)' <=> Starts(i)) /\ (IsAnswered(i)' <=> IsAnswered(i))
         /\ \A i : AnswerAt(i)' = AnswerAt(i)
         /\ \A n : Due(n)' = Due(n) /\ (Open(n)' <=> Open(n)) /\ (Ends(n)' <=> Ends(n))
         /\ \A j, n : IsRequestOf(j, n)' <=> IsRequestOf(j, n)
         /\ \A j, n, v : Says(j, n, v)' <=> Says(j, n, v)
<1>1. \A i : Starts(i)' <=> Starts(i)
  BY DEF Starts
<1>2. \A i : IsAnswered(i)' <=> IsAnswered(i)
  BY <1>1 DEF IsAnswered
<1>3. \A j, n : IsRequestOf(j, n)' <=> IsRequestOf(j, n)
  BY <1>1 DEF IsRequestOf
<1>4. \A j, n, v : Says(j, n, v)' <=> Says(j, n, v)
  BY DEF Says
<1>5. \A i : AnswerAt(i)' = AnswerAt(i)
  <2>1. \A i : BeginOf(i)' = BeginOf(i)
    BY <1>3 DEF BeginOf
  <2>2. \A i : AnswerAt(i)' = (AnswerTo(BeginOf(i), i))'
    <3>1. AnswersItsRequest'
      BY AnswerOfRequest, PTL
    <3> QED
      BY <3>1, Zenon DEF AnswersItsRequest
  <2>3. \A i : (AnswerTo(BeginOf(i), i))' = AnswerTo(BeginOf(i), i)
    <3> SUFFICES ASSUME NEW i
                 PROVE  (AnswerTo(BeginOf(i), i))' = AnswerTo(BeginOf(i), i)
      OBVIOUS
    <3>1. BeginOf(i)' = BeginOf(i)
      BY <2>1
    <3>2. (Closes(BeginOf(i), i))' = Closes(BeginOf(i), i)
      BY <3>1 DEF Closes, Says
    <3> QED
      BY <3>1, <3>2 DEF AnswerTo
  <2> QED
    BY <2>2, <2>3, AnswerOfRequest DEF AnswersItsRequest
<1>6. \A n : (Open(n)' <=> Open(n)) /\ (Ends(n)' <=> Ends(n))
  BY <1>1, <1>2, <1>5 DEF Open, Ends
<1>7. \A n : Due(n)' = Due(n)
  BY <1>2, <1>5 DEF Due
<1> QED
  BY <1>1, <1>2, <1>3, <1>4, <1>5, <1>6, <1>7

(* Giving nothing keeps what was given.                                    *)
LEMMA GivesStands ==
  ASSUME sent' = sent, answers' = answers, closing' = closing
  PROVE  \A n : Gives(n)' <=> Gives(n)
<1>1. /\ \A n : Due(n)' = Due(n)
      /\ \A i : AnswerAt(i)' = AnswerAt(i)
  BY ReferenceStands
<1> QED
  BY <1>1 DEF Gives

(* A line that is not answered leaves what is due.                         *)
LEMMA GivesUnanswered ==
  ASSUME NEW n \in Nat, Open(n), ~IsAnswered(n + 1)
  PROVE  (Gives(n) => Gives(n + 1)) /\ Open(n + 1)
<1>1. Due(n + 1) = Due(n)
  BY DueNext
<1>2. Open(n + 1)
  <2>1. \A i \in 1..(n + 1) : i \in 1..n \/ i = n + 1
    OBVIOUS
  <2> QED
    BY <2>1 DEF Open
<1> QED
  BY <1>1, <1>2 DEF Gives

(* An answered line gets its own answer, after those of the lines before   *)
(* it.                                                                     *)
LEMMA GivesAnswered ==
  ASSUME NEW n \in Nat, Open(n), IsAnswered(n + 1), Gives(n),
         answers \in Seq(Answer), NEW answer \in Answer,
         answers' = Append(answers, answer), sent' = sent,
         answer.status = AnswerAt(n + 1).status,
         answer.body = AnswerAt(n + 1).body,
         ~closing, closing' <=> AnswerAt(n + 1).close
  PROVE  Gives(n + 1)' /\ (~closing' => Open(n + 1)')
<1>1. /\ Due(n + 1) = Due(n) \cup {n + 1}
      /\ n + 1 \notin Due(n)
      /\ Cardinality(Due(n + 1)) = Cardinality(Due(n)) + 1
  BY DueNext
<1>2. /\ Len(answers) = Cardinality(Due(n))
      /\ \A i \in Due(n) :
           /\ answers[Cardinality(Due(i))].status = AnswerAt(i).status
           /\ answers[Cardinality(Due(i))].body = AnswerAt(i).body
  BY DEF Gives
<1>3. /\ Len(answers') = Len(answers) + 1
      /\ answers'[Len(answers) + 1] = answer
      /\ \A i \in 1..Len(answers) : answers'[i] = answers[i]
  BY AppendProperties
<1>4. \A i \in Due(n) : Cardinality(Due(i)) \in 1..Len(answers)
  <2> SUFFICES ASSUME NEW i \in Due(n) PROVE Cardinality(Due(i)) \in 1..Len(answers)
    OBVIOUS
  <2>1. /\ Due(n) \subseteq 1..n /\ IsFiniteSet(Due(n)) /\ Cardinality(Due(n)) \in Nat
        /\ \A k \in 1..n : Due(k) = Due(n) \cap 1..k
    BY DueFinite
  <2>2. i \in 1..n /\ i \in Nat /\ i \in 1..i
    BY <2>1
  <2>3. Due(i) \subseteq Due(n) /\ i \in Due(i)
    BY <2>1, <2>2
  <2>4. IsFiniteSet(Due(i)) /\ Cardinality(Due(i)) \in Nat
    BY <2>2, DueFinite
  <2>5. Cardinality(Due(i)) <= Cardinality(Due(n))
    BY <2>1, <2>3, FS_Subset
  <2>6. Cardinality(Due(i)) # 0
    BY <2>3, <2>4, FS_EmptySet
  <2> QED
    BY <1>2, <2>1, <2>4, <2>5, <2>6
<1>5. \A i \in Due(n) : ~AnswerAt(i).close
  BY <1>2, DueFinite DEF Open, Due
<1>6. /\ \A k : Due(k)' = Due(k)
      /\ \A i : AnswerAt(i)' = AnswerAt(i)
      /\ \A i : IsAnswered(i)' <=> IsAnswered(i)
      /\ \A k : Open(k)' <=> Open(k)
  BY ReferenceStands
<1>7. \A i \in Due(n + 1) :
        /\ answers'[Cardinality(Due(i))].status = AnswerAt(i).status
        /\ answers'[Cardinality(Due(i))].body = AnswerAt(i).body
  <2>1. \A i \in Due(n) : answers'[Cardinality(Due(i))] = answers[Cardinality(Due(i))]
    BY <1>3, <1>4
  <2>2. answers'[Cardinality(Due(n + 1))] = answer
    BY <1>1, <1>2, <1>3
  <2> QED
    BY <1>1, <1>2, <2>1, <2>2
<1>8. closing' <=> \E i \in Due(n + 1) : AnswerAt(i).close
  BY <1>1, <1>5
<1>9. Gives(n + 1)'
  BY <1>1, <1>2, <1>3, <1>6, <1>7, <1>8 DEF Gives
<1>10. ASSUME ~closing' PROVE Open(n + 1)
  <2>1. \A i \in 1..(n + 1) : i \in 1..n \/ i = n + 1
    OBVIOUS
  <2> QED
    BY <1>10, <2>1 DEF Open
<1> QED
  BY <1>6, <1>9, <1>10

(* Nothing more is due once an answer closes.                              *)
LEMMA NothingAfterClose ==
  ASSUME NEW n \in Nat, NEW m \in Nat, n <= m, Gives(n), closing
  PROVE  Gives(m)
<1>1. PICK i \in Due(n) : AnswerAt(i).close
  BY DEF Gives
<1>2. i \in 1..n /\ IsAnswered(i)
  BY <1>1 DEF Due
<1>3. Due(m) = Due(n)
  <2>1. \A k \in 1..m : k \in 1..n \/ i \in 1..(k - 1)
    BY <1>2
  <2>2. \A k \in 1..n : k \in 1..m
    OBVIOUS
  <2> QED
    BY <1>1, <1>2, <2>1, <2>2 DEF Due
<1> QED
  BY <1>3 DEF Gives
-----------------------------------------------------------------------------
(* The inductive invariant.                                                *)

\* The lines the parser has taken.
Taken == Len(sent) - Len(buffer) - Len(unread)

\* The buffer and what is unread are the rest of what is sent.
QueuesInv ==
  /\ sent \in Seq(Lines) /\ buffer \in Seq(Lines) /\ unread \in Seq(Lines)
  /\ Len(buffer) + Len(unread) <= Len(sent)
  /\ \A i \in 1..Len(buffer) : buffer[i] = sent[Taken + i]
  /\ \A i \in 1..Len(unread) : unread[i] = sent[Len(sent) - Len(unread) + i]

\* request_ is what the lines up to n say of the request they belong to.
Parsed(n) ==
  \E j \in 1..n :
    /\ IsRequestOf(j, n)
    /\ IsRequestLine(sent[j])
    /\ request = [method |-> sent[j][1], path |-> Path(sent[j][2]),
                  version |-> sent[j][3], connection |-> request.connection]
    /\ \A value \in {"Close", "Keep-Alive"} :
         request.connection = value <=> Says(j, n, value)

\* The state of the parser after n lines is the one they call for.
StateAt(n) ==
  /\ pc \in {"poll", "parse", "answer"}
  /\ \/ /\ parse_state = "kParseRequestLine"
        /\ pc # "answer"
        /\ request = NoRequest
        /\ ~closing => Ends(n)
     \/ /\ parse_state = "kParseHeaders"
        /\ pc # "answer"
        /\ ~closing
        /\ ~Ends(n)
        /\ Parsed(n)
     \/ /\ parse_state = "kParseGotCompleteRequest"
        /\ pc = "answer"
        /\ n # 0 /\ Ends(n)
        /\ Parsed(n)

\* The answers given are those of n lines, and more may follow.
GivenFor(n) == Gives(n) /\ (~closing => Open(n))

\* A complete request is not answered yet.
GivenAt(n) == /\ pc # "answer" => GivenFor(n)
              /\ pc = "answer" => GivenFor(n - 1)

TakenInv == \E n \in 0..Len(sent) : n = Taken /\ StateAt(n) /\ GivenAt(n)

\* The empty lines among the first n.
Empties(n) == {i \in 1..n : sent[i] = EmptyLine}

\* A client that waits sent the last line read with an answer to each request
\* that ends before it, and leaves nothing in the buffer.
WaitInv ==
  waits =>
    /\ sent \in Requests
    /\ \A k \in 0..Len(sent) : k + 1 + Len(unread) = Len(sent) =>
                               Cardinality(Empties(k)) <= Len(answers)
    /\ ~closing /\ pc = "poll" => buffer = <<>>

ParserInv == /\ DelimitedInv
             /\ QueuesInv
             /\ TakenInv
             /\ WaitInv

(* The lines taken are among those sent.                                   *)
LEMMA TakenType ==
  ASSUME QueuesInv
  PROVE  /\ Len(sent) \in Nat /\ Len(buffer) \in Nat /\ Len(unread) \in Nat
         /\ Taken \in Nat /\ Taken + Len(buffer) + Len(unread) = Len(sent)
<1>1. Len(sent) \in Nat /\ Len(buffer) \in Nat /\ Len(unread) \in Nat
  BY LenProperties DEF QueuesInv
<1> QED
  BY <1>1 DEF QueuesInv, Taken

\* The first n unread lines are read.
Reads(n) == /\ buffer' = buffer \o SubSeq(unread, 1, n)
            /\ unread' = SubSeq(unread, n + 1, Len(unread))

(* A read moves lines from what is unread to the end of the buffer.        *)
LEMMA ReadLines ==
  ASSUME QueuesInv, NEW n \in 0..Len(unread), sent' = sent, Reads(n)
  PROVE  /\ QueuesInv' /\ Taken' = Taken
         /\ Len(unread') = Len(unread) - n
<1>1. /\ Len(sent) \in Nat /\ Len(buffer) \in Nat /\ Len(unread) \in Nat
      /\ Taken \in Nat /\ Taken + Len(buffer) + Len(unread) = Len(sent)
  BY TakenType
<1>2. PICK part : part = SubSeq(unread, 1, n)
  OBVIOUS
<1>3. /\ part \in Seq(Lines) /\ Len(part) = n
      /\ \A i \in 1..n : part[i] = unread[i]
  BY <1>1, <1>2, SubSeqProperties DEF QueuesInv
<1>4. /\ buffer' \in Seq(Lines) /\ Len(buffer') = Len(buffer) + n
      /\ \A i \in 1..Len(buffer) : buffer'[i] = buffer[i]
      /\ \A i \in 1..n : buffer'[Len(buffer) + i] = part[i]
  <2>1. PICK b : b = buffer'
    OBVIOUS
  <2>2. b = buffer \o part /\ buffer \in Seq(Lines)
    BY <1>2, <2>1 DEF QueuesInv, Reads
  <2>3. /\ b \in Seq(Lines) /\ Len(b) = Len(buffer) + Len(part)
        /\ \A i \in 1..(Len(buffer) + Len(part)) :
             b[i] = IF i <= Len(buffer) THEN buffer[i] ELSE part[i - Len(buffer)]
    BY <1>3, <2>2, ConcatProperties
  <2>4. \A i \in 1..Len(buffer) : b[i] = buffer[i]
    BY <1>1, <1>3, <2>3
  <2>5. \A i \in 1..n : b[Len(buffer) + i] = part[i]
    <3>1. \A i \in 1..n : /\ Len(buffer) + i \in 1..(Len(buffer) + Len(part))
                          /\ ~(Len(buffer) + i <= Len(buffer))
                          /\ Len(buffer) + i - Len(buffer) = i
      BY <1>1, <1>3
    <3> QED
      BY <2>3, <3>1
  <2> QED
    BY <1>3, <2>1, <2>3, <2>4, <2>5
<1>5. /\ unread' \in Seq(Lines) /\ Len(unread') = Len(unread) - n
      /\ \A i \in 1..(Len(unread) - n) : unread'[i] = unread[n + i]
  <2>1. \A i \in (n + 1)..Len(unread) : unread[i] \in Lines
    BY <1>1, ElementOfSeq DEF QueuesInv
  <2>2. n + 1 \in Int /\ Len(unread) \in Int
    BY <1>1
  <2>3. PICK rest : rest = SubSeq(unread, n + 1, Len(unread))
    OBVIOUS
  <2>4. /\ rest \in Seq(Lines)
        /\ Len(rest) = IF n + 1 <= Len(unread) THEN Len(unread) - (n + 1) + 1 ELSE 0
        /\ \A i \in 1..(Len(unread) - (n + 1) + 1) : rest[i] = unread[n + 1 + i - 1]
    BY <2>1, <2>2, <2>3, SubSeqProperties
  <2>5. Len(rest) = Len(unread) - n
    BY <1>1, <2>4
  <2>6. \A i \in 1..(Len(unread) - n) : rest[i] = unread[n + i]
    <3>1. Len(unread) - (n + 1) + 1 = Len(unread) - n
      BY <1>1
    <3>2. \A i \in 1..(Len(unread) - n) : n + 1 + i - 1 = n + i
      BY <1>1
    <3> QED
      BY <2>4, <3>1, <3>2
  <2>7. unread' = rest
    BY <2>3 DEF Reads
  <2> QED
    BY <2>4, <2>5, <2>6, <2>7
<1>6. Taken' = Taken
  BY <1>1, <1>4, <1>5 DEF Taken
<1>7. /\ \A i \in 1..Len(buffer) : buffer[i] = sent[Taken + i]
      /\ \A i \in 1..Len(unread) : unread[i] = sent[Len(sent) - Len(unread) + i]
  BY DEF QueuesInv
<1>8. \A i \in 1..Len(buffer') : buffer'[i] = sent[Taken + i]
  <2>1. PICK b : b = buffer'
    OBVIOUS
  <2> SUFFICES ASSUME NEW i \in 1..Len(b) PROVE b[i] = sent[Taken + i]
    BY <2>1
  <2>2. CASE i \in 1..Len(buffer)
    BY <1>4, <1>7, <2>1, <2>2
  <2>3. CASE i \notin 1..Len(buffer)
    <3>1. i - Len(buffer) \in 1..n /\ i = Len(buffer) + (i - Len(buffer))
      <4>1. Len(b) = Len(buffer) + n
        BY <1>4, <2>1
      <4> QED
        BY <1>1, <2>3, <4>1
    <3>2. PICK k \in 1..n : i = Len(buffer) + k
      BY <3>1
    <3>3. b[i] = unread[k] /\ k \in 1..Len(unread)
      BY <1>1, <1>3, <1>4, <2>1, <3>2
    <3>4. unread[k] = sent[Len(sent) - Len(unread) + k]
      BY <1>7, <3>3
    <3>5. Len(sent) - Len(unread) + k = Taken + i
      BY <1>1, <3>2
    <3> QED
      BY <3>3, <3>4, <3>5
  <2> QED
    BY <2>2, <2>3
<1>9. \A i \in 1..Len(unread') : unread'[i] = sent[Len(sent) - Len(unread') + i]
  <2>1. PICK u : u = unread'
    OBVIOUS
  <2> SUFFICES ASSUME NEW i \in 1..Len(u)
               PROVE  u[i] = sent[Len(sent) - Len(u) + i]
    BY <2>1
  <2>2. Len(u) = Len(unread) - n
    BY <1>5, <2>1
  <2>3. n + i \in 1..Len(unread)
    BY <1>1, <2>2
  <2>4. u[i] = unread[n + i]
    BY <1>5, <2>1, <2>2
  <2>5. unread[n + i] = sent[Len(sent) - Len(unread) + (n + i)]
    BY <1>7, <2>3
  <2>6. Len(sent) - Len(unread) + (n + i) = Len(sent) - Len(u) + i
    BY <1>1, <2>2
  <2> QED
    BY <2>4, <2>5, <2>6
<1>10. Len(buffer') + Len(unread') <= Len(sent)
  BY <1>1, <1>4, <1>5
<1> QED
  BY <1>4, <1>5, <1>6, <1>8, <1>9, <1>10 DEF QueuesInv

(* The parser takes the next line sent.                                    *)
LEMMA TakeLine ==
  ASSUME QueuesInv, FindCRLF, buffer' = AfterLine, unread' = unread, sent' = sent
  PROVE  /\ QueuesInv' /\ Taken' = Taken + 1 /\ Taken < Len(sent)
         /\ Line = sent[Taken + 1]
<1>1. /\ Len(sent) \in Nat /\ Len(buffer) \in Nat /\ Len(unread) \in Nat
      /\ Taken \in Nat /\ Taken + Len(buffer) + Len(unread) = Len(sent)
  BY TakenType
<1>2. buffer \in Seq(Lines) /\ buffer # <<>>
  BY DEF QueuesInv, FindCRLF
<1>3. /\ Len(buffer) # 0 /\ Line = buffer[1]
      /\ buffer' \in Seq(Lines) /\ Len(buffer') = Len(buffer) - 1
      /\ \A i \in 1..(Len(buffer) - 1) : buffer'[i] = buffer[i + 1]
  BY <1>2, HeadTailProperties, EmptySeq DEF Line, AfterLine
<1>4. \A i \in 1..Len(buffer) : buffer[i] = sent[Taken + i]
  BY DEF QueuesInv
<1>5. Line = sent[Taken + 1]
  BY <1>1, <1>3, <1>4
<1>6. Taken' = Taken + 1 /\ Taken < Len(sent)
  BY <1>1, <1>3 DEF Taken
<1>7. \A i \in 1..Len(buffer') : buffer'[i] = sent[Taken + 1 + i]
  <2> SUFFICES ASSUME NEW i \in 1..Len(buffer')
               PROVE  buffer'[i] = sent[Taken + 1 + i]
    OBVIOUS
  <2>1. i + 1 \in 1..Len(buffer) /\ buffer'[i] = buffer[i + 1]
    BY <1>1, <1>3
  <2>2. buffer[i + 1] = sent[Taken + (i + 1)]
    BY <1>4, <2>1
  <2>3. Taken + (i + 1) = Taken + 1 + i
    BY <1>1, <2>1
  <2> QED
    BY <2>1, <2>2, <2>3
<1>8. Len(buffer') + Len(unread') <= Len(sent)
  BY <1>1, <1>3
<1> QED
  BY <1>3, <1>5, <1>6, <1>7, <1>8 DEF QueuesInv

(* What was parsed stays what the lines say.                               *)
LEMMA ParsedStands ==
  ASSUME sent' = sent, request' = request, NEW n
  PROVE  Parsed(n)' <=> Parsed(n)
<1>1. /\ \A j : IsRequestOf(j, n)' <=> IsRequestOf(j, n)
      /\ \A j, v : Says(j, n, v)' <=> Says(j, n, v)
  BY ReferenceStands
<1> QED
  BY <1>1 DEF Parsed

(* The answers of the first lines stay theirs.                             *)
LEMMA GivenStands ==
  ASSUME UNCHANGED <<sent, closing, answers>>, NEW n
  PROVE  GivenFor(n)' <=> GivenFor(n)
<1>1. (Gives(n)' <=> Gives(n)) /\ (Open(n)' <=> Open(n))
  BY GivesStands, ReferenceStands
<1> QED
  BY <1>1 DEF GivenFor

(* A step that takes no line and answers none changes nothing.             *)
LEMMA StateStands ==
  ASSUME NEW n, StateAt(n), GivenAt(n),
         UNCHANGED <<sent, request, parse_state, closing, answers>>,
         pc' \in {"poll", "parse", "answer"}, pc' = "answer" <=> pc = "answer"
  PROVE  StateAt(n)' /\ GivenAt(n)'
<1>1. (Parsed(n)' <=> Parsed(n)) /\ (Ends(n)' <=> Ends(n))
  BY ParsedStands, ReferenceStands
<1>2. StateAt(n)'
  BY <1>1 DEF StateAt
<1>3. (GivenFor(n)' <=> GivenFor(n)) /\ (GivenFor(n - 1)' <=> GivenFor(n - 1))
  BY GivenStands
<1>4. GivenAt(n)'
  BY <1>3 DEF GivenAt
<1> QED
  BY <1>2, <1>4

(* A request line is parsed.                                               *)
LEMMA RequestLineParsed ==
  ASSUME QueuesInv, NEW n \in Nat, n = Taken, StateAt(n), GivenAt(n),
         ~closing, ParseRequestLine
  PROVE  /\ QueuesInv' /\ Taken' = n + 1 /\ n + 1 \in 0..Len(sent)
         /\ StateAt(n + 1)' /\ GivenAt(n + 1)'
<1>1. /\ FindCRLF /\ buffer' = AfterLine /\ unread' = unread /\ sent' = sent
      /\ pc = "parse" /\ pc' = "parse" /\ closing' = closing
      /\ answers' = answers
      /\ parse_state = "kParseRequestLine" /\ parse_state' = "kParseHeaders"
      /\ IsRequestLine(Line)
  BY DEF ParseRequestLine, clientVars
<1>2. /\ QueuesInv' /\ Taken' = n + 1 /\ Line = sent[n + 1]
      /\ Len(sent) \in Nat /\ n < Len(sent)
  BY <1>1, TakeLine, TakenType
<1>3. Ends(n) /\ request = NoRequest
  BY <1>1 DEF StateAt
<1>4. Starts(n + 1) /\ IsRequestLine(sent[n + 1]) /\ ~IsAnswered(n + 1)
  <2>1. Starts(n + 1)
    BY <1>2, <1>3, StartsAfterEnds
  <2> QED
    BY <1>1, <1>2, <2>1 DEF IsAnswered
<1>5. request' = [method |-> sent[n + 1][1], path |-> Path(sent[n + 1][2]),
                  version |-> sent[n + 1][3], connection |-> ""]
  <2>1. request' = [request EXCEPT !.method = Line[1], !.path = Path(Line[2]),
                                   !.version = Line[3]]
    BY DEF ParseRequestLine
  <2> QED
    BY <1>2, <1>3, <2>1 DEF NoRequest
<1>6. IsRequestOf(n + 1, n + 1) /\ \A v : ~Says(n + 1, n + 1, v)
  <2>1. \A k \in ((n + 1) + 1)..(n + 1) : FALSE
    OBVIOUS
  <2> QED
    BY <1>4, <2>1 DEF IsRequestOf, Says
<1>7. /\ IsRequestOf(n + 1, n + 1)' /\ \A v : ~Says(n + 1, n + 1, v)'
      /\ ~Ends(n + 1)'
  <2>1. ~Ends(n + 1)
    BY <1>4 DEF Ends
  <2> QED
    BY <1>1, <1>6, <2>1, ReferenceStands
<1>8. Parsed(n + 1)'
  <2>1. n + 1 \in 1..(n + 1)
    OBVIOUS
  <2>2. IsRequestLine(sent[n + 1])'
    BY <1>1, <1>4
  <2>3. request'.connection = ""
    BY <1>5
  <2>4. request' = [method |-> sent[n + 1][1], path |-> Path(sent[n + 1][2]),
                    version |-> sent[n + 1][3], connection |-> request'.connection]
    BY <1>5, <2>3
  <2> QED
    BY <1>1, <1>7, <2>1, <2>2, <2>3, <2>4 DEF Parsed
<1>9. StateAt(n + 1)'
  BY <1>1, <1>7, <1>8 DEF StateAt
<1>10. GivenFor(n + 1)
  <2>1. Gives(n) /\ Open(n)
    BY <1>1 DEF GivenAt, GivenFor
  <2> QED
    BY <1>4, <2>1, GivesUnanswered DEF GivenFor
<1>11. GivenAt(n + 1)'
  <2>1. GivenFor(n + 1)'
    BY <1>1, <1>10, GivenStands
  <2> QED
    BY <1>1, <2>1 DEF GivenAt
<1> QED
  BY <1>2, <1>9, <1>11

(* One more line that starts no request is one more line of the same.      *)
LEMMA SameRequestParsed ==
  ASSUME NEW n \in Nat, Parsed(n), ~Starts(n + 1), sent' = sent,
         Named(n + 1) => request' = [request EXCEPT !.connection = sent[n + 1][3]],
         ~Named(n + 1) => request' = request
  PROVE  Parsed(n + 1)'
<1>1. PICK j \in 1..n :
        /\ IsRequestOf(j, n)
        /\ IsRequestLine(sent[j])
        /\ request = [method |-> sent[j][1], path |-> Path(sent[j][2]),
                      version |-> sent[j][3], connection |-> request.connection]
        /\ \A value \in {"Close", "Keep-Alive"} :
             request.connection = value <=> Says(j, n, value)
  BY DEF Parsed
<1>2. j \in 1..(n + 1) /\ IsRequestOf(j, n + 1)
  BY <1>1, SameRequest
<1>3. request' = [method |-> sent[j][1], path |-> Path(sent[j][2]),
                  version |-> sent[j][3], connection |-> request'.connection]
  <2>1. CASE Named(n + 1)
    BY <1>1, <2>1
  <2>2. CASE ~Named(n + 1)
    BY <1>1, <2>2
  <2> QED
    BY <2>1, <2>2
<1>4. \A value \in {"Close", "Keep-Alive"} :
        request'.connection = value <=> Says(j, n + 1, value)
  <2>1. CASE Named(n + 1)
    <3>1. request'.connection = sent[n + 1][3]
      BY <1>1, <2>1
    <3>2. \A v : Says(j, n + 1, v) <=> sent[n + 1][3] = v
      BY <2>1, SaysNext
    <3> QED
      BY <3>1, <3>2
  <2>2. CASE ~Named(n + 1)
    <3>1. request' = request
      BY <2>2
    <3>2. \A v : Says(j, n + 1, v) <=> Says(j, n, v)
      BY <2>2, SaysNext
    <3> QED
      BY <1>1, <3>1, <3>2
  <2> QED
    BY <2>1, <2>2
<1>5. /\ IsRequestOf(j, n + 1)' /\ IsRequestLine(sent[j])'
      /\ \A v : Says(j, n + 1, v)' <=> Says(j, n + 1, v)
  BY <1>1, <1>2, ReferenceStands
<1> QED
  BY <1>2, <1>3, <1>4, <1>5 DEF Parsed

(* A header line is parsed.                                                *)
LEMMA HeaderParsed ==
  ASSUME QueuesInv, NEW n \in Nat, n = Taken, StateAt(n), GivenAt(n),
         ~closing, ParseHeaders
  PROVE  /\ QueuesInv' /\ Taken' = n + 1 /\ n + 1 \in 0..Len(sent)
         /\ StateAt(n + 1)' /\ GivenAt(n + 1)'
<1>1. /\ FindCRLF /\ buffer' = AfterLine /\ unread' = unread /\ sent' = sent
      /\ pc = "parse" /\ pc' = "parse" /\ closing' = closing
      /\ answers' = answers
      /\ parse_state = "kParseHeaders" /\ parse_state' = parse_state
      /\ HasColon(Line) /\ request' = WithHeader(Line)
  BY DEF ParseHeaders, clientVars
<1>2. /\ QueuesInv' /\ Taken' = n + 1 /\ Line = sent[n + 1]
      /\ Len(sent) \in Nat /\ n < Len(sent)
  BY <1>1, TakeLine, TakenType
<1>3. ~Ends(n) /\ Parsed(n)
  BY <1>1 DEF StateAt
<1>4. ~Starts(n + 1) /\ HasColon(sent[n + 1]) /\ ~IsAnswered(n + 1)
  <2>1. ~Starts(n + 1)
    BY <1>2, <1>3, StartsAfterEnds
  <2> QED
    BY <1>1, <1>2, <2>1 DEF IsAnswered
<1>5. Parsed(n + 1)'
  <2>1. Named(n + 1) <=> sent[n + 1][1] = "Connection"
    BY <1>4 DEF Named
  <2>2. /\ Named(n + 1) => request' = [request EXCEPT !.connection = sent[n + 1][3]]
        /\ ~Named(n + 1) => request' = request
    BY <1>1, <1>2, <2>1 DEF WithHeader
  <2> QED
    BY <1>1, <1>3, <1>4, <2>2, SameRequestParsed
<1>6. ~Ends(n + 1)'
  <2>1. ~Ends(n + 1)
    BY <1>4 DEF Ends
  <2> QED
    BY <1>1, <2>1, ReferenceStands
<1>7. StateAt(n + 1)'
  BY <1>1, <1>5, <1>6 DEF StateAt
<1>8. GivenFor(n + 1)
  <2>1. Gives(n) /\ Open(n)
    BY <1>1 DEF GivenAt, GivenFor
  <2> QED
    BY <1>4, <2>1, GivesUnanswered DEF GivenFor
<1>9. GivenAt(n + 1)'
  <2>1. GivenFor(n + 1)'
    BY <1>1, <1>8, GivenStands
  <2> QED
    BY <1>1, <2>1 DEF GivenAt
<1> QED
  BY <1>2, <1>7, <1>9

(* The line that ends a request is taken; it is answered next.             *)
LEMMA HeadersEnded ==
  ASSUME QueuesInv, NEW n \in Nat, n = Taken, StateAt(n), GivenAt(n),
         ~closing, EndOfHeaders
  PROVE  /\ QueuesInv' /\ Taken' = n + 1 /\ n + 1 \in 0..Len(sent)
         /\ StateAt(n + 1)' /\ GivenAt(n + 1)'
<1>1. /\ FindCRLF /\ buffer' = AfterLine /\ unread' = unread /\ sent' = sent
      /\ pc = "parse" /\ pc' = "answer" /\ closing' = closing
      /\ answers' = answers /\ request' = request
      /\ parse_state = "kParseHeaders"
      /\ parse_state' = "kParseGotCompleteRequest"
      /\ ~HasColon(Line)
  BY DEF EndOfHeaders, clientVars
<1>2. /\ QueuesInv' /\ Taken' = n + 1 /\ Line = sent[n + 1]
      /\ Len(sent) \in Nat /\ n < Len(sent)
  BY <1>1, TakeLine, TakenType
<1>3. ~Ends(n) /\ Parsed(n)
  BY <1>1 DEF StateAt
<1>4. ~Starts(n + 1) /\ ~HasColon(sent[n + 1])
  <2>1. ~Starts(n + 1)
    BY <1>2, <1>3, StartsAfterEnds
  <2> QED
    BY <1>1, <1>2, <2>1
<1>5. Parsed(n + 1)'
  <2>1. ~Named(n + 1)
    BY <1>4 DEF Named
  <2> QED
    BY <1>1, <1>3, <1>4, <2>1, SameRequestParsed
<1>6. n + 1 # 0 /\ Ends(n + 1)'
  <2>1. Ends(n + 1)
    BY <1>4 DEF Ends
  <2> QED
    BY <1>1, <2>1, ReferenceStands
<1>7. StateAt(n + 1)'
  BY <1>1, <1>5, <1>6 DEF StateAt
<1>8. GivenAt(n + 1)'
  <2>1. GivenFor(n)
    BY <1>1 DEF GivenAt
  <2>2. GivenFor(n)'
    BY <1>1, <2>1, GivenStands
  <2>3. (n + 1) - 1 = n
    OBVIOUS
  <2> QED
    BY <1>1, <2>2, <2>3 DEF GivenAt
<1> QED
  BY <1>2, <1>7, <1>8

(* A line that is no request line is refused.                              *)
LEMMA RequestLineRefused ==
  ASSUME QueuesInv, NEW n \in Nat, n = Taken, StateAt(n), GivenAt(n),
         ~closing, answers \in Seq(Answer), BadRequestLine
  PROVE  /\ QueuesInv' /\ Taken' = n + 1 /\ n + 1 \in 0..Len(sent)
         /\ StateAt(n + 1)' /\ GivenAt(n + 1)'
<1>1. /\ FindCRLF /\ buffer' = AfterLine /\ unread' = unread /\ sent' = sent
      /\ pc = "parse" /\ pc' = "poll" /\ closing' = TRUE
      /\ answers' = Append(answers, BadRequest) /\ request' = request
      /\ parse_state = "kParseRequestLine" /\ parse_state' = parse_state
      /\ ~IsRequestLine(Line)
  BY DEF BadRequestLine, clientVars
<1>2. /\ QueuesInv' /\ Taken' = n + 1 /\ Line = sent[n + 1]
      /\ Len(sent) \in Nat /\ n < Len(sent)
  BY <1>1, TakeLine, TakenType
<1>3. Ends(n) /\ request = NoRequest
  BY <1>1 DEF StateAt
<1>4. Starts(n + 1) /\ IsAnswered(n + 1)
  <2>1. Starts(n + 1)
    BY <1>2, <1>3, StartsAfterEnds
  <2> QED
    BY <1>1, <1>2, <2>1 DEF IsAnswered
<1>5. AnswerAt(n + 1) = [status |-> 400, body |-> 0, close |-> TRUE]
  <2>1. n + 1 \in 1..(n + 1) /\ n + 1 \in Nat /\ \A k \in ((n + 1) + 1)..(n + 1) : FALSE
    OBVIOUS
  <2>2. IsRequestOf(n + 1, n + 1)
    BY <1>4, <2>1 DEF IsRequestOf
  <2>3. AnswerAt(n + 1) = AnswerTo(n + 1, n + 1)
    BY <2>1, <2>2, AnswerIs
  <2> QED
    BY <2>3 DEF AnswerTo, Filled
<1>6. StateAt(n + 1)'
  BY <1>1, <1>3 DEF StateAt
<1>7. GivenFor(n + 1)'
  <2>1. Gives(n) /\ Open(n)
    BY <1>1 DEF GivenAt, GivenFor
  <2>2. /\ BadRequest \in Answer
        /\ BadRequest.status = AnswerAt(n + 1).status
        /\ BadRequest.body = AnswerAt(n + 1).body
        /\ AnswerAt(n + 1).close
    BY <1>5 DEF BadRequest, Answer, NoLength
  <2>3. Gives(n + 1)' /\ (~closing' => Open(n + 1)')
    BY <1>1, <1>4, <2>1, <2>2, GivesAnswered
  <2> QED
    BY <2>3 DEF GivenFor
<1>8. GivenAt(n + 1)'
  BY <1>1, <1>7 DEF GivenAt
<1> QED
  BY <1>2, <1>6, <1>8

(* What the setters change, and what they keep.                            *)
LEMMA Setters ==
  ASSUME NEW code, NEW size, NEW closes, NEW x
  PROVE  
    /\ SetStatusCode(Filled(code, size, closes), x) = Filled(x, size, closes)
    /\ SetBody(Filled(code, size, closes), x) = Filled(code, x, closes)
    /\ SetCloseConnection(Filled(code, size, closes), x) = Filled(code, size, x)
BY DEF SetStatusCode, SetBody, SetCloseConnection, Filled

(* What the callback makes of a request.                                   *)
LEMMA CallbackCloses ==
  ASSUME NEW close, NEW code
  PROVE  SetCloseConnection(SetStatusCode(Response(close), code), TRUE)
           = Filled(code, 0, TRUE)
<1>1. Response(close) = Filled(0, 0, close)
  BY DEF Response, Filled
<1>2. SetStatusCode(Response(close), code) = Filled(code, 0, close)
  BY <1>1, Setters
<1>3. \A closes : SetCloseConnection(SetStatusCode(Response(close), code), closes)
                  = Filled(code, 0, closes)
  BY <1>2, Setters
<1> QED
  BY <1>3, Zenon

(* What is not a GET is refused.                                           *)
LEMMA CallbackRefuses ==
  ASSUME NEW req, NEW close, req.method # "GET"
  PROVE  HttpResponseCallback(req, Response(close)) = Filled(400, 0, TRUE)
<1>1. PICK code : code = 400
  OBVIOUS
<1>2. SetCloseConnection(SetStatusCode(Response(close), code), TRUE)
        = Filled(code, 0, TRUE)
  BY CallbackCloses, Zenon
<1>3. HttpResponseCallback(req, Response(close)) = Filled(code, 0, TRUE)
  BY <1>1, <1>2, Zenon DEF HttpResponseCallback
<1> QED
  BY <1>1, <1>3

(* What is no page is not found.                                           *)
LEMMA CallbackMisses ==
  ASSUME NEW req, NEW close, req.method = "GET", req.path \notin DOMAIN Pages
  PROVE  HttpResponseCallback(req, Response(close)) = Filled(404, 0, TRUE)
<1>1. PICK code : code = 404
  OBVIOUS
<1>2. SetCloseConnection(SetStatusCode(Response(close), code), TRUE)
        = Filled(code, 0, TRUE)
  BY CallbackCloses, Zenon
<1>3. HttpResponseCallback(req, Response(close)) = Filled(code, 0, TRUE)
  BY <1>1, <1>2, Zenon DEF HttpResponseCallback
<1> QED
  BY <1>1, <1>3

(* A page is given.                                                        *)
LEMMA CallbackFinds ==
  ASSUME NEW req, NEW close, req.method = "GET", req.path \in DOMAIN Pages
  PROVE  HttpResponseCallback(req, Response(close))
           = Filled(200, Pages[req.path], close)
<1>1. \A size : SetBody(SetStatusCode(Response(close), 200), size)
                = Filled(200, size, close)
  <2>1. Response(close) = Filled(0, 0, close)
    BY DEF Response, Filled
  <2> QED
    BY <2>1, Setters
<1> QED
  BY <1>1, Zenon DEF HttpResponseCallback

(* The callback answers what the lines of the request call for, and the    *)
(* connection closes if they say so.                                       *)
LEMMA AnswerIsRight ==
  ASSUME NEW n \in Nat, Parsed(n), ~Starts(n), NEW response,
         response = HttpResponseCallback(request, Response(CloseConnection(request)))
  PROVE  /\ response.status = AnswerAt(n).status
         /\ response.body = AnswerAt(n).body
         /\ response.close <=> AnswerAt(n).close
<1>1. PICK j \in 1..n :
        /\ IsRequestOf(j, n)
        /\ IsRequestLine(sent[j])
        /\ request = [method |-> sent[j][1], path |-> Path(sent[j][2]),
                      version |-> sent[j][3], connection |-> request.connection]
        /\ \A value \in {"Close", "Keep-Alive"} :
             request.connection = value <=> Says(j, n, value)
  BY DEF Parsed
<1>2. AnswerAt(n) = AnswerTo(j, n)
  BY <1>1, AnswerIs
<1>3. j # n
  BY <1>1 DEF IsRequestOf
<1>4. /\ request.method = sent[j][1] /\ request.path = Path(sent[j][2])
      /\ request.version = sent[j][3]
  BY <1>1
<1>5. CloseConnection(request) <=> Closes(j, n)
  <2>1. /\ request.connection = "Close" <=> Says(j, n, "Close")
        /\ request.connection = "Keep-Alive" <=> Says(j, n, "Keep-Alive")
    BY <1>1
  <2> QED
    BY <1>4, <2>1 DEF CloseConnection, Closes
<1>6. PICK close \in BOOLEAN : close = CloseConnection(request)
  BY DEF CloseConnection
<1>7. response = HttpResponseCallback(request, Response(close))
  BY <1>6, Zenon
<1>8. CASE sent[j][1] # "GET"
  <2>1. AnswerTo(j, n) = Filled(400, 0, TRUE)
    BY <1>8, Zenon DEF AnswerTo
  <2>2. request.method # "GET"
    BY <1>4, <1>8
  <2>3. HttpResponseCallback(request, Response(close)) = Filled(400, 0, TRUE)
    BY <2>2, CallbackRefuses, Zenon
  <2> QED
    BY <1>2, <1>7, <2>1, <2>3, Zenon
<1>9. CASE sent[j][1] = "GET" /\ Path(sent[j][2]) \notin DOMAIN Pages
  <2>1. AnswerTo(j, n) = Filled(404, 0, TRUE)
    BY <1>3, <1>9, Zenon DEF AnswerTo
  <2>2. request.method = "GET" /\ request.path \notin DOMAIN Pages
    BY <1>4, <1>9
  <2>3. HttpResponseCallback(request, Response(close)) = Filled(404, 0, TRUE)
    BY <2>2, CallbackMisses, Zenon
  <2> QED
    BY <1>2, <1>7, <2>1, <2>3, Zenon
<1>10. CASE sent[j][1] = "GET" /\ Path(sent[j][2]) \in DOMAIN Pages
  <2>1. PICK says \in BOOLEAN : says = Closes(j, n)
    BY DEF Closes, Says
  <2>2. AnswerTo(j, n) = Filled(200, Pages[Path(sent[j][2])], says)
    <3>1. AnswerTo(j, n) = Filled(200, Pages[Path(sent[j][2])], Closes(j, n))
      BY <1>3, <1>10, Zenon DEF AnswerTo
    <3> QED
      BY <2>1, <3>1, Zenon
  <2>3. /\ request.method = "GET" /\ request.path \in DOMAIN Pages
        /\ Pages[request.path] = Pages[Path(sent[j][2])]
    BY <1>4, <1>10
  <2>4. /\ HttpResponseCallback(request, Response(close))
             = Filled(200, Pages[request.path], close)
        /\ Filled(200, Pages[request.path], close)
             = Filled(200, Pages[Path(sent[j][2])], close)
    <3>1. request.method = "GET" /\ request.path \in DOMAIN Pages
      BY <2>3
    <3>2. HttpResponseCallback(request, Response(close))
            = Filled(200, Pages[request.path], close)
      BY <3>1, CallbackFinds, Zenon
    <3> QED
      BY <2>3, <3>2, Zenon
  <2>5. close = says
    BY <1>5, <1>6, <2>1
  <2> QED
    BY <1>2, <1>7, <2>2, <2>4, <2>5, Zenon
<1> QED
  BY <1>8, <1>9, <1>10

(* A complete request is answered.                                         *)
LEMMA RequestDealtWith ==
  ASSUME NEW n \in Nat, StateAt(n), GivenAt(n),
         ~closing, answers \in Seq(Answer), DealWithRequest
  PROVE  StateAt(n)' /\ GivenAt(n)'
<1>1. PICK response :
        response = HttpResponseCallback(request, Response(CloseConnection(request)))
  OBVIOUS
<1>2. /\ pc = "answer" /\ pc' = "poll" /\ sent' = sent
      /\ request' = NoRequest /\ parse_state' = "kParseRequestLine"
  BY DEF DealWithRequest, ResetContentState, clientVars
<1>3. /\ answers' = Append(answers, AppendToBuffer(response))
      /\ closing' = response.close
  BY <1>1, Zenon DEF DealWithRequest, ShutsDown
<1>4. n # 0 /\ Ends(n) /\ Parsed(n)
  BY <1>2 DEF StateAt
<1>5. ~Starts(n) /\ IsAnswered(n)
  BY <1>4 DEF Ends, IsAnswered
<1>6. /\ response.status = AnswerAt(n).status
      /\ response.body = AnswerAt(n).body
      /\ response.close <=> AnswerAt(n).close
  BY <1>1, <1>4, <1>5, AnswerIsRight
<1>7. PICK m \in Nat : n = m + 1
  <2>1. n - 1 \in Nat /\ n = (n - 1) + 1
    BY <1>4
  <2> QED
    BY <2>1
<1>8. Gives(m) /\ Open(m)
  <2>1. n - 1 = m
    BY <1>7
  <2> QED
    BY <1>2, <2>1 DEF GivenAt, GivenFor
<1>9. PICK answer : answer = AppendToBuffer(response)
  OBVIOUS
<1>10. /\ answer \in Answer /\ answer.status = response.status
       /\ answer.body = response.body
  <2>1. CloseConnection(request) \in BOOLEAN
    BY DEF CloseConnection
  <2>2. answer \in Answer
    BY <1>1, <1>9, <2>1, LengthUnlessClosed
  <2> QED
    BY <1>9, <2>2 DEF AppendToBuffer
<1>11. GivenFor(n)'
  <2>1. Gives(m + 1)' /\ (~closing' => Open(m + 1)')
    <3>1. IsAnswered(m + 1) /\ (closing' <=> AnswerAt(m + 1).close)
      BY <1>3, <1>5, <1>6, <1>7
    <3>2. /\ answer.status = AnswerAt(m + 1).status
          /\ answer.body = AnswerAt(m + 1).body
      BY <1>6, <1>7, <1>10
    <3>3. answers' = Append(answers, answer)
      BY <1>3, <1>9
    <3> QED
      BY <1>2, <1>8, <1>10, <3>1, <3>2, <3>3, GivesAnswered
  <2> QED
    BY <1>7, <2>1 DEF GivenFor
<1>12. GivenAt(n)'
  BY <1>2, <1>11 DEF GivenAt
<1>13. StateAt(n)'
  <2>1. Ends(n)'
    BY <1>2, <1>4, ReferenceStands
  <2> QED
    BY <1>2, <2>1 DEF StateAt
<1> QED
  BY <1>12, <1>13

(* The parser goes from line to line, and answers in between.              *)
LEMMA TakenNext ==
  ASSUME DelimitedInv, QueuesInv, TakenInv, [Next]_vars
  PROVE  QueuesInv' /\ TakenInv'
<1>1. PICK n \in 0..Len(sent) : n = Taken /\ StateAt(n) /\ GivenAt(n)
  BY DEF TakenInv
<1>2. n \in Nat /\ sent' = sent
  <2>1. n \in Nat
    OBVIOUS
  <2>2. sent' = sent
    BY Zenon DEF Next, MessageCallback, HandleMessage, NoMoreLine, ParseRequestLine,
       BadRequestLine, ParseHeaders, EndOfHeaders, DealWithRequest, vars, clientVars
  <2> QED
    BY <2>1, <2>2
<1>3. (closing => pc = "poll") /\ answers \in Seq(Answer)
  BY DEF DelimitedInv
<1>4. ASSUME QueuesInv', Taken' = n, StateAt(n)', GivenAt(n)'
      PROVE  TakenInv'
  BY <1>1, <1>2, <1>4 DEF TakenInv
<1>5. ASSUME QueuesInv', Taken' = n + 1, n + 1 \in 0..Len(sent),
             StateAt(n + 1)', GivenAt(n + 1)'
      PROVE  TakenInv'
  BY <1>2, <1>5 DEF TakenInv
<1>6. CASE HandleMessage
  <2>1. PICK m \in 0..Len(unread) : Reads(m)
    BY <1>6 DEF HandleMessage, Reads
  <2>2. QueuesInv' /\ Taken' = n
    BY <1>1, <1>2, <2>1, ReadLines
  <2>3. /\ UNCHANGED <<sent, request, parse_state, closing, answers>>
        /\ pc = "poll" /\ pc' \in {"poll", "parse"}
    BY <1>6 DEF HandleMessage, clientVars
  <2>4. StateAt(n)' /\ GivenAt(n)'
    BY <1>1, <2>3, StateStands
  <2> QED
    BY <1>4, <2>2, <2>4
<1>7. CASE NoMoreLine \/ UNCHANGED vars
  <2>1. /\ UNCHANGED <<sent, request, parse_state, closing, answers>>
        /\ UNCHANGED <<buffer, unread>>
        /\ pc' = pc \/ (pc = "parse" /\ pc' = "poll")
    BY <1>7 DEF NoMoreLine, vars, clientVars
  <2>2. QueuesInv' /\ Taken' = n
    BY <1>1, <2>1 DEF QueuesInv, Taken
  <2>3. pc \in {"poll", "parse", "answer"}
    BY <1>1 DEF StateAt
  <2>4. StateAt(n)' /\ GivenAt(n)'
    BY <1>1, <2>1, <2>3, StateStands
  <2> QED
    BY <1>4, <2>2, <2>4
<1>8. CASE ParseRequestLine \/ ParseHeaders \/ EndOfHeaders \/ BadRequestLine
  <2>1. ~closing
    BY <1>3, <1>8 DEF ParseRequestLine, ParseHeaders, EndOfHeaders, BadRequestLine
  <2>2. /\ QueuesInv' /\ Taken' = n + 1 /\ n + 1 \in 0..Len(sent)
        /\ StateAt(n + 1)' /\ GivenAt(n + 1)'
    BY <1>1, <1>2, <1>3, <1>8, <2>1, RequestLineParsed, HeaderParsed,
       HeadersEnded, RequestLineRefused
  <2> QED
    BY <1>5, <2>2
<1>9. CASE DealWithRequest
  <2>1. pc = "answer" /\ UNCHANGED <<sent, buffer, unread>>
    BY <1>9 DEF DealWithRequest, clientVars
  <2>2. QueuesInv' /\ Taken' = n
    BY <1>1, <2>1 DEF QueuesInv, Taken
  <2>3. ~closing
    BY <1>3, <2>1
  <2>4. StateAt(n)' /\ GivenAt(n)'
    BY <1>1, <1>2, <1>3, <1>9, <2>3, RequestDealtWith
  <2> QED
    BY <1>4, <2>2, <2>4
<1> QED
  BY <1>6, <1>7, <1>8, <1>9 DEF Next, MessageCallback

-----------------------------------------------------------------------------
(* A client that waits for each answer.                                    *)

(* When its request is complete nothing follows it in the buffer: it would *)
(* have been sent before the answer.                                       *)
LEMMA NothingFollows ==
  ASSUME QueuesInv, WaitInv, waits, ~closing, pc = "answer",
         NEW n \in Nat, n = Taken, StateAt(n), GivenAt(n)
  PROVE  buffer = <<>>
<1> SUFFICES ASSUME buffer # <<>> PROVE FALSE
  OBVIOUS
<1>1. /\ Len(sent) \in Nat /\ Len(buffer) \in Nat /\ Len(unread) \in Nat
      /\ n + Len(buffer) + Len(unread) = Len(sent)
      /\ Len(buffer) # 0
  BY TakenType, EmptySeq DEF QueuesInv
<1>2. n # 0 /\ ~Starts(n) /\ ~HasColon(sent[n])
  BY DEF StateAt, Ends
<1>3. PICK m \in Nat : n = m + 1
  <2>1. n - 1 \in Nat /\ n = (n - 1) + 1
    BY <1>2
  <2> QED
    BY <2>1
<1>4. Gives(m) /\ Open(m)
  <2>1. n - 1 = m
    BY <1>3
  <2> QED
    BY <2>1 DEF GivenAt, GivenFor
<1>5. PICK k \in 0..Len(sent) : /\ k + 1 + Len(unread) = Len(sent)
                                /\ n <= k
  <2>1. /\ n + Len(buffer) - 1 \in 0..Len(sent)
        /\ (n + Len(buffer) - 1) + 1 + Len(unread) = Len(sent)
        /\ n <= n + Len(buffer) - 1
    BY <1>1
  <2> QED
    BY <2>1
<1>6. Cardinality(Empties(k)) <= Len(answers)
  BY <1>5 DEF WaitInv
<1>7. \A i \in 1..Len(sent) : ~Starts(i) /\ ~HasColon(sent[i]) => sent[i] = EmptyLine
  BY RequestsAssumption DEF WaitInv, Starts
<1>8. n \in Empties(k)
  BY <1>1, <1>2, <1>5, <1>7 DEF Empties
<1>9. Due(m) \subseteq Empties(k)
  <2> SUFFICES ASSUME NEW i \in Due(m) PROVE i \in Empties(k)
    OBVIOUS
  <2>1. i \in 1..m /\ IsAnswered(i) /\ ~AnswerAt(i).close
    BY <1>4 DEF Due, Open
  <2>2. i \in Nat /\ i \in 1..i /\ i \in 1..k /\ i \in 1..Len(sent)
    BY <1>1, <1>3, <1>5, <2>1
  <2>3. ~Starts(i)
    <3> SUFFICES ASSUME Starts(i) PROVE FALSE
      OBVIOUS
    <3>1. IsRequestOf(i, i)
      <4>1. \A l \in (i + 1)..i : FALSE
        BY <2>2
      <4> QED
        BY <4>1 DEF IsRequestOf
    <3>2. AnswerAt(i) = AnswerTo(i, i)
      BY <2>2, <3>1, AnswerIs
    <3>3. AnswerAt(i).close
      BY <3>2 DEF AnswerTo, Filled
    <3> QED
      BY <2>1, <3>3
  <2> QED
    BY <1>7, <2>1, <2>2, <2>3 DEF IsAnswered, Empties
<1>10. /\ IsFiniteSet(Due(m)) /\ Cardinality(Due(m)) \in Nat /\ n \notin Due(m)
  <2>1. /\ IsFiniteSet(Due(m)) /\ Cardinality(Due(m)) \in Nat
        /\ Due(m) \subseteq 1..m
    BY DueFinite
  <2>2. n \notin 1..m
    BY <1>3
  <2> QED
    BY <2>1, <2>2
<1>11. Cardinality(Due(m) \cup {n}) = Cardinality(Due(m)) + 1
  BY <1>10, FS_AddElement
<1>12. Cardinality(Due(m) \cup {n}) <= Cardinality(Empties(k))
  <2>1. Due(m) \cup {n} \subseteq Empties(k)
    BY <1>8, <1>9
  <2>2. IsFiniteSet(Empties(k))
    <3>1. Empties(k) \subseteq 1..k /\ IsFiniteSet(1..k)
      BY FS_Interval DEF Empties
    <3> QED
      BY <3>1, FS_Subset
  <2> QED
    BY <2>1, <2>2, FS_Subset
<1>13. Len(answers) = Cardinality(Due(m))
  BY <1>4 DEF Gives
<1>14. Cardinality(Empties(k)) \in Nat
  <2>1. Empties(k) \subseteq 1..k /\ IsFiniteSet(1..k)
    BY FS_Interval DEF Empties
  <2> QED
    BY <2>1, FS_Subset, FS_CardinalityType
<1> QED
  BY <1>6, <1>10, <1>11, <1>12, <1>13, <1>14

(* No step breaks the invariant of such a client.                          *)
LEMMA WaitNext ==
  ASSUME DelimitedInv, QueuesInv, TakenInv, WaitInv, [Next]_vars
  PROVE  WaitInv'
<1> SUFFICES ASSUME waits' PROVE WaitInv'
  BY DEF WaitInv
<1>1. sent' = sent /\ waits' = waits
  BY Zenon DEF Next, MessageCallback, HandleMessage, NoMoreLine, ParseRequestLine,
     BadRequestLine, ParseHeaders, EndOfHeaders, DealWithRequest, vars, clientVars
<1>2. /\ sent \in Requests /\ waits
      /\ \A k \in 0..Len(sent) : k + 1 + Len(unread) = Len(sent) =>
                                 Cardinality(Empties(k)) <= Len(answers)
      /\ ~closing /\ pc = "poll" => buffer = <<>>
  BY <1>1 DEF WaitInv
<1>3. /\ Len(sent) \in Nat /\ Len(unread) \in Nat /\ Len(answers) \in Nat
      /\ \A k \in Nat : Cardinality(Empties(k)) \in Nat
  <2>1. \A k \in Nat : Empties(k) \subseteq 1..k /\ IsFiniteSet(1..k)
    BY FS_Interval DEF Empties
  <2>2. \A k \in Nat : Cardinality(Empties(k)) \in Nat
    BY <2>1, FS_Subset, FS_CardinalityType
  <2>3. answers \in Seq(Answer)
    BY DEF DelimitedInv
  <2> QED
    BY <2>2, <2>3, TakenType, LenProperties
<1>4. \A k : Empties(k)' = Empties(k)
  BY <1>1 DEF Empties
<1>5. ASSUME unread' = unread, Len(answers') \in Nat, Len(answers) <= Len(answers'),
             ~closing' /\ pc' = "poll" => buffer' = <<>>
      PROVE  WaitInv'
  <2>1. ASSUME NEW k \in 0..Len(sent), k + 1 + Len(unread) = Len(sent)
        PROVE  Cardinality(Empties(k)) <= Len(answers')
    <3>1. k \in Nat /\ Cardinality(Empties(k)) <= Len(answers)
      BY <1>2, <1>3, <2>1
    <3> QED
      BY <1>3, <1>5, <3>1
  <2> QED
    BY <1>1, <1>2, <1>4, <1>5, <2>1 DEF WaitInv
<1>6. CASE HandleMessage
  <2>1. PICK n \in 0..Len(unread) : MaySend(IF n = 0 THEN 1 ELSE n) /\ Reads(n)
    BY <1>6 DEF HandleMessage, Reads
  <2>2. /\ answers' = answers /\ closing' = closing /\ pc = "poll"
        /\ pc' = IF closing THEN "poll" ELSE "parse"
        /\ unread # <<>>
    BY <1>6 DEF HandleMessage
  <2>3. Len(unread') = Len(unread) - n
    BY <1>1, <2>1, ReadLines
  <2>4. ASSUME NEW k \in 0..Len(sent), k + 1 + Len(unread') = Len(sent)
        PROVE  Cardinality(Empties(k)) <= Len(answers)
    <3>1. CASE n = 0
      BY <1>2, <1>3, <2>3, <2>4, <3>1
    <3>2. CASE n # 0
      <4>1. k = Len(sent) - Len(unread) + n - 1
        BY <1>3, <2>3, <2>4
      <4>2. MaySend(n)
        BY <2>1, <3>2
      <4>3. Cardinality({i \in 1..k : sent[i] = EmptyLine}) <= Len(answers)
        BY <1>2, <4>1, <4>2, Zenon DEF MaySend
      <4> QED
        BY <4>3 DEF Empties
    <3> QED
      BY <3>1, <3>2
  <2> QED
    BY <1>1, <1>2, <1>4, <2>2, <2>4 DEF WaitInv
<1>7. CASE NoMoreLine
  BY <1>3, <1>5, <1>7 DEF NoMoreLine, FindCRLF
<1>8. CASE ParseRequestLine \/ ParseHeaders \/ EndOfHeaders
  BY <1>3, <1>5, <1>8 DEF ParseRequestLine, ParseHeaders, EndOfHeaders
<1>9. ASSUME NEW answer \in Answer, answers' = Append(answers, answer)
      PROVE  Len(answers') = Len(answers) + 1
  BY <1>9, AppendProperties DEF DelimitedInv
<1>10. CASE BadRequestLine
  <2>1. /\ answers' = Append(answers, BadRequest) /\ closing' = TRUE
        /\ unread' = unread
    BY <1>10 DEF BadRequestLine
  <2>2. BadRequest \in Answer
    BY DEF BadRequest, Answer, NoLength
  <2>3. Len(answers') = Len(answers) + 1
    BY <1>9, <2>1, <2>2
  <2> QED
    <3>1. Len(answers') \in Nat /\ Len(answers) <= Len(answers')
      BY <1>3, <2>3
    <3>2. ~(~closing' /\ pc' = "poll")
      BY <2>1
    <3> QED
      BY <1>5, <2>1, <3>1, <3>2, Zenon
<1>11. CASE DealWithRequest
  <2>1. PICK n \in 0..Len(sent) : n = Taken /\ StateAt(n) /\ GivenAt(n)
    BY DEF TakenInv
  <2>2. /\ pc = "answer" /\ buffer' = buffer /\ unread' = unread
    BY <1>11 DEF DealWithRequest
  <2>3. n \in Nat /\ ~closing
    BY <2>2 DEF DelimitedInv
  <2>4. buffer = <<>>
    BY <1>2, <2>1, <2>2, <2>3, NothingFollows
  <2>5. PICK response : response =
                          HttpResponseCallback(request, Response(CloseConnection(request)))
    OBVIOUS
  <2>6. answers' = Append(answers, AppendToBuffer(response))
    BY <1>11, <2>5, Zenon DEF DealWithRequest
  <2>7. AppendToBuffer(response) \in Answer
    <3>1. CloseConnection(request) \in BOOLEAN
      BY DEF CloseConnection
    <3> QED
      BY <2>5, <3>1, LengthUnlessClosed
  <2>8. Len(answers') = Len(answers) + 1
    BY <1>9, <2>6, <2>7
  <2> QED
    BY <1>3, <1>5, <2>2, <2>4, <2>8
<1>12. CASE UNCHANGED vars
  BY <1>2, <1>3, <1>5, <1>12 DEF vars
<1> QED
  BY <1>6, <1>7, <1>8, <1>10, <1>11, <1>12 DEF Next, MessageCallback

-----------------------------------------------------------------------------

(* No line is taken, and none is due, before the first read.               *)
LEMMA ParserInit == Init => ParserInv
<1> SUFFICES ASSUME Init PROVE ParserInv
  OBVIOUS
<1>1. /\ sent \in Seq(Lines) /\ unread = sent /\ buffer = <<>>
      /\ answers = <<>> /\ closing = FALSE /\ pc = "poll"
      /\ parse_state = "kParseRequestLine" /\ request = NoRequest
      /\ waits => sent \in Requests
  BY HttpServerAssumption DEF Init
<1>2. Len(sent) \in Nat /\ buffer \in Seq(Lines) /\ Len(buffer) = 0
  BY <1>1, EmptySeq, LenProperties
<1>3. Taken = 0 /\ QueuesInv
  <2>1. Taken = 0
    BY <1>1, <1>2 DEF Taken
  <2> QED
    BY <1>1, <1>2, <2>1 DEF QueuesInv
<1>4. DelimitedInv
  BY DelimitedInit
<1>5. TakenInv
  <2>1. Due(0) = {} /\ Open(0) /\ Ends(0)
    BY DEF Due, Open, Ends
  <2>2. Gives(0)
    <3>1. Len(answers) = 0 /\ Cardinality(Due(0)) = 0
      BY <1>1, <2>1, FS_EmptySet
    <3> QED
      BY <1>1, <2>1, <3>1 DEF Gives
  <2>3. StateAt(0) /\ GivenAt(0)
    BY <1>1, <2>1, <2>2 DEF StateAt, GivenAt, GivenFor
  <2> QED
    BY <1>2, <1>3, <2>3 DEF TakenInv
<1>6. WaitInv
  BY <1>1, <1>2 DEF WaitInv
<1> QED
  BY <1>3, <1>4, <1>5, <1>6 DEF ParserInv

(* No step breaks the invariant.                                           *)
LEMMA ParserNext == ParserInv /\ [Next]_vars => ParserInv'
BY DelimitedNext, TakenNext, WaitNext DEF ParserInv

(* Whatever the lines and however they are cut into reads, each answer is  *)
(* the one its own lines call for, in the order of the requests, none      *)
(* skipped or given twice, and none after the one that closes.             *)
THEOREM AnswersFollowRequests == Spec => []AnswersAreRight
<1>1. ParserInv => AnswersAreRight
  <2> SUFFICES ASSUME ParserInv, pc # "answer"
               PROVE  Gives(Len(sent) - Len(buffer) - Len(unread))
    BY DEF AnswersAreRight
  <2>1. Gives(Taken)
    BY DEF ParserInv, TakenInv, GivenAt, GivenFor
  <2> QED
    BY <2>1 DEF Taken
<1> QED
  BY <1>1, ParserInit, ParserNext, PTL DEF Spec

(* A client that waits for each answer before its next request gets one to *)
(* every request: it and the server never wait for each other.             *)
THEOREM NoRequestIsForgotten == Spec => []NoRequestIsLeft
<1>1. ParserInv => NoRequestIsLeft
  <2> SUFFICES ASSUME ParserInv, waits, pc = "poll", unread = <<>>
               PROVE  Gives(Len(sent))
    BY DEF NoRequestIsLeft
  <2>1. PICK n \in 0..Len(sent) : n = Taken /\ Gives(n)
    BY DEF ParserInv, TakenInv, GivenAt, GivenFor
  <2>2. /\ Len(sent) \in Nat /\ Len(buffer) \in Nat /\ Len(unread) = 0
        /\ n + Len(buffer) + Len(unread) = Len(sent)
    BY <2>1, TakenType, EmptySeq DEF ParserInv
  <2>3. CASE closing
    BY <2>1, <2>2, <2>3, NothingAfterClose
  <2>4. CASE ~closing
    <3>1. buffer = <<>>
      BY <2>4 DEF ParserInv, WaitInv
    <3>2. n = Len(sent)
      BY <2>2, <3>1, EmptySeq
    <3> QED
      BY <2>1, <3>2
  <2> QED
    BY <2>3, <2>4
<1> QED
  BY <1>1, ParserInit, ParserNext, PTL DEF Spec

=============================================================================
