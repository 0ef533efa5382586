---------------------------- MODULE TcpConnection ----------------------------
(***************************************************************************)
(* The bytes of one established connection (Util/tcpconnection.cc): what   *)
(* the handlers of HttpServer send, what output_buffer_ keeps while the    *)
(* socket is full, and when the sending side is shut down.                 *)
(*                                                                         *)
(* The handlers run in the connection's loop.  Shutdown is also called by  *)
(* HttpServer::HandleIdleConnection in the base loop, so whatever it reads *)
(* or the handlers read after it, state_, EPOLLOUT in events_ and the      *)
(* socket, separates two actions here.  Every request is answered by one   *)
(* response of MsgLen bytes; bytes are numbered in the order in which they *)
(* are handed to Send.                                                     *)
(***************************************************************************)
EXTENDS Naturals, Sequences

CONSTANTS MsgLen,       \* bound: the length of a response
          SndBuf,       \* bound: the size of the socket's send buffer
          MaxRequests,  \* bound: the requests of the client
          ClientCloses  \* the client may close its sending side

ASSUME TcpConnectionAssumption == /\ MsgLen \in Nat \ {0}
                                  /\ SndBuf \in Nat \ {0}
                                  /\ MaxRequests \in Nat
                                  /\ ClientCloses \in BOOLEAN

VARIABLES
  state,     \* state_
  reading,   \* EPOLLIN is in events_ of the channel
  writing,   \* EPOLLOUT is, IsWriting()
  output,    \* output_buffer_
  pc,        \* where the thread of the connection is
  msg,       \* in Send: the bytes of the message not yet written
  closing,   \* the response of this request ends in Shutdown
  sent,      \* how many bytes have been handed to Send
  idle,      \* what HandleIdleConnection has left to do in Shutdown
  asked,     \* requests the client has sent
  unread,    \* those not yet read
  eof,       \* the client has closed its sending side
  sndbuf,    \* bytes in the send buffer of the socket
  received,  \* bytes the client has
  fin        \* shutdown(SHUT_WR) has been called

netVars == <<asked, unread, eof, received>>
vars == <<state, reading, writing, output, pc, msg, closing, sent, idle,
          sndbuf, fin, netVars>>

Byte == 1..(MsgLen * MaxRequests)

TypeOK ==
  /\ state \in {"kConnected", "kDisconnecting", "kDisconnected"}
  /\ reading \in BOOLEAN
  /\ writing \in BOOLEAN
  /\ output \in Seq(Byte)
  /\ pc \in {"loop", "send", "append", "sent", "drained"}
  /\ msg \in Seq(Byte)
  /\ closing \in BOOLEAN
  /\ sent \in Byte \cup {0}
  /\ idle \in {"waiting", "store", "check", "late", "done"}
  /\ asked \in 0..MaxRequests
  /\ unread \in 0..MaxRequests
  /\ eof \in BOOLEAN
  /\ sndbuf \in Seq(Byte) /\ Len(sndbuf) <= SndBuf
  /\ received \in Seq(Byte)
  /\ fin \in BOOLEAN

\* After ConnectionEstablished.
Init ==
  /\ state = "kConnected"
  /\ reading = TRUE
  /\ writing = FALSE
  /\ output = <<>>
  /\ pc = "loop"
  /\ msg = <<>>
  /\ closing = FALSE
  /\ sent = 0
  /\ idle = "waiting"
  /\ asked = 0
  /\ unread = 0
  /\ eof = FALSE
  /\ sndbuf = <<>>
  /\ received = <<>>
  /\ fin = FALSE

-----------------------------------------------------------------------------
(* The client and the network.                                             *)

ClientRequests ==
  /\ asked < MaxRequests
  /\ ~eof
  /\ asked' = asked + 1
  /\ unread' = unread + 1
  /\ UNCHANGED <<state, reading, writing, output, pc, msg, closing, sent, idle,
                 sndbuf, fin, eof, received>>

ClientReceives ==
  /\ sndbuf # <<>>
  /\ received' = Append(received, Head(sndbuf))
  /\ sndbuf' = Tail(sndbuf)
  /\ UNCHANGED <<state, reading, writing, output, pc, msg, closing, sent, idle,
                 fin, asked, unread, eof>>

ClientHalfCloses ==
  /\ ClientCloses
  /\ ~eof
  /\ eof' = TRUE
  /\ UNCHANGED <<state, reading, writing, output, pc, msg, closing, sent, idle,
                 sndbuf, fin, asked, unread, received>>

Room == SndBuf - Len(sndbuf)

\* A non-blocking write of a sequence of bytes that takes the first n.
Write(bytes, n) ==
  /\ ~fin
  /\ n \in 1..Len(bytes)
  /\ n <= Room
  /\ sndbuf' = sndbuf \o SubSeq(bytes, 1, n)

\* Fault: the last byte written is kept.
RestResends(bytes, n) == SubSeq(bytes, n, Len(bytes))

Rest(bytes, n) == SubSeq(bytes, n + 1, Len(bytes))

-----------------------------------------------------------------------------
(* HttpServer::MessageCallback.                                            *)

\* Fault: the response starts one byte early.
ResponseOneEarly == [i \in 1..MsgLen |-> sent + i - 1]

\* The bytes of the next response.
Response == [i \in 1..MsgLen |-> sent + i]

\* HandleMessage reads a request.  After Shutdown requests are ignored.
HandleMessage ==
  /\ pc = "loop"
  /\ reading
  /\ unread > 0
  /\ unread' = unread - 1
  /\ \/ /\ state = "kDisconnecting"
        /\ UNCHANGED <<pc, msg, closing, sent>>
     \/ /\ state # "kDisconnecting"
        /\ msg' = Response
        /\ sent' = sent + MsgLen
        /\ closing' \in BOOLEAN
        /\ pc' = "send"
  /\ UNCHANGED <<state, reading, writing, output, idle, sndbuf, fin, asked, eof,
                 received>>

\* The request is answered.
Answered ==
  /\ pc = "sent"
  /\ ~closing
  /\ pc' = "loop"
  /\ UNCHANGED <<state, reading, writing, output, msg, closing, sent, idle,
                 sndbuf, fin, netVars>>

-----------------------------------------------------------------------------
(* TcpConnection::Send.                                                    *)

\* Nothing is pending: the message is written, as much as the socket takes.
SendWrites ==
  /\ pc = "send"
  /\ ~writing /\ output = <<>>
  /\ \E n \in 1..Len(msg) :
       /\ Write(msg, n)
       /\ msg' = Rest(msg, n)
       /\ pc' = IF n = Len(msg) THEN "sent" ELSE "append"
  /\ UNCHANGED <<state, reading, writing, output, closing, sent, idle, fin,
                 netVars>>

\* write fails, with EWOULDBLOCK or, after shutdown, EPIPE: Send returns.
SendFails ==
  /\ pc = "send"
  /\ ~writing /\ output = <<>>
  /\ Room = 0 \/ fin
  /\ msg' = <<>>
  /\ pc' = "sent"
  /\ UNCHANGED <<state, reading, writing, output, closing, sent, idle, sndbuf,
                 fin, netVars>>

SendSkipsWrite ==
  /\ pc = "send"
  /\ writing \/ output # <<>>
  /\ pc' = "append"
  /\ UNCHANGED <<state, reading, writing, output, msg, closing, sent, idle,
                 sndbuf, fin, netVars>>

\* Fault: EnableWriting is not called.
AppendOnly ==
  /\ pc = "append"
  /\ output' = output \o msg
  /\ msg' = <<>>
  /\ pc' = "sent"
  /\ UNCHANGED <<state, reading, writing, closing, sent, idle, sndbuf, fin,
                 netVars>>

\* What is left goes to output_buffer_, and EnableWriting.
SendAppends ==
  /\ pc = "append"
  /\ output' = output \o msg
  /\ msg' = <<>>
  /\ writing' = TRUE
  /\ pc' = "sent"
  /\ UNCHANGED <<state, reading, closing, sent, idle, sndbuf, fin, netVars>>

-----------------------------------------------------------------------------
(* TcpConnection::Shutdown, HandleWrite and HandleClose.                   *)

\* Fault: the sending side is shut down at once.
ShutdownAtOnce ==
  /\ state' = "kDisconnecting"
  /\ fin' = TRUE

Shutdown ==
  /\ state' = "kDisconnecting"
  /\ fin' = (fin \/ ~writing)

\* Called by the handler after its Send.
ShutdownAfterSend ==
  /\ pc = "sent"
  /\ closing
  /\ Shutdown
  /\ pc' = "loop"
  /\ UNCHANGED <<reading, writing, output, msg, closing, sent, idle, sndbuf,
                 netVars>>

\* EPOLLOUT: write, Retrieve and, when nothing is left, DisableWriting.
HandleWrite ==
  /\ pc = "loop"
  /\ writing
  /\ \E n \in 1..Len(output) :
       /\ Write(output, n)
       /\ output' = Rest(output, n)
       /\ writing' = (n < Len(output))
       /\ pc' = IF n < Len(output) THEN "loop" ELSE "drained"
  /\ UNCHANGED <<state, reading, msg, closing, sent, idle, fin, netVars>>

\* Fault: the Shutdown put off is forgotten.
ForgetShutdown ==
  /\ pc = "drained"
  /\ pc' = "loop"
  /\ UNCHANGED <<state, reading, writing, output, msg, closing, sent, idle,
                 sndbuf, fin, netVars>>

\* The rest of HandleWrite: the Shutdown that was put off.
HandleWriteDrained ==
  /\ pc = "drained"
  /\ \/ state = "kDisconnecting" /\ Shutdown
     \/ state # "kDisconnecting" /\ UNCHANGED <<state, fin>>
  /\ pc' = "loop"
  /\ UNCHANGED <<reading, writing, output, msg, closing, sent, idle, sndbuf,
                 netVars>>

\* read returns 0.  output_buffer_ dies with the object.
HandleClose ==
  /\ pc = "loop"
  /\ reading
  /\ unread = 0
  /\ eof
  /\ state' = "kDisconnected"
  /\ reading' = FALSE
  /\ writing' = FALSE
  /\ UNCHANGED <<output, pc, msg, closing, sent, idle, sndbuf, fin, netVars>>

-----------------------------------------------------------------------------
(* HttpServer::HandleIdleConnection in the base loop calls Shutdown;       *)
(* without auto_close_idleconnection_ there is no timeout.                 *)

IdleTimeout ==
  /\ idle = "waiting"
  /\ idle' = "store"
  /\ UNCHANGED <<state, reading, writing, output, pc, msg, closing, sent,
                 sndbuf, fin, netVars>>

\* state_ and events_ are plain members: the store of state_ may reach the
\* other thread after the load of events_, unless shutdown() is called.
IdleChecksEarly ==
  /\ idle = "store"
  /\ writing
  /\ idle' = "late"
  /\ UNCHANGED <<state, reading, writing, output, pc, msg, closing, sent,
                 sndbuf, fin, netVars>>

IdleStores ==
  /\ idle \in {"store", "late"}
  /\ state' = "kDisconnecting"
  /\ idle' = IF idle = "store" THEN "check" ELSE "done"
  /\ UNCHANGED <<reading, writing, output, pc, msg, closing, sent, sndbuf, fin,
                 netVars>>

IdleChecks ==
  /\ idle = "check"
  /\ fin' = (fin \/ ~writing)
  /\ idle' = "done"
  /\ UNCHANGED <<state, reading, writing, output, pc, msg, closing, sent,
                 sndbuf, netVars>>

-----------------------------------------------------------------------------

Send == SendWrites \/ SendFails \/ SendSkipsWrite \/ SendAppends

LoopThread == \/ HandleMessage
              \/ Send
              \/ Answered
              \/ ShutdownAfterSend
              \/ HandleWriteDrained
              \/ HandleClose

BaseThread == IdleChecksEarly \/ IdleStores \/ IdleChecks

Client == ClientRequests \/ ClientReceives \/ ClientHalfCloses

Next == LoopThread \/ HandleWrite \/ IdleTimeout \/ BaseThread \/ Client

\* The loop runs its handlers, a socket that stays writable is served, and
\* the client reads what it is sent.
Spec == /\ Init /\ [][Next]_vars
        /\ WF_vars(LoopThread)
        /\ WF_vars(HandleWrite)
        /\ WF_vars(BaseThread)
        /\ WF_vars(ClientReceives)

-----------------------------------------------------------------------------
(* Properties.                                                             *)

(* Pending output and EPOLLOUT come and go together, so no byte is stuck   *)
(* in output_buffer_ and the loop does not spin on a writable socket with  *)
(* nothing to write (tcpconnection.cc:75-98, 116-122).                     *)
WritingIffPending == reading => (writing <=> output # <<>>)

Stream == received \o sndbuf \o output

\* A byte and the one after it: of one message, or the last of a message and
\* the first of a later one.  Byte 0 stands for the beginning.
Follows(a, b) ==
  b = a + 1 \/ (b > a /\ a % MsgLen = 0 /\ (b - 1) % MsgLen = 0)

(* The client's stream: bytes in the order of Send, none twice, and a      *)
(* message is in it whole or not at all, save for the end of the last one  *)
(* that is still to come, whatever mixture of direct writes, partial writes*)
(* and buffering carried it.                                               *)
MessagesAreWhole ==
  /\ Stream # <<>> => Follows(0, Stream[1])
  /\ \A i \in 1..(Len(Stream) - 1) : Follows(Stream[i], Stream[i + 1])

\* The base loop has not entered Shutdown of this connection.
Undisturbed == idle \in {"waiting", "store"}

\* shutdown(SHUT_WR) is put off until everything Send has accepted is written.
FinAfterOutput == fin => (output = <<>> /\ pc # "append")

(* The graceful disconnection (README.md:46) works as long as Shutdown is  *)
(* called by the connection's own thread: the FIN comes after all output.  *)
FinComesLast == Undisturbed => FinAfterOutput

(* And it does come: Shutdown ends in a FIN as soon as the client has      *)
(* taken the output, unless the connection is closed or the base loop      *)
(* calls Shutdown meanwhile.                                               *)
ShutdownCompletes ==
  state = "kDisconnecting" ~> (fin \/ state = "kDisconnected" \/ ~Undisturbed)

(* README.md:46 with the idle timer too: whoever calls Shutdown, no output *)
(* that was accepted is cut off.                                           *)
FinAlwaysComesLast == FinAfterOutput

(* README.md:46 again, by the connection's own thread alone: when it ends  *)
(* the stream, all the connection was given to send is in it.              *)
FinMeansAllSent ==
  (Undisturbed /\ fin /\ pc = "loop") => Len(received) + Len(sndbuf) = sent

=============================================================================
