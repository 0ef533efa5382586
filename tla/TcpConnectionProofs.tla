------------------------- MODULE TcpConnectionProofs -------------------------
(***************************************************************************)
(* For every response length, send buffer and number of requests: EPOLLOUT *)
(* is enabled exactly while output is pending, and the client gets whole   *)
(* messages in order, whatever the idle timer does; and while Shutdown is  *)
(* only called in the thread of the connection, the FIN comes after all    *)
(* output.                                                                 *)
(***************************************************************************)
EXTENDS TcpConnection, SequenceTheorems, TLAPS

(* What the proofs need to know of the types.                              *)
Types == /\ output \in Seq(Nat)
         /\ msg \in Seq(Nat)
         /\ sent \in Nat
         /\ writing \in BOOLEAN
         /\ reading \in BOOLEAN

(* Inside Send a byte is left, and only an open connection is handled; a   *)
(* closed one does not write.                                              *)
Positions == /\ pc \in {"send", "append"} => msg # <<>>
             /\ pc # "loop" => reading
             /\ ~reading => ~writing

WritingInv == Types /\ Positions /\ WritingIffPending

(* Left alone, the connection's thread sends the FIN between two requests, *)
(* and no request is answered after that.                                  *)
OwnShutdown ==
  /\ state \in {"kConnected", "kDisconnecting", "kDisconnected"}
  /\ pc \in {"send", "append"} => ~fin
  /\ fin => state # "kConnected"
  /\ pc \in {"send", "append"} => state # "kDisconnecting"
  /\ ~reading <=> state = "kDisconnected"

FinInv == WritingInv /\ (Undisturbed => OwnShutdown /\ FinAfterOutput)

-----------------------------------------------------------------------------
(* Lemmas on the messages and on what a write leaves.                      *)

(* A response is a non-empty sequence of bytes.                            *)
LEMMA ResponseType ==
  ASSUME sent \in Nat
  PROVE  Response \in Seq(Nat) /\ Response # <<>>
<1>1. MsgLen \in Nat /\ MsgLen # 0
  BY TcpConnectionAssumption
<1>2. \A i \in 1..MsgLen : sent + i \in Nat
  BY <1>1
<1>3. Response \in [1..MsgLen -> Nat]
  BY <1>2 DEF Response
<1>4. Response \in Seq(Nat)
  BY <1>1, <1>3, SeqDef
<1>5. Len(Response) = MsgLen
  BY <1>1, <1>4, LenProperties DEF Response
<1>. QED
  BY <1>1, <1>4, <1>5, EmptySeq

(* What a write of n bytes leaves is a sequence, empty when n is all of    *)
(* them and only then.                                                     *)
LEMMA RestType ==
  ASSUME NEW s \in Seq(Nat), NEW n \in 1..Len(s)
  PROVE  /\ Rest(s, n) \in Seq(Nat)
         /\ n = Len(s) <=> Rest(s, n) = <<>>
<1>1. Len(s) \in Nat
  BY LenProperties
<1>2. \A i \in (n + 1)..Len(s) : s[i] \in Nat
  BY <1>1, ElementOfSeq
<1>3. n \in Int /\ n + 1 \in Int /\ Len(s) \in Int
  BY <1>1
<1>4. /\ Rest(s, n) \in Seq(Nat)
      /\ Len(Rest(s, n)) = IF n + 1 <= Len(s) THEN Len(s) - (n + 1) + 1 ELSE 0
  BY <1>2, <1>3, SubSeqProperties DEF Rest
<1>. QED
  BY <1>1, <1>4, EmptySeq

-----------------------------------------------------------------------------
(* Output and EPOLLOUT.                                                    *)

(* A connection just made has nothing pending and EPOLLOUT disabled. *)
LEMMA WritingInvInit == Init => WritingInv
<1> SUFFICES ASSUME Init PROVE WritingInv
  OBVIOUS
<1> USE DEF Init
<1>1. output \in Seq(Nat) /\ msg \in Seq(Nat) /\ sent \in Nat
  BY EmptySeq
<1>2. writing \in BOOLEAN /\ reading \in BOOLEAN
  OBVIOUS
<1>3. pc = "loop" /\ writing = FALSE /\ reading = TRUE /\ output = <<>>
  OBVIOUS
<1>4. Positions
  BY <1>3 DEF Positions
<1>5. WritingIffPending
  BY <1>3, Zenon DEF WritingIffPending
<1>. QED
  BY <1>1, <1>2, <1>4, <1>5, Zenon DEF WritingInv, Types

(* Every step of the connection keeps WritingInv. *)
LEMMA WritingInvStep == WritingInv /\ [Next]_vars => WritingInv'
<1> SUFFICES ASSUME WritingInv, [Next]_vars PROVE WritingInv'
  OBVIOUS
<1> USE TcpConnectionAssumption
<1> USE DEF WritingInv, Types, Positions, WritingIffPending, netVars
<1>1. CASE HandleMessage
  <2>1. Response \in Seq(Nat) /\ Response # <<>> /\ sent + MsgLen \in Nat
    BY ResponseType
  <2>. QED
    BY <1>1, <2>1 DEF HandleMessage
<1>2. CASE SendWrites
  <2>1. PICK n \in 1..Len(msg) :
          /\ msg' = Rest(msg, n)
          /\ pc' = IF n = Len(msg) THEN "sent" ELSE "append"
    BY <1>2 DEF SendWrites
  <2>2. msg' \in Seq(Nat) /\ (pc' = "append" => msg' # <<>>)
    BY <2>1, RestType
  <2>. QED
    BY <1>2, <2>1, <2>2 DEF SendWrites
<1>3. CASE SendFails
  <2>1. <<>> \in Seq(Nat)
    BY EmptySeq
  <2>. QED
    BY <1>3, <2>1 DEF SendFails
<1>4. CASE SendSkipsWrite
  BY <1>4 DEF SendSkipsWrite
<1>5. CASE SendAppends
  <2>1. output \o msg \in Seq(Nat) /\ output \o msg # <<>>
    BY <1>5, ConcatProperties, ConcatEqualIffEmpty DEF SendAppends
  <2>2. <<>> \in Seq(Nat)
    BY EmptySeq
  <2>. QED
    BY <1>5, <2>1, <2>2 DEF SendAppends
<1>6. CASE Answered
  BY <1>6 DEF Answered
<1>7. CASE ShutdownAfterSend
  BY <1>7 DEF ShutdownAfterSend, Shutdown
<1>8. CASE HandleWrite
  <2>1. PICK n \in 1..Len(output) :
          /\ output' = Rest(output, n)
          /\ writing' = (n < Len(output))
          /\ pc' = IF n < Len(output) THEN "loop" ELSE "drained"
    BY <1>8 DEF HandleWrite
  <2>2. Len(output) \in Nat
    BY LenProperties
  <2>3. output' \in Seq(Nat) /\ (n < Len(output) <=> output' # <<>>)
    BY <2>1, <2>2, RestType
  <2>4. writing' \in BOOLEAN /\ (writing' <=> output' # <<>>)
    <3>1. CASE n < Len(output)
      <4>1. (n < Len(output)) = TRUE
        BY <3>1
      <4>2. writing' = TRUE
        BY <2>1, <4>1, Zenon
      <4>. QED
        BY <2>3, <3>1, <4>2, Zenon
    <3>2. CASE ~(n < Len(output))
      <4>1. (n < Len(output)) = FALSE
        BY <3>2
      <4>2. writing' = FALSE
        BY <2>1, <4>1, Zenon
      <4>. QED
        BY <2>3, <3>2, <4>2, Zenon
    <3>. QED
      BY <3>1, <3>2
  <2>5. pc' \in {"loop", "drained"}
    BY <2>1
  <2>6. writing /\ UNCHANGED <<reading, msg, sent>>
    BY <1>8 DEF HandleWrite
  <2>7. reading' /\ WritingIffPending'
    BY <2>4, <2>6, Zenon
  <2>8. Types'
    BY <2>3, <2>4, <2>6
  <2>9. Positions'
    BY <2>5, <2>7
  <2>. QED
    BY <2>7, <2>8, <2>9
<1>9. CASE HandleWriteDrained
  BY <1>9 DEF HandleWriteDrained, Shutdown
<1>10. CASE HandleClose
  BY <1>10 DEF HandleClose
<1>11. CASE BaseThread \/ IdleTimeout
  BY <1>11 DEF BaseThread, IdleTimeout, IdleChecksEarly, IdleStores, IdleChecks
<1>12. CASE Client
  BY <1>12 DEF Client, ClientRequests, ClientReceives, ClientHalfCloses
<1>13. CASE UNCHANGED vars
  BY <1>13 DEF vars
<1>. QED
  BY <1>1, <1>2, <1>3, <1>4, <1>5, <1>6, <1>7, <1>8, <1>9, <1>10, <1>11,
     <1>12, <1>13 DEF Next, LoopThread, Send

(* WritingInv holds in every reachable state, idle timer or not. *)
LEMMA WritingInvariant == Spec => []WritingInv
  BY WritingInvInit, WritingInvStep, PTL DEF Spec

(* Pending output always has EPOLLOUT, and EPOLLOUT pending output.        *)
THEOREM OutputIsNeverStuck == Spec => []WritingIffPending
<1>1. WritingInv => WritingIffPending
  BY DEF WritingInv
<1>. QED
  BY <1>1, WritingInvariant, PTL

-----------------------------------------------------------------------------
(* Output and the FIN, while the base loop keeps out of Shutdown.          *)

(* A connection just made satisfies FinInv: no FIN is sent. *)
LEMMA FinInvInit == Init => FinInv
<1> SUFFICES ASSUME Init PROVE FinInv
  OBVIOUS
<1>1. WritingInv
  BY WritingInvInit
<1>2. /\ pc = "loop" /\ fin = FALSE
      /\ state = "kConnected" /\ reading = TRUE
  BY DEF Init
<1>3. OwnShutdown
  BY <1>2 DEF OwnShutdown
<1>4. FinAfterOutput
  BY <1>2 DEF FinAfterOutput
<1>. QED
  BY <1>1, <1>3, <1>4 DEF FinInv

(* Once the base loop has disturbed the connection it has for good.        *)
LEMMA DisturbedForGood == [Next]_vars /\ Undisturbed' => Undisturbed
<1> SUFFICES ASSUME [Next]_vars, Undisturbed' PROVE Undisturbed
  OBVIOUS
<1> USE DEF Undisturbed
<1>1. CASE LoopThread
  BY <1>1 DEF LoopThread, HandleMessage, Send, SendWrites, SendFails,
              SendSkipsWrite, SendAppends, Answered, ShutdownAfterSend,
              HandleWriteDrained, HandleClose
<1>2. CASE HandleWrite
  BY <1>2 DEF HandleWrite
<1>3. CASE IdleTimeout
  BY <1>3 DEF IdleTimeout
<1>4. CASE BaseThread
  BY <1>4 DEF BaseThread, IdleChecksEarly, IdleStores, IdleChecks
<1>5. CASE Client
  BY <1>5 DEF Client, ClientRequests, ClientReceives, ClientHalfCloses
<1>6. CASE UNCHANGED vars
  BY <1>6 DEF vars
<1>. QED
  BY <1>1, <1>2, <1>3, <1>4, <1>5, <1>6 DEF Next

(* Every step keeps FinInv: those of the base loop's Shutdown leave        *)
(* nothing of it to keep.                                                  *)
LEMMA FinInvStep == FinInv /\ [Next]_vars => FinInv'
<1> SUFFICES ASSUME FinInv, [Next]_vars PROVE FinInv'
  OBVIOUS
<1>0. WritingInv /\ WritingInv'
  BY WritingInvStep DEF FinInv
<1>1. ASSUME Undisturbed' PROVE OwnShutdown' /\ FinAfterOutput'
  <2> USE DEF OwnShutdown, FinAfterOutput, netVars
  <2>0. WritingInv /\ WritingInv' /\ OwnShutdown /\ FinAfterOutput
    BY <1>0, <1>1, DisturbedForGood DEF FinInv
  <2> USE <2>0
  <2>1. CASE HandleMessage
    BY <2>1 DEF HandleMessage, WritingInv, Types
  <2>2. CASE SendWrites
    BY <2>2 DEF SendWrites
  <2>3. CASE SendFails
    BY <2>3 DEF SendFails
  <2>4. CASE SendSkipsWrite
    BY <2>4 DEF SendSkipsWrite
  <2>5. CASE SendAppends
    BY <2>5 DEF SendAppends
  <2>6. CASE Answered
    BY <2>6 DEF Answered
  <2>7. CASE ShutdownAfterSend
    BY <2>7 DEF ShutdownAfterSend, Shutdown, WritingInv, Types, Positions,
                WritingIffPending
  <2>8. CASE HandleWrite
    <3>1. ~fin /\ fin' = fin /\ UNCHANGED <<state, reading>>
      BY <2>8 DEF HandleWrite, Write
    <3>2. pc' \notin {"send", "append"}
      BY <2>8 DEF HandleWrite
    <3>. QED
      BY <3>1, <3>2
  <2>9. CASE HandleWriteDrained
    <3>1. reading /\ pc = "drained" /\ (writing <=> output # <<>>)
      BY <2>9 DEF HandleWriteDrained, WritingInv, Positions, WritingIffPending
    <3>2. pc' = "loop" /\ UNCHANGED <<reading, writing, output>>
      BY <2>9 DEF HandleWriteDrained
    <3>3. CASE Shutdown
      BY <3>1, <3>2, <3>3 DEF Shutdown, WritingInv, Types
    <3>4. CASE UNCHANGED <<state, fin>>
      BY <3>2, <3>4
    <3>. QED
      BY <2>9, <3>3, <3>4 DEF HandleWriteDrained
  <2>10. CASE HandleClose
    BY <2>10 DEF HandleClose
  <2>11. ~BaseThread
    BY <1>1 DEF BaseThread, IdleChecksEarly, IdleStores, IdleChecks, Undisturbed
  <2>12. CASE IdleTimeout
    BY <2>12 DEF IdleTimeout
  <2>13. CASE Client
    BY <2>13 DEF Client, ClientRequests, ClientReceives, ClientHalfCloses
  <2>14. CASE UNCHANGED vars
    BY <2>14 DEF vars
  <2>. QED
    BY <2>1, <2>2, <2>3, <2>4, <2>5, <2>6, <2>7, <2>8, <2>9, <2>10, <2>11,
       <2>12, <2>13, <2>14 DEF Next, LoopThread, Send
<1>. QED
  BY <1>0, <1>1 DEF FinInv

(* While only its own thread has called Shutdown, the server never ends    *)
(* its stream before the output it has accepted.                           *)
THEOREM FinIsLast == Spec => []FinComesLast
<1>1. FinInv => FinComesLast
  BY DEF FinInv, FinComesLast
<1>2. Spec => []FinInv
  BY FinInvInit, FinInvStep, PTL DEF Spec
<1>. QED
  BY <1>1, <1>2, PTL

-----------------------------------------------------------------------------
(* The client's stream is made of whole messages.                          *)

Whole(s) == /\ s # <<>> => Follows(0, s[1])
            /\ \A i \in 1..(Len(s) - 1) : Follows(s[i], s[i + 1])

\* The last message of s is complete, and s has no byte after the n-th.
Complete(s, n) == s # <<>> => s[Len(s)] % MsgLen = 0 /\ s[Len(s)] <= n

\* With the bytes that Send has not yet written or stored.
Joined == Stream \o msg

StreamTypes == /\ received \in Seq(Nat)
               /\ sndbuf \in Seq(Nat)
               /\ output \in Seq(Nat)
               /\ msg \in Seq(Nat)
               /\ sent \in Nat

\* What has been given to Send is a number of responses, the last of which may
\* still be in msg; a failing write drops all of it.
StreamInv ==
  /\ StreamTypes
  /\ \E k \in Nat : sent = k * MsgLen
  /\ pc \in {"send", "append"} \/ msg = <<>>
  /\ Whole(Joined) /\ Complete(Joined, sent)
  /\ pc = "send" => Complete(Stream, sent)

(* A response ends at a multiple of MsgLen when it starts after one.       *)
LEMMA MultiplesOfMsgLen ==
  ASSUME NEW n \in Nat, \E k \in Nat : n = k * MsgLen
  PROVE  /\ n % MsgLen = 0
         /\ (n + MsgLen) % MsgLen = 0
         /\ \E k \in Nat : n + MsgLen = k * MsgLen
<1>0. MsgLen \in Nat /\ MsgLen > 0
  BY TcpConnectionAssumption
<1>1. \A k \in Nat : (k * MsgLen) % MsgLen = 0
  BY <1>0
<1>2. PICK k \in Nat : n = k * MsgLen
  OBVIOUS
<1>3. n + MsgLen = (k + 1) * MsgLen /\ k + 1 \in Nat
  BY <1>0, <1>2
<1> QED
  BY <1>1, <1>2, <1>3

(* What comes first of a sequence of whole messages is one.                *)
LEMMA PrefixIsWhole ==
  ASSUME NEW s \in Seq(Nat), NEW t \in Seq(Nat), Whole(s \o t)
  PROVE  Whole(s)
<1>1. /\ Len(s) \in Nat /\ Len(t) \in Nat
      /\ Len(s \o t) = Len(s) + Len(t)
      /\ \A i \in 1..Len(s) : (s \o t)[i] = s[i]
  BY LenProperties, ConcatProperties
<1>2. ASSUME NEW i \in 1..(Len(s) - 1) PROVE Follows(s[i], s[i + 1])
  <2>1. i \in 1..Len(s) /\ i + 1 \in 1..Len(s) /\ i \in 1..(Len(s \o t) - 1)
    BY <1>1
  <2>2. (s \o t)[i] = s[i] /\ (s \o t)[i + 1] = s[i + 1]
    BY <1>1, <2>1
  <2>3. Follows((s \o t)[i], (s \o t)[i + 1])
    BY <2>1, Zenon DEF Whole
  <2> QED
    BY <2>2, <2>3, Zenon
<1>3. ASSUME s # <<>> PROVE Follows(0, s[1])
  <2>1. Len(s) # 0
    BY <1>3, EmptySeq
  <2>2. 1 \in 1..Len(s) /\ Len(s \o t) # 0
    BY <1>1, <2>1
  <2>3. s \o t # <<>>
    BY <2>2, EmptySeq
  <2>4. Follows(0, (s \o t)[1])
    BY <2>3, Zenon DEF Whole
  <2> QED
    BY <1>1, <2>2, <2>4, Zenon
<1> QED
  BY <1>2, <1>3, Zenon DEF Whole

(* The response of the next request comes after what is complete.          *)
LEMMA ResponseFollows ==
  ASSUME NEW s \in Seq(Nat), Whole(s), Complete(s, sent),
         sent \in Nat, \E k \in Nat : sent = k * MsgLen
  PROVE  /\ Whole(s \o Response)
         /\ Complete(s \o Response, sent + MsgLen)
<1>0. MsgLen \in Nat /\ MsgLen > 0
  BY TcpConnectionAssumption
<1>1. Response \in Seq(Nat) /\ Len(Response) = MsgLen
  <2>1. Response \in Seq(Nat)
    BY ResponseType
  <2> QED
    BY <1>0, <2>1, LenProperties DEF Response
<1>2. \A i \in 1..MsgLen : Response[i] = sent + i
  BY DEF Response
<1> DEFINE r == s \o Response
           n == Len(s)
<1>3. /\ n \in Nat /\ Len(r) = n + MsgLen
      /\ \A i \in 1..n : r[i] = s[i]
      /\ \A i \in 1..MsgLen : r[n + i] = sent + i
  <2>1. n \in Nat
    BY LenProperties
  <2>2. /\ Len(r) = n + MsgLen
        /\ \A i \in 1..(n + MsgLen) :
             r[i] = IF i <= n THEN s[i] ELSE Response[i - n]
    BY <1>1, ConcatProperties
  <2> HIDE DEF r, n
  <2>3. ASSUME NEW i \in 1..n PROVE r[i] = s[i]
    BY <1>0, <2>1, <2>2
  <2>4. ASSUME NEW i \in 1..MsgLen PROVE r[n + i] = sent + i
    <3>1. n + i \in 1..(n + MsgLen) /\ ~(n + i <= n) /\ (n + i) - n = i
      BY <1>0, <2>1
    <3>2. r[n + i] = Response[(n + i) - n]
      BY <2>2, <3>1
    <3> QED
      BY <1>2, <3>1, <3>2
  <2> QED
    BY <2>1, <2>2, <2>3, <2>4
<1>4. \A i \in 1..n : s[i] \in Nat
  BY ElementOfSeq
<1>5. n # 0 => s # <<>>
  BY EmptySeq
<1>6. sent % MsgLen = 0 /\ (sent + MsgLen) % MsgLen = 0
  BY MultiplesOfMsgLen
<1> HIDE DEF r
<1>7. ASSUME NEW i \in 1..(Len(r) - 1) PROVE Follows(r[i], r[i + 1])
  <2>1. CASE i < n
    <3>1. i \in 1..(n - 1) /\ i \in 1..n /\ i + 1 \in 1..n
      BY <1>3, <2>1
    <3>2. r[i] = s[i] /\ r[i + 1] = s[i + 1] /\ Follows(s[i], s[i + 1])
      BY <1>3, <3>1 DEF Whole
    <3> QED
      BY <3>2
  <2>2. CASE i = n
    <3>1. n \in 1..n /\ 1 \in 1..MsgLen /\ s # <<>>
      BY <1>0, <1>3, <1>5, <2>2
    <3>2. r[i] = s[n] /\ r[i + 1] = sent + 1
      BY <1>3, <2>2, <3>1
    <3>3. s[n] % MsgLen = 0 /\ s[n] <= sent /\ s[n] \in Nat
      BY <1>4, <3>1 DEF Complete
    <3>4. sent + 1 > s[n] /\ (sent + 1) - 1 = sent
      BY <3>3
    <3> QED
      BY <1>6, <3>2, <3>3, <3>4 DEF Follows
  <2>3. CASE i > n
    <3>1. i - n \in 1..MsgLen /\ (i - n) + 1 \in 1..MsgLen
      BY <1>0, <1>3, <2>3
    <3>2. r[n + (i - n)] = sent + (i - n) /\ r[n + ((i - n) + 1)] = sent + ((i - n) + 1)
      BY <1>3, <3>1
    <3>3. /\ n + (i - n) = i /\ n + ((i - n) + 1) = i + 1
          /\ sent + ((i - n) + 1) = (sent + (i - n)) + 1
      BY <1>3, <2>3
    <3> QED
      BY <3>2, <3>3 DEF Follows
  <2>4. i \in Int /\ n \in Int
    BY <1>3
  <2>5. i < n \/ i = n \/ i > n
    BY <2>4
  <2> QED
    BY <2>1, <2>2, <2>3, <2>5
<1>8. r[Len(r)] = sent + MsgLen
  <2>1. MsgLen \in 1..MsgLen
    BY <1>0
  <2> QED
    BY <1>3, <2>1
<1>10. Follows(0, r[1])
  <2>1. CASE n = 0
    <3>1. 1 \in 1..MsgLen /\ n + 1 = 1
      BY <1>0, <2>1
    <3>2. r[1] = sent + 1
      BY <1>3, <3>1
    <3>3. sent + 1 > 0 /\ (sent + 1) - 1 = sent /\ 0 % MsgLen = 0
      BY <1>0
    <3> QED
      BY <1>6, <3>2, <3>3 DEF Follows
  <2>2. CASE n # 0
    <3>1. 1 \in 1..n
      BY <1>3, <2>2
    <3>2. Follows(0, s[1])
      BY <1>5, <2>2 DEF Whole
    <3> QED
      BY <1>3, <3>1, <3>2
  <2> QED
    BY <2>1, <2>2
<1>9. Whole(r) /\ Complete(r, sent + MsgLen)
  BY <1>0, <1>6, <1>7, <1>8, <1>10 DEF Whole, Complete
<1> QED
  BY <1>9 DEF r

\* How bytes are put together does not matter.
Same3(r, s, t) == (r \o s) \o t = r \o (s \o t)
Same4(r, s, t, u) == (r \o (s \o t)) \o u = (r \o s) \o (t \o u)

(* Concatenation is associative.                                           *)
LEMMA Regroup3 ==
  ASSUME NEW S, NEW r \in Seq(S), NEW s \in Seq(S), NEW t \in Seq(S)
  PROVE  Same3(r, s, t)
<1>1. (r \o s) \o t = r \o (s \o t)
  BY ConcatAssociative
<1> QED
  BY <1>1, Zenon DEF Same3

(* And so with four sequences.                                             *)
LEMMA Regroup4 ==
  ASSUME NEW S, NEW r \in Seq(S), NEW s \in Seq(S), NEW t \in Seq(S),
         NEW u \in Seq(S)
  PROVE  Same4(r, s, t, u)
<1>1. r \o s \in Seq(S)
  BY ConcatProperties
<1>2. Same3(r, s, t) /\ Same3(r \o s, t, u)
  BY <1>1, Regroup3, Zenon
<1> QED
  BY <1>2, Zenon DEF Same3, Same4

(* A write splits a message in two.                                        *)
LEMMA WriteSplits ==
  ASSUME NEW s \in Seq(Nat), NEW n \in 1..Len(s)
  PROVE  /\ SubSeq(s, 1, n) \in Seq(Nat)
         /\ Rest(s, n) \in Seq(Nat)
         /\ SubSeq(s, 1, n) \o Rest(s, n) = s
<1>1. Len(s) \in Nat
  BY LenProperties
<1>2. /\ 1 \in 1..(Len(s) + 1)
      /\ n \in 0..Len(s) /\ Len(s) \in n..Len(s)
  BY <1>1
<1>3. SubSeq(s, 1, n) \o Rest(s, n) = SubSeq(s, 1, Len(s))
  BY <1>1, <1>2, ConcatAdjacentSubSeq DEF Rest
<1>4. SubSeq(s, 1, Len(s)) = s
  BY SubSeqFull
<1>5. SubSeq(s, 1, n) \in Seq(Nat)
  BY <1>1, SubSeqProperties
<1> QED
  BY <1>3, <1>4, <1>5, RestType

(* The bytes of a connection are in Joined, wherever they are.             *)
LEMMA JoinedType ==
  ASSUME StreamTypes
  PROVE  Stream \in Seq(Nat) /\ Joined \in Seq(Nat)
BY ConcatProperties DEF StreamTypes, Stream, Joined

(* Without a message in Send, Joined is the stream.                        *)
LEMMA JoinedIsStream ==
  ASSUME StreamTypes, msg = <<>>
  PROVE  Joined = Stream
BY JoinedType, ConcatEmptySeq DEF Joined

(* A step that only moves bytes keeps the stream whole.                    *)
LEMMA MovingBytes ==
  ASSUME StreamInv, StreamTypes', Joined' = Joined, sent' = sent,
         pc' # "send", pc' \in {"send", "append"} \/ msg' = <<>>
  PROVE  StreamInv'
BY DEF StreamInv

(* No step breaks the stream.                                              *)
LEMMA StreamInvStep == StreamInv /\ [Next]_vars => StreamInv'
<1> SUFFICES ASSUME StreamInv, [Next]_vars PROVE StreamInv'
  OBVIOUS
<1>0. StreamTypes
  BY DEF StreamInv
<1> DEFINE bytesStay == /\ received' = received /\ sndbuf' = sndbuf
                        /\ output' = output /\ msg' = msg /\ sent' = sent
<1>1. bytesStay =>
        /\ StreamTypes' /\ Stream' = Stream /\ Joined' = Joined
        /\ pc' = pc => StreamInv'
  <2> SUFFICES ASSUME bytesStay
               PROVE  /\ StreamTypes' /\ Stream' = Stream /\ Joined' = Joined
                      /\ pc' = pc => StreamInv'
    OBVIOUS
  <2>1. StreamTypes' /\ Stream' = Stream /\ Joined' = Joined
    BY <1>0 DEF StreamTypes, Stream, Joined
  <2>2. ASSUME pc' = pc PROVE StreamInv'
    BY <2>1, <2>2 DEF StreamInv
  <2> QED
    BY <2>1, <2>2
<1>2. CASE HandleMessage
  <2>1. pc = "loop" /\ UNCHANGED <<received, sndbuf, output>>
    BY <1>2 DEF HandleMessage, netVars
  <2>2. CASE UNCHANGED <<pc, msg, closing, sent>>
    BY <1>1, <2>1, <2>2
  <2>3. CASE msg' = Response /\ sent' = sent + MsgLen /\ pc' = "send"
    <3>1. msg = <<>> /\ Joined = Stream /\ Stream \in Seq(Nat)
      BY <1>0, <2>1, JoinedType, JoinedIsStream DEF StreamInv
    <3>2. Stream' = Stream /\ Joined' = Stream \o Response
      BY <2>1, <2>3 DEF Stream, Joined
    <3>3. Whole(Joined') /\ Complete(Joined', sent')
      BY <2>3, <3>1, <3>2, ResponseFollows DEF StreamInv, StreamTypes
    <3>4. Complete(Stream', sent')
      <4>1. MsgLen \in Nat /\ sent \in Nat
        BY <1>0, TcpConnectionAssumption DEF StreamTypes
      <4>2. Complete(Stream, sent)
        BY <3>1 DEF StreamInv
      <4>3. Stream # <<>> => Stream[Len(Stream)] \in Nat
        BY <3>1, ElementOfSeq, LenProperties, EmptySeq
      <4> QED
        BY <2>3, <3>2, <4>1, <4>2, <4>3 DEF Complete
    <3>5. StreamTypes'
      BY <1>0, <2>1, <2>3, ResponseType, TcpConnectionAssumption DEF StreamTypes
    <3>6. \E k \in Nat : sent' = k * MsgLen
      BY <1>0, <2>3, MultiplesOfMsgLen DEF StreamInv, StreamTypes
    <3> QED
      BY <2>3, <3>3, <3>4, <3>5, <3>6 DEF StreamInv
  <2> QED
    BY <1>2, <2>2, <2>3 DEF HandleMessage
<1>3. CASE SendWrites
  <2>1. PICK n \in 1..Len(msg) :
          /\ sndbuf' = sndbuf \o SubSeq(msg, 1, n)
          /\ msg' = Rest(msg, n)
          /\ pc' = IF n = Len(msg) THEN "sent" ELSE "append"
    BY <1>3 DEF SendWrites, Write
  <2>2. output = <<>> /\ UNCHANGED <<received, output, sent>>
    BY <1>3 DEF SendWrites, netVars
  <2> DEFINE a == SubSeq(msg, 1, n)
             b == Rest(msg, n)
  <2>3. /\ a \in Seq(Nat) /\ b \in Seq(Nat) /\ a \o b = msg
        /\ n = Len(msg) <=> b = <<>>
    BY <1>0, WriteSplits, RestType DEF StreamTypes
  <2>4. pc' # "send" /\ (pc' = "append" \/ msg' = <<>>)
    BY <2>1, <2>3
  <2> HIDE DEF a, b
  <2>5. sndbuf' = sndbuf \o a /\ msg' = b
    BY <2>1 DEF a, b
  <2>6. StreamTypes'
    BY <1>0, <2>2, <2>3, <2>5, ConcatProperties DEF StreamTypes
  <2>7. Joined = (received \o sndbuf) \o msg
    BY <1>0, <2>2, ConcatProperties, ConcatEmptySeq
      DEF StreamTypes, Joined, Stream
  <2>8. Joined' = (received \o (sndbuf \o a)) \o b
    <3>1. received \o (sndbuf \o a) \in Seq(Nat)
      BY <1>0, <2>3, ConcatProperties DEF StreamTypes
    <3> QED
      BY <2>2, <2>5, <3>1, ConcatEmptySeq DEF Joined, Stream
  <2>9. Joined' = Joined
    <3>1. received \in Seq(Nat) /\ sndbuf \in Seq(Nat)
      BY <1>0 DEF StreamTypes
    <3>2. Same4(received, sndbuf, a, b)
      BY <2>3, <3>1, Regroup4, Zenon
    <3> QED
      BY <2>3, <2>7, <2>8, <3>2, Zenon DEF Same4
  <2> QED
    BY <2>2, <2>4, <2>6, <2>9, MovingBytes
<1>4. CASE SendFails
  <2>1. /\ pc = "send" /\ pc' = "sent" /\ msg' = <<>>
        /\ UNCHANGED <<received, sndbuf, output, sent>>
    BY <1>4 DEF SendFails, netVars
  <2>2. StreamTypes' /\ Stream' = Stream
    BY <1>0, <2>1, EmptySeq DEF StreamTypes, Stream
  <2>3. Joined' = Stream
    BY <1>0, <2>1, <2>2, JoinedType, ConcatEmptySeq DEF Joined
  <2>4. Whole(Stream) /\ Complete(Stream, sent)
    BY <1>0, <2>1, JoinedType, PrefixIsWhole DEF StreamInv, StreamTypes, Joined
  <2> QED
    BY <2>1, <2>2, <2>3, <2>4 DEF StreamInv
<1>5. CASE SendSkipsWrite
  <2>1. pc' = "append" /\ bytesStay
    BY <1>5 DEF SendSkipsWrite, netVars
  <2> QED
    BY <1>1, <2>1, MovingBytes
<1>6. CASE SendAppends
  <2>1. /\ pc' = "sent" /\ msg' = <<>> /\ output' = output \o msg
        /\ UNCHANGED <<received, sndbuf, sent>>
    BY <1>6 DEF SendAppends, netVars
  <2>2. StreamTypes'
    BY <1>0, <2>1, ConcatProperties, EmptySeq DEF StreamTypes
  <2>3. Joined' = (received \o sndbuf) \o (output \o msg)
    <3>1. (received \o sndbuf) \o (output \o msg) \in Seq(Nat)
      BY <1>0, ConcatProperties DEF StreamTypes
    <3> QED
      BY <2>1, <3>1, ConcatEmptySeq DEF Joined, Stream
  <2>4. Joined' = Joined
    <3>1. received \o sndbuf \in Seq(Nat)
      BY <1>0, ConcatProperties DEF StreamTypes
    <3>2. output \in Seq(Nat) /\ msg \in Seq(Nat)
      BY <1>0 DEF StreamTypes
    <3>3. Same3(received \o sndbuf, output, msg)
      BY <3>1, <3>2, Regroup3, Zenon
    <3> QED
      BY <2>3, <3>3, Zenon DEF Same3, Joined, Stream
  <2> QED
    BY <2>1, <2>2, <2>4, MovingBytes
<1>7. CASE Answered \/ ShutdownAfterSend \/ HandleWriteDrained
  <2>1. /\ pc \in {"sent", "drained"} /\ pc' = "loop"
        /\ bytesStay
    BY <1>7, Zenon DEF Answered, ShutdownAfterSend, HandleWriteDrained, netVars
  <2>2. msg' = <<>> /\ pc' # "send"
    BY <2>1 DEF StreamInv
  <2> QED
    BY <1>1, <2>1, <2>2, MovingBytes
<1>8. CASE HandleWrite
  <2>1. PICK n \in 1..Len(output) :
          /\ sndbuf' = sndbuf \o SubSeq(output, 1, n)
          /\ output' = Rest(output, n)
          /\ pc' = IF n < Len(output) THEN "loop" ELSE "drained"
    BY <1>8 DEF HandleWrite, Write
  <2>2. pc = "loop" /\ UNCHANGED <<received, msg, sent>>
    BY <1>8 DEF HandleWrite, netVars
  <2> DEFINE a == SubSeq(output, 1, n)
             b == Rest(output, n)
  <2>3. a \in Seq(Nat) /\ b \in Seq(Nat) /\ a \o b = output
    BY <1>0, WriteSplits DEF StreamTypes
  <2>4. pc' # "send" /\ msg' = <<>>
    BY <2>1, <2>2 DEF StreamInv
  <2> HIDE DEF a, b
  <2>5. sndbuf' = sndbuf \o a /\ output' = b
    BY <2>1 DEF a, b
  <2>6. StreamTypes'
    BY <1>0, <2>2, <2>3, <2>5, ConcatProperties DEF StreamTypes
  <2>7. (received \o (sndbuf \o a)) \o b = (received \o sndbuf) \o output
    <3>1. received \in Seq(Nat) /\ sndbuf \in Seq(Nat)
      BY <1>0 DEF StreamTypes
    <3>2. Same4(received, sndbuf, a, b)
      BY <2>3, <3>1, Regroup4, Zenon
    <3> QED
      BY <2>3, <3>2, Zenon DEF Same4
  <2>8. Joined' = Joined
    BY <2>2, <2>5, <2>7 DEF Joined, Stream
  <2> QED
    BY <2>2, <2>4, <2>6, <2>8, MovingBytes
<1>9. CASE HandleClose \/ BaseThread \/ IdleTimeout
  <2>1. pc' = pc /\ bytesStay
    BY <1>9, Zenon DEF HandleClose, BaseThread, IdleTimeout, IdleChecksEarly,
                       IdleStores, IdleChecks, netVars
  <2> QED
    BY <1>1, <2>1
<1>10. CASE ClientRequests \/ ClientHalfCloses
  <2>1. pc' = pc /\ bytesStay
    BY <1>10, Zenon DEF ClientRequests, ClientHalfCloses
  <2> QED
    BY <1>1, <2>1
<1>11. CASE ClientReceives
  <2>1. /\ sndbuf # <<>> /\ received' = Append(received, Head(sndbuf))
        /\ sndbuf' = Tail(sndbuf)
        /\ UNCHANGED <<pc, output, msg, sent>>
    BY <1>11 DEF ClientReceives
  <2> DEFINE h == Head(sndbuf)
             t == Tail(sndbuf)
  <2>2. h \in Nat /\ t \in Seq(Nat) /\ <<h>> \o t = sndbuf
    <3>1. h \in Nat /\ t \in Seq(Nat)
      BY <1>0, <2>1, HeadTailProperties DEF StreamTypes
    <3>2. Len(sndbuf) \in Nat /\ 1 \in 1..Len(sndbuf)
      BY <1>0, <2>1, LenProperties, EmptySeq DEF StreamTypes
    <3> QED
      BY <1>0, <2>1, <3>1, <3>2, HeadTailProperties, LenProperties, ConcatProperties
        DEF StreamTypes
  <2> HIDE DEF h, t
  <2>3. <<h>> \in Seq(Nat) /\ received' = received \o <<h>> /\ sndbuf' = t
    BY <1>0, <2>1, <2>2, AppendIsConcat DEF StreamTypes, h, t
  <2>4. StreamTypes'
    BY <1>0, <2>1, <2>2, <2>3, ConcatProperties DEF StreamTypes
  <2>5. (received \o <<h>>) \o t = received \o sndbuf
    <3>1. received \in Seq(Nat)
      BY <1>0 DEF StreamTypes
    <3>2. Same3(received, <<h>>, t)
      BY <2>2, <2>3, <3>1, Regroup3, Zenon
    <3> QED
      BY <2>2, <3>2, Zenon DEF Same3
  <2>6. Stream' = Stream /\ Joined' = Joined
    BY <2>1, <2>3, <2>5 DEF Stream, Joined
  <2> QED
    <3>1. CASE pc = "send"
      BY <2>1, <2>4, <2>6, <3>1 DEF StreamInv
    <3>2. CASE pc # "send"
      BY <2>1, <2>4, <2>6, <3>2, MovingBytes DEF StreamInv
    <3> QED
      BY <3>1, <3>2
<1>12. CASE UNCHANGED vars
  <2>1. pc' = pc /\ bytesStay
    BY <1>12 DEF vars, netVars
  <2> QED
    BY <1>1, <2>1
<1> QED
  BY <1>2, <1>3, <1>4, <1>5, <1>6, <1>7, <1>8, <1>9, <1>10, <1>11, <1>12
    DEF Next, LoopThread, Send, Client

(* A connection just made has sent nothing.                                *)
LEMMA StreamInvInit == Init => StreamInv
<1> SUFFICES ASSUME Init PROVE StreamInv
  OBVIOUS
<1>1. /\ received = <<>> /\ sndbuf = <<>> /\ output = <<>> /\ msg = <<>>
      /\ sent = 0 /\ pc = "loop"
  BY DEF Init
<1>2. StreamTypes
  BY <1>1, EmptySeq DEF StreamTypes
<1>3. Joined = <<>> /\ Len(Joined) = 0
  BY <1>1, ConcatEmptySeq, EmptySeq DEF Joined, Stream
<1>4. \E k \in Nat : sent = k * MsgLen
  <2>1. 0 \in Nat /\ 0 = 0 * MsgLen
    BY TcpConnectionAssumption
  <2> QED
    BY <1>1, <2>1
<1> QED
  BY <1>1, <1>2, <1>3, <1>4 DEF StreamInv, Whole, Complete

(* The client gets whole messages in the order of Send, and no byte twice, *)
(* for any mixture of direct writes, partial writes and buffering.         *)
THEOREM StreamIsWhole == Spec => []MessagesAreWhole
<1>1. StreamInv => MessagesAreWhole
  <2> SUFFICES ASSUME StreamInv PROVE MessagesAreWhole
    OBVIOUS
  <2>1. Whole(Stream)
    BY JoinedType, PrefixIsWhole DEF StreamInv, StreamTypes, Joined
  <2> QED
    BY <2>1 DEF Whole, MessagesAreWhole
<1> QED
  BY <1>1, StreamInvInit, StreamInvStep, PTL DEF Spec

-----------------------------------------------------------------------------
(* Types.                                                                  *)

\* Every response belongs to a request that has been read.
RequestsRead == /\ unread <= asked
                /\ sent + MsgLen * unread <= MsgLen * asked

TypeInv == TypeOK /\ RequestsRead

(* The response of a request that was sent is made of its bytes.           *)
LEMMA ResponseIsBytes ==
  ASSUME TypeInv, unread > 0
  PROVE  /\ Response \in Seq(Byte)
         /\ sent + MsgLen \in Byte
         /\ sent + MsgLen + MsgLen * (unread - 1) <= MsgLen * asked
<1>0. /\ MsgLen \in Nat /\ MsgLen > 0 /\ MaxRequests \in Nat
      /\ asked \in 0..MaxRequests /\ unread \in 0..MaxRequests
      /\ sent \in Nat
      /\ sent + MsgLen * unread <= MsgLen * asked
  <2>1. sent \in Nat
    BY TcpConnectionAssumption DEF TypeInv, TypeOK, Byte
  <2> QED
    BY <2>1, TcpConnectionAssumption DEF TypeInv, TypeOK, RequestsRead
<1>1. MsgLen * unread = MsgLen + MsgLen * (unread - 1)
  BY <1>0
<1>2. MsgLen * (unread - 1) >= 0 /\ MsgLen * asked <= MsgLen * MaxRequests
  BY <1>0
<1>3. /\ MsgLen * unread \in Int /\ MsgLen * (unread - 1) \in Int
      /\ MsgLen * asked \in Int /\ MsgLen * MaxRequests \in Int
  BY <1>0
<1>4. /\ sent + MsgLen + MsgLen * (unread - 1) <= MsgLen * asked
      /\ sent + MsgLen <= MsgLen * MaxRequests
  BY <1>0, <1>1, <1>2, <1>3
<1>5. \A i \in 1..MsgLen : sent + i \in Byte
  BY <1>0, <1>3, <1>4 DEF Byte
<1>6. Response \in [1..MsgLen -> Byte]
  BY <1>5 DEF Response
<1>7. Response \in Seq(Byte)
  BY <1>0, <1>6, SeqDef
<1>8. sent + MsgLen \in Byte
  BY <1>0, <1>5
<1> QED
  BY <1>4, <1>7, <1>8

(* What a write takes and what it leaves are bytes; it fits the socket.    *)
LEMMA WriteType ==
  ASSUME NEW s \in Seq(Byte), NEW n \in 1..Len(s), Write(s, n),
         sndbuf \in Seq(Byte)
  PROVE  /\ Rest(s, n) \in Seq(Byte)
         /\ sndbuf' \in Seq(Byte) /\ Len(sndbuf') <= SndBuf
<1>1. Len(s) \in Nat /\ n \in Nat /\ n <= Len(s)
  BY LenProperties
<1>2. \A i \in 1..Len(s) : s[i] \in Byte
  BY ElementOfSeq
<1>3. SubSeq(s, 1, n) \in Seq(Byte) /\ Len(SubSeq(s, 1, n)) = n
  <2>1. \A i \in 1..n : s[i] \in Byte
    BY <1>1, <1>2
  <2>2. 1 <= n /\ (n - 1) + 1 = n
    BY <1>1
  <2> QED
    BY <1>1, <2>1, <2>2, SubSeqProperties
<1>4. Rest(s, n) \in Seq(Byte)
  <2>1. \A i \in (n + 1)..Len(s) : s[i] \in Byte
    BY <1>1, <1>2
  <2> QED
    BY <1>1, <2>1, SubSeqProperties DEF Rest
<1>5. Len(sndbuf) \in Nat /\ SndBuf \in Nat /\ n <= SndBuf - Len(sndbuf)
  BY LenProperties, TcpConnectionAssumption DEF Write, Room
<1>6. sndbuf' \in Seq(Byte) /\ Len(sndbuf') = Len(sndbuf) + n
  BY <1>3, ConcatProperties DEF Write
<1> QED
  BY <1>1, <1>4, <1>5, <1>6

(* No step breaks the types.                                               *)
LEMMA TypeInvStep == TypeInv /\ [Next]_vars => TypeInv'
<1> SUFFICES ASSUME TypeInv, [Next]_vars PROVE TypeInv'
  OBVIOUS
<1> USE TcpConnectionAssumption DEF TypeInv, TypeOK, RequestsRead
<1>1. CASE HandleMessage
  <2>1. /\ unread > 0 /\ unread' = unread - 1
        /\ UNCHANGED <<state, reading, writing, output, idle, sndbuf, fin,
                       asked, eof, received>>
    BY <1>1 DEF HandleMessage
  <2>2. /\ Response \in Seq(Byte) /\ sent + MsgLen \in Byte
        /\ sent + MsgLen + MsgLen * (unread - 1) <= MsgLen * asked
    BY <2>1, ResponseIsBytes
  <2>3. unread' \in 0..MaxRequests /\ unread' <= asked'
    BY <2>1
  <2>4. /\ msg' \in Seq(Byte) /\ sent' \in Byte \cup {0} /\ closing' \in BOOLEAN
        /\ pc' \in {"loop", "send"}
    BY <1>1, <2>2 DEF HandleMessage
  <2>5. sent' + MsgLen * unread' <= MsgLen * asked'
    <3>1. CASE sent' = sent + MsgLen
      BY <2>1, <2>2, <3>1
    <3>2. CASE sent' = sent
      <4>1. /\ sent \in Nat /\ MsgLen \in Nat
            /\ sent + MsgLen \in Nat /\ MsgLen * (unread - 1) \in Int
            /\ MsgLen * asked \in Int
        BY DEF Byte
      <4> QED
        BY <2>1, <2>2, <3>2, <4>1
    <3> QED
      BY <1>1, <3>1, <3>2 DEF HandleMessage
  <2> HIDE DEF RequestsRead
  <2>6. RequestsRead'
    BY <2>3, <2>5 DEF RequestsRead
  <2> QED
    BY <2>1, <2>3, <2>4, <2>6
<1>2. CASE SendWrites
  <2>1. PICK n \in 1..Len(msg) :
          /\ Write(msg, n)
          /\ msg' = Rest(msg, n)
          /\ pc' = IF n = Len(msg) THEN "sent" ELSE "append"
    BY <1>2 DEF SendWrites
  <2>2. /\ msg' \in Seq(Byte)
        /\ sndbuf' \in Seq(Byte) /\ Len(sndbuf') <= SndBuf
    BY <2>1, WriteType
  <2> QED
    BY <1>2, <2>1, <2>2 DEF SendWrites, netVars
<1>3. CASE SendFails
  BY <1>3, EmptySeq DEF SendFails, netVars
<1>4. CASE SendSkipsWrite
  BY <1>4 DEF SendSkipsWrite, netVars
<1>5. CASE SendAppends
  <2>1. output \o msg \in Seq(Byte)
    BY ConcatProperties
  <2> QED
    BY <1>5, <2>1, EmptySeq DEF SendAppends, netVars
<1>6. CASE Answered
  BY <1>6 DEF Answered, netVars
<1>7. CASE ShutdownAfterSend
  BY <1>7 DEF ShutdownAfterSend, Shutdown, netVars
<1>8. CASE HandleWrite
  <2>1. PICK n \in 1..Len(output) :
          /\ Write(output, n)
          /\ output' = Rest(output, n)
          /\ writing' = (n < Len(output))
          /\ pc' = IF n < Len(output) THEN "loop" ELSE "drained"
    BY <1>8 DEF HandleWrite
  <2>2. /\ output' \in Seq(Byte)
        /\ sndbuf' \in Seq(Byte) /\ Len(sndbuf') <= SndBuf
    BY <2>1, WriteType
  <2>3. writing' \in BOOLEAN
    BY <2>1
  <2> QED
    BY <1>8, <2>1, <2>2, <2>3 DEF HandleWrite, netVars
<1>9. CASE HandleWriteDrained
  BY <1>9 DEF HandleWriteDrained, Shutdown, netVars
<1>10. CASE HandleClose
  BY <1>10 DEF HandleClose, netVars
<1>11. CASE BaseThread \/ IdleTimeout
  <2>1. CASE IdleTimeout \/ IdleChecksEarly \/ IdleStores
    BY <2>1 DEF IdleTimeout, IdleChecksEarly, IdleStores, netVars
  <2>2. CASE IdleChecks
    BY <2>2 DEF IdleChecks, netVars
  <2> QED
    BY <1>11, <2>1, <2>2 DEF BaseThread
<1>12. CASE ClientRequests
  <2>1. MsgLen * (unread + 1) = MsgLen * unread + MsgLen
    OBVIOUS
  <2>2. MsgLen * (asked + 1) = MsgLen * asked + MsgLen
    OBVIOUS
  <2>3. /\ MsgLen * unread \in Int /\ MsgLen * asked \in Int
        /\ sent \in Int /\ MsgLen \in Int
    BY DEF Byte
  <2>4. /\ sent' = sent /\ asked < MaxRequests
        /\ unread' = unread + 1 /\ asked' = asked + 1
    BY <1>12 DEF ClientRequests
  <2>5. sent' + MsgLen * unread' <= MsgLen * asked'
    BY <2>1, <2>2, <2>3, <2>4
  <2>6. /\ unread' \in 0..MaxRequests /\ asked' \in 0..MaxRequests
        /\ unread' <= asked'
    BY <2>4
  <2> HIDE DEF RequestsRead
  <2>7. RequestsRead'
    BY <2>5, <2>6 DEF RequestsRead
  <2> QED
    BY <1>12, <2>4, <2>6, <2>7 DEF ClientRequests
<1>13. CASE ClientReceives
  <2>1. /\ sndbuf # <<>> /\ received' = Append(received, Head(sndbuf))
        /\ sndbuf' = Tail(sndbuf)
    BY <1>13 DEF ClientReceives
  <2>2. /\ Head(sndbuf) \in Byte /\ Tail(sndbuf) \in Seq(Byte)
        /\ Len(Tail(sndbuf)) = Len(sndbuf) - 1 /\ Len(sndbuf) \in Nat
    BY <2>1, HeadTailProperties, LenProperties
  <2>3. received' \in Seq(Byte)
    BY <2>1, <2>2, AppendProperties
  <2>4. sndbuf' \in Seq(Byte) /\ Len(sndbuf') <= SndBuf
    BY <2>1, <2>2
  <2> QED
    BY <1>13, <2>3, <2>4 DEF ClientReceives
<1>14. CASE ClientHalfCloses
  BY <1>14 DEF ClientHalfCloses
<1>15. CASE UNCHANGED vars
  BY <1>15 DEF vars, netVars
<1> QED
  BY <1>1, <1>2, <1>3, <1>4, <1>5, <1>6, <1>7, <1>8, <1>9, <1>10, <1>11, <1>12,
     <1>13, <1>14, <1>15 DEF Next, LoopThread, Send, Client

(* Type correctness: the numbers of the bytes stay within those of the     *)
(* client's requests, and the socket's buffer within its size.             *)
THEOREM TypeCorrect == Spec => []TypeOK
<1>1. Init => TypeInv
  <2> SUFFICES ASSUME Init PROVE TypeInv
    OBVIOUS
  <2>1. MsgLen * 0 = 0
    BY TcpConnectionAssumption
  <2>2. <<>> \in Seq(Byte) /\ Len(<<>>) = 0
    BY EmptySeq
  <2>3. RequestsRead
    BY <2>1 DEF Init, RequestsRead
  <2>4. 0 \in 0..MaxRequests /\ 0 <= SndBuf
    BY TcpConnectionAssumption
  <2>5. TypeOK
    BY <2>2, <2>4 DEF Init, TypeOK
  <2> QED
    BY <2>3, <2>5 DEF TypeInv
<1>2. TypeInv => TypeOK
  BY DEF TypeInv
<1> QED
  BY <1>1, <1>2, TypeInvStep, PTL DEF Spec

=============================================================================
