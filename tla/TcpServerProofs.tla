--------------------------- MODULE TcpServerProofs ---------------------------
(***************************************************************************)
(* Proofs about TcpServer, for any number of connections, descriptors and  *)
(* loops, with or without the idle timer: no Epoller and no list of        *)
(* returned channels keeps a Channel* longer than the connection lives,    *)
(* every functor in flight finds what it asserts, and the server           *)
(* implements ConnectionLifecycle.                                         *)
(***************************************************************************)
EXTENDS TcpServer, SequenceTheorems, TLAPS

\* The functors that keep a connection alive.
Runs == {"ConnectionEstablished", "HandleCloseInLoop", "ConnectionDestructor"}

Entry(run, c) == [run |-> run, conn |-> c]

IsIn(e, list) == \E i \in 1..Len(list) : list[i] = e

\* No two functors of a list keep the same connection alive.
AreAlone(list) ==
  \A i, j \in 1..Len(list) :
    (list[i].run \in Runs /\ list[j].run \in Runs /\ list[i].conn = list[j].conn)
      => i = j

\* What each loop has still to call, in this order.
Waiting == [l \in Loops |-> functors[l] \o to_do[l]]

\* Lists W in which no two functors keep the same connection alive.
AllAlone(W) == /\ W \in [Loops -> Seq(Functor)]
               /\ \A l \in Loops : AreAlone(W[l])

\* V is W with e at the end of list l.
Adds(W, V, l, e) == /\ V[l] = Append(W[l], e)
                    /\ \A k \in Loops \ {l} : V[k] = W[k]

\* Nothing in list l of W keeps c alive, if run does.
NoOther(W, l, run, c) ==
  run \in Runs => \A r \in Runs : ~IsIn(Entry(r, c), W[l])

\* V is W without the first of list l.
Takes(W, V, l) == /\ W[l] # <<>>
                  /\ V \in [Loops -> Seq(Functor)]
                  /\ V[l] = Tail(W[l])
                  /\ \A k \in Loops \ {l} : V[k] = W[k]

Waits(l, run, c) == IsIn(Entry(run, c), Waiting[l])

Lists == /\ \A l \in Loops : pc[l] # "calls" => functors[l] = <<>>
         /\ \A l \in Loops : AreAlone(Waiting[l])

\* DoToDoList takes the next functor of loop l.
Calls(l) == /\ pc[l] = "calls"
            /\ functors[l] # <<>>
            /\ functors' = [functors EXCEPT ![l] = Tail(@)]
            /\ pc' = pc

First(l) == Head(functors[l])

\* Somebody has a reference to c.
Kept(c) ==
  \/ \E f \in Fds : connections_[f] = c
  \/ \E l \in Loops : (\E run \in Runs : Waits(l, run, c)) \/ c \in called[l]
  \/ held = c

(* Where a connection may be found, by the state of its channel.           *)
Unaccepted ==
  \A c \in Conns : /\ peer[c] = "none" => fd[c] = NoFd /\ c \notin backlog
                   /\ c \in backlog => fd[c] = NoFd

OwnFds ==
  /\ \A c \in Conns : Kept(c) => fd[c] \in Fds /\ fd[c] # idlefd
  /\ \A c, d \in Conns : Kept(c) /\ Kept(d) /\ fd[c] = fd[d] => c = d

InMap == \A f \in Fds : \A c \in Conns : connections_[f] = c => fd[c] = f

InEpoller ==
  \A l \in Loops : \A f \in Fds : \A c \in Conns :
    channels_[l][f] = c => loop[c] = l /\ fd[c] = f /\ channel[c] # "kNew"

Owned(c) == fd[c] \in Fds /\ connections_[fd[c]] = c

Closing(c) == \/ Waits(Base, "HandleCloseInLoop", c)
              \/ Waits(loop[c], "ConnectionDestructor", c)

OfChannel(c) ==
  /\ c \in registered <=> channel[c] = "kAdded"
  /\ c \in reading <=> channel[c] = "kAdded"
  /\ channel[c] # "kNew" => channels_[loop[c]][fd[c]] = c
  /\ channel[c] = "kAdded" => Owned(c)
  /\ channel[c] = "kDeleted" => Closing(c)
  /\ \A l \in Loops : c \in active[l] => loop[c] = l /\ channel[c] = "kAdded"

OfFunctors(c) ==
  \A l \in Loops :
    /\ Waits(l, "ConnectionEstablished", c) =>
         l = loop[c] /\ Owned(c) /\ channel[c] = "kNew"
    /\ Waits(l, "HandleCloseInLoop", c) =>
         l = Base /\ Owned(c) /\ channel[c] = "kDeleted"
    /\ Waits(l, "ConnectionDestructor", c) =>
         l = loop[c] /\ ~Owned(c) /\ channel[c] = "kDeleted"

Places == \A c \in Conns : OfChannel(c) /\ OfFunctors(c)

ServerInv == TypeOK /\ Lists /\ Unaccepted /\ OwnFds /\ InMap /\ InEpoller /\ Places

-----------------------------------------------------------------------------
(* Lists of functors.                                                      *)

(* A functor is its run and its connection.                                *)
LEMMA EntryOf ==
  /\ \A e \in Functor : e = Entry(e.run, e.conn)
  /\ \A run \in Runs \cup {"AddTimer"}, c \in Conns : Entry(run, c) \in Functor
  /\ \A run, c : Entry(run, c).run = run /\ Entry(run, c).conn = c
BY DEF Functor, Entry, Runs

(* One more at the end is one more in the list.                            *)
LEMMA AppendIsIn ==
  ASSUME NEW q \in Seq(Functor), NEW e \in Functor
  PROVE  /\ Append(q, e) \in Seq(Functor)
         /\ \A x : IsIn(x, Append(q, e)) <=> IsIn(x, q) \/ x = e
<1>1. /\ Append(q, e) \in Seq(Functor)
      /\ Len(Append(q, e)) = Len(q) + 1
      /\ Append(q, e)[Len(q) + 1] = e
      /\ \A i \in 1..Len(q) : Append(q, e)[i] = q[i]
  BY AppendProperties
<1>2. Len(q) \in Nat
  BY LenProperties
<1>3. ASSUME NEW x PROVE IsIn(x, Append(q, e)) <=> IsIn(x, q) \/ x = e
  <2>1. CASE IsIn(x, Append(q, e))
    <3>1. PICK i \in 1..(Len(q) + 1) : Append(q, e)[i] = x
      BY <1>1, <2>1 DEF IsIn
    <3>2. i = Len(q) + 1 \/ i \in 1..Len(q)
      BY <1>2
    <3> QED
      BY <1>1, <2>1, <3>1, <3>2 DEF IsIn
  <2>2. CASE x = e
    BY <1>1, <1>2, <2>2 DEF IsIn
  <2>3. CASE IsIn(x, q)
    <3>1. PICK i \in 1..Len(q) : q[i] = x
      BY <2>3 DEF IsIn
    <3>2. i \in 1..(Len(q) + 1) /\ Append(q, e)[i] = x
      BY <1>1, <1>2, <3>1
    <3> QED
      BY <1>1, <2>3, <3>2 DEF IsIn
  <2> QED
    BY <2>1, <2>2, <2>3
<1> QED
  BY <1>1, <1>3

(* It stays alone if there was none for its connection.                    *)
LEMMA AppendIsAlone ==
  ASSUME NEW q \in Seq(Functor), AreAlone(q), NEW e \in Functor,
         e.run \in Runs => \A run \in Runs : ~IsIn(Entry(run, e.conn), q)
  PROVE  AreAlone(Append(q, e))
<1> DEFINE r == Append(q, e)
<1>1. /\ Len(r) = Len(q) + 1
      /\ r[Len(q) + 1] = e
      /\ \A i \in 1..Len(q) : r[i] = q[i] /\ q[i] \in Functor
  BY AppendProperties
<1>2. Len(q) \in Nat
  BY LenProperties
<1> HIDE DEF r
<1>3. ASSUME NEW i \in 1..Len(q), e.run \in Runs, r[i].run \in Runs,
             r[i].conn = e.conn
      PROVE  FALSE
  <2>1. r[i] = Entry(r[i].run, e.conn)
    BY <1>1, <1>3, EntryOf
  <2> QED
    BY <1>1, <1>3, <2>1 DEF IsIn
<1>4. ASSUME NEW i \in 1..Len(r), NEW j \in 1..Len(r),
             r[i].run \in Runs, r[j].run \in Runs, r[i].conn = r[j].conn
      PROVE  i = j
  <2>1. /\ i \in 1..Len(q) \/ i = Len(q) + 1
        /\ j \in 1..Len(q) \/ j = Len(q) + 1
    BY <1>1, <1>2
  <2>2. CASE i \in 1..Len(q) /\ j \in 1..Len(q)
    BY <1>1, <1>4, <2>2 DEF AreAlone
  <2>3. CASE i = Len(q) + 1 /\ j \in 1..Len(q)
    BY <1>1, <1>3, <1>4, <2>3
  <2>4. CASE j = Len(q) + 1 /\ i \in 1..Len(q)
    BY <1>1, <1>3, <1>4, <2>4
  <2> QED
    BY <2>1, <2>2, <2>3, <2>4
<1>5. AreAlone(r)
  BY <1>4 DEF AreAlone
<1> QED
  BY <1>5 DEF r

(* The first one is called, and leaves no other for its connection.        *)
LEMMA TailIsIn ==
  ASSUME NEW q \in Seq(Functor), q # <<>>, AreAlone(q)
  PROVE  /\ Head(q) \in Functor
         /\ Tail(q) \in Seq(Functor)
         /\ \A x : IsIn(x, q) <=> x = Head(q) \/ IsIn(x, Tail(q))
         /\ AreAlone(Tail(q))
         /\ Head(q).run \in Runs =>
              \A run \in Runs : ~IsIn(Entry(run, Head(q).conn), Tail(q))
<1> DEFINE r == Tail(q)
<1>1. /\ Head(q) \in Functor
      /\ r \in Seq(Functor)
      /\ Len(r) = Len(q) - 1
      /\ \A i \in 1..Len(r) : r[i] = q[i + 1]
  BY HeadTailProperties
<1>2. Len(q) \in Nat /\ Len(q) > 0 /\ Head(q) = q[1]
  BY HeadTailProperties, EmptySeq, LenProperties
<1>3. \A i \in 1..Len(r) : i + 1 \in 1..Len(q) /\ i \in Nat
  BY <1>1, <1>2
<1> HIDE DEF r
<1>4. ASSUME NEW x PROVE IsIn(x, q) <=> x = Head(q) \/ IsIn(x, r)
  <2>1. CASE IsIn(x, q)
    <3>1. PICK i \in 1..Len(q) : q[i] = x
      BY <2>1 DEF IsIn
    <3>2. i = 1 \/ (i - 1 \in 1..Len(r) /\ (i - 1) + 1 = i)
      BY <1>1, <1>2
    <3> QED
      BY <1>1, <1>2, <2>1, <3>1, <3>2 DEF IsIn
  <2>2. CASE x = Head(q)
    BY <1>2, <2>2 DEF IsIn
  <2>3. CASE IsIn(x, r)
    <3>1. PICK i \in 1..Len(r) : r[i] = x
      BY <2>3 DEF IsIn
    <3> QED
      BY <1>1, <1>3, <2>3, <3>1 DEF IsIn
  <2> QED
    BY <2>1, <2>2, <2>3
<1>5. AreAlone(r)
  <2>1. ASSUME NEW i \in 1..Len(r), NEW j \in 1..Len(r),
               r[i].run \in Runs, r[j].run \in Runs, r[i].conn = r[j].conn
        PROVE  i = j
    <3>1. i + 1 = j + 1
      BY <1>1, <1>3, <2>1 DEF AreAlone
    <3> QED
      BY <1>3, <3>1
  <2> QED
    BY <2>1 DEF AreAlone
<1>6. ASSUME Head(q).run \in Runs, NEW run \in Runs,
             IsIn(Entry(run, Head(q).conn), r)
      PROVE  FALSE
  <2>1. PICK i \in 1..Len(r) : r[i] = Entry(run, Head(q).conn)
    BY <1>6 DEF IsIn
  <2>2. q[i + 1].run \in Runs /\ q[i + 1].conn = q[1].conn
    BY <1>1, <1>2, <2>1, <1>6, EntryOf
  <2>3. i + 1 = 1
    BY <1>2, <1>3, <1>6, <2>2 DEF AreAlone
  <2> QED
    BY <1>3, <2>3
<1> QED
  BY <1>1, <1>4, <1>5, <1>6 DEF r

(* Two lists, one behind the other.                                        *)
LEMMA TwoLists ==
  ASSUME NEW a \in Seq(Functor), NEW b \in Seq(Functor)
  PROVE  /\ a \o b \in Seq(Functor)
         /\ \A x : IsIn(x, a \o b) <=> IsIn(x, a) \/ IsIn(x, b)
         /\ \A e \in Functor : a \o Append(b, e) = Append(a \o b, e)
         /\ a # <<>> => /\ a \o b # <<>>
                        /\ Head(a \o b) = Head(a)
                        /\ Tail(a) \o b = Tail(a \o b)
<1>1. /\ a \o b \in Seq(Functor)
      /\ Len(a \o b) = Len(a) + Len(b)
      /\ \A i \in 1..(Len(a) + Len(b)) :
           (a \o b)[i] = IF i <= Len(a) THEN a[i] ELSE b[i - Len(a)]
  BY ConcatProperties
<1>2. Len(a) \in Nat /\ Len(b) \in Nat
  BY LenProperties
<1>3. ASSUME NEW x PROVE IsIn(x, a \o b) <=> IsIn(x, a) \/ IsIn(x, b)
  <2>1. CASE IsIn(x, a \o b)
    <3>1. PICK i \in 1..(Len(a) + Len(b)) : (a \o b)[i] = x
      BY <1>1, <2>1 DEF IsIn
    <3>2. CASE i <= Len(a)
      <4>1. i \in 1..Len(a) /\ a[i] = x
        BY <1>1, <1>2, <3>1, <3>2
      <4> QED
        BY <2>1, <4>1 DEF IsIn
    <3>3. CASE ~(i <= Len(a))
      <4>1. i - Len(a) \in 1..Len(b) /\ b[i - Len(a)] = x
        BY <1>1, <1>2, <3>1, <3>3
      <4> QED
        BY <2>1, <4>1 DEF IsIn
    <3> QED
      BY <3>2, <3>3
  <2>2. CASE IsIn(x, a)
    <3>1. PICK i \in 1..Len(a) : a[i] = x
      BY <2>2 DEF IsIn
    <3>2. i \in 1..(Len(a) + Len(b)) /\ (a \o b)[i] = x
      BY <1>1, <1>2, <3>1
    <3> QED
      BY <1>1, <2>2, <3>2 DEF IsIn
  <2>3. CASE IsIn(x, b)
    <3>1. PICK i \in 1..Len(b) : b[i] = x
      BY <2>3 DEF IsIn
    <3>2. Len(a) + i \in 1..(Len(a) + Len(b)) /\ (a \o b)[Len(a) + i] = x
      BY <1>1, <1>2, <3>1
    <3> QED
      BY <1>1, <2>3, <3>2 DEF IsIn
  <2> QED
    BY <2>1, <2>2, <2>3
<1>4. ASSUME NEW e \in Functor PROVE a \o Append(b, e) = Append(a \o b, e)
  BY ConcatProperties, AppendProperties, <1>1, <1>2
<1>5. ASSUME a # <<>>
      PROVE  a \o b # <<>> /\ Head(a \o b) = Head(a) /\ Tail(a) \o b = Tail(a \o b)
  BY <1>5
<1> QED
  BY <1>1, <1>3, <1>4, <1>5

-----------------------------------------------------------------------------
(* What the loops have still to call.                                      *)

(* Base is a loop, and so is every loop NextLoop may return.               *)
LEMMA LoopsAre ==
  /\ Base \in Loops
  /\ \A n \in ThreadNums : n \in Nat /\ \A i \in 0..n : i \in Loops
<1>1. \A n \in ThreadNums : n \in Nat /\ 0..n \subseteq Loops
  BY TcpServerAssumption, Zenon DEF Loops
<1>2. PICK n \in ThreadNums : TRUE
  BY TcpServerAssumption
<1>3. 0 \in 0..n
  BY <1>1
<1> QED
  BY <1>1, <1>2, <1>3 DEF Base

(* One list grows by a functor for which nothing else waits.               *)
LEMMA Queueing ==
  ASSUME NEW W, NEW V, NEW l \in Loops, NEW run \in Runs \cup {"AddTimer"},
         NEW c \in Conns, AllAlone(W), Adds(W, V, l, Entry(run, c)),
         NoOther(W, l, run, c)
  PROVE  /\ \A k \in Loops : AreAlone(V[k])
         /\ \A k \in Loops, r \in Runs, d \in Conns :
              IsIn(Entry(r, d), V[k]) <=> \/ IsIn(Entry(r, d), W[k])
                                          \/ k = l /\ r = run /\ d = c
<1>1. Entry(run, c) \in Functor /\ Entry(run, c).run = run /\ Entry(run, c).conn = c
  BY EntryOf
<1>2. /\ V[l] = Append(W[l], Entry(run, c))
      /\ \A k \in Loops : k = l \/ V[k] = W[k]
      /\ \A k \in Loops : AreAlone(W[k])
  BY DEF Adds, AllAlone
<1>3. W[l] \in Seq(Functor) /\ AreAlone(W[l])
  BY DEF AllAlone
<1>4. AreAlone(V[l])
  <2> DEFINE e == Entry(run, c)
  <2>1. e \in Functor /\ (e.run \in Runs => \A r \in Runs : ~IsIn(Entry(r, e.conn), W[l]))
    BY <1>1 DEF NoOther
  <2> HIDE DEF e
  <2>2. AreAlone(Append(W[l], e))
    BY <1>3, <2>1, AppendIsAlone
  <2> QED
    BY <1>2, <2>2 DEF e
<1>5. \A x : IsIn(x, V[l]) <=> IsIn(x, W[l]) \/ x = Entry(run, c)
  BY <1>1, <1>2, <1>3, AppendIsIn
<1>6. \A r, d : Entry(r, d) = Entry(run, c) => r = run /\ d = c
  BY EntryOf
<1>7. ASSUME NEW k \in Loops, NEW r \in Runs, NEW d \in Conns
      PROVE  IsIn(Entry(r, d), V[k]) <=> \/ IsIn(Entry(r, d), W[k])
                                         \/ k = l /\ r = run /\ d = c
  <2>1. CASE k = l
    BY <1>5, <1>6, <2>1
  <2>2. CASE k # l
    BY <1>2, <2>2
  <2> QED
    BY <2>1, <2>2
<1> QED
  BY <1>2, <1>4, <1>7

(* The first functor of one list is called.                                *)
LEMMA Calling ==
  ASSUME NEW W, NEW V, NEW l \in Loops, AllAlone(W), Takes(W, V, l)
  PROVE  /\ AllAlone(V)
         /\ Head(W[l]) \in Functor
         /\ IsIn(Head(W[l]), W[l])
         /\ \A k \in Loops, r \in Runs, d \in Conns :
              IsIn(Entry(r, d), V[k]) <=>
                /\ IsIn(Entry(r, d), W[k])
                /\ ~(k = l /\ Head(W[l]).run \in Runs /\ d = Head(W[l]).conn)
<1>1. W[l] \in Seq(Functor) /\ AreAlone(W[l]) /\ W[l] # <<>>
  BY DEF AllAlone, Takes
<1>2. /\ V[l] = Tail(W[l])
      /\ \A k \in Loops : k = l \/ V[k] = W[k]
      /\ \A k \in Loops : AreAlone(W[k])
      /\ V \in [Loops -> Seq(Functor)]
  BY DEF Takes, AllAlone
<1>3. /\ Head(W[l]) \in Functor
      /\ \A x : IsIn(x, W[l]) <=> x = Head(W[l]) \/ IsIn(x, V[l])
      /\ AreAlone(V[l])
      /\ Head(W[l]).run \in Runs =>
           \A r \in Runs : ~IsIn(Entry(r, Head(W[l]).conn), V[l])
  BY <1>1, <1>2, TailIsIn
<1>4. \A r \in Runs : \A d : Entry(r, d) = Head(W[l]) =>
                           Head(W[l]).run \in Runs /\ d = Head(W[l]).conn
  BY EntryOf
<1>5. \A r \in Runs, d \in Conns :
        IsIn(Entry(r, d), V[l]) <=>
          IsIn(Entry(r, d), W[l]) /\ ~(Head(W[l]).run \in Runs /\ d = Head(W[l]).conn)
  BY <1>3, <1>4
<1>6. AllAlone(V)
  BY <1>2, <1>3 DEF AllAlone
<1> QED
  BY <1>2, <1>3, <1>5, <1>6

(* The lists are lists of functors.                                        *)
LEMMA WaitingType ==
  ASSUME TypeOK
  PROVE  /\ Waiting \in [Loops -> Seq(Functor)]
         /\ \A l \in Loops : functors[l] \in Seq(Functor) /\ to_do[l] \in Seq(Functor)
<1>1. \A l \in Loops : functors[l] \in Seq(Functor) /\ to_do[l] \in Seq(Functor)
  BY DEF TypeOK
<1>2. \A l \in Loops : functors[l] \o to_do[l] \in Seq(Functor)
  BY <1>1, TwoLists
<1> QED
  BY <1>1, <1>2 DEF Waiting

(* QueueOneFunc leaves the type of the lists.                              *)
LEMMA QueueType ==
  ASSUME TypeOK, NEW l \in Loops, NEW run \in Runs \cup {"AddTimer"},
         NEW c \in Conns, Queue(l, run, c)
  PROVE  to_do' \in [Loops -> Seq(Functor)]
<1>1. Entry(run, c) \in Functor
  BY EntryOf
<1>2. to_do \in [Loops -> Seq(Functor)] /\ to_do[l] \in Seq(Functor)
  BY DEF TypeOK
<1>3. Append(to_do[l], Entry(run, c)) \in Seq(Functor)
  BY <1>1, <1>2, AppendProperties
<1>4. to_do' = [to_do EXCEPT ![l] = Append(@, Entry(run, c))]
  BY DEF Queue, Entry
<1> QED
  BY <1>2, <1>3, <1>4

(* QueueOneFunc in a handler of a loop.                                    *)
LEMMA Queued ==
  ASSUME TypeOK, Lists, NEW l \in Loops, NEW run \in Runs \cup {"AddTimer"},
         NEW c \in Conns, Queue(l, run, c), functors' = functors, pc' = pc,
         run \in Runs => \A r \in Runs : ~Waits(l, r, c)
  PROVE  /\ Lists'
         /\ \A k \in Loops, r \in Runs, d \in Conns :
              Waits(k, r, d)' <=> \/ Waits(k, r, d)
                                  \/ k = l /\ r = run /\ d = c
<1>1. Entry(run, c) \in Functor
  BY EntryOf
<1>2. to_do' = [to_do EXCEPT ![l] = Append(@, Entry(run, c))]
  BY DEF Queue, Entry
<1>3. Adds(Waiting, Waiting', l, Entry(run, c))
  <2>1. to_do \in [Loops -> Seq(Functor)]
    BY DEF TypeOK
  <2>2. functors[l] \o Append(to_do[l], Entry(run, c))
          = Append(functors[l] \o to_do[l], Entry(run, c))
    BY <1>1, WaitingType, TwoLists
  <2> QED
    BY <1>2, <2>1, <2>2 DEF Waiting, Adds
<1>4. AllAlone(Waiting)
  BY WaitingType DEF Lists, AllAlone
<1>5. NoOther(Waiting, l, run, c)
  BY DEF Waits, NoOther
<1>6. /\ \A k \in Loops : AreAlone(Waiting'[k])
      /\ \A k \in Loops, r \in Runs, d \in Conns :
           IsIn(Entry(r, d), Waiting'[k]) <=> \/ IsIn(Entry(r, d), Waiting[k])
                                              \/ k = l /\ r = run /\ d = c
  BY <1>3, <1>4, <1>5, Queueing
<1> QED
  BY <1>6 DEF Lists, Waits

(* DoToDoList calls a functor, which may queue another one.                *)
LEMMA Called ==
  ASSUME TypeOK, Lists, NEW l \in Loops, Calls(l)
  PROVE  /\ First(l).run \in Runs \cup {"AddTimer"} /\ First(l).conn \in Conns
         /\ functors' \in [Loops -> Seq(Functor)]
         /\ First(l).run \in Runs => Waits(l, First(l).run, First(l).conn)
         /\ to_do' = to_do =>
              /\ Lists'
              /\ \A k \in Loops, r \in Runs, d \in Conns :
                   Waits(k, r, d)' <=>
                     /\ Waits(k, r, d)
                     /\ ~(k = l /\ First(l).run \in Runs /\ d = First(l).conn)
         /\ \A m \in Loops, run \in Runs \cup {"AddTimer"}, c \in Conns :
              ( /\ Queue(m, run, c)
                /\ run \in Runs =>
                     \A r \in Runs : Waits(m, r, c) =>
                       m = l /\ First(l).run \in Runs /\ c = First(l).conn )
              => /\ Lists'
                 /\ \A k \in Loops, r \in Runs, d \in Conns :
                      Waits(k, r, d)' <=>
                        \/ /\ Waits(k, r, d)
                           /\ ~(k = l /\ First(l).run \in Runs /\ d = First(l).conn)
                        \/ k = m /\ r = run /\ d = c
<1> DEFINE Left == [k \in Loops |-> IF k = l THEN Tail(Waiting[l]) ELSE Waiting[k]]
           Gone(k, d) == k = l /\ First(l).run \in Runs /\ d = First(l).conn
<1>1. /\ Waiting \in [Loops -> Seq(Functor)]
      /\ \A k \in Loops : functors[k] \in Seq(Functor) /\ to_do[k] \in Seq(Functor)
      /\ AllAlone(Waiting)
  BY WaitingType DEF Lists, AllAlone
<1>2. /\ Waiting[l] # <<>>
      /\ Head(Waiting[l]) = First(l)
      /\ Tail(functors[l]) \o to_do[l] = Tail(Waiting[l])
  BY <1>1, TwoLists DEF Waiting, Calls, First
<1>3. functors \in [Loops -> Seq(Functor)] /\ to_do \in [Loops -> Seq(Functor)]
  BY DEF TypeOK
<1>4. Left = [k \in Loops |-> functors'[k] \o to_do[k]]
  BY <1>2, <1>3 DEF Waiting, Calls
<1>5. Takes(Waiting, Left, l)
  <2>1. Tail(Waiting[l]) \in Seq(Functor)
    BY <1>1, <1>2, HeadTailProperties
  <2> QED
    BY <1>1, <1>2, <2>1 DEF Takes
<1> HIDE DEF Left
<1>6. /\ AllAlone(Left)
      /\ First(l) \in Functor
      /\ IsIn(First(l), Waiting[l])
      /\ \A k \in Loops, r \in Runs, d \in Conns :
           IsIn(Entry(r, d), Left[k]) <=> IsIn(Entry(r, d), Waiting[k]) /\ ~Gone(k, d)
  <2>1. /\ AllAlone(Left)
        /\ Head(Waiting[l]) \in Functor
        /\ IsIn(Head(Waiting[l]), Waiting[l])
        /\ \A k \in Loops, r \in Runs, d \in Conns :
             IsIn(Entry(r, d), Left[k]) <=>
               /\ IsIn(Entry(r, d), Waiting[k])
               /\ ~(k = l /\ Head(Waiting[l]).run \in Runs
                    /\ d = Head(Waiting[l]).conn)
    BY <1>1, <1>5, Calling, Zenon
  <2> QED
    BY <1>2, <2>1
<1>7. /\ First(l).run \in Runs \cup {"AddTimer"} /\ First(l).conn \in Conns
      /\ First(l).run \in Runs => Waits(l, First(l).run, First(l).conn)
  <2>1. First(l).run \in Runs \cup {"AddTimer"} /\ First(l).conn \in Conns
    BY <1>6 DEF Functor, Runs
  <2>2. First(l) = Entry(First(l).run, First(l).conn)
    BY <1>6, EntryOf
  <2>3. IsIn(Entry(First(l).run, First(l).conn), Waiting[l])
    BY <1>6, <2>2
  <2> QED
    BY <2>1, <2>3 DEF Waits
<1>8. functors' \in [Loops -> Seq(Functor)]
  <2>1. Tail(functors[l]) \in Seq(Functor)
    BY <1>1, HeadTailProperties DEF Calls
  <2> QED
    BY <1>3, <2>1 DEF Calls
<1>9. \A k \in Loops : pc'[k] # "calls" => functors'[k] = <<>>
  BY <1>3 DEF Lists, Calls
<1> HIDE DEF Gone
<1>10. ASSUME to_do' = to_do
       PROVE  /\ Lists'
              /\ \A k \in Loops, r \in Runs, d \in Conns :
                   Waits(k, r, d)' <=> Waits(k, r, d) /\ ~Gone(k, d)
  <2>1. Waiting' = Left
    BY <1>4, <1>10 DEF Waiting
  <2> QED
    BY <1>6, <1>9, <2>1 DEF Lists, Waits, AllAlone
<1>11. ASSUME NEW m \in Loops, NEW run \in Runs \cup {"AddTimer"}, NEW c \in Conns,
              Queue(m, run, c),
              run \in Runs => \A r \in Runs : Waits(m, r, c) => Gone(m, c)
       PROVE  /\ Lists'
              /\ \A k \in Loops, r \in Runs, d \in Conns :
                   Waits(k, r, d)' <=> \/ Waits(k, r, d) /\ ~Gone(k, d)
                                       \/ k = m /\ r = run /\ d = c
  <2>1. Entry(run, c) \in Functor
    BY EntryOf
  <2>2. to_do' = [to_do EXCEPT ![m] = Append(@, Entry(run, c))]
    BY <1>11 DEF Queue, Entry
  <2>3. Adds(Left, Waiting', m, Entry(run, c))
    <3>1. functors'[m] \o Append(to_do[m], Entry(run, c))
            = Append(functors'[m] \o to_do[m], Entry(run, c))
      <4>1. functors'[m] \in Seq(Functor) /\ to_do[m] \in Seq(Functor)
        BY <1>3, <1>8
      <4> QED
        BY <2>1, <4>1, TwoLists
    <3> QED
      BY <1>3, <1>4, <2>2, <3>1 DEF Waiting, Adds
  <2>4. NoOther(Left, m, run, c)
    BY <1>6, <1>11 DEF Waits, NoOther
  <2>5. /\ \A k \in Loops : AreAlone(Waiting'[k])
        /\ \A k \in Loops, r \in Runs, d \in Conns :
             IsIn(Entry(r, d), Waiting'[k]) <=> \/ IsIn(Entry(r, d), Left[k])
                                                \/ k = m /\ r = run /\ d = c
    <3>1. AllAlone(Left)
      BY <1>6
    <3> QED
      BY <2>3, <2>4, <3>1, Queueing
  <2>6. \A k \in Loops, r \in Runs, d \in Conns :
          IsIn(Entry(r, d), Left[k]) <=> IsIn(Entry(r, d), Waiting[k]) /\ ~Gone(k, d)
    BY <1>6, Zenon
  <2> QED
    BY <1>9, <2>5, <2>6 DEF Lists, Waits
<1>12. \A k, d : Gone(k, d) <=> k = l /\ First(l).run \in Runs /\ d = First(l).conn
  BY DEF Gone
<1> QED
  BY <1>7, <1>8, <1>10, <1>11, <1>12

(* Kept is Alive.                                                          *)
LEMMA KeptIsAlive ==
  ASSUME TypeOK, NEW c \in Conns
  PROVE  Alive(c) <=> Kept(c)
<1>1. ASSUME NEW q \in Seq(Functor)
      PROVE  c \in ReferredBy(q) <=> \E run \in Runs : IsIn(Entry(run, c), q)
  <2>1. /\ DOMAIN q = 1..Len(q)
        /\ \A i \in DOMAIN q : q[i] \in Functor
    BY ElementOfSeq, LenProperties
  <2>2. \A i \in DOMAIN q : /\ q[i] = Entry(q[i].run, q[i].conn)
                            /\ q[i].run # "AddTimer" <=> q[i].run \in Runs
    BY <2>1, EntryOf DEF Functor, Runs
  <2>3. ASSUME NEW run \in Runs, IsIn(Entry(run, c), q)
        PROVE  \E i \in DOMAIN q : q[i].run # "AddTimer" /\ q[i].conn = c
    BY <2>1, <2>2, <2>3, EntryOf DEF IsIn
  <2>4. ASSUME NEW i \in DOMAIN q, q[i].run # "AddTimer", q[i].conn = c
        PROVE  \E run \in Runs : IsIn(Entry(run, c), q)
    BY <2>1, <2>2, <2>4 DEF IsIn
  <2>5. c \in ReferredBy(q) <=>
          \E i \in DOMAIN q : q[i].run # "AddTimer" /\ q[i].conn = c
    BY DEF ReferredBy
  <2> QED
    BY <2>3, <2>4, <2>5
<1>2. ASSUME NEW l \in Loops
      PROVE  (c \in ReferredBy(to_do[l]) \/ c \in ReferredBy(functors[l]))
               <=> \E run \in Runs : Waits(l, run, c)
  <2>1. functors[l] \in Seq(Functor) /\ to_do[l] \in Seq(Functor)
    BY WaitingType
  <2>2. \A x : IsIn(x, Waiting[l]) <=> IsIn(x, functors[l]) \/ IsIn(x, to_do[l])
    BY <2>1, TwoLists DEF Waiting
  <2> QED
    BY <1>1, <2>1, <2>2 DEF Waits
<1> QED
  BY <1>2 DEF Alive, Referred, Kept

-----------------------------------------------------------------------------
(* Steps that leave the connections where they are.                        *)

\* Nothing is added to what the loops are to call for a connection.
SameWaits ==
  \A l \in Loops, run \in Runs, c \in Conns : Waits(l, run, c)' <=> Waits(l, run, c)

\* What the invariant is about, other than the lists and the clients.
Connections == OwnFds /\ InMap /\ InEpoller /\ Places

(* The lists do not change.                                                *)
LEMMA ListsStand ==
  ASSUME Lists, UNCHANGED <<to_do, functors, pc>>
  PROVE  Lists' /\ SameWaits
<1>1. Waiting' = Waiting
  BY DEF Waiting
<1> QED
  BY <1>1 DEF Lists, SameWaits, Waits

(* Nor does anything else but who refers to whom, and what epoll_wait has  *)
(* returned.                                                               *)
LEMMA ConnectionsStand ==
  ASSUME TypeOK, Connections, SameWaits,
         UNCHANGED <<idlefd, fd, connections_, loop, reading, channel, channels_,
                     registered>>,
         \A l \in Loops, c \in Conns : c \in called'[l] => Kept(c),
         \A c \in Conns : held' = c => Kept(c),
         \A l \in Loops, c \in Conns :
           c \in active'[l] => c \in active[l] \/ (loop[c] = l /\ c \in registered)
  PROVE  Connections'
<1>1. \A c \in Conns : Kept(c)' => Kept(c)
  BY DEF Kept, SameWaits
<1>2. OwnFds'
  BY <1>1 DEF OwnFds, Connections
<1>3. InMap' /\ InEpoller'
  BY DEF InMap, InEpoller, Connections
<1>4. \A c \in Conns : loop[c] \in Loops /\ Base \in Loops
  BY LoopsAre DEF TypeOK
<1>5. \A c \in Conns : Closing(c)' <=> Closing(c)
  BY <1>4 DEF Closing, SameWaits, Runs
<1>6. ASSUME NEW c \in Conns PROVE OfChannel(c)'
  <2>1. OfChannel(c)
    BY DEF Connections, Places
  <2>2. Owned(c)' <=> Owned(c)
    BY DEF Owned
  <2> QED
    BY <1>5, <2>1, <2>2 DEF OfChannel
<1>7. ASSUME NEW c \in Conns PROVE OfFunctors(c)'
  <2>1. OfFunctors(c)
    BY DEF Connections, Places
  <2>2. Owned(c)' <=> Owned(c)
    BY DEF Owned
  <2> QED
    BY <2>1, <2>2 DEF OfFunctors, SameWaits, Runs
<1> QED
  BY <1>2, <1>3, <1>6, <1>7 DEF Connections, Places

(* A connection whose channel epoll or the Epoller knows exists.           *)
LEMMA KnownIsKept ==
  ASSUME TypeOK, Connections, NEW c \in Conns, channel[c] # "kNew"
  PROVE  Kept(c) /\ fd[c] \in Fds
<1>1. OfChannel(c)
  BY DEF Connections, Places
<1>2. channel[c] = "kAdded" \/ channel[c] = "kDeleted"
  BY DEF TypeOK
<1>3. Kept(c)
  <2>1. CASE channel[c] = "kAdded"
    BY <1>1, <2>1 DEF OfChannel, Owned, Kept
  <2>2. CASE channel[c] = "kDeleted"
    <3>1. loop[c] \in Loops /\ Base \in Loops
      BY LoopsAre DEF TypeOK
    <3> QED
      BY <1>1, <2>2, <3>1 DEF OfChannel, Closing, Kept, Runs
  <2> QED
    BY <1>2, <2>1, <2>2
<1> QED
  BY <1>3 DEF Connections, OwnFds

(* A waiting functor, too, keeps its connection.                           *)
LEMMA WaitingIsKept ==
  ASSUME NEW l \in Loops, NEW run \in Runs, NEW c \in Conns, Waits(l, run, c)
  PROVE  Kept(c)
BY DEF Kept

-----------------------------------------------------------------------------
(* A new connection.                                                       *)

(* What NewConnection finds of the connection it accepts and of the        *)
(* descriptor it is given: nobody knows either.                            *)
LEMMA AcceptedIsNew ==
  ASSUME TypeOK, Connections, Unaccepted, NEW c \in backlog, NEW f \in FreeFds
  PROVE  /\ c \in Conns /\ f \in Fds /\ f # idlefd /\ f # NoFd
         /\ ~Kept(c)
         /\ channel[c] = "kNew" /\ c \notin registered /\ c \notin reading
         /\ \A d \in Conns : Kept(d) => fd[d] # f
         /\ \A d \in Conns : connections_[f] # d
         /\ \A l \in Loops, d \in Conns : channels_[l][f] # d
         /\ \A l \in Loops : c \notin active[l]
         /\ \A l \in Loops, e \in Fds : channels_[l][e] # c
         /\ \A l \in Loops, run \in Runs : ~Waits(l, run, c)
<1>1. c \in Conns /\ f \in Fds /\ f # idlefd /\ f # NoFd
  BY TcpServerAssumption DEF TypeOK, FreeFds, OpenFds
<1>2. fd[c] = NoFd
  BY <1>1 DEF Unaccepted
<1>3. ~Kept(c)
  BY <1>1, <1>2, TcpServerAssumption DEF Connections, OwnFds
<1>4. channel[c] = "kNew"
  BY <1>1, <1>3, KnownIsKept
<1>5. OfChannel(c)
  BY <1>1 DEF Connections, Places
<1>6. \A d \in Conns : Kept(d) => fd[d] # f
  BY <1>1, KeptIsAlive DEF FreeFds, OpenFds
<1>7. \A d \in Conns : connections_[f] # d
  BY <1>1, <1>6 DEF Kept, Connections, InMap
<1>8. \A l \in Loops, d \in Conns : channels_[l][f] # d
  BY <1>1, <1>6, KnownIsKept DEF Connections, InEpoller
<1>9. \A l \in Loops, e \in Fds : channels_[l][e] # c
  BY <1>1, <1>4 DEF Connections, InEpoller
<1>10. \A l \in Loops, run \in Runs : ~Waits(l, run, c)
  BY <1>1, <1>3, WaitingIsKept
<1> QED
  BY <1>1, <1>3, <1>4, <1>5, <1>6, <1>7, <1>8, <1>9, <1>10 DEF OfChannel

(* It is handed to a worker loop, or established at once in the base loop. *)
LEMMA NewConnectionKeeps ==
  ASSUME TypeOK, Lists, Connections, Unaccepted, NEW c \in backlog,
         NEW f \in FreeFds, HandleNewConnection(c, f),
         UNCHANGED <<functors, pc, called, held>>,
         \A l \in Loops, d \in Conns : d \in active'[l] => d \in active[l]
  PROVE  Lists' /\ Connections'
<1>1. /\ c \in Conns /\ f \in Fds /\ f # idlefd /\ f # NoFd
      /\ ~Kept(c)
      /\ channel[c] = "kNew" /\ c \notin registered /\ c \notin reading
      /\ \A d \in Conns : Kept(d) => fd[d] # f
      /\ \A d \in Conns : connections_[f] # d
      /\ \A l \in Loops, d \in Conns : channels_[l][f] # d
      /\ \A l \in Loops : c \notin active[l]
      /\ \A l \in Loops, e \in Fds : channels_[l][e] # c
      /\ \A l \in Loops, run \in Runs : ~Waits(l, run, c)
  BY AcceptedIsNew
<1>2. /\ loop' = [loop EXCEPT ![c] = next]
      /\ fd' = [fd EXCEPT ![c] = f]
      /\ connections_' = [connections_ EXCEPT ![f] = c]
      /\ idlefd' = idlefd
  BY DEF HandleNewConnection
<1>3. next \in Loops /\ Base \in Loops
  BY LoopsAre DEF TypeOK
<1>4. /\ loop \in [Conns -> Loops]
      /\ fd \in [Conns -> Fds \cup {NoFd}]
      /\ connections_ \in [Fds -> Conns \cup {NoConn}]
      /\ channel \in [Conns -> {"kNew", "kAdded", "kDeleted"}]
      /\ channels_ \in [Loops -> [Fds -> Conns \cup {NoConn}]]
  BY DEF TypeOK
<1>5. /\ loop'[c] = next /\ fd'[c] = f /\ connections_'[f] = c
      /\ \A d \in Conns : d # c => loop'[d] = loop[d] /\ fd'[d] = fd[d]
      /\ \A e \in Fds : e # f => connections_'[e] = connections_[e]
  BY <1>1, <1>2, <1>4
<1>6. \A d \in Conns : d # c => (Owned(d)' <=> Owned(d))
  BY <1>1, <1>5 DEF Owned
<1>7. Owned(c)'
  BY <1>1, <1>5 DEF Owned
<1>8. InMap'
  <2>1. \A e \in Fds : connections_[e] # c
    BY <1>1 DEF Kept
  <2> QED
    BY <1>1, <1>5, <2>1 DEF Connections, InMap
<1>9. CASE next # Base
  <2>1. /\ Queue(next, "ConnectionEstablished", c)
        /\ UNCHANGED <<reading, channel, channels_, registered>>
    BY <1>9 DEF HandleNewConnection
  <2>2. /\ Lists'
        /\ \A k \in Loops, r \in Runs, d \in Conns :
             Waits(k, r, d)' <=> \/ Waits(k, r, d)
                                 \/ k = next /\ r = "ConnectionEstablished" /\ d = c
    <3>1. "ConnectionEstablished" \in Runs \cup {"AddTimer"}
      BY DEF Runs
    <3> QED
      BY <1>1, <1>3, <2>1, <3>1, Queued
  <2>3. \A d \in Conns : d # c => (Kept(d)' => Kept(d))
    BY <1>5, <2>2 DEF Kept
  <2>4. OwnFds'
    BY <1>1, <1>2, <1>5, <2>3 DEF Connections, OwnFds
  <2>5. InEpoller'
    BY <1>1, <1>5, <2>1 DEF Connections, InEpoller
  <2>6. ASSUME NEW d \in Conns, d # c
        PROVE  OfChannel(d)' /\ OfFunctors(d)'
    <3>1. OfChannel(d) /\ OfFunctors(d)
      BY DEF Connections, Places
    <3>2. loop[d] \in Loops
      BY <1>4
    <3>3. Closing(d)' <=> Closing(d)
      BY <1>3, <1>5, <2>2, <2>6, <3>2 DEF Closing, Runs
    <3>4. OfChannel(d)'
      BY <1>5, <1>6, <2>1, <2>6, <3>1, <3>3 DEF OfChannel
    <3>5. OfFunctors(d)'
      BY <1>5, <1>6, <2>1, <2>2, <2>6, <3>1 DEF OfFunctors, Runs
    <3> QED
      BY <3>4, <3>5
  <2>7. OfChannel(c)' /\ OfFunctors(c)'
    <3>1. OfChannel(c)'
      BY <1>1, <1>7, <2>1 DEF OfChannel
    <3>2. OfFunctors(c)'
      BY <1>1, <1>5, <1>7, <2>1, <2>2 DEF OfFunctors, Runs
    <3> QED
      BY <3>1, <3>2
  <2> QED
    BY <1>8, <2>2, <2>4, <2>5, <2>6, <2>7 DEF Connections, Places
<1>10. CASE next = Base
  <2>1. ConnectionEstablished(c, f)
    BY <1>10, <1>3 DEF HandleNewConnection
  <2>2. /\ to_do' = to_do
        /\ reading' = reading \cup {c}
        /\ registered' = registered \cup {c}
        /\ channel' = [channel EXCEPT ![c] = "kAdded"]
        /\ channels_' = [channels_ EXCEPT ![Base][f] = c]
    BY <1>1, <1>5, <1>10, <2>1
       DEF ConnectionEstablished, EnableReading, Update, UpdateChannel
  <2>3. /\ channel'[c] = "kAdded"
        /\ \A d \in Conns : d # c => channel'[d] = channel[d]
        /\ channels_'[Base][f] = c
        /\ \A l \in Loops, e \in Fds :
             channels_'[l][e] = IF l = Base /\ e = f THEN c ELSE channels_[l][e]
    BY <1>1, <1>3, <1>4, <2>2
  <2>4. Lists' /\ SameWaits
    BY <2>2, ListsStand
  <2>5. \A d \in Conns : d # c => (Kept(d)' => Kept(d))
    BY <1>5, <2>4 DEF Kept, SameWaits
  <2>6. OwnFds'
    BY <1>1, <1>2, <1>5, <2>5 DEF Connections, OwnFds
  <2>7. InEpoller'
    BY <1>1, <1>5, <1>10, <2>3 DEF Connections, InEpoller
  <2>8. ASSUME NEW d \in Conns, d # c
        PROVE  OfChannel(d)' /\ OfFunctors(d)'
    <3>1. OfChannel(d) /\ OfFunctors(d)
      BY DEF Connections, Places
    <3>2. loop[d] \in Loops
      BY <1>4
    <3>3. Closing(d)' <=> Closing(d)
      BY <1>3, <1>5, <2>4, <2>8, <3>2 DEF Closing, Runs, SameWaits
    <3>4. channel[d] # "kNew" => channels_'[loop[d]][fd[d]] = d
      <4>1. channel[d] # "kNew" => Kept(d) /\ fd[d] \in Fds
        BY KnownIsKept
      <4> QED
        BY <1>1, <2>3, <3>1, <3>2, <4>1 DEF OfChannel
    <3>5. OfChannel(d)'
      BY <1>5, <1>6, <2>2, <2>3, <2>8, <3>1, <3>3, <3>4 DEF OfChannel
    <3>6. OfFunctors(d)'
      BY <1>5, <1>6, <2>3, <2>4, <2>8, <3>1 DEF OfFunctors, Runs, SameWaits
    <3> QED
      BY <3>5, <3>6
  <2>9. OfChannel(c)' /\ OfFunctors(c)'
    <3>1. OfChannel(c)'
      BY <1>1, <1>5, <1>7, <1>10, <2>2, <2>3 DEF OfChannel
    <3>2. OfFunctors(c)'
      BY <1>1, <2>4 DEF OfFunctors, Runs, SameWaits
    <3> QED
      BY <3>1, <3>2
  <2> QED
    BY <1>8, <2>4, <2>6, <2>7, <2>8, <2>9 DEF Connections, Places
<1> QED
  BY <1>9, <1>10

-----------------------------------------------------------------------------
(* The three hops of a close.                                              *)

(* The channel of a connection is disabled, and the base loop is asked to  *)
(* erase it or, when this is the base loop, has done so.                   *)
LEMMA HandleCloseKeeps ==
  ASSUME TypeOK, Lists, Connections, NEW l \in Loops, NEW c \in Conns,
         c \in active[l], HandleClose(l, c),
         active' = [active EXCEPT ![l] = @ \ {c}],
         UNCHANGED <<functors, pc, called, held, loop, fd, idlefd>>
  PROVE  Lists' /\ Connections'
<1>1. OfChannel(c) /\ OfFunctors(c)
  BY DEF Connections, Places
<1>2. loop[c] = l /\ channel[c] = "kAdded" /\ Owned(c) /\ c \in registered /\ c \in reading
  BY <1>1 DEF OfChannel
<1>3. /\ connections_ \in [Fds -> Conns \cup {NoConn}]
      /\ channel \in [Conns -> {"kNew", "kAdded", "kDeleted"}]
      /\ loop \in [Conns -> Loops]
      /\ fd[c] \in Fds /\ Base \in Loops
      /\ active \in [Loops -> SUBSET (Conns \cup {Listener, TimerFd})]
  BY <1>2, LoopsAre DEF TypeOK, Owned
<1>4. /\ reading' = reading \ {c}
      /\ registered' = registered \ {c}
      /\ channel' = [channel EXCEPT ![c] = "kDeleted"]
      /\ channels_' = channels_
  BY <1>2 DEF HandleClose, DisableAll, Update, UpdateChannel
<1>5. /\ channel'[c] = "kDeleted"
      /\ \A d \in Conns : d # c => channel'[d] = channel[d]
  BY <1>3, <1>4
<1>6. \A k \in Loops, d \in Conns : d \in active'[k] => d \in active[k]
  BY <1>3
<1>7. \A k \in Loops : c \notin active'[k]
  BY <1>1, <1>2, <1>3 DEF OfChannel
<1>8. \A k \in Loops, r \in Runs : ~Waits(k, r, c)
  BY <1>1, <1>2 DEF OfFunctors, Runs
<1>9. /\ "HandleCloseInLoop" \in Runs \cup {"AddTimer"}
      /\ "ConnectionDestructor" \in Runs \cup {"AddTimer"}
  BY DEF Runs
<1>10. PICK k \in Loops, run \in Runs :
         /\ Queue(k, run, c)
         /\ \/ /\ run = "HandleCloseInLoop" /\ k = Base
               /\ connections_' = connections_
            \/ /\ run = "ConnectionDestructor" /\ k = loop[c]
               /\ connections_' = [connections_ EXCEPT ![fd[c]] = NoConn]
  <2>1. CASE l = Base
    <3>1. HandleCloseInLoop(c)
      BY <2>1 DEF HandleClose
    <3> QED
      BY <1>3, <3>1 DEF HandleCloseInLoop, Runs
  <2>2. CASE l # Base
    BY <1>3, <2>2 DEF HandleClose, Runs
  <2> QED
    BY <2>1, <2>2
<1>11. /\ Lists'
       /\ \A m \in Loops, r \in Runs, d \in Conns :
            Waits(m, r, d)' <=> Waits(m, r, d) \/ (m = k /\ r = run /\ d = c)
  BY <1>8, <1>10, Queued
<1>12. /\ \A e \in Fds, d \in Conns : connections_'[e] = d => connections_[e] = d
       /\ \A e \in Fds : e # fd[c] => connections_'[e] = connections_[e]
       /\ run = "HandleCloseInLoop" => connections_'[fd[c]] = c
       /\ run = "ConnectionDestructor" => connections_'[fd[c]] # c
  BY <1>2, <1>3, <1>10, TcpServerAssumption DEF Owned
<1>13. Kept(c)
  BY <1>2, <1>3 DEF Kept, Owned
<1>14. \A d \in Conns : Kept(d)' => Kept(d)
  BY <1>11, <1>12, <1>13 DEF Kept
<1>15. OwnFds' /\ InMap'
  BY <1>12, <1>14 DEF Connections, OwnFds, InMap
<1>16. InEpoller'
  BY <1>4, <1>5 DEF Connections, InEpoller
<1>17. ASSUME NEW d \in Conns, d # c
       PROVE  OfChannel(d)' /\ OfFunctors(d)'
  <2>1. OfChannel(d) /\ OfFunctors(d)
    BY DEF Connections, Places
  <2>2. loop[d] \in Loops
    BY <1>3
  <2>3. Closing(d)' <=> Closing(d)
    BY <1>3, <1>11, <1>17, <2>2 DEF Closing, Runs
  <2>4. Owned(d)' <=> Owned(d)
    BY <1>2, <1>12, <1>17 DEF Owned
  <2>5. OfChannel(d)'
    BY <1>4, <1>5, <1>6, <1>17, <2>1, <2>3, <2>4 DEF OfChannel
  <2>6. OfFunctors(d)'
    BY <1>5, <1>11, <1>17, <2>1, <2>4 DEF OfFunctors, Runs
  <2> QED
    BY <2>5, <2>6
<1>18. OfChannel(c)' /\ OfFunctors(c)'
  <2>1. Closing(c)'
    BY <1>3, <1>10, <1>11 DEF Closing, Runs
  <2>2. OfChannel(c)'
    BY <1>1, <1>2, <1>4, <1>5, <1>7, <2>1 DEF OfChannel
  <2>3. OfFunctors(c)'
    BY <1>3, <1>5, <1>8, <1>10, <1>11, <1>12 DEF OfFunctors, Runs, Owned
  <2> QED
    BY <2>2, <2>3
<1> QED
  BY <1>11, <1>15, <1>16, <1>17, <1>18 DEF Connections, Places

(* A functor is called that establishes a connection in its loop.          *)
LEMMA EstablishKeeps ==
  ASSUME TypeOK, Lists, Connections, NEW l \in Loops, Calls(l),
         First(l).run = "ConnectionEstablished", NEW c, c = First(l).conn,
         loop' = loop, ConnectionEstablished(c, fd[c]),
         called' = [called EXCEPT ![l] = @ \cup {c}],
         UNCHANGED <<connections_, fd, idlefd, active, held>>
  PROVE  Lists' /\ Connections'
<1>1. /\ "ConnectionEstablished" \in Runs /\ "AddTimer" \notin Runs
      /\ Base \in Loops
  BY LoopsAre DEF Runs
<1>2. c \in Conns /\ Waits(l, "ConnectionEstablished", c)
  BY <1>1, Called
<1>3. OfChannel(c) /\ OfFunctors(c)
  BY <1>2 DEF Connections, Places
<1>4. /\ l = loop[c] /\ Owned(c) /\ channel[c] = "kNew"
      /\ c \notin registered /\ c \notin reading
  BY <1>2, <1>3 DEF OfFunctors, OfChannel
<1>5. fd[c] \in Fds /\ Kept(c)
  BY <1>4 DEF Owned, Kept
<1>6. /\ Lists'
      /\ \A k \in Loops, r \in Runs, d \in Conns :
           Waits(k, r, d)' <=> Waits(k, r, d) /\ ~(k = l /\ d = c)
  <2>1. to_do' = to_do \/ Queue(Base, "AddTimer", c)
    BY DEF ConnectionEstablished
  <2>2. CASE to_do' = to_do
    BY <1>1, <2>2, Called
  <2>3. CASE Queue(Base, "AddTimer", c)
    <3>1. /\ Lists'
          /\ \A k \in Loops, r \in Runs, d \in Conns :
               Waits(k, r, d)' <=>
                 \/ Waits(k, r, d) /\ ~(k = l /\ First(l).run \in Runs /\ d = First(l).conn)
                 \/ k = Base /\ r = "AddTimer" /\ d = c
      BY <1>1, <1>2, <2>3, Called
    <3> QED
      BY <1>1, <3>1
  <2> QED
    BY <2>1, <2>2, <2>3
<1>7. /\ reading' = reading \cup {c}
      /\ registered' = registered \cup {c}
      /\ channel' = [channel EXCEPT ![c] = "kAdded"]
      /\ channels_' = [channels_ EXCEPT ![loop[c]][fd[c]] = c]
  BY <1>4 DEF ConnectionEstablished, EnableReading, Update, UpdateChannel
<1>8. /\ channel \in [Conns -> {"kNew", "kAdded", "kDeleted"}]
      /\ channels_ \in [Loops -> [Fds -> Conns \cup {NoConn}]]
      /\ loop \in [Conns -> Loops]
      /\ called \in [Loops -> SUBSET Conns]
  BY DEF TypeOK
<1>9. /\ channel'[c] = "kAdded"
      /\ \A d \in Conns : d # c => channel'[d] = channel[d]
      /\ \A k \in Loops, e \in Fds :
           channels_'[k][e] = IF k = l /\ e = fd[c] THEN c ELSE channels_[k][e]
  BY <1>2, <1>4, <1>5, <1>7, <1>8
<1>10. \A d \in Conns : Kept(d)' => Kept(d)
  BY <1>5, <1>6, <1>8 DEF Kept
<1>11. OwnFds' /\ InMap'
  BY <1>10 DEF Connections, OwnFds, InMap
<1>12. InEpoller'
  BY <1>4, <1>9 DEF Connections, InEpoller
<1>13. \A d \in Conns : Owned(d)' <=> Owned(d)
  BY DEF Owned
<1>14. ASSUME NEW d \in Conns, d # c
       PROVE  OfChannel(d)' /\ OfFunctors(d)'
  <2>1. OfChannel(d) /\ OfFunctors(d)
    BY DEF Connections, Places
  <2>2. loop[d] \in Loops
    BY <1>8
  <2>3. Closing(d)' <=> Closing(d)
    BY <1>1, <1>6, <1>14, <2>2 DEF Closing, Runs
  <2>4. channel[d] # "kNew" => channels_'[loop[d]][fd[d]] = d
    <3>1. channel[d] # "kNew" => fd[d] \in Fds /\ fd[d] # fd[c]
      BY <1>2, <1>5, <1>14, KnownIsKept DEF Connections, OwnFds
    <3> QED
      BY <1>9, <2>1, <2>2, <3>1 DEF OfChannel
  <2>5. OfChannel(d)'
    BY <1>7, <1>9, <1>13, <1>14, <2>1, <2>3, <2>4 DEF OfChannel
  <2>6. OfFunctors(d)'
    BY <1>6, <1>9, <1>13, <1>14, <2>1 DEF OfFunctors, Runs
  <2> QED
    BY <2>5, <2>6
<1>15. OfChannel(c)' /\ OfFunctors(c)'
  <2>1. OfChannel(c)'
    <3>1. channels_'[loop'[c]][fd'[c]] = c
      BY <1>2, <1>4, <1>5, <1>8, <1>9
    <3>2. Owned(c)'
      BY <1>2, <1>4, <1>13
    <3>3. \A k \in Loops : c \notin active'[k]
      BY <1>3, <1>4 DEF OfChannel
    <3>4. c \in registered' /\ c \in reading'
      BY <1>7
    <3> QED
      BY <1>9, <3>1, <3>2, <3>3, <3>4 DEF OfChannel
  <2>2. OfFunctors(c)'
    BY <1>2, <1>3, <1>4, <1>6 DEF OfFunctors, Runs
  <2> QED
    BY <2>1, <2>2
<1> QED
  BY <1>6, <1>11, <1>12, <1>14, <1>15 DEF Connections, Places

(* The base loop erases a connection, and hands it back to its loop.       *)
LEMMA EraseKeeps ==
  ASSUME TypeOK, Lists, Connections, NEW l \in Loops, Calls(l),
         First(l).run = "HandleCloseInLoop", NEW c, c = First(l).conn,
         HandleCloseInLoop(c),
         called' = [called EXCEPT ![l] = @ \cup {c}],
         UNCHANGED <<loop, fd, idlefd, reading, channel, channels_, registered,
                     active, held>>
  PROVE  Lists' /\ Connections'
<1>1. /\ "HandleCloseInLoop" \in Runs
      /\ "ConnectionDestructor" \in Runs
      /\ Base \in Loops
  BY LoopsAre DEF Runs
<1>2. c \in Conns /\ Waits(l, "HandleCloseInLoop", c)
  BY <1>1, Called
<1>3. OfChannel(c) /\ OfFunctors(c)
  BY <1>2 DEF Connections, Places
<1>4. l = Base /\ Owned(c) /\ channel[c] = "kDeleted"
  BY <1>2, <1>3 DEF OfFunctors
<1>5. fd[c] \in Fds /\ connections_[fd[c]] = c /\ Kept(c)
  BY <1>4 DEF Owned, Kept
<1>6. /\ connections_ \in [Fds -> Conns \cup {NoConn}]
      /\ loop \in [Conns -> Loops]
      /\ called \in [Loops -> SUBSET Conns]
  BY DEF TypeOK
<1>7. /\ Queue(loop[c], "ConnectionDestructor", c)
      /\ connections_' = [connections_ EXCEPT ![fd[c]] = NoConn]
  BY DEF HandleCloseInLoop
<1>8. /\ Lists'
      /\ \A k \in Loops, r \in Runs, d \in Conns :
           Waits(k, r, d)' <=>
             \/ Waits(k, r, d) /\ ~(k = l /\ d = c)
             \/ k = loop[c] /\ r = "ConnectionDestructor" /\ d = c
  <2>1. loop[c] \in Loops
    BY <1>2, <1>6
  <2>2. \A r \in Runs : Waits(loop[c], r, c) => loop[c] = l
    BY <1>3, <1>4, <2>1 DEF OfFunctors, Runs
  <2>3. /\ Lists'
        /\ \A k \in Loops, r \in Runs, d \in Conns :
             Waits(k, r, d)' <=>
               \/ Waits(k, r, d) /\ ~(k = l /\ First(l).run \in Runs /\ d = First(l).conn)
               \/ k = loop[c] /\ r = "ConnectionDestructor" /\ d = c
    BY <1>1, <1>2, <1>7, <2>1, <2>2, Called
  <2> QED
    BY <1>1, <2>3
<1>9. /\ \A e \in Fds, d \in Conns : connections_'[e] = d => connections_[e] = d
      /\ \A e \in Fds : e # fd[c] => connections_'[e] = connections_[e]
      /\ connections_'[fd[c]] # c
  BY <1>2, <1>5, <1>6, <1>7, TcpServerAssumption
<1>10. \A d \in Conns : Kept(d)' => Kept(d)
  BY <1>5, <1>6, <1>8, <1>9 DEF Kept
<1>11. OwnFds' /\ InMap' /\ InEpoller'
  BY <1>9, <1>10 DEF Connections, OwnFds, InMap, InEpoller
<1>12. ASSUME NEW d \in Conns, d # c
       PROVE  OfChannel(d)' /\ OfFunctors(d)'
  <2>1. OfChannel(d) /\ OfFunctors(d)
    BY DEF Connections, Places
  <2>2. loop[d] \in Loops
    BY <1>6
  <2>3. Closing(d)' <=> Closing(d)
    BY <1>1, <1>8, <1>12, <2>2 DEF Closing, Runs
  <2>4. Owned(d)' <=> Owned(d)
    BY <1>5, <1>9, <1>12 DEF Owned
  <2>5. OfChannel(d)'
    BY <2>1, <2>3, <2>4 DEF OfChannel
  <2>6. OfFunctors(d)'
    BY <1>8, <1>12, <2>1, <2>4 DEF OfFunctors, Runs
  <2> QED
    BY <2>5, <2>6
<1>13. OfChannel(c)' /\ OfFunctors(c)'
  <2>1. Closing(c)'
    BY <1>1, <1>2, <1>6, <1>8 DEF Closing
  <2>2. OfChannel(c)'
    BY <1>3, <1>4, <2>1 DEF OfChannel
  <2>3. OfFunctors(c)'
    BY <1>2, <1>3, <1>4, <1>8, <1>9 DEF OfFunctors, Runs, Owned
  <2> QED
    BY <2>2, <2>3
<1> QED
  BY <1>8, <1>11, <1>12, <1>13 DEF Connections, Places

(* Its loop takes the channel from the Epoller.                            *)
LEMMA DestructorKeeps ==
  ASSUME TypeOK, Lists, Connections, NEW l \in Loops, Calls(l),
         First(l).run = "ConnectionDestructor", NEW c, c = First(l).conn,
         ConnectionDestructor(c),
         called' = [called EXCEPT ![l] = @ \cup {c}],
         UNCHANGED <<to_do, connections_, loop, fd, idlefd, active, held>>
  PROVE  Lists' /\ Connections'
<1>1. "ConnectionDestructor" \in Runs /\ Base \in Loops
  BY LoopsAre DEF Runs
<1>2. c \in Conns /\ Waits(l, "ConnectionDestructor", c)
  BY <1>1, Called
<1>3. OfChannel(c) /\ OfFunctors(c)
  BY <1>2 DEF Connections, Places
<1>4. l = loop[c] /\ ~Owned(c) /\ channel[c] = "kDeleted"
  BY <1>2, <1>3 DEF OfFunctors
<1>5. /\ Lists'
      /\ \A k \in Loops, r \in Runs, d \in Conns :
           Waits(k, r, d)' <=> Waits(k, r, d) /\ ~(k = l /\ d = c)
  BY <1>1, Called
<1>6. /\ reading' = reading \ {c}
      /\ registered' = registered
      /\ channel' = [channel EXCEPT ![c] = "kNew"]
      /\ channels_' = [channels_ EXCEPT ![loop[c]][fd[c]] = NoConn]
  BY <1>4 DEF ConnectionDestructor, Remove
<1>7. /\ channel \in [Conns -> {"kNew", "kAdded", "kDeleted"}]
      /\ channels_ \in [Loops -> [Fds -> Conns \cup {NoConn}]]
      /\ loop \in [Conns -> Loops]
      /\ called \in [Loops -> SUBSET Conns]
  BY DEF TypeOK
<1>8. Kept(c) /\ fd[c] \in Fds
  BY <1>2, <1>4, KnownIsKept
<1>9. /\ channel'[c] = "kNew"
      /\ \A d \in Conns : d # c => channel'[d] = channel[d]
      /\ \A k \in Loops, e \in Fds :
           channels_'[k][e] = IF k = l /\ e = fd[c] THEN NoConn ELSE channels_[k][e]
  BY <1>2, <1>4, <1>6, <1>7, <1>8
<1>10. \A d \in Conns : Kept(d)' => Kept(d)
  BY <1>5, <1>7, <1>8 DEF Kept
<1>11. OwnFds' /\ InMap'
  BY <1>10 DEF Connections, OwnFds, InMap
<1>12. InEpoller'
  BY <1>4, <1>9, TcpServerAssumption DEF Connections, InEpoller
<1>13. \A d \in Conns : Owned(d)' <=> Owned(d)
  BY DEF Owned
<1>14. ASSUME NEW d \in Conns, d # c
       PROVE  OfChannel(d)' /\ OfFunctors(d)'
  <2>1. OfChannel(d) /\ OfFunctors(d)
    BY DEF Connections, Places
  <2>2. loop[d] \in Loops
    BY <1>7
  <2>3. Closing(d)' <=> Closing(d)
    BY <1>1, <1>5, <1>14, <2>2 DEF Closing, Runs
  <2>4. channel[d] # "kNew" => channels_'[loop[d]][fd[d]] = d
    <3>1. channel[d] # "kNew" => fd[d] \in Fds
      BY KnownIsKept
    <3>2. channels_[l][fd[c]] = c
      BY <1>3, <1>4 DEF OfChannel
    <3> QED
      BY <1>9, <1>14, <2>1, <2>2, <3>1, <3>2 DEF OfChannel
  <2>5. OfChannel(d)'
    BY <1>6, <1>9, <1>13, <1>14, <2>1, <2>3, <2>4 DEF OfChannel
  <2>6. OfFunctors(d)'
    BY <1>5, <1>9, <1>13, <1>14, <2>1 DEF OfFunctors, Runs
  <2> QED
    BY <2>5, <2>6
<1>15. OfChannel(c)' /\ OfFunctors(c)'
  <2>1. OfChannel(c)'
    BY <1>3, <1>4, <1>6, <1>9 DEF OfChannel
  <2>2. OfFunctors(c)'
    BY <1>2, <1>3, <1>4, <1>5 DEF OfFunctors, Runs
  <2> QED
    BY <2>1, <2>2
<1> QED
  BY <1>5, <1>11, <1>12, <1>14, <1>15 DEF Connections, Places

-----------------------------------------------------------------------------
(* Types.                                                                  *)

(* Update leaves the types of what it changes.                             *)
LEMMA UpdateType ==
  ASSUME TypeOK, NEW c \in Conns, NEW f \in Fds, loop' \in [Conns -> Loops],
         Update(c, f)
  PROVE  /\ channel' \in [Conns -> {"kNew", "kAdded", "kDeleted"}]
         /\ channels_' \in [Loops -> [Fds -> Conns \cup {NoConn}]]
         /\ registered' \subseteq Conns
<1>1. /\ channel \in [Conns -> {"kNew", "kAdded", "kDeleted"}]
      /\ channels_ \in [Loops -> [Fds -> Conns \cup {NoConn}]]
      /\ registered \subseteq Conns
      /\ loop'[c] \in Loops
  BY DEF TypeOK
<1>2. registered' \subseteq Conns
  BY <1>1 DEF Update, UpdateChannel
<1>3. channel' \in [Conns -> {"kNew", "kAdded", "kDeleted"}]
  BY <1>1 DEF Update
<1>4. [channels_ EXCEPT ![loop'[c]][f] = c] \in [Loops -> [Fds -> Conns \cup {NoConn}]]
  BY <1>1
<1>5. channels_' = [channels_ EXCEPT ![loop'[c]][f] = c] \/ channels_' = channels_
  BY DEF Update
<1> QED
  BY <1>1, <1>2, <1>3, <1>4, <1>5

(* So does ConnectionEstablished.                                          *)
LEMMA EstablishedType ==
  ASSUME TypeOK, NEW c \in Conns, NEW f \in Fds, loop' \in [Conns -> Loops],
         ConnectionEstablished(c, f)
  PROVE  /\ state' \in [Conns -> {"kConnecting", "kConnected", "kDisconnecting",
                                  "kDisconnected"}]
         /\ reading' \subseteq Conns
         /\ channel' \in [Conns -> {"kNew", "kAdded", "kDeleted"}]
         /\ channels_' \in [Loops -> [Fds -> Conns \cup {NoConn}]]
         /\ registered' \subseteq Conns
         /\ to_do' \in [Loops -> Seq(Functor)]
         /\ timer' \in [Conns -> {"none", "armed", "expired"}]
<1>1. EnableReading(c, f) /\ state' = [state EXCEPT ![c] = "kConnected"]
  BY DEF ConnectionEstablished
<1>2. Update(c, f) /\ reading' = reading \cup {c}
  BY <1>1 DEF EnableReading
<1>3. to_do' = to_do \/ Queue(Base, "AddTimer", c)
  BY DEF ConnectionEstablished
<1>4. timer' = timer \/ timer' = [timer EXCEPT ![c] = "armed"]
  BY DEF ConnectionEstablished
<1>5. to_do' \in [Loops -> Seq(Functor)]
  BY <1>3, LoopsAre, QueueType DEF TypeOK
<1>6. /\ reading \subseteq Conns
      /\ state \in [Conns -> {"kConnecting", "kConnected", "kDisconnecting",
                              "kDisconnected"}]
      /\ timer \in [Conns -> {"none", "armed", "expired"}]
  BY DEF TypeOK
<1>7. /\ channel' \in [Conns -> {"kNew", "kAdded", "kDeleted"}]
      /\ channels_' \in [Loops -> [Fds -> Conns \cup {NoConn}]]
      /\ registered' \subseteq Conns
  BY <1>2, UpdateType
<1> QED
  BY <1>1, <1>2, <1>4, <1>5, <1>6, <1>7

(* Queueing on the loop of a connection, and HandleCloseInLoop.            *)
LEMMA HandleCloseInLoopType ==
  ASSUME TypeOK, NEW c \in Conns, HandleCloseInLoop(c)
  PROVE  /\ connections_' \in [Fds -> Conns \cup {NoConn}]
         /\ to_do' \in [Loops -> Seq(Functor)]
<1>1. Queue(loop[c], "ConnectionDestructor", c)
  BY DEF HandleCloseInLoop
<1>2. loop[c] \in Loops /\ "ConnectionDestructor" \in Runs \cup {"AddTimer"}
  BY DEF TypeOK, Runs
<1>3. to_do' \in [Loops -> Seq(Functor)]
  BY <1>1, <1>2, QueueType
<1>4. connections_ \in [Fds -> Conns \cup {NoConn}]
  BY DEF TypeOK
<1>5. connections_' = [connections_ EXCEPT ![fd[c]] = NoConn]
  BY DEF HandleCloseInLoop
<1> QED
  BY <1>3, <1>4, <1>5

(* A step changes few variables, each within its type.                     *)
LEMMA TypesNext ==
  ASSUME TypeOK, Connections, Lists, Next
  PROVE  TypeOK'
<1>1. TypeOK
  OBVIOUS
<1>2. ASSUME NEW c \in Conns, PeerConnects(c) PROVE TypeOK'
  BY <1>2 DEF PeerConnects, TypeOK, serverVars, connVars, loopVars, timerVars
<1>3. ASSUME NEW c \in Conns, PeerSends(c) PROVE TypeOK'
  BY <1>3 DEF PeerSends, TypeOK, serverVars, connVars, loopVars, timerVars
<1>4. ASSUME NEW c \in Conns, PeerCloses(c) PROVE TypeOK'
  BY <1>4 DEF PeerCloses, TypeOK, serverVars, connVars, loopVars, timerVars
<1>5. ASSUME NEW c \in Conns, Expire(c) PROVE TypeOK'
  BY <1>5 DEF Expire, TypeOK, kernelVars, serverVars, connVars, loopVars
<1>6. ASSUME NEW l \in Loops, Poll(l) PROVE TypeOK'
  <2>1. Ready(l) \subseteq Conns \cup {Listener, TimerFd}
    BY DEF Ready, TypeOK
  <2> QED
    BY <1>6, <2>1 DEF Poll, TypeOK, kernelVars, serverVars, connVars, timerVars
<1>7. ASSUME NEW l \in Loops, DoToDoList(l) PROVE TypeOK'
  <2>1. <<>> \in Seq(Functor)
    OBVIOUS
  <2> QED
    BY <1>7, <2>1 DEF DoToDoList, TypeOK, kernelVars, serverVars, connVars, timerVars
<1>8. ASSUME NEW l \in Loops, EndToDoList(l) PROVE TypeOK'
  BY <1>8 DEF EndToDoList, TypeOK, kernelVars, serverVars, connVars, timerVars
<1>9. ASSUME TakeExpired PROVE TypeOK'
  <2>1. timer' \in [Conns -> {"none", "armed", "expired"}] /\ firing' \subseteq Conns
    BY <1>9 DEF TakeExpired, TypeOK
  <2>2. active' \in [Loops -> SUBSET (Conns \cup {Listener, TimerFd})]
    BY <1>9 DEF TakeExpired, Handles, TypeOK
  <2> QED
    BY <1>9, <2>1, <2>2
       DEF TakeExpired, Handles, TypeOK, kernelVars, serverVars, connVars
<1>10. ASSUME NEW c \in Conns, LockConnection(c) PROVE TypeOK'
  BY <1>10 DEF LockConnection, TypeOK, kernelVars, serverVars, connVars, loopVars
<1>11. ASSUME ShutdownIdle PROVE TypeOK'
  BY <1>11 DEF ShutdownIdle, TypeOK, kernelVars, serverVars, loopVars
<1>12. ASSUME RearmTimer PROVE TypeOK'
  BY <1>12 DEF RearmTimer, TypeOK, kernelVars, serverVars, connVars, loopVars
<1>13. ASSUME NewConnection PROVE TypeOK'
  <2>1. PICK c \in backlog :
          /\ backlog' = backlog \ {c}
          /\ Refuse(c) \/ \E f \in FreeFds : HandleNewConnection(c, f)
    BY <1>13 DEF NewConnection, RefuseWithIdleFd
  <2>2. /\ active' \in [Loops -> SUBSET (Conns \cup {Listener, TimerFd})]
        /\ backlog' \subseteq Conns
        /\ UNCHANGED <<pc, functors, called, unread, firing, held, recent>>
        /\ c \in Conns
    BY <1>13, <2>1 DEF NewConnection, Handles, TypeOK
  <2>3. CASE Refuse(c)
    BY <2>2, <2>3 DEF Refuse, TypeOK, serverVars, connVars
  <2>4. ASSUME NEW f \in FreeFds, HandleNewConnection(c, f) PROVE TypeOK'
    <3>1. /\ thread_nums' = thread_nums
          /\ loop' = [loop EXCEPT ![c] = next]
          /\ fd' = [fd EXCEPT ![c] = f]
          /\ connections_' = [connections_ EXCEPT ![f] = c]
          /\ next' = IF thread_nums = 0 THEN Base ELSE (next % thread_nums) + 1
          /\ UNCHANGED <<peer, idlefd>>
      BY <2>4 DEF HandleNewConnection, NextLoop
    <3>2. next' \in 0..thread_nums' /\ next \in Loops /\ Base \in Loops
      <4>1. thread_nums \in Nat /\ next \in Nat /\ next \in Loops /\ Base \in Loops
        BY LoopsAre DEF TypeOK
      <4>2. thread_nums # 0 => next % thread_nums \in 0..(thread_nums - 1)
        BY <4>1
      <4> QED
        BY <3>1, <4>1, <4>2 DEF Base
    <3>3. f \in Fds
      BY DEF FreeFds
    <3>4. /\ loop' \in [Conns -> Loops]
          /\ fd' \in [Conns -> Fds \cup {NoFd}]
          /\ connections_' \in [Fds -> Conns \cup {NoConn}]
      BY <2>2, <3>1, <3>2, <3>3 DEF TypeOK
    <3>5. /\ state' \in [Conns -> {"kConnecting", "kConnected", "kDisconnecting",
                                   "kDisconnected"}]
          /\ reading' \subseteq Conns
          /\ channel' \in [Conns -> {"kNew", "kAdded", "kDeleted"}]
          /\ channels_' \in [Loops -> [Fds -> Conns \cup {NoConn}]]
          /\ registered' \subseteq Conns
          /\ to_do' \in [Loops -> Seq(Functor)]
          /\ timer' \in [Conns -> {"none", "armed", "expired"}]
      <4>1. CASE next = Base
        <5>1. ConnectionEstablished(c, f)
          BY <2>4, <3>2, <4>1 DEF HandleNewConnection
        <5> QED
          BY <2>2, <3>3, <3>4, <5>1, EstablishedType
      <4>2. CASE next # Base
        <5>1. /\ Queue(next, "ConnectionEstablished", c)
              /\ UNCHANGED <<state, reading, channel, channels_, registered, timer>>
          BY <2>4, <4>2 DEF HandleNewConnection
        <5>2. to_do' \in [Loops -> Seq(Functor)]
          BY <2>2, <3>2, <5>1, QueueType DEF Runs
        <5> QED
          BY <5>1, <5>2 DEF TypeOK
      <4> QED
        BY <4>1, <4>2
    <3> QED
      BY <2>2, <3>1, <3>2, <3>4, <3>5 DEF TypeOK
  <2> QED
    BY <2>1, <2>3, <2>4
<1>14. ASSUME NEW l \in Loops, NEW c \in Conns, HandleMessage(l, c) PROVE TypeOK'
  <2>1. /\ active' \in [Loops -> SUBSET (Conns \cup {Listener, TimerFd})]
        /\ UNCHANGED <<pc, functors, called, loop, peer, backlog, idlefd, fd,
                       thread_nums, next, timer, firing, held>>
        /\ c \in active[l]
    BY <1>14 DEF HandleMessage, Handles, TypeOK
  <2>2. CASE MessageCallback(c)
    <3>1. unread' \subseteq Conns /\ recent' \subseteq Conns
      BY <2>2 DEF MessageCallback, TypeOK
    <3>2. state' \in [Conns -> {"kConnecting", "kConnected", "kDisconnecting",
                                "kDisconnected"}]
      BY <2>2 DEF MessageCallback, TypeOK
    <3> QED
      BY <2>1, <2>2, <3>1, <3>2 DEF MessageCallback, TypeOK
  <2>3. CASE HandleClose(l, c)
    <3>1. /\ state' = [state EXCEPT ![c] = "kDisconnected"]
          /\ DisableAll(c, fd[c])
          /\ HandleCloseInLoop(c) \/ (/\ Queue(Base, "HandleCloseInLoop", c)
                                      /\ connections_' = connections_)
          /\ UNCHANGED <<unread, recent>>
      BY <2>3 DEF HandleClose
    <3>2. fd[c] \in Fds
      BY <2>1 DEF Connections, Places, OfChannel, Owned
    <3>3. /\ channel' \in [Conns -> {"kNew", "kAdded", "kDeleted"}]
          /\ channels_' \in [Loops -> [Fds -> Conns \cup {NoConn}]]
          /\ registered' \subseteq Conns
          /\ reading' \subseteq Conns
      <4>1. loop' \in [Conns -> Loops] /\ reading \subseteq Conns
        BY <2>1 DEF TypeOK
      <4>2. Update(c, fd[c]) /\ reading' = reading \ {c}
        BY <3>1 DEF DisableAll
      <4> QED
        BY <3>2, <4>1, <4>2, UpdateType
    <3>4. /\ connections_' \in [Fds -> Conns \cup {NoConn}]
          /\ to_do' \in [Loops -> Seq(Functor)]
      <4>1. CASE HandleCloseInLoop(c)
        BY <4>1, HandleCloseInLoopType
      <4>2. CASE Queue(Base, "HandleCloseInLoop", c) /\ connections_' = connections_
        BY <4>2, LoopsAre, QueueType DEF Runs, TypeOK
      <4> QED
        BY <3>1, <4>1, <4>2
    <3>5. state' \in [Conns -> {"kConnecting", "kConnected", "kDisconnecting",
                                "kDisconnected"}]
      BY <3>1 DEF TypeOK
    <3> QED
      BY <2>1, <3>1, <3>3, <3>4, <3>5 DEF TypeOK
  <2> QED
    BY <1>14, <2>2, <2>3 DEF HandleMessage
<1>15. ASSUME NEW l \in Loops, CallFunctor(l) PROVE TypeOK'
  <2>1. Calls(l) /\ UNCHANGED <<kernelVars, thread_nums, next, active, firing,
                                held, recent>>
    BY <1>15 DEF CallFunctor, Calls
  <2>2. /\ First(l).run \in Runs \cup {"AddTimer"} /\ First(l).conn \in Conns
        /\ functors' \in [Loops -> Seq(Functor)]
        /\ First(l).run \in Runs => Waits(l, First(l).run, First(l).conn)
    BY <2>1, Called
  <2>3. PICK run, c : run = First(l).run /\ c = First(l).conn
    OBVIOUS
  <2>4. /\ called' = IF run = "AddTimer" THEN called
                     ELSE [called EXCEPT ![l] = @ \cup {c}]
        /\ \/ /\ run = "ConnectionEstablished"
              /\ loop' = loop
              /\ ConnectionEstablished(c, fd[c])
              /\ UNCHANGED connections_
           \/ /\ run = "HandleCloseInLoop"
              /\ HandleCloseInLoop(c)
              /\ UNCHANGED <<connVars, timer>>
           \/ /\ run = "ConnectionDestructor"
              /\ ConnectionDestructor(c)
              /\ UNCHANGED <<loop, connections_, to_do, timer>>
           \/ /\ run = "AddTimer"
              /\ timer' = [timer EXCEPT ![c] = "armed"]
              /\ UNCHANGED <<connections_, connVars, to_do>>
    BY <1>15, <2>3 DEF CallFunctor, First
  <2>5. called' \in [Loops -> SUBSET Conns]
    BY <2>2, <2>3, <2>4 DEF TypeOK
  <2>6. /\ UNCHANGED <<peer, backlog, unread, idlefd, fd, thread_nums, next, pc,
                       active, firing, held, recent>>
        /\ c \in Conns
    BY <2>1, <2>2, <2>3 DEF kernelVars, Calls
  <2>7. CASE run = "ConnectionEstablished"
    <3>1. /\ loop' = loop /\ connections_' = connections_
          /\ ConnectionEstablished(c, fd[c])
      BY <2>4, <2>7
    <3>2. fd[c] \in Fds
      <4>1. Waits(l, "ConnectionEstablished", c) /\ OfFunctors(c)
        BY <2>2, <2>3, <2>6, <2>7 DEF Runs, Connections, Places
      <4> QED
        BY <4>1 DEF OfFunctors, Owned
    <3>3. loop' \in [Conns -> Loops]
      BY <3>1 DEF TypeOK
    <3>4. /\ state' \in [Conns -> {"kConnecting", "kConnected", "kDisconnecting",
                                   "kDisconnected"}]
          /\ reading' \subseteq Conns
          /\ channel' \in [Conns -> {"kNew", "kAdded", "kDeleted"}]
          /\ channels_' \in [Loops -> [Fds -> Conns \cup {NoConn}]]
          /\ registered' \subseteq Conns
          /\ to_do' \in [Loops -> Seq(Functor)]
          /\ timer' \in [Conns -> {"none", "armed", "expired"}]
      BY <2>6, <3>1, <3>2, <3>3, EstablishedType
    <3> QED
      BY <2>2, <2>5, <2>6, <3>1, <3>3, <3>4 DEF TypeOK
  <2>8. CASE run = "HandleCloseInLoop"
    <3>1. HandleCloseInLoop(c) /\ UNCHANGED <<connVars, timer>>
      BY <2>4, <2>8
    <3>2. /\ connections_' \in [Fds -> Conns \cup {NoConn}]
          /\ to_do' \in [Loops -> Seq(Functor)]
      BY <2>6, <3>1, HandleCloseInLoopType
    <3> QED
      BY <2>2, <2>5, <2>6, <3>1, <3>2 DEF TypeOK, connVars
  <2>9. CASE run = "ConnectionDestructor"
    <3>1. ConnectionDestructor(c) /\ UNCHANGED <<loop, connections_, to_do, timer>>
      BY <2>4, <2>9
    <3>2. /\ state' \in [Conns -> {"kConnecting", "kConnected", "kDisconnecting",
                                   "kDisconnected"}]
          /\ reading' \subseteq Conns
          /\ channel' \in [Conns -> {"kNew", "kAdded", "kDeleted"}]
          /\ registered' \subseteq Conns
      BY <3>1 DEF ConnectionDestructor, Remove, UpdateChannel, TypeOK
    <3>3. channels_' \in [Loops -> [Fds -> Conns \cup {NoConn}]]
      BY <3>1 DEF ConnectionDestructor, Remove, TypeOK
    <3> QED
      BY <2>2, <2>5, <2>6, <3>1, <3>2, <3>3 DEF TypeOK
  <2>10. CASE run = "AddTimer"
    <3>1. /\ timer' = [timer EXCEPT ![c] = "armed"]
          /\ UNCHANGED <<connections_, connVars, to_do>>
      BY <2>4, <2>10
    <3>2. timer' \in [Conns -> {"none", "armed", "expired"}]
      BY <3>1 DEF TypeOK
    <3> QED
      BY <2>2, <2>5, <2>6, <3>1, <3>2 DEF TypeOK, connVars
  <2> QED
    BY <2>4, <2>7, <2>8, <2>9, <2>10
<1> QED
  BY <1>2, <1>3, <1>4, <1>5, <1>6, <1>7, <1>8, <1>9, <1>10, <1>11, <1>12, <1>13,
     <1>14, <1>15 DEF Next, LoopThread, HandleIdleConnection

-----------------------------------------------------------------------------
(* The invariant.                                                          *)

(* A server that has just started satisfies it. *)
LEMMA ServerInit == Init => ServerInv
<1> SUFFICES ASSUME Init PROVE ServerInv
  OBVIOUS
<1> USE DEF Init
<1>1. <<>> \in Seq(Functor) /\ <<>> \o <<>> = <<>> /\ Len(<<>>) = 0
  OBVIOUS
<1>2. TypeOK
  <2>1. next \in 0..thread_nums
    BY TcpServerAssumption DEF Base
  <2> QED
    BY <1>1, <2>1, LoopsAre DEF TypeOK
<1>3. \A l \in Loops : Waiting[l] = <<>>
  BY <1>1 DEF Waiting
<1>4. \A l \in Loops : \A run, c : ~Waits(l, run, c)
  BY <1>1, <1>3 DEF Waits, IsIn
<1>5. Lists
  BY <1>1, <1>3 DEF Lists, AreAlone
<1>6. \A c \in Conns : ~Kept(c)
  BY <1>4, TcpServerAssumption DEF Kept
<1>7. Unaccepted /\ OwnFds
  BY <1>6 DEF Unaccepted, OwnFds
<1>8. InMap /\ InEpoller
  BY TcpServerAssumption DEF InMap, InEpoller
<1>9. Places
  BY <1>4 DEF Places, OfChannel, OfFunctors, Runs
<1> QED
  BY <1>2, <1>5, <1>7, <1>8, <1>9 DEF ServerInv

(* Clients connect before they are accepted, and are accepted once. *)
LEMMA UnacceptedNext ==
  ASSUME TypeOK, Unaccepted, Next
  PROVE  Unaccepted'
<1>1. ASSUME UNCHANGED <<peer, backlog, fd>> PROVE Unaccepted'
  BY <1>1 DEF Unaccepted
<1>2. ASSUME NEW c \in Conns, PeerConnects(c) PROVE Unaccepted'
  BY <1>2 DEF PeerConnects, Unaccepted, TypeOK
<1>3. ASSUME NEW c \in Conns, PeerCloses(c) PROVE Unaccepted'
  BY <1>3 DEF PeerCloses, Unaccepted, TypeOK
<1>4. ASSUME NewConnection PROVE Unaccepted'
  <2>1. PICK c \in backlog :
          /\ backlog' = backlog \ {c}
          /\ Refuse(c) \/ \E f \in FreeFds : HandleNewConnection(c, f)
    BY <1>4 DEF NewConnection, RefuseWithIdleFd
  <2>2. c \in Conns
    BY DEF TypeOK
  <2>3. CASE Refuse(c)
    BY <2>1, <2>2, <2>3 DEF Refuse, Unaccepted, TypeOK
  <2>4. ASSUME NEW f \in FreeFds, HandleNewConnection(c, f) PROVE Unaccepted'
    BY <2>1, <2>2, <2>4 DEF HandleNewConnection, Unaccepted, TypeOK
  <2> QED
    BY <2>1, <2>3, <2>4
<1>5. ASSUME NEW l \in Loops, NEW c \in Conns, HandleMessage(l, c)
      PROVE  UNCHANGED <<peer, backlog, fd>>
  BY <1>5 DEF HandleMessage
<1>6. ASSUME NEW l \in Loops,
             CallFunctor(l) \/ Poll(l) \/ DoToDoList(l) \/ EndToDoList(l)
      PROVE  UNCHANGED <<peer, backlog, fd>>
  BY <1>6 DEF CallFunctor, Poll, DoToDoList, EndToDoList, kernelVars
<1>7. ASSUME TakeExpired \/ HandleIdleConnection
      PROVE  UNCHANGED <<peer, backlog, fd>>
  BY <1>7 DEF TakeExpired, HandleIdleConnection, LockConnection, ShutdownIdle,
              RearmTimer, kernelVars
<1>8. ASSUME NEW c \in Conns, PeerSends(c) \/ Expire(c)
      PROVE  UNCHANGED <<peer, backlog, fd>>
  BY <1>8 DEF PeerSends, Expire, kernelVars
<1> QED
  BY <1>1, <1>2, <1>3, <1>4, <1>5, <1>6, <1>7, <1>8 DEF Next, LoopThread

(* DoToDoList swaps the lists: nothing waits that did not, in the same order. *)
LEMMA SwapKeeps ==
  ASSUME TypeOK, Lists, NEW l \in Loops, DoToDoList(l)
  PROVE  Lists' /\ SameWaits /\ Waiting' = Waiting
<1>1. functors[l] = <<>>
  BY DEF DoToDoList, Lists
<1>2. functors \in [Loops -> Seq(Functor)] /\ to_do \in [Loops -> Seq(Functor)]
  BY DEF TypeOK
<1>3. /\ functors' = [functors EXCEPT ![l] = to_do[l]]
      /\ to_do' = [to_do EXCEPT ![l] = <<>>]
      /\ pc' = [pc EXCEPT ![l] = "calls"]
      /\ pc \in [Loops -> {"poll", "events", "calls"}]
  BY DEF DoToDoList, TypeOK
<1>4. to_do[l] \o <<>> = <<>> \o to_do[l]
  BY <1>2
<1>5. Waiting' = Waiting
  BY <1>1, <1>2, <1>3, <1>4 DEF Waiting
<1>6. \A k \in Loops : pc'[k] # "calls" => functors'[k] = <<>>
  BY <1>2, <1>3 DEF Lists
<1> QED
  BY <1>5, <1>6 DEF Lists, SameWaits, Waits

(* Every other step is one of the lemmas above, or leaves the connections  *)
(* where they are.                                                         *)
LEMMA ConnectionsNext ==
  ASSUME TypeOK, Lists, Connections, Unaccepted, Next
  PROVE  Lists' /\ Connections'
<1>1. \A c \in Conns : Alive(c) => Kept(c)
  BY KeptIsAlive
<1>2. /\ called \in [Loops -> SUBSET Conns]
      /\ active \in [Loops -> SUBSET (Conns \cup {Listener, TimerFd})]
      /\ pc \in [Loops -> {"poll", "events", "calls"}]
      /\ held \in Conns \cup {NoConn}
  BY DEF TypeOK
<1>3. ASSUME UNCHANGED <<idlefd, fd, connections_, loop, reading, channel,
                         channels_, registered, to_do, functors, pc, called>>,
             \A l \in Loops, c \in Conns : c \in active'[l] => c \in active[l],
             \A c \in Conns : held' = c => Kept(c)
      PROVE  Lists' /\ Connections'
  <2>1. \A l \in Loops, c \in Conns : c \in called'[l] => Kept(c)
    BY <1>3 DEF Kept
  <2> QED
    BY <1>3, <2>1, ListsStand, ConnectionsStand
<1>4. \A c \in Conns : held = c => Kept(c)
  BY DEF Kept
<1>5. ASSUME NEW c \in Conns,
             PeerConnects(c) \/ PeerSends(c) \/ PeerCloses(c) \/ Expire(c)
      PROVE  Lists' /\ Connections'
  <2>1. UNCHANGED <<idlefd, fd, serverVars, connVars, loopVars, held>>
    BY <1>5 DEF PeerConnects, PeerSends, PeerCloses, Expire, kernelVars, timerVars
  <2> QED
    BY <1>3, <1>4, <2>1 DEF serverVars, connVars, loopVars
<1>6. ASSUME NEW l \in Loops, Poll(l) PROVE Lists' /\ Connections'
  <2>1. /\ UNCHANGED <<kernelVars, serverVars, connVars, to_do, functors, called, held>>
        /\ pc[l] = "poll"
        /\ pc' = [pc EXCEPT ![l] = "events"]
        /\ active' = [active EXCEPT ![l] = Ready(l)]
    BY <1>6 DEF Poll, timerVars
  <2>2. Lists' /\ SameWaits
    <3>1. Waiting' = Waiting
      BY <2>1 DEF Waiting
    <3>2. \A k \in Loops : pc'[k] # "calls" => functors'[k] = <<>>
      BY <1>2, <2>1 DEF Lists
    <3> QED
      BY <3>1, <3>2 DEF Lists, SameWaits, Waits
  <2>3. \A k \in Loops, c \in Conns :
          c \in active'[k] => c \in active[k] \/ (loop[c] = k /\ c \in registered)
    BY <1>2, <2>1, TcpServerAssumption DEF Ready
  <2>4. \A k \in Loops, c \in Conns : c \in called'[k] => Kept(c)
    BY <2>1 DEF Kept
  <2>5. \A c \in Conns : held' = c => Kept(c)
    BY <1>4, <2>1
  <2>6. UNCHANGED <<idlefd, fd, connections_, loop, reading, channel, channels_,
                    registered>>
    BY <2>1 DEF kernelVars, serverVars, connVars
  <2> QED
    BY <2>2, <2>3, <2>4, <2>5, <2>6, ConnectionsStand
<1>7. ASSUME NEW l \in Loops, DoToDoList(l) PROVE Lists' /\ Connections'
  <2>1. UNCHANGED <<kernelVars, serverVars, connVars, active, called, held>>
    BY <1>7 DEF DoToDoList, timerVars
  <2>2. \A k \in Loops, c \in Conns : c \in called'[k] => Kept(c)
    BY <2>1 DEF Kept
  <2>3. \A c \in Conns : held' = c => Kept(c)
    BY <1>4, <2>1
  <2>4. UNCHANGED <<idlefd, fd, connections_, loop, reading, channel, channels_,
                    registered, active>>
    BY <2>1 DEF kernelVars, serverVars, connVars
  <2> QED
    BY <1>7, <2>2, <2>3, <2>4, SwapKeeps, ConnectionsStand
<1>8. ASSUME NEW l \in Loops, EndToDoList(l) PROVE Lists' /\ Connections'
  <2>1. /\ UNCHANGED <<kernelVars, serverVars, connVars, active, to_do, functors, held>>
        /\ functors[l] = <<>>
        /\ called' = [called EXCEPT ![l] = {}]
        /\ pc' = [pc EXCEPT ![l] = "poll"]
    BY <1>8 DEF EndToDoList, timerVars
  <2>2. Lists' /\ SameWaits
    <3>1. Waiting' = Waiting
      BY <2>1 DEF Waiting
    <3>2. \A k \in Loops : pc'[k] # "calls" => functors'[k] = <<>>
      BY <1>2, <2>1 DEF Lists
    <3> QED
      BY <3>1, <3>2 DEF Lists, SameWaits, Waits
  <2>3. \A k \in Loops, c \in Conns : c \in called'[k] => Kept(c)
    BY <1>2, <2>1 DEF Kept
  <2>4. \A c \in Conns : held' = c => Kept(c)
    BY <1>4, <2>1
  <2>5. UNCHANGED <<idlefd, fd, connections_, loop, reading, channel, channels_,
                    registered, active>>
    BY <2>1 DEF kernelVars, serverVars, connVars
  <2> QED
    BY <2>2, <2>3, <2>4, <2>5, ConnectionsStand
<1>9. ASSUME NewConnection PROVE Lists' /\ Connections'
  <2>1. PICK c \in backlog :
          /\ backlog' = backlog \ {c}
          /\ Refuse(c) \/ \E f \in FreeFds : HandleNewConnection(c, f)
    BY <1>9 DEF NewConnection, RefuseWithIdleFd
  <2>2. /\ UNCHANGED <<pc, functors, called, held>>
        /\ \A l \in Loops, d \in Conns : d \in active'[l] => d \in active[l]
    BY <1>2, <1>9 DEF NewConnection, Handles
  <2>3. CASE Refuse(c)
    BY <1>3, <1>4, <2>2, <2>3 DEF Refuse, serverVars, connVars
  <2>4. ASSUME NEW f \in FreeFds, HandleNewConnection(c, f)
        PROVE  Lists' /\ Connections'
    BY <2>2, <2>4, NewConnectionKeeps
  <2> QED
    BY <2>1, <2>3, <2>4
<1>10. ASSUME NEW l \in Loops, NEW c \in Conns, HandleMessage(l, c)
       PROVE  Lists' /\ Connections'
  <2>1. /\ UNCHANGED <<pc, functors, called, held, loop, fd, idlefd>>
        /\ active' = [active EXCEPT ![l] = @ \ {c}]
        /\ c \in active[l]
        /\ HandleClose(l, c) \/ MessageCallback(c)
    BY <1>10 DEF HandleMessage, Handles
  <2>2. CASE HandleClose(l, c)
    BY <2>1, <2>2, HandleCloseKeeps
  <2>3. CASE MessageCallback(c)
    <3>1. UNCHANGED <<connections_, to_do, reading, channel, channels_, registered>>
      BY <2>3 DEF MessageCallback
    <3>2. \A k \in Loops, d \in Conns : d \in active'[k] => d \in active[k]
      BY <1>2, <2>1
    <3> QED
      BY <1>3, <1>4, <2>1, <3>1, <3>2
  <2> QED
    BY <2>1, <2>2, <2>3
<1>11. ASSUME TakeExpired PROVE Lists' /\ Connections'
  <2>1. /\ UNCHANGED <<kernelVars, serverVars, connVars, to_do, pc, functors, called, held>>
        /\ \A l \in Loops, d \in Conns : d \in active'[l] => d \in active[l]
    BY <1>2, <1>11 DEF TakeExpired, Handles
  <2> QED
    BY <1>3, <1>4, <2>1 DEF kernelVars, serverVars, connVars
<1>12. ASSUME HandleIdleConnection PROVE Lists' /\ Connections'
  <2>1. /\ UNCHANGED <<kernelVars, serverVars, loop, reading, channel, channels_,
                       registered, loopVars>>
        /\ \A c \in Conns : held' = c => Alive(c)
    BY <1>12, TcpServerAssumption DEF HandleIdleConnection, LockConnection,
       ShutdownIdle, RearmTimer, connVars
  <2> QED
    BY <1>1, <1>3, <2>1 DEF kernelVars, serverVars, loopVars
<1>13. ASSUME NEW l \in Loops, CallFunctor(l) PROVE Lists' /\ Connections'
  <2>1. /\ Calls(l)
        /\ UNCHANGED <<fd, idlefd, active, held>>
    BY <1>13 DEF CallFunctor, Calls, kernelVars
  <2>2. PICK run, c : run = First(l).run /\ c = First(l).conn
    OBVIOUS
  <2>3. /\ called' = IF run = "AddTimer" THEN called
                     ELSE [called EXCEPT ![l] = @ \cup {c}]
        /\ \/ /\ run = "ConnectionEstablished"
              /\ loop' = loop
              /\ ConnectionEstablished(c, fd[c])
              /\ UNCHANGED connections_
           \/ /\ run = "HandleCloseInLoop"
              /\ HandleCloseInLoop(c)
              /\ UNCHANGED <<connVars, timer>>
           \/ /\ run = "ConnectionDestructor"
              /\ ConnectionDestructor(c)
              /\ UNCHANGED <<loop, connections_, to_do, timer>>
           \/ /\ run = "AddTimer"
              /\ timer' = [timer EXCEPT ![c] = "armed"]
              /\ UNCHANGED <<connections_, connVars, to_do>>
    BY <1>13, <2>2 DEF CallFunctor, First
  <2>4. run # "AddTimer" => called' = [called EXCEPT ![l] = @ \cup {c}]
    BY <2>3
  <2>5. CASE run = "ConnectionEstablished"
    <3>1. /\ loop' = loop /\ connections_' = connections_
          /\ ConnectionEstablished(c, fd[c])
      BY <2>3, <2>5
    <3> QED
      BY <2>1, <2>2, <2>4, <2>5, <3>1, EstablishKeeps
  <2>6. CASE run = "HandleCloseInLoop"
    <3>1. HandleCloseInLoop(c) /\ UNCHANGED connVars
      BY <2>3, <2>6
    <3>2. UNCHANGED <<loop, fd, idlefd, reading, channel, channels_, registered,
                      active, held>>
      BY <2>1, <3>1 DEF connVars
    <3> QED
      BY <2>1, <2>2, <2>4, <2>6, <3>1, <3>2, EraseKeeps
  <2>7. CASE run = "ConnectionDestructor"
    <3>1. ConnectionDestructor(c) /\ UNCHANGED <<loop, connections_, to_do>>
      BY <2>3, <2>7
    <3>2. UNCHANGED <<to_do, connections_, loop, fd, idlefd, active, held>>
      BY <2>1, <3>1
    <3> QED
      BY <2>1, <2>2, <2>4, <2>7, <3>1, <3>2, DestructorKeeps
  <2>8. CASE run = "AddTimer"
    <3>1. UNCHANGED <<connections_, connVars, to_do, called>>
      BY <2>3, <2>8
    <3>2. "AddTimer" \notin Runs /\ run \notin Runs
      BY <2>8 DEF Runs
    <3>3. Lists' /\ SameWaits
      BY <2>1, <2>2, <3>1, <3>2, Called DEF SameWaits
    <3>4. \A k \in Loops, d \in Conns : d \in called'[k] => Kept(d)
      BY <3>1 DEF Kept
    <3>5. \A d \in Conns : held' = d => Kept(d)
      BY <1>4, <2>1
    <3>6. UNCHANGED <<idlefd, fd, connections_, loop, reading, channel, channels_,
                      registered, active>>
      BY <2>1, <3>1 DEF connVars
    <3> QED
      BY <3>3, <3>4, <3>5, <3>6, ConnectionsStand
  <2> QED
    BY <2>3, <2>5, <2>6, <2>7, <2>8
<1> QED
  BY <1>5, <1>6, <1>7, <1>8, <1>9, <1>10, <1>11, <1>12, <1>13 DEF Next, LoopThread

(* Every step keeps the invariant. *)
LEMMA ServerNext == ServerInv /\ [Next]_vars => ServerInv'
<1> SUFFICES ASSUME ServerInv, [Next]_vars PROVE ServerInv'
  OBVIOUS
<1>1. TypeOK /\ Lists /\ Unaccepted /\ Connections
  BY DEF ServerInv, Connections
<1>2. CASE Next
  BY <1>1, <1>2, TypesNext, UnacceptedNext, ConnectionsNext DEF ServerInv, Connections
<1>3. CASE UNCHANGED vars
  <2>1. UNCHANGED <<peer, backlog, idlefd, fd, connections_, loop, reading, channel,
                    channels_, registered, pc, active, to_do, functors, called, held>>
    BY <1>3 DEF vars, kernelVars, serverVars, connVars, loopVars, timerVars
  <2>2. TypeOK'
    BY <1>1, <1>3 DEF TypeOK, vars, kernelVars, serverVars, connVars, loopVars, timerVars
  <2>3. Unaccepted'
    BY <1>1, <2>1 DEF Unaccepted
  <2>4. Lists' /\ SameWaits
    BY <1>1, <2>1, ListsStand
  <2>5. /\ \A l \in Loops, c \in Conns : c \in called'[l] => Kept(c)
        /\ \A c \in Conns : held' = c => Kept(c)
    BY <2>1 DEF Kept
  <2>6. Connections'
    BY <1>1, <2>1, <2>4, <2>5, ConnectionsStand
  <2> QED
    BY <2>2, <2>3, <2>4, <2>6 DEF ServerInv, Connections
<1> QED
  BY <1>2, <1>3

(* The inductive invariant holds in every behaviour of the server.         *)
LEMMA ServerInvariant == Spec => []ServerInv
BY ServerInit, ServerNext, PTL DEF Spec

-----------------------------------------------------------------------------
(* Theorems.                                                               *)

(* The types of the server's state, next_ being a loop that exists: for    *)
(* any numbers of connections, descriptors and worker loops.               *)
THEOREM TypeCorrect == Spec => []TypeOK
<1>1. ServerInv => TypeOK
  BY DEF ServerInv
<1> QED
  BY <1>1, ServerInvariant, PTL

(* No Channel* outlives its connection, neither in epoll, in the Epoller's *)
(* map nor among the channels returned, although the last reference may be *)
(* dropped in the base loop, in a worker or by the idle timer.             *)
THEOREM NoDanglingChannel == Spec => []ChannelsAlive
<1>1. ServerInv => ChannelsAlive
  <2> SUFFICES ASSUME ServerInv PROVE ChannelsAlive
    OBVIOUS
  <2>1. TypeOK /\ Connections
    BY DEF ServerInv, Connections
  <2>2. \A c \in Conns : channel[c] # "kNew" => Alive(c) /\ fd[c] \in Fds
    BY <2>1, KnownIsKept, KeptIsAlive
  <2>3. ASSUME NEW l \in Loops, NEW c \in active[l] \cap Conns
        PROVE  Alive(c) /\ loop[c] = l
    BY <2>1, <2>2 DEF Connections, Places, OfChannel
  <2>4. ASSUME NEW l \in Loops, NEW f \in Fds, channels_[l][f] # NoConn
        PROVE  /\ Alive(channels_[l][f])
               /\ loop[channels_[l][f]] = l
               /\ fd[channels_[l][f]] = f
    <3>1. channels_[l][f] \in Conns
      BY <2>1, <2>4 DEF TypeOK
    <3> QED
      BY <2>1, <2>2, <3>1 DEF Connections, InEpoller
  <2>5. ASSUME NEW c \in Conns
        PROVE  /\ channel[c] = "kAdded" => channels_[loop[c]][fd[c]] = c
               /\ channel[c] = "kAdded" <=> c \in registered
    BY <2>1 DEF Connections, Places, OfChannel
  <2> QED
    BY <2>3, <2>4, <2>5 DEF ChannelsAlive
<1> QED
  BY <1>1, ServerInvariant, PTL

(* What a pending functor of connection c finds when it is called.         *)
LEMMA FindsWhatItAsserts ==
  ASSUME TypeOK, Connections, NEW l \in Loops, NEW c \in Conns, NEW r \in Runs,
         Waits(l, r, c)
  PROVE  /\ r = "HandleCloseInLoop" =>
              /\ l = Base /\ connections_[fd[c]] = c
              /\ channels_[loop[c]][fd[c]] = c
         /\ r = "ConnectionDestructor" =>
              /\ l = loop[c] /\ connections_[fd[c]] # c
              /\ channels_[l][fd[c]] = c
         /\ r = "ConnectionEstablished" =>
              /\ l = loop[c] /\ connections_[fd[c]] = c
              /\ channels_[l][fd[c]] = NoConn
<1>1. OfChannel(c) /\ OfFunctors(c)
  BY DEF Connections, Places
<1>2. Kept(c) /\ fd[c] \in Fds
  BY WaitingIsKept DEF Connections, OwnFds
<1>3. ASSUME r = "HandleCloseInLoop"
      PROVE  /\ l = Base /\ connections_[fd[c]] = c
             /\ channels_[loop[c]][fd[c]] = c
  BY <1>1, <1>3 DEF OfChannel, OfFunctors, Owned
<1>4. ASSUME r = "ConnectionDestructor"
      PROVE  /\ l = loop[c] /\ connections_[fd[c]] # c
             /\ channels_[l][fd[c]] = c
  BY <1>1, <1>2, <1>4 DEF OfChannel, OfFunctors, Owned
<1>5. ASSUME r = "ConnectionEstablished"
      PROVE  /\ l = loop[c] /\ connections_[fd[c]] = c
             /\ channels_[l][fd[c]] = NoConn
  <2>1. l = loop[c] /\ Owned(c)
    BY <1>1, <1>5 DEF OfFunctors
  <2>2. ASSUME NEW d \in Conns, channels_[l][fd[c]] = d PROVE FALSE
    <3>1. fd[d] = fd[c] /\ channel[d] # "kNew"
      BY <1>2, <2>2 DEF Connections, InEpoller
    <3>2. Kept(d)
      BY <3>1, KnownIsKept
    <3>3. channel[c] = "kNew"
      BY <1>1, <1>5 DEF OfFunctors
    <3> QED
      BY <1>2, <3>1, <3>2, <3>3 DEF Connections, OwnFds
  <2>3. channels_[l][fd[c]] = NoConn
    BY <1>2, <2>2 DEF TypeOK
  <2> QED
    BY <2>1, <2>3 DEF Owned
<1> QED
  BY <1>3, <1>4, <1>5

(* Every functor in flight finds what it asserts when it is called: its    *)
(* own entry of connections_ still there or already erased, its channel    *)
(* known to the Epoller or new to it, whatever became of its descriptor.   *)
THEOREM PendingCallsFindWhatTheyAssert == Spec => []PendingCallsAreValid
<1>1. ServerInv => PendingCallsAreValid
  <2> SUFFICES ASSUME ServerInv PROVE PendingCallsAreValid
    OBVIOUS
  <2>1. TypeOK /\ Connections
    BY DEF ServerInv, Connections
  <2>2. ASSUME NEW l \in Loops, NEW p \in Pending(l)
        PROVE  p.conn \in Conns /\ Waits(l, p.run, p.conn)
    <3>1. functors[l] \in Seq(Functor) /\ to_do[l] \in Seq(Functor)
      BY <2>1, WaitingType
    <3>2. /\ DOMAIN functors[l] = 1..Len(functors[l])
          /\ DOMAIN to_do[l] = 1..Len(to_do[l])
      BY <3>1
    <3>3. p \in Functor /\ (IsIn(p, functors[l]) \/ IsIn(p, to_do[l]))
      BY <2>2, <3>1, <3>2, ElementOfSeq DEF Pending, IsIn
    <3>4. IsIn(p, Waiting[l])
      BY <3>1, <3>3, TwoLists DEF Waiting
    <3>5. p.conn \in Conns /\ p = Entry(p.run, p.conn)
      BY <3>3, EntryOf DEF Functor
    <3> QED
      BY <3>4, <3>5 DEF Waits
  <2>3. ASSUME NEW l \in Loops, NEW p \in Pending(l), p.run \in Runs
        PROVE  /\ p.run = "HandleCloseInLoop" =>
                    /\ l = Base /\ connections_[fd[p.conn]] = p.conn
                    /\ channels_[loop[p.conn]][fd[p.conn]] = p.conn
               /\ p.run = "ConnectionDestructor" =>
                    /\ l = loop[p.conn] /\ connections_[fd[p.conn]] # p.conn
                    /\ channels_[l][fd[p.conn]] = p.conn
               /\ p.run = "ConnectionEstablished" =>
                    /\ l = loop[p.conn] /\ connections_[fd[p.conn]] = p.conn
                    /\ channels_[l][fd[p.conn]] = NoConn
    <3>1. p.conn \in Conns /\ Waits(l, p.run, p.conn)
      BY <2>2, <2>3
    <3> QED
      BY <2>1, <2>3, <3>1, FindsWhatItAsserts
  <2> QED
    BY <2>3 DEF PendingCallsAreValid, Runs
<1> QED
  BY <1>1, ServerInvariant, PTL

-----------------------------------------------------------------------------
(* The life of a connection.                                               *)

\* The functor that will establish c has still to be called.
Starting(c) == \E l \in Loops : Waits(l, "ConnectionEstablished", c)

Established(c) == fd[c] \in Fds /\ state[c] # "kConnecting"

\* The idle timer of c runs, is about to, or is being handled.
Timed(c) == \/ timer[c] # "none"
            \/ c \in firing
            \/ held = c
            \/ \E l \in Loops : Waits(l, "AddTimer", c)

Life(c) == /\ fd[c] = NoFd => state[c] = "kConnecting"
           /\ fd[c] # NoFd /\ state[c] = "kConnecting" <=> Starting(c)
           /\ Timed(c) => Established(c)

LifeInv == \A c \in Conns : Life(c)

(* What a step may do to the life of a connection.                         *)

\* Nothing, except that its last reference may be dropped.
Stands(c) ==
  /\ fd'[c] = fd[c]
  /\ Starting(c)' <=> Starting(c)
  /\ c \in reading' <=> c \in reading
  /\ Kept(c)' => Kept(c)
  /\ \/ state'[c] = state[c]
     \/ Established(c) /\ state'[c] # "kConnecting"
  /\ Timed(c)' => Timed(c) \/ Established(c)

Accepts(c) ==
  /\ fd[c] = NoFd
  /\ fd'[c] \in Fds
  /\ \A d \in Conns : Kept(d) => fd[d] # fd'[c]
  /\ Kept(c)'
  /\ \/ /\ Starting(c)' /\ ~Timed(c)'
        /\ state'[c] = "kConnecting"
        /\ c \notin reading'
     \/ /\ ~Starting(c)'
        /\ state'[c] # "kConnecting"
        /\ c \in reading'

Establishes(c) ==
  /\ Starting(c) /\ ~Starting(c)'
  /\ c \in reading'
  /\ state'[c] # "kConnecting"
  /\ fd'[c] = fd[c]
  /\ Kept(c)'

Closes(c) ==
  /\ c \in reading /\ c \notin reading'
  /\ state'[c] # "kConnecting"
  /\ ~Starting(c)'
  /\ fd'[c] = fd[c]
  /\ Kept(c)'

Moves(c) == Accepts(c) \/ Establishes(c) \/ Closes(c)

\* At most one connection moves, and then no reference to another is dropped.
OneMoves ==
  \/ \A d \in Conns : Stands(d)
  \/ \E c \in Conns : /\ Moves(c)
                      /\ \A d \in Conns \ {c} : Stands(d) /\ (Kept(d)' <=> Kept(d))

(* What the invariant says of a connection that is starting, is read, or   *)
(* is referred to.                                                         *)
LEMMA LifeFacts ==
  ASSUME ServerInv, NEW c \in Conns
  PROVE  /\ Starting(c) => Kept(c) /\ c \notin reading
         /\ c \in reading => Kept(c)
         /\ Kept(c) => fd[c] \in Fds
<1>1. OfChannel(c) /\ OfFunctors(c)
  BY DEF ServerInv, Places
<1>2. Kept(c) => fd[c] \in Fds
  BY DEF ServerInv, OwnFds
<1>3. c \in reading => Kept(c)
  BY <1>1 DEF OfChannel, Owned, Kept
<1>4. Starting(c) => Kept(c) /\ c \notin reading
  BY <1>1 DEF OfChannel, OfFunctors, Starting, Kept, Runs
<1> QED
  BY <1>2, <1>3, <1>4

(* Whatever waits was waiting, or is what was queued.                      *)
LEMMA NothingElseComes ==
  ASSUME TypeOK, NEW l \in Loops, functors' = functors \/ Calls(l),
         NEW m \in Loops, NEW run \in Runs \cup {"AddTimer"}, NEW c \in Conns,
         to_do' = to_do \/ Queue(m, run, c),
         NEW k \in Loops, NEW x, IsIn(x, Waiting'[k])
  PROVE  IsIn(x, Waiting[k]) \/ (Queue(m, run, c) /\ x = Entry(run, c))
<1>1. /\ functors \in [Loops -> Seq(Functor)] /\ to_do \in [Loops -> Seq(Functor)]
      /\ functors[k] \in Seq(Functor) /\ to_do[k] \in Seq(Functor)
  BY DEF TypeOK
<1>2. /\ functors'[k] \in Seq(Functor)
      /\ IsIn(x, functors'[k]) => IsIn(x, functors[k])
  <2>1. CASE functors'[k] = functors[k]
    BY <1>1, <2>1
  <2>2. CASE functors'[k] = Tail(functors[k]) /\ functors[k] # <<>>
    <3>1. /\ Tail(functors[k]) \in Seq(Functor)
          /\ Len(Tail(functors[k])) = Len(functors[k]) - 1
          /\ \A i \in 1..Len(Tail(functors[k])) :
               Tail(functors[k])[i] = functors[k][i + 1]
      BY <1>1, <2>2, HeadTailProperties
    <3>2. Len(functors[k]) \in Nat
      BY <1>1, LenProperties
    <3>3. \A i \in 1..Len(Tail(functors[k])) : i + 1 \in 1..Len(functors[k])
      BY <3>1, <3>2
    <3> QED
      BY <2>2, <3>1, <3>3 DEF IsIn
  <2> QED
    BY <1>1, <2>1, <2>2 DEF Calls
<1>3. /\ to_do'[k] \in Seq(Functor)
      /\ IsIn(x, to_do'[k]) =>
           IsIn(x, to_do[k]) \/ (Queue(m, run, c) /\ x = Entry(run, c))
  <2>1. CASE to_do'[k] = to_do[k]
    BY <1>1, <2>1
  <2>2. CASE Queue(m, run, c) /\ to_do'[k] = Append(to_do[k], Entry(run, c))
    <3>1. Entry(run, c) \in Functor
      BY EntryOf
    <3> QED
      BY <1>1, <2>2, <3>1, AppendIsIn
  <2>3. Queue(m, run, c) => to_do' = [to_do EXCEPT ![m] = Append(@, Entry(run, c))]
    BY DEF Queue, Entry
  <2> QED
    BY <1>1, <2>1, <2>2, <2>3
<1>4. Waiting'[k] = functors'[k] \o to_do'[k] /\ Waiting[k] = functors[k] \o to_do[k]
  BY DEF Waiting
<1> QED
  BY <1>1, <1>2, <1>3, <1>4, TwoLists

(* A functor that keeps its connection does not start its timer.           *)
LEMMA NoTimerComes ==
  ASSUME TypeOK, NEW l \in Loops, functors' = functors \/ Calls(l),
         NEW m \in Loops, NEW run \in Runs, NEW c \in Conns,
         to_do' = to_do \/ Queue(m, run, c)
  PROVE  \A k \in Loops, d \in Conns :
           Waits(k, "AddTimer", d)' => Waits(k, "AddTimer", d)
<1> SUFFICES ASSUME NEW k \in Loops, NEW d \in Conns, Waits(k, "AddTimer", d)'
             PROVE  Waits(k, "AddTimer", d)
  OBVIOUS
<1>1. IsIn(Entry("AddTimer", d), Waiting'[k]) /\ run \in Runs \cup {"AddTimer"}
  BY DEF Waits
<1>2. IsIn(Entry("AddTimer", d), Waiting[k]) \/ Entry("AddTimer", d) = Entry(run, c)
  BY <1>1, NothingElseComes
<1>3. Entry("AddTimer", d) # Entry(run, c)
  BY EntryOf DEF Runs
<1> QED
  BY <1>2, <1>3 DEF Waits

(* A step that leaves the lists and the descriptors alone, and the state   *)
(* of connections that are not established.                                *)
LEMMA QuietStep ==
  ASSUME Waiting' = Waiting, UNCHANGED <<fd, reading, connections_>>,
         \A l \in Loops, c \in Conns : c \in called'[l] => Kept(c),
         \A c \in Conns : held' = c => Kept(c),
         \A c \in Conns : \/ state'[c] = state[c]
                          \/ Established(c) /\ state'[c] # "kConnecting",
         \A c \in Conns :
           timer'[c] # "none" \/ c \in firing' \/ held' = c => Timed(c)
  PROVE  \A c \in Conns : Stands(c)
<1>1. \A l, run, c : Waits(l, run, c)' <=> Waits(l, run, c)
  BY DEF Waits
<1>2. \A c \in Conns : Starting(c)' <=> Starting(c)
  BY <1>1 DEF Starting
<1>3. \A c \in Conns : Kept(c)' => Kept(c)
  BY <1>1 DEF Kept
<1>4. \A c \in Conns : Timed(c)' => Timed(c)
  BY <1>1 DEF Timed
<1> QED
  BY <1>2, <1>3, <1>4 DEF Stands

(* An accepted connection has a descriptor of its own, and is established  *)
(* at once or when its loop calls the functor.                             *)
LEMMA NewConnectionAccepts ==
  ASSUME ServerInv, LifeInv, NEW c \in backlog, NEW f \in FreeFds,
         HandleNewConnection(c, f),
         UNCHANGED <<functors, pc, called, firing, held>>
  PROVE  /\ c \in Conns
         /\ Accepts(c)
         /\ \A d \in Conns \ {c} : Stands(d) /\ (Kept(d)' <=> Kept(d))
<1>1. TypeOK /\ Lists /\ Unaccepted /\ Connections
  BY DEF ServerInv, Connections
<1>2. /\ c \in Conns /\ f \in Fds /\ f # NoFd
      /\ ~Kept(c)
      /\ channel[c] = "kNew" /\ c \notin reading
      /\ \A d \in Conns : Kept(d) => fd[d] # f
      /\ \A d \in Conns : connections_[f] # d
      /\ \A l \in Loops, run \in Runs : ~Waits(l, run, c)
  BY <1>1, AcceptedIsNew
<1>3. fd[c] = NoFd /\ NoFd \notin Fds
  BY <1>1, <1>2, TcpServerAssumption DEF Unaccepted
<1>4. /\ fd'[c] = f /\ connections_'[f] = c
      /\ \A d \in Conns : d # c => fd'[d] = fd[d]
      /\ \A e \in Fds : e # f => connections_'[e] = connections_[e]
  BY <1>1, <1>2 DEF HandleNewConnection, TypeOK
<1>5. ~Timed(c) /\ state[c] = "kConnecting"
  BY <1>2, <1>3 DEF LifeInv, Life, Established
<1>6. /\ next \in Loops /\ Base \in Loops
      /\ "ConnectionEstablished" \in Runs /\ "AddTimer" \notin Runs
      /\ state \in [Conns -> {"kConnecting", "kConnected", "kDisconnecting",
                              "kDisconnected"}]
      /\ timer \in [Conns -> {"none", "armed", "expired"}]
  BY <1>1, LoopsAre DEF TypeOK, Runs
<1>7. Kept(c)'
  BY <1>2, <1>4 DEF Kept
<1>8. CASE next # Base
  <2>1. /\ Queue(next, "ConnectionEstablished", c)
        /\ UNCHANGED <<state, reading, timer>>
    BY <1>8 DEF HandleNewConnection
  <2>2. \A k \in Loops, r \in Runs, d \in Conns :
          Waits(k, r, d)' <=> \/ Waits(k, r, d)
                              \/ k = next /\ r = "ConnectionEstablished" /\ d = c
    BY <1>1, <1>2, <1>6, <2>1, Queued
  <2>3. \A k \in Loops, d \in Conns :
          Waits(k, "AddTimer", d)' => Waits(k, "AddTimer", d)
    BY <1>1, <1>2, <1>6, <2>1, NoTimerComes
  <2>4. \A d \in Conns : Timed(d)' => Timed(d)
    BY <2>1, <2>3 DEF Timed
  <2>5. \A d \in Conns : Starting(d)' <=> Starting(d) \/ d = c
    BY <1>6, <2>2 DEF Starting
  <2>6. \A d \in Conns \ {c} : Kept(d)' <=> Kept(d)
    BY <1>2, <1>4, <2>2 DEF Kept
  <2>7. Accepts(c)
    BY <1>2, <1>3, <1>4, <1>5, <1>7, <2>1, <2>4, <2>5 DEF Accepts
  <2>8. \A d \in Conns \ {c} : Stands(d)
    BY <1>4, <2>1, <2>4, <2>5, <2>6 DEF Stands
  <2> QED
    BY <1>2, <2>6, <2>7, <2>8
<1>9. CASE next = Base
  <2>1. ConnectionEstablished(c, f) /\ loop'[c] = Base
    BY <1>1, <1>2, <1>6, <1>9 DEF HandleNewConnection, TypeOK
  <2>2. /\ to_do' = to_do
        /\ reading' = reading \cup {c}
        /\ state' = [state EXCEPT ![c] = "kConnected"]
        /\ timer' = timer \/ timer' = [timer EXCEPT ![c] = "armed"]
    BY <2>1 DEF ConnectionEstablished, EnableReading
  <2>3. \A l, run, d : Waits(l, run, d)' <=> Waits(l, run, d)
    BY <2>2 DEF Waits, Waiting
  <2>4. \A d \in Conns : Starting(d)' <=> Starting(d)
    BY <2>3 DEF Starting
  <2>5. ~Starting(c)
    BY <1>2, <1>6 DEF Starting
  <2>6. \A d \in Conns \ {c} : Kept(d)' <=> Kept(d)
    BY <1>2, <1>4, <2>3 DEF Kept
  <2>7. /\ state'[c] = "kConnected"
        /\ \A d \in Conns \ {c} : state'[d] = state[d] /\ timer'[d] = timer[d]
    BY <1>2, <1>6, <2>2
  <2>8. \A d \in Conns \ {c} : Timed(d)' => Timed(d)
    BY <2>3, <2>7 DEF Timed
  <2>9. Accepts(c)
    BY <1>2, <1>3, <1>4, <1>7, <2>2, <2>4, <2>5, <2>7 DEF Accepts
  <2>10. \A d \in Conns \ {c} : Stands(d)
    BY <1>4, <2>2, <2>4, <2>6, <2>7, <2>8 DEF Stands
  <2> QED
    BY <1>2, <2>6, <2>9, <2>10
<1> QED
  BY <1>8, <1>9

(* A connection whose channel is registered is established: it is read.    *)
LEMMA KnownIsEstablished ==
  ASSUME ServerInv, LifeInv, NEW c \in Conns, channel[c] # "kNew"
  PROVE  Established(c) /\ ~Starting(c)
<1>1. fd[c] \in Fds
  BY KnownIsKept DEF ServerInv, Connections
<1>2. ~Starting(c)
  BY DEF ServerInv, Places, OfFunctors, Starting
<1>3. Life(c) /\ NoFd \notin Fds
  BY TcpServerAssumption DEF LifeInv
<1> QED
  BY <1>1, <1>2, <1>3 DEF Life, Established

(* HandleClose ends the reading, and nothing else.                         *)
LEMMA HandleCloseCloses ==
  ASSUME ServerInv, LifeInv, NEW l \in Loops, NEW c \in Conns,
         c \in active[l], HandleClose(l, c),
         UNCHANGED <<functors, pc, called, held, loop, fd, timer, firing>>
  PROVE  /\ Closes(c)
         /\ \A d \in Conns \ {c} : Stands(d) /\ (Kept(d)' <=> Kept(d))
<1>1. TypeOK /\ Lists /\ OfChannel(c) /\ OfFunctors(c)
  BY DEF ServerInv, Places
<1>2. loop[c] = l /\ channel[c] = "kAdded" /\ Owned(c) /\ c \in reading
  BY <1>1 DEF OfChannel
<1>3. Established(c) /\ ~Starting(c)
  BY <1>2, KnownIsEstablished
<1>4. /\ connections_ \in [Fds -> Conns \cup {NoConn}]
      /\ state \in [Conns -> {"kConnecting", "kConnected", "kDisconnecting",
                              "kDisconnected"}]
      /\ loop[c] \in Loops /\ Base \in Loops
      /\ fd[c] \in Fds /\ connections_[fd[c]] = c
  BY <1>1, <1>2, LoopsAre DEF TypeOK, Owned
<1>5. /\ reading' = reading \ {c}
      /\ state' = [state EXCEPT ![c] = "kDisconnected"]
  BY DEF HandleClose, DisableAll
<1>6. PICK k \in Loops, run \in Runs \ {"ConnectionEstablished"} :
        /\ Queue(k, run, c)
        /\ \/ connections_' = connections_
           \/ connections_' = [connections_ EXCEPT ![fd[c]] = NoConn]
  BY <1>4 DEF HandleClose, HandleCloseInLoop, Runs
<1>7. \A m \in Loops, r \in Runs : ~Waits(m, r, c)
  BY <1>1, <1>2 DEF OfFunctors, Runs
<1>8. "ConnectionEstablished" \in Runs /\ "AddTimer" \notin Runs
  BY DEF Runs
<1>9. \A m \in Loops, r \in Runs, d \in Conns :
        Waits(m, r, d)' <=> Waits(m, r, d) \/ (m = k /\ r = run /\ d = c)
  BY <1>1, <1>6, <1>7, Queued
<1>10. \A m \in Loops, d \in Conns : Waits(m, "AddTimer", d)' => Waits(m, "AddTimer", d)
  BY <1>1, <1>6, NoTimerComes
<1>11. \A d \in Conns : Timed(d)' => Timed(d)
  BY <1>10 DEF Timed
<1>12. \A d \in Conns : Starting(d)' <=> Starting(d)
  BY <1>6, <1>8, <1>9 DEF Starting
<1>13. \A e \in Fds, d \in Conns \ {c} : connections_'[e] = d <=> connections_[e] = d
  BY <1>4, <1>6, TcpServerAssumption
<1>14. \A d \in Conns \ {c} : Kept(d)' <=> Kept(d)
  BY <1>9, <1>13 DEF Kept
<1>15. Kept(c)'
  BY <1>6, <1>9 DEF Kept
<1>16. Closes(c)
  BY <1>2, <1>3, <1>4, <1>5, <1>12, <1>15 DEF Closes
<1>17. \A d \in Conns \ {c} : Stands(d)
  BY <1>4, <1>5, <1>11, <1>12, <1>14 DEF Stands
<1> QED
  BY <1>14, <1>16, <1>17

(* A functor is called: it establishes its connection, and its loop will   *)
(* read it, or it leaves the lives of the connections as they are.         *)
LEMMA CallMoves ==
  ASSUME ServerInv, LifeInv, NEW l \in Loops, CallFunctor(l)
  PROVE  OneMoves
<1> PICK run, c : run = First(l).run /\ c = First(l).conn
  OBVIOUS
<1>1. TypeOK /\ Lists /\ Places /\ Connections
  BY DEF ServerInv, Connections
<1>2. Calls(l) /\ UNCHANGED <<fd, active, firing, held>>
  BY DEF CallFunctor, Calls, kernelVars
<1>3. /\ called' = IF run = "AddTimer" THEN called
                   ELSE [called EXCEPT ![l] = @ \cup {c}]
      /\ \/ /\ run = "ConnectionEstablished"
            /\ loop' = loop
            /\ ConnectionEstablished(c, fd[c])
            /\ UNCHANGED connections_
         \/ /\ run = "HandleCloseInLoop"
            /\ HandleCloseInLoop(c)
            /\ UNCHANGED <<connVars, timer>>
         \/ /\ run = "ConnectionDestructor"
            /\ ConnectionDestructor(c)
            /\ UNCHANGED <<loop, connections_, to_do, timer>>
         \/ /\ run = "AddTimer"
            /\ timer' = [timer EXCEPT ![c] = "armed"]
            /\ UNCHANGED <<connections_, connVars, to_do>>
  BY DEF CallFunctor, First
<1>4. /\ run \in Runs \cup {"AddTimer"} /\ c \in Conns
      /\ run \in Runs => Waits(l, run, c)
      /\ to_do' = to_do =>
           \A k \in Loops, r \in Runs, d \in Conns :
             Waits(k, r, d)' <=> Waits(k, r, d) /\ ~(k = l /\ run \in Runs /\ d = c)
      /\ \A m \in Loops, q \in Runs \cup {"AddTimer"} :
           ( /\ Queue(m, q, c)
             /\ q \in Runs =>
                  \A r \in Runs : Waits(m, r, c) => m = l /\ run \in Runs )
           => \A k \in Loops, r \in Runs, d \in Conns :
                Waits(k, r, d)' <=>
                  \/ Waits(k, r, d) /\ ~(k = l /\ run \in Runs /\ d = c)
                  \/ k = m /\ r = q /\ d = c
  <2>1. /\ First(l).run \in Runs \cup {"AddTimer"} /\ First(l).conn \in Conns
        /\ First(l).run \in Runs => Waits(l, First(l).run, First(l).conn)
    BY <1>1, <1>2, Called
  <2>2. to_do' = to_do =>
          \A k \in Loops, r \in Runs, d \in Conns :
            Waits(k, r, d)' <=> Waits(k, r, d) /\ ~(k = l /\ run \in Runs /\ d = c)
    BY <1>1, <1>2, Called
  <2>3. ASSUME NEW m \in Loops, NEW q \in Runs \cup {"AddTimer"}, Queue(m, q, c),
               q \in Runs =>
                 \A r \in Runs : Waits(m, r, c) => m = l /\ run \in Runs
        PROVE  \A k \in Loops, r \in Runs, d \in Conns :
                 Waits(k, r, d)' <=>
                   \/ Waits(k, r, d) /\ ~(k = l /\ run \in Runs /\ d = c)
                   \/ k = m /\ r = q /\ d = c
    BY <1>1, <1>2, <2>1, <2>3, Called
  <2> QED
    BY <2>1, <2>2, <2>3
<1>5. /\ Base \in Loops /\ loop[c] \in Loops
      /\ called \in [Loops -> SUBSET Conns]
      /\ state \in [Conns -> {"kConnecting", "kConnected", "kDisconnecting",
                              "kDisconnected"}]
      /\ timer \in [Conns -> {"none", "armed", "expired"}]
  BY <1>1, <1>4, LoopsAre DEF TypeOK
<1>6. OfChannel(c) /\ OfFunctors(c) /\ Life(c)
  BY <1>1, <1>4 DEF Places, LifeInv
<1>7. run # "AddTimer" => \A k \in Loops, d \in Conns :
        d \in called'[k] <=> d \in called[k] \/ (k = l /\ d = c)
  BY <1>3, <1>4, <1>5
<1>8. CASE run = "ConnectionEstablished"
  <2>1. /\ ConnectionEstablished(c, fd[c])
        /\ connections_' = connections_
        /\ run \in Runs /\ "AddTimer" \notin Runs
    BY <1>3, <1>8 DEF Runs
  <2>2. /\ state'[c] = "kConnected"
        /\ \A d \in Conns \ {c} : state'[d] = state[d] /\ timer'[d] = timer[d]
        /\ reading' = reading \cup {c}
        /\ to_do' = to_do \/ Queue(Base, "AddTimer", c)
    BY <1>4, <1>5, <2>1 DEF ConnectionEstablished, EnableReading
  <2>3. \A k \in Loops, r \in Runs, d \in Conns :
          Waits(k, r, d)' <=> Waits(k, r, d) /\ ~(k = l /\ d = c)
    <3>1. CASE to_do' = to_do
      BY <1>4, <2>1, <3>1
    <3>2. CASE Queue(Base, "AddTimer", c)
      <4>1. \A k \in Loops, r \in Runs, d \in Conns :
              Waits(k, r, d)' <=>
                \/ Waits(k, r, d) /\ ~(k = l /\ run \in Runs /\ d = c)
                \/ k = Base /\ r = "AddTimer" /\ d = c
        BY <1>4, <1>5, <2>1, <3>2
      <4> QED
        BY <2>1, <4>1
    <3> QED
      BY <2>2, <3>1, <3>2
  <2>4. Waits(l, run, c) /\ l = loop[c]
    BY <1>1, <1>4, <1>6, <1>8, <2>1 DEF OfFunctors
  <2>5. Starting(c) /\ ~Starting(c)'
    <3>1. \A k \in Loops : Waits(k, run, c) => k = l
      BY <1>6, <1>8, <2>4 DEF OfFunctors
    <3> QED
      BY <1>4, <1>8, <2>1, <2>3, <2>4, <3>1 DEF Starting
  <2>6. \A d \in Conns \ {c} : Starting(d)' <=> Starting(d)
    BY <1>8, <2>1, <2>3 DEF Starting
  <2>7. ASSUME NEW d \in Conns \ {c} PROVE Kept(d)' <=> Kept(d)
    <3>1. \A k \in Loops, r \in Runs : Waits(k, r, d)' <=> Waits(k, r, d)
      BY <2>3
    <3>2. \A k \in Loops : d \in called'[k] <=> d \in called[k]
      BY <1>7, <1>8
    <3> QED
      BY <1>2, <2>1, <3>1, <3>2 DEF Kept
  <2>8. Kept(c)'
    BY <1>4, <1>7, <1>8 DEF Kept
  <2>9. \A k \in Loops, d \in Conns \ {c} :
          Waits(k, "AddTimer", d)' => Waits(k, "AddTimer", d)
    <3> SUFFICES ASSUME NEW k \in Loops, NEW d \in Conns \ {c},
                        Waits(k, "AddTimer", d)'
                 PROVE  Waits(k, "AddTimer", d)
      OBVIOUS
    <3>1. IsIn(Entry("AddTimer", d), Waiting'[k])
      BY DEF Waits
    <3>2. \/ IsIn(Entry("AddTimer", d), Waiting[k])
          \/ Entry("AddTimer", d) = Entry("AddTimer", c)
      <4>1. "AddTimer" \in Runs \cup {"AddTimer"} /\ c \in Conns
        BY <1>4
      <4>2. TypeOK /\ Calls(l) /\ Base \in Loops
        BY <1>1, <1>2, <1>5
      <4> QED
        BY <2>2, <3>1, <4>1, <4>2, NothingElseComes
    <3>3. Entry("AddTimer", d).conn # Entry("AddTimer", c).conn
      BY EntryOf
    <3> QED
      BY <3>2, <3>3 DEF Waits
  <2>10. \A d \in Conns \ {c} : Timed(d)' => Timed(d)
    BY <1>2, <2>2, <2>9 DEF Timed
  <2>11. Establishes(c)
    BY <1>2, <2>2, <2>5, <2>8 DEF Establishes
  <2>12. \A d \in Conns \ {c} : Stands(d)
    BY <1>2, <2>2, <2>6, <2>7, <2>10 DEF Stands
  <2> QED
    BY <1>4, <2>7, <2>11, <2>12 DEF OneMoves, Moves
<1>9. CASE run = "HandleCloseInLoop"
  <2>1. /\ Queue(loop[c], "ConnectionDestructor", c)
        /\ connections_' = [connections_ EXCEPT ![fd[c]] = NoConn]
        /\ UNCHANGED <<reading, state, timer>>
        /\ run \in Runs /\ "ConnectionDestructor" \in Runs
    BY <1>3, <1>9 DEF HandleCloseInLoop, connVars, Runs
  <2>2. Waits(l, run, c) /\ l = Base /\ channel[c] = "kDeleted" /\ Owned(c)
    BY <1>4, <1>6, <1>9, <2>1 DEF OfFunctors
  <2>3. \A r \in Runs : Waits(loop[c], r, c) => loop[c] = l
    BY <1>5, <1>6, <2>2 DEF OfFunctors, Runs
  <2>4. \A k \in Loops, r \in Runs, d \in Conns :
          Waits(k, r, d)' <=>
            \/ Waits(k, r, d) /\ ~(k = l /\ d = c)
            \/ k = loop[c] /\ r = "ConnectionDestructor" /\ d = c
    <3>1. \A k \in Loops, r \in Runs, d \in Conns :
            Waits(k, r, d)' <=>
              \/ Waits(k, r, d) /\ ~(k = l /\ run \in Runs /\ d = c)
              \/ k = loop[c] /\ r = "ConnectionDestructor" /\ d = c
      BY <1>4, <1>5, <2>1, <2>3
    <3> QED
      BY <2>1, <3>1
  <2>5. ~Starting(c) /\ "ConnectionEstablished" \in Runs
    BY <2>2, KnownIsEstablished, <1>4 DEF Runs
  <2>6. \A d \in Conns : Starting(d)' <=> Starting(d)
    BY <2>4, <2>5 DEF Starting
  <2>7. \A d \in Conns : Kept(d)' => Kept(d)
    <3>1. \A e \in Fds, d \in Conns : connections_'[e] = d => connections_[e] = d
      BY <1>1, <2>1, TcpServerAssumption DEF TypeOK
    <3>2. Kept(c)
      BY <1>4, <2>1 DEF Kept
    <3> QED
      BY <1>2, <1>7, <1>9, <2>4, <3>1, <3>2 DEF Kept
  <2>8. \A k \in Loops, d \in Conns :
          Waits(k, "AddTimer", d)' => Waits(k, "AddTimer", d)
    BY <1>1, <1>2, <1>4, <1>5, <2>1, NoTimerComes
  <2>9. \A d \in Conns : Timed(d)' => Timed(d)
    BY <1>2, <2>1, <2>8 DEF Timed
  <2> QED
    BY <1>2, <2>1, <2>6, <2>7, <2>9 DEF OneMoves, Stands
<1>10. CASE run = "ConnectionDestructor"
  <2>1. /\ state' = [state EXCEPT ![c] = "kDisconnected"]
        /\ reading' = reading \ {c}
        /\ UNCHANGED <<connections_, to_do, timer>>
        /\ run \in Runs
    BY <1>3, <1>10 DEF ConnectionDestructor, Runs
  <2>2. Waits(l, run, c) /\ channel[c] = "kDeleted" /\ c \notin reading
    BY <1>4, <1>6, <1>10, <2>1 DEF OfFunctors, OfChannel
  <2>3. \A k \in Loops, r \in Runs, d \in Conns :
          Waits(k, r, d)' <=> Waits(k, r, d) /\ ~(k = l /\ d = c)
    BY <1>4, <2>1
  <2>4. Established(c) /\ ~Starting(c) /\ "ConnectionEstablished" \in Runs
    BY <2>2, KnownIsEstablished, <1>4 DEF Runs
  <2>5. \A d \in Conns : Starting(d)' <=> Starting(d)
    BY <2>3, <2>4 DEF Starting
  <2>6. \A d \in Conns : Kept(d)' => Kept(d)
    <3>1. Kept(c)
      BY <1>4, <2>1 DEF Kept
    <3> QED
      BY <1>2, <1>7, <1>10, <2>1, <2>3, <3>1 DEF Kept
  <2>7. \A k \in Loops, d \in Conns :
          Waits(k, "AddTimer", d)' => Waits(k, "AddTimer", d)
    BY <1>1, <1>2, <1>4, <1>5, <2>1, NoTimerComes
  <2>8. \A d \in Conns : Timed(d)' => Timed(d)
    BY <1>2, <2>1, <2>7 DEF Timed
  <2>9. \A d \in Conns : \/ state'[d] = state[d]
                         \/ Established(d) /\ state'[d] # "kConnecting"
    BY <1>4, <1>5, <2>1, <2>4
  <2> QED
    BY <1>2, <2>1, <2>2, <2>5, <2>6, <2>8, <2>9 DEF OneMoves, Stands
<1>11. CASE run = "AddTimer"
  <2>1. /\ UNCHANGED <<connections_, reading, state, to_do, called>>
        /\ timer' = [timer EXCEPT ![c] = "armed"]
        /\ run \notin Runs
    BY <1>3, <1>11 DEF connVars, Runs
  <2>2. \A k \in Loops, r \in Runs, d \in Conns : Waits(k, r, d)' <=> Waits(k, r, d)
    BY <1>4, <2>1
  <2>3. \A d \in Conns : Starting(d)' <=> Starting(d)
    BY <2>2 DEF Starting, Runs
  <2>4. \A d \in Conns : Kept(d)' => Kept(d)
    BY <1>2, <2>1, <2>2 DEF Kept
  <2>5. \A k \in Loops, d \in Conns :
          Waits(k, "AddTimer", d)' => Waits(k, "AddTimer", d)
    <3>1. "HandleCloseInLoop" \in Runs
      BY DEF Runs
    <3> QED
      BY <1>1, <1>2, <1>4, <1>5, <2>1, <3>1, NoTimerComes
  <2>6. Timed(c)
    <3>1. First(l) = Entry("AddTimer", c) /\ IsIn(First(l), Waiting[l])
      <4>1. functors[l] \in Seq(Functor) /\ to_do[l] \in Seq(Functor)
        BY <1>1, WaitingType
      <4>2. functors[l] # <<>> /\ First(l) = Head(functors[l])
        BY <1>2 DEF Calls, First
      <4>3. First(l) \in Functor /\ IsIn(First(l), functors[l])
        <5>1. Head(functors[l]) \in Functor /\ Head(functors[l]) = functors[l][1]
          BY <4>1, <4>2, HeadTailProperties
        <5>2. 1 \in 1..Len(functors[l])
          BY <4>1, <4>2, EmptySeq, LenProperties
        <5> QED
          BY <4>2, <5>1, <5>2 DEF IsIn
      <4>4. First(l) = Entry("AddTimer", c)
        BY <1>11, <4>3, EntryOf
      <4> QED
        BY <4>1, <4>3, <4>4, TwoLists DEF Waiting
    <3> QED
      BY <3>1 DEF Timed, Waits
  <2>7. \A d \in Conns : Timed(d)' => Timed(d)
    BY <1>2, <1>5, <2>1, <2>5, <2>6 DEF Timed
  <2> QED
    BY <1>2, <2>1, <2>3, <2>4, <2>7 DEF OneMoves, Stands
<1> QED
  BY <1>3, <1>8, <1>9, <1>10, <1>11

(* Every step moves at most one connection.                                *)
LEMMA NextMoves ==
  ASSUME ServerInv, LifeInv, Next
  PROVE  OneMoves
<1>1. TypeOK /\ Lists /\ Places /\ Connections
  BY DEF ServerInv, Connections
<1>2. /\ state \in [Conns -> {"kConnecting", "kConnected", "kDisconnecting",
                              "kDisconnected"}]
      /\ timer \in [Conns -> {"none", "armed", "expired"}]
      /\ called \in [Loops -> SUBSET Conns]
      /\ firing \subseteq Conns /\ recent \subseteq Conns
      /\ held \in Conns \cup {NoConn}
  BY <1>1 DEF TypeOK
<1>3. \A c \in Conns : (Alive(c) <=> Kept(c)) /\ (held = c => Kept(c))
  BY <1>1, KeptIsAlive DEF Kept
<1>4. \A l \in Loops, c \in Conns : c \in called[l] => Kept(c)
  BY DEF Kept
<1>5. \A c \in Conns : Timed(c) => Established(c)
  BY DEF LifeInv, Life
<1>6. ASSUME Waiting' = Waiting, UNCHANGED <<fd, reading, connections_>>,
             \A l \in Loops, c \in Conns : c \in called'[l] => c \in called[l],
             \A c \in Conns : held' = c => Kept(c),
             \A c \in Conns : \/ state'[c] = state[c]
                              \/ Established(c) /\ state'[c] # "kConnecting",
             \A c \in Conns :
               timer'[c] # "none" \/ c \in firing' \/ held' = c => Timed(c)
      PROVE  OneMoves
  BY <1>4, <1>6, QuietStep DEF OneMoves
<1>7. \A c \in Conns : timer[c] # "none" \/ c \in firing \/ held = c => Timed(c)
  BY DEF Timed
<1>8. ASSUME NEW c \in Conns, PeerConnects(c) \/ PeerSends(c) \/ PeerCloses(c)
      PROVE  OneMoves
  <2>1. UNCHANGED <<fd, serverVars, connVars, loopVars, timerVars>>
    BY <1>8 DEF PeerConnects, PeerSends, PeerCloses
  <2> QED
    BY <1>3, <1>6, <1>7, <2>1 DEF serverVars, connVars, loopVars, timerVars, Waiting
<1>9. ASSUME NEW c \in Conns, Expire(c) PROVE OneMoves
  <2>1. /\ UNCHANGED <<kernelVars, serverVars, connVars, loopVars, firing, held>>
        /\ \A d \in Conns : timer'[d] # "none" => timer[d] # "none"
    BY <1>2, <1>9 DEF Expire
  <2> QED
    BY <1>3, <1>6, <1>7, <2>1 DEF kernelVars, serverVars, connVars, loopVars, Waiting
<1>10. ASSUME NEW l \in Loops, Poll(l) \/ DoToDoList(l) \/ EndToDoList(l)
       PROVE  OneMoves
  <2>1. /\ UNCHANGED <<kernelVars, serverVars, connVars, timerVars>>
        /\ \A k \in Loops, c \in Conns : c \in called'[k] => c \in called[k]
    BY <1>2, <1>10 DEF Poll, DoToDoList, EndToDoList
  <2>2. Waiting' = Waiting
    BY <1>1, <1>10, SwapKeeps DEF Poll, EndToDoList, Waiting
  <2> QED
    BY <1>3, <1>6, <1>7, <2>1, <2>2 DEF kernelVars, serverVars, connVars, timerVars
<1>11. ASSUME NewConnection PROVE OneMoves
  <2>1. PICK c \in backlog : Refuse(c) \/ \E f \in FreeFds : HandleNewConnection(c, f)
    BY <1>11 DEF NewConnection, RefuseWithIdleFd
  <2>2. UNCHANGED <<pc, functors, called, firing, held>>
    BY <1>11 DEF NewConnection, Handles
  <2>3. CASE Refuse(c)
    BY <1>3, <1>6, <1>7, <2>2, <2>3 DEF Refuse, serverVars, connVars, Waiting
  <2>4. ASSUME NEW f \in FreeFds, HandleNewConnection(c, f) PROVE OneMoves
    BY <2>2, <2>4, NewConnectionAccepts DEF OneMoves, Moves
  <2> QED
    BY <2>1, <2>3, <2>4
<1>12. ASSUME NEW l \in Loops, NEW c \in Conns, HandleMessage(l, c) PROVE OneMoves
  <2>1. /\ UNCHANGED <<functors, pc, called, held, loop, fd, timer, firing>>
        /\ c \in active[l]
        /\ HandleClose(l, c) \/ MessageCallback(c)
    BY <1>12 DEF HandleMessage, Handles
  <2>2. CASE HandleClose(l, c)
    BY <2>1, <2>2, HandleCloseCloses DEF OneMoves, Moves
  <2>3. CASE MessageCallback(c)
    <3>1. Established(c)
      BY <1>1, <2>1, KnownIsEstablished DEF Places, OfChannel
    <3>2. /\ UNCHANGED <<connections_, to_do, reading>>
          /\ \A d \in Conns : \/ state'[d] = state[d]
                              \/ Established(d) /\ state'[d] # "kConnecting"
      BY <1>2, <2>3, <3>1 DEF MessageCallback
    <3> QED
      BY <1>3, <1>6, <1>7, <2>1, <3>2 DEF Waiting
  <2> QED
    BY <2>1, <2>2, <2>3
<1>13. ASSUME TakeExpired PROVE OneMoves
  <2>1. /\ UNCHANGED <<kernelVars, serverVars, connVars, to_do, functors, called, held>>
        /\ \A c \in Conns : timer'[c] # "none" \/ c \in firing' => timer[c] # "none"
    BY <1>2, <1>13 DEF TakeExpired, Handles
  <2> QED
    BY <1>3, <1>6, <1>7, <2>1 DEF kernelVars, serverVars, connVars, Waiting
<1>14. ASSUME HandleIdleConnection PROVE OneMoves
  <2>1. /\ UNCHANGED <<kernelVars, serverVars, reading, loopVars>>
        /\ \A c \in Conns : held' = c => Alive(c)
        /\ \A c \in Conns : timer'[c] # "none" \/ c \in firing' \/ held' = c =>
                              timer[c] # "none" \/ c \in firing \/ held = c
        /\ \A c \in Conns : \/ state'[c] = state[c]
                            \/ held = c /\ state'[c] # "kConnecting"
    BY <1>2, <1>14, TcpServerAssumption DEF HandleIdleConnection, LockConnection,
       ShutdownIdle, RearmTimer, connVars
  <2>2. \A c \in Conns : held = c => Established(c)
    BY <1>5, <1>7
  <2> QED
    BY <1>3, <1>6, <1>7, <2>1, <2>2 DEF kernelVars, serverVars, loopVars, Waiting
<1> QED
  BY <1>8, <1>9, <1>10, <1>11, <1>12, <1>13, <1>14, CallMoves DEF Next, LoopThread

(* A server that does nothing leaves every connection where it is.         *)
LEMMA StepMoves ==
  ASSUME ServerInv, LifeInv, [Next]_vars
  PROVE  OneMoves
<1>1. CASE Next
  BY <1>1, NextMoves
<1>2. CASE UNCHANGED vars
  <2>1. UNCHANGED <<fd, reading, state, connections_, called, held, timer, firing>>
    BY <1>2 DEF vars, kernelVars, serverVars, connVars, loopVars, timerVars
  <2>2. \A l, run, c : Waits(l, run, c)' <=> Waits(l, run, c)
    BY <1>2 DEF vars, loopVars, Waits, Waiting
  <2> QED
    BY <2>1, <2>2 DEF OneMoves, Stands, Starting, Kept, Timed
<1> QED
  BY <1>1, <1>2

(* No connection is in a state its life does not allow.                    *)
LEMMA LifeInit == Init => LifeInv
<1> SUFFICES ASSUME Init PROVE LifeInv
  OBVIOUS
<1>1. \A l \in Loops : Waiting[l] = <<>> /\ Len(Waiting[l]) = 0
  BY DEF Init, Waiting
<1>2. \A l \in Loops : \A run, c : ~Waits(l, run, c)
  BY <1>1 DEF Waits, IsIn
<1>3. \A c \in Conns : ~Timed(c) /\ ~Starting(c)
  BY <1>2, TcpServerAssumption DEF Timed, Starting, Init
<1> QED
  BY <1>3 DEF LifeInv, Life, Init

(* And no step brings one there.                                           *)
LEMMA LifeNext ==
  ASSUME ServerInv, LifeInv, [Next]_vars
  PROVE  LifeInv'
<1> SUFFICES ASSUME NEW c \in Conns PROVE Life(c)'
  BY DEF LifeInv
<1>1. NoFd \notin Fds
  BY TcpServerAssumption
<1>2. Life(c) /\ (Starting(c) => fd[c] \in Fds) /\ (c \in reading => fd[c] \in Fds)
  BY LifeFacts DEF LifeInv
<1>3. ASSUME Stands(c) PROVE Life(c)'
  BY <1>1, <1>2, <1>3 DEF Stands, Life, Established
<1>4. ASSUME Moves(c) PROVE Life(c)'
  <2>1. CASE Accepts(c)
    BY <1>1, <2>1 DEF Accepts, Life, Established
  <2>2. CASE Establishes(c)
    BY <1>1, <1>2, <2>2 DEF Establishes, Life, Established
  <2>3. CASE Closes(c)
    BY <1>1, <1>2, <2>3 DEF Closes, Life, Established
  <2> QED
    BY <1>4, <2>1, <2>2, <2>3 DEF Moves
<1>5. Stands(c) \/ Moves(c)
  BY StepMoves DEF OneMoves
<1> QED
  BY <1>3, <1>4, <1>5

-----------------------------------------------------------------------------
(* The refinement of ConnectionLifecycle.                                  *)

\* Who is alive is who is kept, and nobody is without a descriptor.
KeptAreAlive ==
  \A c \in Conns : (Alive(c) <=> Kept(c)) /\ (fd[c] = NoFd => ~Alive(c))

(* The invariant says so.                                                  *)
LEMMA Alives == ServerInv => KeptAreAlive
BY KeptIsAlive, TcpServerAssumption DEF ServerInv, OwnFds, KeptAreAlive

(* The same, after a step.                                                *)
LEMMA AlivesNext == ServerInv' => KeptAreAlive'
BY Alives, PTL

\* The descriptor of c, while it is open.
Holds(c) == IF Alive(c) THEN fd[c] ELSE NoFd

(* A connection that stands keeps its phase, unless it is destroyed.       *)
LEMMA StandsPhase ==
  ASSUME ServerInv, ServerInv', LifeInv, NEW c \in Conns, Stands(c)
  PROVE  /\ (Kept(c)' <=> Kept(c)) => Phase(c)' = Phase(c) /\ Holds(c)' = Holds(c)
         /\ ~(Kept(c)' <=> Kept(c)) => /\ Phase(c) = "closed" /\ Phase(c)' = "gone"
                                       /\ Holds(c)' = NoFd
<1>1. Life(c) /\ NoFd \notin Fds
  BY TcpServerAssumption DEF LifeInv
<1>2. /\ Starting(c) => Kept(c) /\ c \notin reading
      /\ c \in reading => Kept(c)
      /\ Kept(c) => fd[c] \in Fds
  BY LifeFacts
<1>3. /\ Starting(c)' => Kept(c)'
      /\ c \in reading' => Kept(c)'
  BY DEF ServerInv, Places, OfChannel, Owned, Starting, Kept, Runs
<1>4. state'[c] = "kConnecting" <=> state[c] = "kConnecting"
  BY DEF Stands, Established
<1>5. fd'[c] = fd[c] /\ (c \in reading' <=> c \in reading)
  BY DEF Stands
<1>6. (Alive(c) <=> Kept(c)) /\ (Alive(c)' <=> Kept(c)')
  BY Alives, AlivesNext DEF KeptAreAlive
<1>7. ASSUME Kept(c)' <=> Kept(c)
      PROVE  Phase(c)' = Phase(c) /\ Holds(c)' = Holds(c)
  BY <1>4, <1>5, <1>6, <1>7 DEF Phase, Holds
<1>8. ASSUME ~(Kept(c)' <=> Kept(c))
      PROVE  Phase(c) = "closed" /\ Phase(c)' = "gone" /\ Holds(c)' = NoFd
  <2>1. Kept(c) /\ ~Kept(c)' /\ fd[c] \in Fds
    BY <1>2, <1>8 DEF Stands
  <2>2. c \notin reading /\ ~Starting(c)
    BY <1>3, <2>1 DEF Stands
  <2>3. state[c] # "kConnecting"
    BY <1>1, <2>1, <2>2 DEF Life
  <2> QED
    BY <1>1, <1>5, <1>6, <2>1, <2>2, <2>3 DEF Phase, Holds
<1> QED
  BY <1>7, <1>8

(* A connection that moves takes one step of the promised life.            *)
LEMMA MovesPhase ==
  ASSUME ServerInv, ServerInv', LifeInv, NEW c \in Conns
  PROVE  /\ Accepts(c) => /\ Phase(c) = "none"
                          /\ Phase(c)' \in {"accepted", "reading"}
                          /\ Holds(c)' \in Fds
                          /\ \A d \in Conns : Holds(d) # Holds(c)'
         /\ Establishes(c) => /\ Phase(c) = "accepted" /\ Phase(c)' = "reading"
                              /\ Holds(c)' = Holds(c)
         /\ Closes(c) => /\ Phase(c) = "reading" /\ Phase(c)' = "closed"
                         /\ Holds(c)' = Holds(c)
<1>1. Life(c) /\ NoFd \notin Fds
  BY TcpServerAssumption DEF LifeInv
<1>2. /\ Starting(c) => Kept(c) /\ c \notin reading
      /\ c \in reading => Kept(c)
      /\ Kept(c) => fd[c] \in Fds
  BY LifeFacts
<1>3. /\ \A d \in Conns : Alive(d) <=> Kept(d)
      /\ Alive(c)' <=> Kept(c)'
  BY Alives, AlivesNext DEF KeptAreAlive
<1>4. ASSUME Accepts(c)
      PROVE  /\ Phase(c) = "none"
             /\ Phase(c)' \in {"accepted", "reading"}
             /\ Holds(c)' \in Fds
             /\ \A d \in Conns : Holds(d) # Holds(c)'
  BY <1>1, <1>3, <1>4 DEF Accepts, Phase, Holds
<1>5. ASSUME Establishes(c)
      PROVE  /\ Phase(c) = "accepted" /\ Phase(c)' = "reading"
             /\ Holds(c)' = Holds(c)
  BY <1>1, <1>2, <1>3, <1>5 DEF Establishes, Life, Phase, Holds
<1>6. ASSUME Closes(c)
      PROVE  /\ Phase(c) = "reading" /\ Phase(c)' = "closed"
             /\ Holds(c)' = Holds(c)
  BY <1>1, <1>2, <1>3, <1>6 DEF Closes, Phase, Holds
<1> QED
  BY <1>4, <1>5, <1>6

(* Every step is one of the promised life, or none.                        *)
LEMMA LifecycleStep ==
  ASSUME ServerInv, ServerInv', LifeInv, [Next]_vars
  PROVE  [Lifecycle!Next]_(Lifecycle!vars)
<1> DEFINE phase == [c \in Conns |-> Phase(c)]
           owned == [c \in Conns |-> Holds(c)]
<1>1. CASE \A d \in Conns : Stands(d)
  <2> PICK S : S = {d \in Conns : ~(Kept(d)' <=> Kept(d))}
    OBVIOUS
  <2>1. /\ \A d \in S : Phase(d) = "closed" /\ Phase(d)' = "gone" /\ Holds(d)' = NoFd
        /\ \A d \in Conns \ S : Phase(d)' = Phase(d) /\ Holds(d)' = Holds(d)
    BY <1>1, StandsPhase
  <2>2. S \in SUBSET Conns
    OBVIOUS
  <2>3. CASE S = {}
    <3>1. UNCHANGED <<phase, owned>>
      BY <2>1, <2>3
    <3> QED
      BY <3>1 DEF Lifecycle!vars, Holds
  <2>4. CASE S # {}
    <3>1. /\ \A c \in S : phase[c] = "closed"
          /\ phase' = [c \in Conns |-> IF c \in S THEN "gone" ELSE phase[c]]
          /\ owned' = [c \in Conns |-> IF c \in S THEN NoFd ELSE owned[c]]
      BY <2>1, <2>2
    <3>2. Lifecycle!Destroy(S)
      BY <2>4, <3>1 DEF Lifecycle!Destroy, Holds
    <3> QED
      BY <2>2, <3>2 DEF Lifecycle!Next
  <2> QED
    BY <2>3, <2>4
<1>2. ASSUME NEW c \in Conns, Moves(c),
             \A d \in Conns \ {c} : Stands(d) /\ (Kept(d)' <=> Kept(d))
      PROVE  Lifecycle!Next
  <2>1. \A d \in Conns \ {c} : Phase(d)' = Phase(d) /\ Holds(d)' = Holds(d)
    BY <1>2, StandsPhase
  <2>2. /\ phase' = [phase EXCEPT ![c] = Phase(c)']
        /\ owned' = [owned EXCEPT ![c] = Holds(c)']
        /\ phase[c] = Phase(c) /\ owned[c] = Holds(c)
        /\ \A d \in Conns : owned[d] = Holds(d)
    BY <2>1
  <2>3. Holds(c)' = Holds(c) => owned' = owned
    BY <2>1
  <2>4. CASE Accepts(c)
    <3>1. \E f \in Fds, to \in {"accepted", "reading"} :
            /\ \A d \in Conns : owned[d] # f
            /\ phase' = [phase EXCEPT ![c] = to]
            /\ owned' = [owned EXCEPT ![c] = f]
      BY <2>2, <2>4, MovesPhase
    <3>2. phase[c] = "none"
      BY <2>2, <2>4, MovesPhase
    <3>3. Lifecycle!Accept(c)
      BY <3>1, <3>2 DEF Lifecycle!Accept, Holds
    <3> QED
      BY <3>3 DEF Lifecycle!Next
  <2>5. CASE Establishes(c)
    <3>1. /\ phase[c] = "accepted"
          /\ phase' = [phase EXCEPT ![c] = "reading"]
          /\ owned' = owned
      BY <2>2, <2>3, <2>5, MovesPhase
    <3>2. Lifecycle!Establish(c)
      BY <3>1 DEF Lifecycle!Establish, Lifecycle!Advance, Holds
    <3> QED
      BY <3>2 DEF Lifecycle!Next
  <2>6. CASE Closes(c)
    <3>1. /\ phase[c] = "reading"
          /\ phase' = [phase EXCEPT ![c] = "closed"]
          /\ owned' = owned
      BY <2>2, <2>3, <2>6, MovesPhase
    <3>2. Lifecycle!Close(c)
      BY <3>1 DEF Lifecycle!Close, Lifecycle!Advance, Holds
    <3> QED
      BY <3>2 DEF Lifecycle!Next
  <2> QED
    BY <1>2, <2>4, <2>5, <2>6 DEF Moves
<1>3. OneMoves
  BY StepMoves
<1> QED
  BY <1>1, <1>2, <1>3 DEF OneMoves

(* Before the server starts, nobody is connected.                          *)
LEMMA LifecycleInit == Init => Lifecycle!Init
<1> SUFFICES ASSUME Init PROVE Lifecycle!Init
  OBVIOUS
<1>1. \A c \in Conns : fd[c] = NoFd
  BY DEF Init
<1>2. /\ [c \in Conns |-> Phase(c)] = [c \in Conns |-> "none"]
      /\ [c \in Conns |-> IF Alive(c) THEN fd[c] ELSE NoFd] = [c \in Conns |-> NoFd]
  BY <1>1 DEF Phase
<1> QED
  BY <1>2 DEF Lifecycle!Init

(* Every behaviour of the server is one of ConnectionLifecycle: for any    *)
(* numbers of connections, descriptors and loops, each connection gets a   *)
(* descriptor nobody else has, is read only between its establishment and  *)
(* its close, and is destroyed once, after the close, wherever its last    *)
(* reference dies.                                                         *)
THEOREM ServerImplementsLifecycle == Spec => ImplementsLifecycle
<1>1. Init => LifeInv
  BY LifeInit
<1>2. ServerInv /\ LifeInv /\ [Next]_vars => LifeInv'
  BY LifeNext
<1>3. Init => Lifecycle!Init
  BY LifecycleInit
<1>4. ServerInv /\ ServerInv' /\ LifeInv /\ [Next]_vars
        => [Lifecycle!Next]_(Lifecycle!vars)
  BY LifecycleStep
<1> QED
  BY <1>1, <1>2, <1>3, <1>4, ServerInvariant, PTL
     DEF Spec, ImplementsLifecycle, Lifecycle!Spec

=============================================================================
