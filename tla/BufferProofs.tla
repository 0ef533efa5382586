---------------------------- MODULE BufferProofs ----------------------------
(***************************************************************************)
(* Buffer, for vectors, messages and bounds of any size: the indices stay  *)
(* in order, the vector does not grow without need, and the users see a    *)
(* queue of bytes.                                                         *)
(***************************************************************************)
EXTENDS Buffer, SequenceTheorems, TLAPS

USE DEF readablebytes, writablebytes

(* Two buffers with the same readable bytes have the same contents.        *)
LEMMA SameContent ==
  ASSUME NEW x, NEW y,
         readablebytes(x) = readablebytes(y),
         \A i \in 1..readablebytes(x) :
           x.data[x.read + (i - 1)] = y.data[y.read + (i - 1)]
  PROVE  ContentOf(x) = ContentOf(y)
BY DEF ContentOf

(* The contents are a sequence of as many bytes as are readable.           *)
LEMMA ContentIsSeq ==
  ASSUME NEW x, IsBuffer(x)
  PROVE  /\ readablebytes(x) \in Nat
         /\ ContentOf(x) \in Seq(Byte)
         /\ Len(ContentOf(x)) = readablebytes(x)
         /\ \A i \in 1..readablebytes(x) :
              ContentOf(x)[i] = x.data[x.read + (i - 1)]
<1> USE DEF IsBuffer
<1>1. readablebytes(x) \in Nat
  OBVIOUS
<1>2. ASSUME NEW i \in 1..readablebytes(x)
      PROVE  x.data[x.read + (i - 1)] \in Byte
  <2>1. x.read + (i - 1) \in 0..(x.size - 1)
    OBVIOUS
  <2> QED
    BY <2>1
<1> DEFINE n == readablebytes(x)
           C == ContentOf(x)
<1>3. /\ C \in [1..n -> Byte]
      /\ \A i \in 1..n : C[i] = x.data[x.read + (i - 1)]
  BY <1>2 DEF ContentOf
<1> HIDE DEF n, C
<1>4. C \in Seq(Byte)
  BY <1>1, <1>3, SeqDef DEF n
<1>5. Len(C) = n
  BY <1>1, <1>3, <1>4, LenProperties DEF n
<1> QED
  BY <1>1, <1>3, <1>4, <1>5 DEF n, C

(* MoveDown changes where the contents are and not what they are, and all  *)
(* the room is then behind them (buffer.h:112-114).                        *)
LEMMA MoveDownKeepsContent ==
  ASSUME NEW buf, IsBuffer(buf)
  PROVE  LET moved == MoveDown(buf) IN
         /\ IsBuffer(moved)
         /\ ContentOf(moved) = ContentOf(buf)
         /\ moved.size = buf.size
         /\ moved.read = kPrePendIndex
         /\ moved.write = kPrePendIndex + readablebytes(buf)
<1> USE DEF IsBuffer
<1>0. kPrePendIndex \in Nat /\ Zero \in Byte
  BY BufferAssumption
<1> DEFINE moved == MoveDown(buf)
           Data == [i \in 0..(buf.size - 1) |->
                      IF /\ kPrePendIndex <= i
                         /\ i < kPrePendIndex + readablebytes(buf)
                      THEN buf.data[buf.read + (i - kPrePendIndex)]
                      ELSE buf.data[i]]
<1>1. /\ moved.data = Data
      /\ moved.size = buf.size
      /\ moved.read = kPrePendIndex
      /\ moved.write = kPrePendIndex + readablebytes(buf)
  BY DEF MoveDown
<1>2. Data \in [0..(buf.size - 1) -> Byte]
  <2>1. ASSUME NEW i \in 0..(buf.size - 1),
               kPrePendIndex <= i, i < kPrePendIndex + readablebytes(buf)
        PROVE  buf.data[buf.read + (i - kPrePendIndex)] \in Byte
    <3>1. buf.read + (i - kPrePendIndex) \in 0..(buf.size - 1)
      BY <1>0, <2>1
    <3> QED
      BY <3>1
  <2> QED
    BY <2>1
<1>3. ASSUME NEW i \in 1..readablebytes(buf)
      PROVE  Data[kPrePendIndex + (i - 1)] = buf.data[buf.read + (i - 1)]
  <2>1. /\ kPrePendIndex + (i - 1) \in 0..(buf.size - 1)
        /\ kPrePendIndex <= kPrePendIndex + (i - 1)
        /\ kPrePendIndex + (i - 1) < kPrePendIndex + readablebytes(buf)
        /\ (kPrePendIndex + (i - 1)) - kPrePendIndex = i - 1
    BY <1>0
  <2> QED
    BY <2>1
<1> HIDE DEF Data, moved
<1>4. IsBuffer(moved) /\ readablebytes(moved) = readablebytes(buf)
  BY <1>0, <1>1, <1>2
<1>5. \A i \in 1..readablebytes(moved) :
        moved.data[moved.read + (i - 1)] = buf.data[buf.read + (i - 1)]
  BY <1>1, <1>3, <1>4
<1>6. ContentOf(moved) = ContentOf(buf)
  BY <1>4, <1>5, SameContent
<1> QED
  BY <1>1, <1>4, <1>6 DEF moved

(* Resize keeps the contents in their place and makes room for len bytes   *)
(* behind them (buffer.h:116).                                             *)
LEMMA ResizeKeepsContent ==
  ASSUME NEW buf, IsBuffer(buf), NEW len \in Nat, writablebytes(buf) < len
  PROVE  LET grown == Resize(buf, len) IN
         /\ IsBuffer(grown)
         /\ ContentOf(grown) = ContentOf(buf)
         /\ grown.size = buf.write + len
         /\ grown.read = buf.read
         /\ grown.write = buf.write
<1> USE DEF IsBuffer
<1>0. kPrePendIndex \in Nat /\ Zero \in Byte
  BY BufferAssumption
<1> DEFINE grown == Resize(buf, len)
           Data == [i \in 0..(buf.write + len - 1) |->
                      IF i < buf.size THEN buf.data[i] ELSE Zero]
<1>1. /\ grown.data = Data
      /\ grown.size = buf.write + len
      /\ grown.read = buf.read
      /\ grown.write = buf.write
  BY DEF Resize
<1>2. Data \in [0..(buf.write + len - 1) -> Byte]
  BY <1>0
<1>3. ASSUME NEW i \in 1..readablebytes(buf)
      PROVE  Data[buf.read + (i - 1)] = buf.data[buf.read + (i - 1)]
  <2>1. /\ 0 <= buf.read + (i - 1)
        /\ buf.read + (i - 1) < buf.write
        /\ buf.read + (i - 1) < buf.size
        /\ buf.read + (i - 1) \in Int
    OBVIOUS
  <2>2. buf.read + (i - 1) \in 0..(buf.write + len - 1)
    BY <2>1
  <2> QED
    BY <2>1, <2>2
<1> HIDE DEF Data, grown
<1>4. IsBuffer(grown) /\ readablebytes(grown) = readablebytes(buf)
  <2>1. grown.size \in Nat /\ grown.write <= grown.size
    BY <1>1
  <2>2. grown.data \in [0..(grown.size - 1) -> Byte]
    <3>1. grown.size - 1 = buf.write + len - 1
      BY <1>1
    <3> QED
      BY <1>1, <1>2, <3>1, Zenon
  <2> QED
    BY <1>1, <2>1, <2>2
<1>5. \A i \in 1..readablebytes(grown) :
        grown.data[grown.read + (i - 1)] = buf.data[buf.read + (i - 1)]
  BY <1>1, <1>3, <1>4
<1>6. ContentOf(grown) = ContentOf(buf)
  BY <1>4, <1>5, SameContent
<1> QED
  BY <1>1, <1>4, <1>6 DEF grown

(* MakeSureEnoughStorage makes room for len bytes and leaves the contents  *)
(* as they are; it grows the vector only if the bytes in front of the      *)
(* contents are fewer than len (buffer.h:109-118).                         *)
LEMMA StorageIsMade ==
  ASSUME NEW buf, IsBuffer(buf), NEW len \in Nat
  PROVE  LET made == MakeSureEnoughStorage(buf, len) IN
         /\ IsBuffer(made)
         /\ ContentOf(made) = ContentOf(buf)
         /\ readablebytes(made) = readablebytes(buf)
         /\ writablebytes(made) >= len
         /\ \/ made.size = buf.size
            \/ /\ made.size = buf.write + len
               /\ buf.read < kPrePendIndex + len
<1> USE DEF IsBuffer
<1>0. kPrePendIndex \in Nat /\ Zero \in Byte
  BY BufferAssumption
<1> DEFINE made == MakeSureEnoughStorage(buf, len)
<1>1. CASE writablebytes(buf) >= len
  BY <1>0, <1>1 DEF MakeSureEnoughStorage
<1>2. CASE /\ ~(writablebytes(buf) >= len)
           /\ writablebytes(buf) + buf.read >= kPrePendIndex + len
  <2>1. made = MoveDown(buf)
    BY <1>2 DEF MakeSureEnoughStorage
  <2> HIDE DEF made
  <2>2. /\ IsBuffer(made)
        /\ ContentOf(made) = ContentOf(buf)
        /\ made.size = buf.size
        /\ made.read = kPrePendIndex
        /\ made.write = kPrePendIndex + readablebytes(buf)
    BY <2>1, MoveDownKeepsContent
  <2>3. writablebytes(made) >= len /\ readablebytes(made) = readablebytes(buf)
    BY <1>0, <1>2, <2>2
  <2> QED
    BY <2>2, <2>3 DEF made
<1>3. CASE /\ ~(writablebytes(buf) >= len)
           /\ ~(writablebytes(buf) + buf.read >= kPrePendIndex + len)
  <2>1. made = Resize(buf, len)
    BY <1>3 DEF MakeSureEnoughStorage
  <2> HIDE DEF made
  <2>2. /\ IsBuffer(made)
        /\ ContentOf(made) = ContentOf(buf)
        /\ made.size = buf.write + len
        /\ made.read = buf.read
        /\ made.write = buf.write
    BY <1>3, <2>1, ResizeKeepsContent
  <2>3. writablebytes(made) >= len /\ readablebytes(made) = readablebytes(buf)
    BY <1>0, <2>2
  <2>4. buf.read < kPrePendIndex + len
    BY <1>0, <1>3
  <2> QED
    BY <2>2, <2>3, <2>4 DEF made
<1> QED
  BY <1>1, <1>2, <1>3

(* Copying bytes that fit puts them behind the contents (buffer.h:49-50).   *)
LEMMA CopyInPuts ==
  ASSUME NEW buf, IsBuffer(buf),
         NEW bytes \in Seq(Byte), Len(bytes) <= writablebytes(buf)
  PROVE  LET copied == CopyIn(buf, bytes) IN
         /\ IsBuffer(copied)
         /\ ContentOf(copied) = ContentOf(buf) \o bytes
         /\ copied.size = buf.size
         /\ copied.read = buf.read
         /\ copied.write = buf.write + Len(bytes)
<1> USE DEF IsBuffer
<1>0. kPrePendIndex \in Nat /\ Len(bytes) \in Nat
  BY BufferAssumption
<1> DEFINE copied == CopyIn(buf, bytes)
           Data == [i \in 0..(buf.size - 1) |->
                      IF buf.write <= i /\ i < buf.write + Len(bytes)
                      THEN bytes[i - buf.write + 1] ELSE buf.data[i]]
<1>1. /\ copied.data = Data
      /\ copied.size = buf.size
      /\ copied.read = buf.read
      /\ copied.write = buf.write + Len(bytes)
  BY DEF CopyIn
<1>2. Data \in [0..(buf.size - 1) -> Byte]
  <2>1. ASSUME NEW i \in 0..(buf.size - 1),
               buf.write <= i, i < buf.write + Len(bytes)
        PROVE  bytes[i - buf.write + 1] \in Byte
    <3>1. i - buf.write + 1 \in 1..Len(bytes)
      BY <1>0, <2>1
    <3> QED
      BY <3>1
  <2> QED
    BY <2>1
<1>3. ASSUME NEW i \in 1..readablebytes(buf)
      PROVE  Data[buf.read + (i - 1)] = buf.data[buf.read + (i - 1)]
  <2>1. /\ buf.read + (i - 1) \in 0..(buf.size - 1)
        /\ ~(buf.write <= buf.read + (i - 1))
    BY <1>0
  <2> QED
    BY <2>1
<1>4. ASSUME NEW i \in 1..Len(bytes)
      PROVE  Data[buf.read + (readablebytes(buf) + i - 1)] = bytes[i]
  <2>1. buf.read + (readablebytes(buf) + i - 1) = buf.write + (i - 1)
    BY <1>0
  <2>2. /\ buf.write + (i - 1) \in 0..(buf.size - 1)
        /\ buf.write <= buf.write + (i - 1)
        /\ buf.write + (i - 1) < buf.write + Len(bytes)
        /\ (buf.write + (i - 1)) - buf.write + 1 = i
    BY <1>0
  <2>3. Data[buf.write + (i - 1)] = bytes[i]
    BY <2>2
  <2> QED
    BY <2>1, <2>3
<1> HIDE DEF Data, copied
<1>5. /\ IsBuffer(copied)
      /\ readablebytes(copied) = readablebytes(buf) + Len(bytes)
  BY <1>0, <1>1, <1>2
<1>6. ContentOf(copied) = ContentOf(buf) \o bytes
  <2> DEFINE old == ContentOf(buf)
             new == ContentOf(copied)
             n   == readablebytes(buf)
  <2>1. /\ n \in Nat
        /\ old \in Seq(Byte)
        /\ Len(old) = n
        /\ \A i \in 1..n : old[i] = Data[buf.read + (i - 1)]
    BY <1>3, ContentIsSeq
  <2>2. /\ new \in Seq(Byte)
        /\ Len(new) = n + Len(bytes)
        /\ \A i \in 1..(n + Len(bytes)) : new[i] = Data[buf.read + (i - 1)]
    BY <1>1, <1>5, ContentIsSeq
  <2>3. \A i \in 1..Len(bytes) : Data[buf.read + (n + i - 1)] = bytes[i]
    BY <1>4
  <2> HIDE DEF old, new, n
  <2>4. ASSUME NEW i \in 1..(n + Len(bytes))
        PROVE  new[i] = (old \o bytes)[i]
    <3>1. CASE i <= n
      <4>1. i \in 1..n
        BY <1>0, <2>1, <3>1
      <4>2. new[i] = old[i]
        BY <2>1, <2>2, <4>1
      <4> QED
        BY <1>0, <2>1, <3>1, <4>2, ConcatProperties
    <3>2. CASE ~(i <= n)
      <4>1. i - n \in 1..Len(bytes) /\ n + (i - n) - 1 = i - 1
        BY <1>0, <2>1, <3>2
      <4>2. new[i] = bytes[i - n]
        BY <2>2, <2>3, <4>1
      <4> QED
        BY <1>0, <2>1, <3>2, <4>2, ConcatProperties
    <3> QED
      BY <3>1, <3>2
  <2>5. /\ old \o bytes \in Seq(Byte)
        /\ Len(old \o bytes) = n + Len(bytes)
    BY <2>1, ConcatProperties
  <2> QED
    BY <2>2, <2>4, <2>5, SeqEqual DEF old, new
<1> QED
  BY <1>1, <1>5, <1>6 DEF copied

(* Appending puts the bytes behind the contents; the vector is larger than *)
(* before only if it holds no more than the contents, the bytes and what   *)
(* was in front of the contents, and that was less than the bytes and      *)
(* kPrePendIndex (buffer.h:47-52).                                         *)
LEMMA AppendedPuts ==
  ASSUME NEW buf, IsBuffer(buf), NEW bytes \in Seq(Byte)
  PROVE  LET after == Appended(buf, bytes) IN
         /\ IsBuffer(after)
         /\ ContentOf(after) = ContentOf(buf) \o bytes
         /\ \/ after.size = buf.size
            \/ /\ after.size = buf.write + Len(bytes)
               /\ buf.read < kPrePendIndex + Len(bytes)
<1>0. Len(bytes) \in Nat
  BY LenProperties
<1> DEFINE made  == MakeSureEnoughStorage(buf, Len(bytes))
           after == CopyIn(made, bytes)
<1>1. /\ IsBuffer(made)
      /\ ContentOf(made) = ContentOf(buf)
      /\ writablebytes(made) >= Len(bytes)
      /\ \/ made.size = buf.size
         \/ /\ made.size = buf.write + Len(bytes)
            /\ buf.read < kPrePendIndex + Len(bytes)
  BY <1>0, StorageIsMade
<1> HIDE DEF made
<1>2. Len(bytes) <= writablebytes(made)
  BY <1>0, <1>1 DEF IsBuffer
<1>3. /\ IsBuffer(after)
      /\ ContentOf(after) = ContentOf(made) \o bytes
      /\ after.size = made.size
  BY <1>1, <1>2, CopyInPuts
<1>4. after = Appended(buf, bytes)
  BY DEF Appended, made
<1> HIDE DEF after
<1> QED
  BY <1>1, <1>3, <1>4

(* One readv that fills the vector and goes on in the second area puts all *)
(* of its bytes behind the contents, in the order in which they came       *)
(* (buffer.cc:25-29).                                                      *)
LEMMA ReadIntoBothPuts ==
  ASSUME NEW buf, IsBuffer(buf),
         NEW bytes \in Seq(Byte), Len(bytes) > writablebytes(buf)
  PROVE  LET after == ReadIntoBoth(buf, bytes) IN
         /\ IsBuffer(after)
         /\ ContentOf(after) = ContentOf(buf) \o bytes
         /\ \/ after.size = buf.size
            \/ /\ after.size = buf.write + Len(bytes)
               /\ buf.read < kPrePendIndex + Len(bytes)
<1> DEFINE room == writablebytes(buf)
           here == SubSeq(bytes, 1, room)
           rest == SubSeq(bytes, room + 1, Len(bytes))
           full == CopyIn(buf, here)
<1>1. room \in Nat /\ Len(bytes) \in Nat /\ room < Len(bytes)
  BY LenProperties DEF IsBuffer
<1>2. /\ here \in Seq(Byte) /\ Len(here) = room
      /\ rest \in Seq(Byte) /\ Len(rest) = Len(bytes) - room
  <2>1. \A i \in 1..Len(bytes) : bytes[i] \in Byte
    BY ElementOfSeq
  <2> HIDE DEF room
  <2>2. \A i \in 1..room : bytes[i] \in Byte
    BY <1>1, <2>1
  <2>3. \A i \in (room + 1)..Len(bytes) : bytes[i] \in Byte
    BY <1>1, <2>1
  <2>4. here \in Seq(Byte) /\ Len(here) = IF 1 <= room THEN room - 1 + 1 ELSE 0
    BY <1>1, <2>2, SubSeqProperties
  <2>5. /\ rest \in Seq(Byte)
        /\ Len(rest) = IF room + 1 <= Len(bytes)
                       THEN Len(bytes) - (room + 1) + 1 ELSE 0
    BY <1>1, <2>3, SubSeqProperties
  <2> HIDE DEF here, rest
  <2> QED
    BY <1>1, <2>4, <2>5
<1>3. here \o rest = bytes
  <2> HIDE DEF room
  <2>1. /\ 1 \in 1..(Len(bytes) + 1)
        /\ room \in (1 - 1)..Len(bytes)
        /\ Len(bytes) \in room..Len(bytes)
    BY <1>1
  <2>2. here \o rest = SubSeq(bytes, 1, Len(bytes))
    BY <2>1, ConcatAdjacentSubSeq
  <2> QED
    BY <2>2, SubSeqFull
<1> HIDE DEF here, rest
<1>4. /\ IsBuffer(full)
      /\ ContentOf(full) = ContentOf(buf) \o here
      /\ full.size = buf.size
      /\ full.read = buf.read
      /\ full.write = buf.write + room
  <2>1. Len(here) <= writablebytes(buf)
    BY <1>1, <1>2
  <2> HIDE DEF room
  <2> QED
    BY <1>2, <2>1, CopyInPuts
<1> HIDE DEF full
<1> DEFINE after == Appended(full, rest)
<1>5. /\ IsBuffer(after)
      /\ ContentOf(after) = ContentOf(full) \o rest
      /\ \/ after.size = full.size
         \/ /\ after.size = full.write + Len(rest)
            /\ full.read < kPrePendIndex + Len(rest)
  BY <1>2, <1>4, AppendedPuts
<1>6. after = ReadIntoBoth(buf, bytes)
  BY DEF ReadIntoBoth, full, here, rest
<1> HIDE DEF after
<1>7. ContentOf(after) = ContentOf(buf) \o bytes
  <2>1. ContentOf(buf) \in Seq(Byte)
    BY ContentIsSeq
  <2>2. (ContentOf(buf) \o here) \o rest = ContentOf(buf) \o (here \o rest)
    BY <1>2, <2>1, ConcatAssociative
  <2> QED
    BY <1>3, <1>4, <1>5, <2>2
<1>8. \/ after.size = buf.size
      \/ /\ after.size = buf.write + Len(bytes)
         /\ buf.read < kPrePendIndex + Len(bytes)
  <2>1. CASE after.size = full.size
    BY <1>4, <2>1
  <2>2. CASE /\ after.size = full.write + Len(rest)
             /\ full.read < kPrePendIndex + Len(rest)
    <3>1. kPrePendIndex \in Nat
      BY BufferAssumption
    <3> HIDE DEF room
    <3>2. buf.write \in Nat /\ buf.read \in Nat
      BY DEF IsBuffer
    <3>3. after.size = buf.write + Len(bytes)
      <4>1. full.write + Len(rest) = (buf.write + room) + (Len(bytes) - room)
        BY <1>2, <1>4, Zenon
      <4>2. (buf.write + room) + (Len(bytes) - room) = buf.write + Len(bytes)
        BY <1>1, <3>2
      <4> QED
        BY <2>2, <4>1, <4>2, Zenon
    <3>4. buf.read < kPrePendIndex + Len(bytes)
      BY <1>1, <1>2, <1>4, <2>2, <3>1, <3>2
    <3> QED
      BY <3>3, <3>4
  <2> QED
    BY <1>5, <2>1, <2>2
<1> QED
  BY <1>5, <1>6, <1>7, <1>8

(* Moving the read index by len takes len bytes from the front of the      *)
(* contents (buffer.h:57-69).                                              *)
LEMMA ReadIndexTakes ==
  ASSUME NEW buf, IsBuffer(buf), NEW len \in 0..readablebytes(buf), NEW x,
         x.data = buf.data, x.size = buf.size,
         x.read = buf.read + len, x.write = buf.write
  PROVE  /\ IsBuffer(x)
         /\ ContentOf(x) = SubSeq(ContentOf(buf), len + 1, Len(ContentOf(buf)))
<1>0. kPrePendIndex \in Nat
  BY BufferAssumption
<1>1. IsBuffer(x) /\ readablebytes(x) = readablebytes(buf) - len
  BY <1>0 DEF IsBuffer
<1> DEFINE n   == readablebytes(buf)
           old == ContentOf(buf)
           new == ContentOf(x)
<1>2. /\ n \in Nat
      /\ old \in Seq(Byte)
      /\ Len(old) = n
      /\ \A i \in 1..n : old[i] = buf.data[buf.read + (i - 1)]
  BY ContentIsSeq
<1>3. /\ new \in Seq(Byte)
      /\ Len(new) = n - len
      /\ \A i \in 1..(n - len) : new[i] = buf.data[(buf.read + len) + (i - 1)]
  BY <1>1, ContentIsSeq
<1>4. buf.read \in Nat /\ len \in Nat /\ len <= n
  BY <1>2 DEF IsBuffer
<1> HIDE DEF n, old, new
<1>5. \A i \in 1..(n - len) : new[i] = old[(len + 1) + i - 1]
  <2>1. ASSUME NEW i \in 1..(n - len)
        PROVE  new[i] = old[(len + 1) + i - 1]
    <3>1. /\ len + i \in 1..n
          /\ (len + 1) + i - 1 = len + i
          /\ buf.read + ((len + i) - 1) = (buf.read + len) + (i - 1)
      <4>1. i \in Int /\ 1 <= i /\ i <= n - len /\ n \in Nat
        BY <1>2, <1>4
      <4> QED
        BY <1>4, <4>1
    <3>2. old[len + i] = buf.data[buf.read + ((len + i) - 1)]
      BY <1>2, <3>1
    <3>3. new[i] = buf.data[(buf.read + len) + (i - 1)]
      BY <1>3
    <3> QED
      BY <3>1, <3>2, <3>3, Zenon
  <2> QED
    BY <2>1
<1>6. /\ SubSeq(old, len + 1, n) \in Seq(Byte)
      /\ Len(SubSeq(old, len + 1, n)) = n - len
      /\ \A i \in 1..(n - len) :
           SubSeq(old, len + 1, n)[i] = old[(len + 1) + i - 1]
  <2>1. \A i \in (len + 1)..n : old[i] \in Byte
    BY <1>2, <1>4, ElementOfSeq
  <2>2. /\ SubSeq(old, len + 1, n) \in Seq(Byte)
        /\ Len(SubSeq(old, len + 1, n)) =
             IF len + 1 <= n THEN n - (len + 1) + 1 ELSE 0
        /\ \A i \in 1..(n - (len + 1) + 1) :
             SubSeq(old, len + 1, n)[i] = old[(len + 1) + i - 1]
    BY <1>2, <1>4, <2>1, SubSeqProperties
  <2>3. /\ n - (len + 1) + 1 = n - len
        /\ (IF len + 1 <= n THEN n - (len + 1) + 1 ELSE 0) = n - len
    BY <1>2, <1>4
  <2> QED
    BY <2>2, <2>3
<1>7. new = SubSeq(old, len + 1, n)
  BY <1>3, <1>5, <1>6, SeqEqual
<1> QED
  BY <1>1, <1>2, <1>7 DEF old, new

(* With both indices at kPrePendIndex the buffer is empty (buffer.h:71-74).*)
LEMMA ResetEmpties ==
  ASSUME NEW buf, IsBuffer(buf), NEW x,
         x.data = buf.data, x.size = buf.size,
         x.read = kPrePendIndex, x.write = kPrePendIndex
  PROVE  IsBuffer(x) /\ ContentOf(x) = << >>
<1>0. kPrePendIndex \in Nat
  BY BufferAssumption
<1>1. IsBuffer(x) /\ readablebytes(x) = 0
  BY <1>0 DEF IsBuffer
<1> DEFINE new == ContentOf(x)
<1>2. new \in Seq(Byte) /\ Len(new) = 0
  BY <1>1, ContentIsSeq
<1> HIDE DEF new
<1>3. new = << >>
  BY <1>2, EmptySeq
<1> QED
  BY <1>1, <1>3 DEF new

-----------------------------------------------------------------------------
(* The steps of the specification.                                         *)

(* What arrives or is appended goes to the end of the contents.            *)
LEMMA PutStep ==
  ASSUME IsBuffer(b), NEW bytes \in Messages,
         AppendBytes(bytes) \/ ReadFd(bytes)
  PROVE  /\ IsBuffer(b')
         /\ ContentOf(b') = ContentOf(b) \o bytes
         /\ \/ b'.size = b.size
            \/ b'.size <= kPrePendIndex + MaxContent + MaxLen
<1>1. /\ bytes \in Seq(Byte)
      /\ Len(bytes) \in Nat
      /\ Len(bytes) <= MaxLen
      /\ kPrePendIndex \in Nat /\ MaxContent \in Nat /\ MaxLen \in Nat
  BY BufferAssumption, LenProperties
<1>2. readablebytes(b) + Len(bytes) <= MaxContent
  BY DEF AppendBytes, ReadFd, WithinBound
<1>3. /\ IsBuffer(b')
      /\ ContentOf(b') = ContentOf(b) \o bytes
      /\ \/ b'.size = b.size
         \/ /\ b'.size = b.write + Len(bytes)
            /\ b.read < kPrePendIndex + Len(bytes)
  <2>1. CASE AppendBytes(bytes)
    BY <1>1, <2>1, AppendedPuts DEF AppendBytes
  <2>2. CASE Len(bytes) <= writablebytes(b) /\ b' = CopyIn(b, bytes)
    BY <1>1, <2>2, CopyInPuts
  <2>3. CASE Len(bytes) > writablebytes(b) /\ b' = ReadIntoBoth(b, bytes)
    BY <1>1, <2>3, ReadIntoBothPuts
  <2> QED
    BY <2>1, <2>2, <2>3 DEF ReadFd
<1>4. b.read \in Nat /\ b.write \in Nat
  BY DEF IsBuffer
<1>5. ASSUME b'.size = b.write + Len(bytes), b.read < kPrePendIndex + Len(bytes)
      PROVE  b'.size <= kPrePendIndex + MaxContent + MaxLen
  BY <1>1, <1>2, <1>4, <1>5
<1> QED
  BY <1>3, <1>5

(* What is retrieved leaves the front of the contents.                     *)
LEMMA TakeStep ==
  ASSUME IsBuffer(b), NEW len, Retrieve(len) \/ RetrieveUntilIndex(len)
  PROVE  /\ IsBuffer(b')
         /\ b'.size = b.size
         /\ len \in 0..Len(ContentOf(b))
         /\ ContentOf(b') = SubSeq(ContentOf(b), len + 1, Len(ContentOf(b)))
<1>1. len \in 0..readablebytes(b)
  BY DEF Retrieve, RetrieveUntilIndex
<1>2. /\ readablebytes(b) \in Nat
      /\ Len(ContentOf(b)) = readablebytes(b)
      /\ b.read \in Nat /\ b.write \in Nat
  BY ContentIsSeq DEF IsBuffer
<1>3. CASE b' = WithIndices(b.read + len, b.write)
  <2>1. /\ b'.data = b.data /\ b'.size = b.size
        /\ b'.read = b.read + len /\ b'.write = b.write
    BY <1>3 DEF WithIndices
  <2> QED
    BY <1>1, <1>2, <2>1, ReadIndexTakes
<1>4. CASE b.read + len >= b.write /\ RetrieveAll
  <2>1. /\ b'.data = b.data /\ b'.size = b.size
        /\ b'.read = kPrePendIndex /\ b'.write = kPrePendIndex
    BY <1>4 DEF RetrieveAll, WithIndices
  <2>2. IsBuffer(b') /\ ContentOf(b') = << >>
    BY <2>1, ResetEmpties
  <2>3. len \in Int /\ Len(ContentOf(b)) < len + 1
    BY <1>1, <1>2, <1>4
  <2>4. SubSeq(ContentOf(b), len + 1, Len(ContentOf(b))) = << >>
    BY <1>2, <2>3, SubSeqEmpty
  <2> QED
    BY <1>1, <1>2, <2>1, <2>2, <2>4
<1> QED
  BY <1>3, <1>4 DEF Retrieve, RetrieveUntilIndex

(* RetrieveAll leaves nothing.                                             *)
LEMMA TakeAllStep ==
  ASSUME IsBuffer(b), RetrieveAll
  PROVE  /\ IsBuffer(b')
         /\ b'.size = b.size
         /\ ContentOf(b') = << >>
<1>1. /\ b'.data = b.data /\ b'.size = b.size
      /\ b'.read = kPrePendIndex /\ b'.write = kPrePendIndex
  BY DEF RetrieveAll, WithIndices
<1> QED
  BY <1>1, ResetEmpties

(* A new buffer is well formed and empty (buffer.h:23-24).                 *)
LEMMA InitIsEmpty ==
  ASSUME Init
  PROVE  IsBuffer(b) /\ ContentOf(b) = << >> /\ b.size = kInitialSize
<1>1. /\ b.data = [i \in 0..(kInitialSize - 1) |-> Zero]
      /\ b.size = kInitialSize
      /\ b.read = kPrePendIndex
      /\ b.write = kPrePendIndex
  BY DEF Init
<1>2. b.data \in [0..(b.size - 1) -> Byte]
  BY <1>1, BufferAssumption
<1>3. IsBuffer(b)
  BY <1>1, <1>2, BufferAssumption DEF IsBuffer
<1> QED
  BY <1>1, <1>3, ResetEmpties

-----------------------------------------------------------------------------
(* The theorems.                                                           *)

(* The indices stay in order and within the vector, and the vector is not  *)
(* larger than it has to be; the second needs the first.                   *)
BufferInv == TypeOK /\ SizeIsBounded

(* BufferInv holds in every reachable state of a Buffer. *)
THEOREM BufferInvariant == Spec => []BufferInv
<1>1. Init => BufferInv
  BY InitIsEmpty, BufferAssumption DEF BufferInv, TypeOK, SizeIsBounded
<1>2. BufferInv /\ [Next]_b => BufferInv'
  <2> SUFFICES ASSUME BufferInv, [Next]_b
               PROVE  BufferInv'
    OBVIOUS
  <2> USE DEF BufferInv, TypeOK, SizeIsBounded
  <2>1. ASSUME NEW bytes \in Messages, AppendBytes(bytes) \/ ReadFd(bytes)
        PROVE  BufferInv'
    BY <2>1, PutStep
  <2>2. ASSUME NEW len, Retrieve(len) \/ RetrieveUntilIndex(len)
        PROVE  BufferInv'
    BY <2>2, TakeStep
  <2>3. CASE RetrieveAll
    BY <2>3, TakeAllStep
  <2>4. CASE UNCHANGED b
    BY <2>4
  <2> QED
    BY <2>1, <2>2, <2>3, <2>4 DEF Next
<1> QED
  BY <1>1, <1>2, PTL DEF Spec

(* No index leaves the vector (TypeOK).                                    *)
THEOREM TypeCorrect == Spec => []TypeOK
<1>1. BufferInv => TypeOK
  BY DEF BufferInv
<1> QED
  BY <1>1, BufferInvariant, PTL

(* The vector stays within what has been needed (SizeIsBounded).           *)
THEOREM VectorIsBounded == Spec => []SizeIsBounded
<1>1. BufferInv => SizeIsBounded
  BY DEF BufferInv
<1> QED
  BY <1>1, BufferInvariant, PTL

(* The buffer implements the queue of bytes (ImplementsQueue).             *)
THEOREM IsAQueue == Spec => ImplementsQueue
<1> DEFINE Step ==
      /\ \A bytes \in Messages :
           AppendBytes(bytes) \/ ReadFd(bytes) => Queue!Put(bytes)
      /\ \A len \in 0..MaxContent :
           Retrieve(len) \/ RetrieveUntilIndex(len) => Queue!Take(len)
      /\ RetrieveAll => Queue!Take(Len(Content))
<1>1. Init => Queue!Init
  BY InitIsEmpty DEF Queue!Init, Content
<1>2. TypeOK => Step
  <2> SUFFICES ASSUME TypeOK PROVE Step
    OBVIOUS
  <2> USE DEF TypeOK, Content
  <2>1. ASSUME NEW bytes \in Messages, AppendBytes(bytes) \/ ReadFd(bytes)
        PROVE  Queue!Put(bytes)
    BY <2>1, PutStep DEF Queue!Put
  <2>2. ASSUME NEW len \in 0..MaxContent, Retrieve(len) \/ RetrieveUntilIndex(len)
        PROVE  Queue!Take(len)
    BY <2>2, TakeStep DEF Queue!Take
  <2>3. ASSUME RetrieveAll
        PROVE  Queue!Take(Len(Content))
    <3>1. ContentOf(b') = << >>
      BY <2>3, TakeAllStep
    <3>2. Len(ContentOf(b)) \in Nat
      BY ContentIsSeq
    <3>3. SubSeq(ContentOf(b), Len(ContentOf(b)) + 1, Len(ContentOf(b))) = << >>
      BY <3>2, SubSeqEmpty
    <3> QED
      BY <3>1, <3>2, <3>3 DEF Queue!Take
  <2> QED
    BY <2>1, <2>2, <2>3
<1>3. TypeOK /\ [Next]_b => [Step]_b
  BY <1>2
<1> HIDE DEF Step
<1>4. Spec => Queue!Init /\ [][Step]_b
  BY <1>1, <1>3, TypeCorrect, PTL DEF Spec
<1> QED
  BY <1>4 DEF ImplementsQueue, Step

=============================================================================
