------------------------------- MODULE Buffer -------------------------------
(***************************************************************************)
(* The byte buffer of connections (Util/buffer.h, buffer.cc): a vector with*)
(* a read and a write index.  Appending moves the write index, retrieving  *)
(* the read index; when there is no room left the contents move down or    *)
(* the vector grows, and one readv may fill the vector and go on in a      *)
(* second area.                                                            *)
(*                                                                         *)
(* The members are one record, and the methods that call each other are    *)
(* operators on it.                                                        *)
(***************************************************************************)
EXTENDS Naturals, Sequences

CONSTANTS Byte,
          Zero,           \* what the vector is filled with
          Messages,       \* what is appended, or arrives for one readv
          kPrePendIndex,
          kInitialSize,
          ExtraSize,      \* sizeof(extrabuf)
          MaxLen,         \* bound: the bytes of a message
          MaxContent      \* bound: the bytes the buffer holds

ASSUME BufferAssumption == /\ Zero \in Byte
                           /\ Messages \subseteq Seq(Byte)
                           /\ MaxLen \in Nat
                           /\ \A bytes \in Messages : Len(bytes) <= MaxLen
                           /\ kPrePendIndex \in Nat
                           /\ kInitialSize \in Nat
                           /\ kPrePendIndex <= kInitialSize
                           /\ ExtraSize \in Nat
                           /\ MaxContent \in Nat

VARIABLE b  \* buffer_ as data and size, read_index_ and write_index_

IsBuffer(buf) ==
  /\ buf.size \in Nat
  /\ buf.data \in [0..(buf.size - 1) -> Byte]
  /\ buf.read \in Nat
  /\ buf.write \in Nat
  /\ kPrePendIndex <= buf.read
  /\ buf.read <= buf.write
  /\ buf.write <= buf.size

Init == b = [data  |-> [i \in 0..(kInitialSize - 1) |-> Zero],
             size  |-> kInitialSize,
             read  |-> kPrePendIndex,
             write |-> kPrePendIndex]

readablebytes(buf) == buf.write - buf.read
writablebytes(buf) == buf.size - buf.write

-----------------------------------------------------------------------------
(* Appending.                                                              *)

\* The readable bytes move down to kPrePendIndex.
MoveDown(buf) ==
  [data  |-> [i \in 0..(buf.size - 1) |->
                IF /\ kPrePendIndex <= i
                   /\ i < kPrePendIndex + readablebytes(buf)
                THEN buf.data[buf.read + (i - kPrePendIndex)] ELSE buf.data[i]],
   size  |-> buf.size,
   read  |-> kPrePendIndex,
   write |-> kPrePendIndex + readablebytes(buf)]

\* buffer_.resize(write_index_ + len), when that is more than there is.
Resize(buf, len) ==
  [data  |-> [i \in 0..(buf.write + len - 1) |->
                IF i < buf.size THEN buf.data[i] ELSE Zero],
   size  |-> buf.write + len,
   read  |-> buf.read,
   write |-> buf.write]

\* Fault: the bytes kept in front are not counted.
MoveDownTooSoon(buf, len) ==
  IF writablebytes(buf) >= len THEN buf
  ELSE IF writablebytes(buf) + buf.read >= len THEN MoveDown(buf)
  ELSE Resize(buf, len)

\* Fault: the vector always grows.
AlwaysResize(buf, len) ==
  IF writablebytes(buf) >= len THEN buf ELSE Resize(buf, len)

MakeSureEnoughStorage(buf, len) ==
  IF writablebytes(buf) >= len THEN buf
  ELSE IF writablebytes(buf) + buf.read >= kPrePendIndex + len THEN MoveDown(buf)
  ELSE Resize(buf, len)

\* std::copy of bytes to beginwrite().
CopyIn(buf, bytes) ==
  [data  |-> [i \in 0..(buf.size - 1) |->
                IF buf.write <= i /\ i < buf.write + Len(bytes)
                THEN bytes[i - buf.write + 1] ELSE buf.data[i]],
   size  |-> buf.size,
   read  |-> buf.read,
   write |-> buf.write + Len(bytes)]

Appended(buf, bytes) == CopyIn(MakeSureEnoughStorage(buf, Len(bytes)), bytes)

\* Fault: write_index_ is not moved to the end before the rest is appended.
RestFirst(buf, bytes) ==
  Appended(buf, SubSeq(bytes, writablebytes(buf) + 1, Len(bytes)))

\* The readv that fills the vector and goes on in extrabuf.
ReadIntoBoth(buf, bytes) ==
  Appended(CopyIn(buf, SubSeq(bytes, 1, writablebytes(buf))),
           SubSeq(bytes, writablebytes(buf) + 1, Len(bytes)))

-----------------------------------------------------------------------------
(* The operations.                                                         *)

WithinBound(bytes) == readablebytes(b) + Len(bytes) <= MaxContent

AppendBytes(bytes) ==
  /\ WithinBound(bytes)
  /\ b' = Appended(b, bytes)

ReadFd(bytes) ==
  /\ WithinBound(bytes)
  /\ \/ /\ Len(bytes) <= writablebytes(b)
        /\ b' = CopyIn(b, bytes)
     \/ /\ Len(bytes) > writablebytes(b)
        /\ writablebytes(b) < ExtraSize
        /\ Len(bytes) <= writablebytes(b) + ExtraSize
        /\ b' = ReadIntoBoth(b, bytes)

WithIndices(read, write) ==
  [data |-> b.data, size |-> b.size, read |-> read, write |-> write]

RetrieveAll == b' = WithIndices(kPrePendIndex, kPrePendIndex)

Retrieve(len) ==
  /\ len \in 0..readablebytes(b)
  /\ \/ b.read + len < b.write /\ b' = WithIndices(b.read + len, b.write)
     \/ b.read + len >= b.write /\ RetrieveAll

\* The indices do not go back when the buffer becomes empty.
RetrieveUntilIndex(len) ==
  /\ len \in 0..readablebytes(b)
  /\ b' = WithIndices(b.read + len, b.write)

Next == \/ \E bytes \in Messages : AppendBytes(bytes) \/ ReadFd(bytes)
        \/ \E len \in 0..MaxContent : Retrieve(len) \/ RetrieveUntilIndex(len)
        \/ RetrieveAll

Spec == Init /\ [][Next]_b

-----------------------------------------------------------------------------
(* Properties.                                                             *)

(* The indices keep their order and stay within the vector: no method      *)
(* reads or writes outside of it (buffer.h:57-69, 109-118, buffer.cc:9-31).*)
TypeOK == IsBuffer(b)

(* However long it is used, the vector is no larger than the most it has   *)
(* had to hold, one message and the reserved bytes, although               *)
(* RetrieveUntilIndex never takes the indices back (buffer.h:66-69,        *)
(* 109-118).                                                               *)
SizeIsBounded ==
  b.size <= kInitialSize \/ b.size <= kPrePendIndex + MaxContent + MaxLen

\* What the users of a buffer see.
ContentOf(buf) ==
  [i \in 1..readablebytes(buf) |-> buf.data[buf.read + (i - 1)]]
Content == ContentOf(b)

Queue == INSTANCE ByteQueue WITH content <- Content

(* Whatever moves in the vector, the users see a queue of bytes: the       *)
(* buffer is empty at first, appending and reading put their bytes at its  *)
(* end, and retrieving takes the number asked for from its front.          *)
ImplementsQueue ==
  /\ Queue!Init
  /\ [][ /\ \A bytes \in Messages :
              AppendBytes(bytes) \/ ReadFd(bytes) => Queue!Put(bytes)
         /\ \A len \in 0..MaxContent :
              Retrieve(len) \/ RetrieveUntilIndex(len) => Queue!Take(len)
         /\ RetrieveAll => Queue!Take(Len(Content)) ]_b

=============================================================================
