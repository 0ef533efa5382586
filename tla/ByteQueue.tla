----------------------------- MODULE ByteQueue ------------------------------
(***************************************************************************)
(* What a Buffer promises its users: the bytes taken out are the bytes put *)
(* in, in their order, each of them once.                                  *)
(***************************************************************************)
EXTENDS Naturals, Sequences

VARIABLE content

Init == content = <<>>

Put(bytes) == content' = content \o bytes

Take(n) == /\ n \in 0..Len(content)
           /\ content' = SubSeq(content, n + 1, Len(content))

=============================================================================
