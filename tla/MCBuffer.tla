------------------------------ MODULE MCBuffer ------------------------------
(* Messages for Buffer.                                                    *)
EXTENDS Buffer, SequencesExt

ShortMessages == BoundedSeq(Byte, MaxLen)

=============================================================================
