------------------------------ MODULE MCByteBuf ------------------------------
(* Instances of ByteBuf for TLC.                                           *)
EXTENDS ByteBuf, TLC

ByteSymmetry == Permutations(Bytes)
==============================================================================
