-------------------------------- MODULE Fifo ---------------------------------
(***************************************************************************)
(* What bytebuf.h promises of a byte buffer, whatever its layout: a queue   *)
(* of at most Max bytes, read at the head and written at the tail.  A       *)
(* producer that is refused leaves the queue as it was, and is refused only *)
(* when the bytes it asked for exceed Max, or memory has run out.           *)
(***************************************************************************)
EXTENDS Naturals, Sequences

CONSTANTS
  Bytes,    (* the values of a byte                                         *)
  Max,      (* BYTEBUF_MAX                                                  *)
  MaxOp,    (* bound: bytes of one call                                     *)
  MayFail   (* realloc() may fail                                           *)

VARIABLES q, ret

Chunks == UNION {[1 .. n -> Bytes] : n \in 0 .. MaxOp}

Init == q = <<>> /\ ret = 0

(* A call that puts s at the tail. *)
Put(s) ==
  /\ Len(q) + Len(s) <= Max
  /\ q' = q \o s
  /\ ret' = 0

(* A call that asked for room for n bytes and did not get it. *)
Refuse(n) ==
  /\ MayFail \/ Len(q) + n > Max
  /\ q' = q
  /\ ret' = 1

(* A call that takes n bytes, or all there are, from the head. *)
Take(n) ==
  /\ q' = SubSeq(q, n + 1, Len(q))
  /\ ret' = ret

Clear == q' = <<>> /\ ret' = ret

Next ==
  \/ \E s \in Chunks : Put(s)
  \/ \E n \in 1 .. MaxOp + 1 : Refuse(n)
  \/ \E n \in 0 .. MaxOp : Take(n)
  \/ Clear

Spec == Init /\ [][Next]_<<q, ret>>
==============================================================================
