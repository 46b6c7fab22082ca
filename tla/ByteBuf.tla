------------------------------- MODULE ByteBuf -------------------------------
(***************************************************************************)
(* The growable byte buffer of src/bytebuf.c: one allocation, a head        *)
(* offset, a tail, lazy compaction and doubling growth up to a hard cap.    *)
(*                                                                         *)
(* The allocation is a sequence of cells; a cell never written since it     *)
(* was allocated holds Junk.  off and len count cells, so the live bytes    *)
(* are the cells off + 1 .. len.                                            *)
(***************************************************************************)
EXTENDS Naturals, Sequences

CONSTANTS
  Bytes,        (* the values of a byte                                     *)
  Junk,         (* an uninitialized cell                                    *)
  INIT_CAP,     (* BYTEBUF_INIT_CAP                                         *)
  MAX,          (* BYTEBUF_MAX                                              *)
  COMPACT_MIN,  (* BYTEBUF_COMPACT_MIN                                      *)
  STACK,        (* size of the stack buffer of bytebuf_appendf()            *)
  MaxOp,        (* bound: bytes of one call                                 *)
  MayFail       (* realloc() may fail                                       *)

ASSUME BufConstants ==
  /\ Junk \notin Bytes
  /\ INIT_CAP \in Nat \ {0}
  /\ MAX \in Nat /\ INIT_CAP <= MAX
  /\ COMPACT_MIN \in Nat
  /\ STACK \in Nat \ {0}
  /\ MaxOp \in Nat
  /\ MayFail \in BOOLEAN

VARIABLES
  b,     (* the bytebuf_t: data (cap is its length), len and off            *)
  room,  (* bytes reserved at the tail that the caller may write            *)
  ret    (* whether the last producer call failed                           *)

vars == <<b, room, ret>>

Chunks == UNION {[1 .. n -> Bytes] : n \in 0 .. MaxOp}

Cap(x)  == Len(x.data)
Live(x) == SubSeq(x.data, x.off + 1, x.len)   \* bytebuf_data(), bytebuf_len()

(* bytebuf_init() and bytebuf_free(). *)
Empty == [data |-> <<>>, len |-> 0, off |-> 0]

-----------------------------------------------------------------------------
(* Internal helpers.                                                       *)

(* compact_in_place(): memmove() the live bytes down to offset 0; the cells
   behind them keep what they had. *)
Compact(x) ==
  [data |-> [i \in 1 .. Cap(x) |-> IF i <= x.len - x.off THEN x.data[x.off + i]
                                                        ELSE x.data[i]],
   len  |-> x.len - x.off,
   off  |-> 0]

(* c is some doubling of c0: its multiple by a number that no odd number but 1
   divides. *)
Doubled(c0, c) ==
  \E p \in 1 .. MAX :
    c = c0 * p /\ \A d, q \in 1 .. p : p = d * q /\ d % 2 = 1 => d = 1

(* The capacities the doubling loop goes through from cap; the last one is
   the cap itself. *)
Ladder(cap) ==
  LET c0 == IF cap = 0 THEN INIT_CAP ELSE cap
  IN {c \in c0 .. MAX : c = MAX \/ Doubled(c0, c)}

(* Variant: room for the bytes already there is not counted. *)
FitsShort(cap, len, need) == {c \in Ladder(cap) : c >= need}

(* The first of them with room for need more bytes after len. *)
Fits(cap, len, need) == {c \in Ladder(cap) : c >= len + need}

Least(S) == CHOOSE m \in S : \A n \in S : m <= n

(* The doubling loop of ensure_tail_cap() as it is written; 0 when the cap
   is reached without room. *)
LoopCap(cap, len, need) ==
  LET new_cap[c \in Nat] ==
        IF c - len >= need THEN c
        ELSE IF c >= MAX THEN 0
        ELSE IF c > MAX \div 2 THEN new_cap[MAX]
        ELSE new_cap[2 * c]
  IN new_cap[IF cap = 0 THEN INIT_CAP ELSE cap]

(* realloc(): the cells that were there, then fresh ones. *)
Resize(x, cap) ==
  [x EXCEPT !.data = [i \in 1 .. cap |-> IF i <= Cap(x) THEN x.data[i] ELSE Junk]]

(* Variant: the old array is lost when realloc() fails. *)
EnsureTailLoses(x, need) ==
  LET fits == Fits(Cap(x), x.len, need)
  IN IF Cap(x) - x.len >= need
       THEN {[ok |-> TRUE, buf |-> x]}
       ELSE {[ok |-> TRUE, buf |-> Resize(x, c)] :
               c \in {d \in fits : d = Least(fits)}}
            \cup {[ok |-> FALSE, buf |-> Empty] :
                    f \in {TRUE} \cap {MayFail, fits = {}}}

(* ensure_tail_cap(): the buffers it may leave, each with whether it has
   need free cells at the tail.  It compacts before it grows, and has
   compacted also when growing fails. *)
EnsureTail(x, need) ==
  LET y    == IF Cap(x) - x.len < need /\ x.off > 0 THEN Compact(x) ELSE x
      fits == Fits(Cap(y), y.len, need)
  IN IF Cap(y) - y.len >= need
       THEN {[ok |-> TRUE, buf |-> y]}
       ELSE {[ok |-> TRUE, buf |-> Resize(y, c)] :
               c \in {d \in fits : d = Least(fits)}}
            \cup {[ok |-> FALSE, buf |-> y] :
                    f \in {TRUE} \cap {MayFail, fits = {}}}

(* Variant: the tail is looked for behind as many cells as there are live
   bytes, and not behind those that were consumed as well. *)
WriteTailLive(x, s) ==
  LET live == x.len - x.off
  IN [data |-> [i \in 1 .. Cap(x) |-> IF i \in live + 1 .. live + Len(s)
                                        THEN s[i - live] ELSE x.data[i]],
      len  |-> x.len + Len(s),
      off  |-> x.off]

(* memcpy() to the tail. *)
WriteTail(x, s) ==
  [data |-> [i \in 1 .. Cap(x) |-> IF i \in x.len + 1 .. x.len + Len(s)
                                     THEN s[i - x.len] ELSE x.data[i]],
   len  |-> x.len + Len(s),
   off  |-> x.off]

-----------------------------------------------------------------------------
(* The operations.                                                         *)

Init == b = Empty /\ room = 0 /\ ret = 0

(* A producer call that needs need free cells to add s. *)
Produce(s, need) ==
  \E e \in EnsureTail(b, need) :
    \/ e.ok  /\ b' = WriteTail(e.buf, s) /\ ret' = 0
    \/ ~e.ok /\ b' = e.buf /\ ret' = 1

(* bytebuf_append(). *)
AppendBytes(s) ==
  /\ IF s = <<>> THEN b' = b /\ ret' = 0 ELSE Produce(s, Len(s))
  /\ room' = 0

(* bytebuf_appendf(): a short text goes through the stack buffer; a longer
   one is formatted in place and needs a cell more for its NUL, which the
   length then leaves out. *)
Appendf(s) ==
  /\ IF Len(s) < STACK
       THEN IF s = <<>> THEN b' = b /\ ret' = 0 ELSE Produce(s, Len(s))
       ELSE Produce(s, Len(s) + 1)
  /\ room' = 0

(* bytebuf_reserve(): n free cells at the tail, or NULL. *)
Reserve(n) ==
  \E e \in EnsureTail(b, n) :
    /\ b' = e.buf
    /\ ret' = IF e.ok THEN 0 ELSE 1
    /\ room' = IF e.ok THEN n ELSE 0

(* Variant: the length advances by what was reserved, not by what was read. *)
AdvanceReserved(s) ==
  /\ Len(s) <= room
  /\ b' = [WriteTail(b, s) EXCEPT !.len = b.len + room]
  /\ room' = 0
  /\ ret' = 0

(* read() into the reserved cells, then bytebuf_advance(). *)
Advance(s) ==
  /\ Len(s) <= room
  /\ b' = WriteTail(b, s)
  /\ room' = 0
  /\ ret' = 0

Drained(x) == [data |-> x.data, len |-> 0, off |-> 0]

(* Variant: compaction is decided after a full drain was overlooked. *)
ConsumeNoReset(n) ==
  LET live == b.len - b.off
      off  == b.off + (IF n > live THEN live ELSE n)
  IN /\ b' = [b EXCEPT !.off = off]
     /\ room' = 0
     /\ UNCHANGED ret

(* bytebuf_consume(): advance the head, clamped; a drained buffer starts
   again at 0, a mostly consumed one is compacted. *)
Consume(n) ==
  LET live == b.len - b.off
      off  == b.off + (IF n > live THEN live ELSE n)
      x    == [data |-> b.data, len |-> b.len, off |-> off]
  IN /\ b' = IF off = b.len THEN Drained(b)
             ELSE IF off > COMPACT_MIN /\ off > Cap(b) \div 2 THEN Compact(x)
             ELSE x
     /\ room' = 0
     /\ UNCHANGED ret

(* bytebuf_reset() keeps the allocation, bytebuf_free() gives it back. *)
Reset == b' = Drained(b) /\ room' = 0 /\ UNCHANGED ret
Free  == b' = Empty /\ room' = 0 /\ UNCHANGED ret

Next ==
  \/ \E s \in Chunks : AppendBytes(s) \/ Appendf(s) \/ Advance(s)
  \/ \E n \in 1 .. MaxOp : Reserve(n)
  \/ \E n \in 0 .. MaxOp : Consume(n)
  \/ Reset \/ Free

Spec == Init /\ [][Next]_vars

-----------------------------------------------------------------------------
(* Properties.                                                             *)

TypeOK ==
  /\ b.data \in Seq(Bytes \cup {Junk})
  /\ b.len \in Nat /\ b.off \in Nat
  /\ b.off <= b.len /\ b.len <= Cap(b) /\ Cap(b) <= MAX
  /\ room \in 0 .. MaxOp
  /\ ret \in {0, 1}

(* A reader of the live bytes never sees a cell that was not written, and
   what a caller reserved is inside the allocation: bytebuf_advance() has
   nothing to clamp. *)
LiveWritten ==
  /\ \A i \in b.off + 1 .. b.len : b.data[i] \in Bytes
  /\ b.len + room <= Cap(b)

(* The policy of bytebuf_consume() bounds the dead space at the head after
   every operation, and a drained buffer has none. *)
HeadWaste ==
  /\ b.off <= COMPACT_MIN \/ b.off <= Cap(b) \div 2
  /\ b.off = b.len => b.off = 0

(* The loop ends, from every capacity and length a buffer can have, with the
   capacity that EnsureTail picks from the ladder, or fails when there is
   none. *)
GrowthLoop ==
  \A need \in 1 .. MaxOp + 1 :
    LET fits == Fits(Cap(b), b.len, need)
    IN LoopCap(Cap(b), b.len, need) = IF fits = {} THEN 0 ELSE Least(fits)

(* Whatever was compacted, moved or grown, the live bytes are the queue of
   module Fifo. *)
Q == INSTANCE Fifo WITH Max <- MAX, q <- Live(b)
ImplementsFifo == Q!Spec

(* Each call does to the queue what its name says, with the bytes it was
   given: an append puts them behind all that is there, or is refused for
   want of the cells it asks for; a read into reserved cells puts what was
   read; reserving moves the bytes at most.  (The refinement alone lets a
   call put any bytes.) *)
CallsAsPromised ==
  [][/\ \A s \in Chunks :
          /\ AppendBytes(s) => Q!Put(s) \/ Q!Refuse(Len(s))
          /\ Appendf(s) => Q!Put(s) \/ Q!Refuse(IF Len(s) < STACK THEN Len(s) ELSE Len(s) + 1)
          /\ Advance(s) => Q!Put(s)
     /\ \A n \in 1 .. MaxOp : Reserve(n) => Q!Put(<<>>) \/ Q!Refuse(n)
     /\ \A n \in 0 .. MaxOp : Consume(n) => Q!Take(n)]_vars
==============================================================================
