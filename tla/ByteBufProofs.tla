---------------------------- MODULE ByteBufProofs ----------------------------
(***************************************************************************)
(* Proofs about ByteBuf for every alphabet, every capacity and every        *)
(* compaction policy: the buffer implements the bounded queue Fifo, and     *)
(* grows as the doubling loop does.                                         *)
(***************************************************************************)
EXTENDS ByteBuf, SequenceTheorems, WellFoundedInduction, TLAPS

Cell == Bytes \cup {Junk}

(* A buffer whose offsets are in order, within its allocation and the cap,
   and whose live cells have been written. *)
WF(x) ==
  /\ x = [data |-> x.data, len |-> x.len, off |-> x.off]
  /\ x.data \in Seq(Cell) /\ x.len \in Nat /\ x.off \in Nat
  /\ x.off <= x.len /\ x.len <= Cap(x) /\ Cap(x) <= MAX
  /\ \A i \in x.off + 1 .. x.len : x.data[i] \in Bytes

IInv ==
  /\ WF(b)
  /\ room \in 0 .. MaxOp /\ b.len + room <= Cap(b)
  /\ ret \in {0, 1}

-----------------------------------------------------------------------------
(* The live bytes of a buffer, pointwise. *)
LEMMA LiveProperties ==
  ASSUME NEW x, WF(x)
  PROVE  /\ Live(x) \in Seq(Bytes)
         /\ Len(Live(x)) = x.len - x.off
         /\ \A i \in 1 .. x.len - x.off : Live(x)[i] = x.data[x.off + i]
<1>1. x.off + 1 \in Int /\ x.len \in Int
  BY DEF WF
<1>2. \A i \in x.off + 1 .. x.len : x.data[i] \in Bytes
  BY DEF WF
<1> DEFINE m == x.off + 1
           n == x.len
           s == x.data
<1>3. /\ SubSeq(s, m, n) \in Seq(Bytes)
      /\ Len(SubSeq(s, m, n)) = IF m <= n THEN n - m + 1 ELSE 0
      /\ \A i \in 1 .. n - m + 1 : SubSeq(s, m, n)[i] = s[m + i - 1]
  <2> HIDE DEF m, n, s
  <2>1. m \in Int /\ n \in Int /\ \A i \in m .. n : s[i] \in Bytes
    BY <1>1, <1>2 DEF m, n, s
  <2> QED  BY <2>1, SubSeqProperties
<1>4. Live(x) = SubSeq(s, m, n)
  BY DEF Live
<1>5. x.len \in Nat /\ x.off \in Nat /\ x.off <= x.len
  BY DEF WF
<1>6. /\ n - m + 1 = x.len - x.off
      /\ (IF m <= n THEN n - m + 1 ELSE 0) = x.len - x.off
      /\ \A i \in Int : m + i - 1 = x.off + i
  BY <1>5
<1> HIDE DEF m, n
<1>7. \A i \in 1 .. x.len - x.off : SubSeq(s, m, n)[i] = s[x.off + i]
  BY <1>3, <1>6
<1> QED  BY <1>3, <1>4, <1>6, <1>7

(* Two buffers with the same live cells have the same live bytes. *)
LEMMA LiveEqual ==
  ASSUME NEW x, NEW q \in Seq(Bytes), WF(x),
         Len(q) = x.len - x.off,
         \A i \in 1 .. x.len - x.off : x.data[x.off + i] = q[i]
  PROVE  Live(x) = q
BY LiveProperties, SeqEqual

(* A set of naturals that is not empty has a least element. *)
LEMMA LeastProperties ==
  ASSUME NEW S \in SUBSET Nat, S # {}
  PROVE  Least(S) \in S /\ \A n \in S : Least(S) <= n
<1>1. PICK m \in S : \A n \in S : ~(<<n, m>> \in OpToRel(<, Nat))
  BY NatLessThanWellFounded, WFMin
<1>2. ASSUME NEW n \in S PROVE m <= n
  <2>1. SUFFICES ASSUME n < m PROVE FALSE
    OBVIOUS
  <2> DEFINE p == <<n, m>>
  <2>2. p \in Nat \X Nat /\ p[1] = n /\ p[2] = m
    OBVIOUS
  <2>3. p[1] < p[2]
    BY <2>1, <2>2
  <2>4. p \in OpToRel(<, Nat)
    BY <2>2, <2>3 DEF OpToRel
  <2> QED  BY <1>1, <2>4
<1> QED  BY <1>2 DEF Least

(* compact_in_place() moves the live bytes and changes none. *)
LEMMA CompactProperties ==
  ASSUME NEW x, WF(x)
  PROVE  /\ WF(Compact(x)) /\ Live(Compact(x)) = Live(x)
         /\ Cap(Compact(x)) = Cap(x) /\ Compact(x).off = 0
         /\ Compact(x).len = x.len - x.off
<1> DEFINE y == Compact(x)
<1>1. /\ y.len = x.len - x.off /\ y.off = 0
      /\ y = [data |-> y.data, len |-> y.len, off |-> y.off]
      /\ y.data = [i \in 1 .. Cap(x) |-> IF i <= x.len - x.off
                                           THEN x.data[x.off + i] ELSE x.data[i]]
  BY DEF Compact
<1>2. /\ Cap(x) \in Nat /\ x.data \in [1 .. Cap(x) -> Cell]
      /\ x.len \in Nat /\ x.off \in Nat /\ x.off <= x.len /\ x.len <= Cap(x)
      /\ Cap(x) <= MAX
  BY LenProperties DEF WF, Cap
<1> HIDE DEF y
<1>3. /\ y.data \in Seq(Cell) /\ Len(y.data) = Cap(x)
      /\ \A i \in 1 .. Cap(x) : y.data[i] = IF i <= x.len - x.off
                                  THEN x.data[x.off + i] ELSE x.data[i]
  <2>1. \A i \in 1 .. Cap(x) : (IF i <= x.len - x.off
          THEN x.data[x.off + i] ELSE x.data[i]) \in Cell
    BY <1>2
  <2>2. y.data \in [1 .. Cap(x) -> Cell]
    BY <1>1, <2>1
  <2> QED  BY <1>1, <1>2, <2>2
<1>4. \A i \in 1 .. y.len : y.data[y.off + i] = x.data[x.off + i]
  BY <1>1, <1>2, <1>3
<1>5. \A i \in y.off + 1 .. y.len : y.data[i] \in Bytes
  <2> SUFFICES ASSUME NEW i \in 1 .. x.len - x.off PROVE y.data[i] \in Bytes
    BY <1>1
  <2>1. x.off + i \in x.off + 1 .. x.len /\ i \in 1 .. Cap(x)
    BY <1>2
  <2>2. y.data[i] = x.data[x.off + i]
    BY <1>3, <2>1
  <2> QED  BY <2>1, <2>2 DEF WF
<1>6. WF(y) /\ Cap(y) = Cap(x)
  BY <1>1, <1>2, <1>3, <1>5 DEF WF, Cap
<1>7. Live(y) = Live(x)
  <2>1. /\ Live(x) \in Seq(Bytes) /\ Len(Live(x)) = y.len - y.off
        /\ \A i \in 1 .. y.len - y.off : y.data[y.off + i] = Live(x)[i]
    BY <1>1, <1>2, <1>4, LiveProperties
  <2> QED  BY <1>6, <2>1, LiveEqual
<1> QED  BY <1>1, <1>6, <1>7 DEF y

(* realloc() to a larger size keeps the live bytes. *)
LEMMA ResizeProperties ==
  ASSUME NEW x, WF(x), NEW cap \in Nat, Cap(x) <= cap, cap <= MAX
  PROVE  /\ WF(Resize(x, cap)) /\ Live(Resize(x, cap)) = Live(x)
         /\ Cap(Resize(x, cap)) = cap
         /\ Resize(x, cap).off = x.off /\ Resize(x, cap).len = x.len
<1> DEFINE d == [i \in 1 .. cap |-> IF i <= Cap(x) THEN x.data[i] ELSE Junk]
           y == [data |-> d, len |-> x.len, off |-> x.off]
<1>1. Resize(x, cap) = y
  <2>1. x = [data |-> x.data, len |-> x.len, off |-> x.off]
    BY DEF WF
  <2> QED  BY <2>1 DEF Resize
<1>2. /\ Cap(x) \in Nat /\ x.data \in [1 .. Cap(x) -> Cell]
      /\ x.len \in Nat /\ x.off \in Nat /\ x.off <= x.len /\ x.len <= Cap(x)
  BY LenProperties DEF WF, Cap
<1>3. d \in [1 .. cap -> Cell] /\ \A i \in 1 .. Cap(x) : d[i] = x.data[i]
  BY <1>2 DEF Cell
<1>4. d \in Seq(Cell) /\ Len(d) = cap
  BY <1>3
<1> HIDE DEF d
<1>5. WF(y) /\ Cap(y) = cap
  BY <1>2, <1>3, <1>4 DEF WF, Cap
<1>6. \A i \in 1 .. x.len - x.off : y.data[y.off + i] = x.data[x.off + i]
  BY <1>2, <1>3
<1>7. Live(y) = Live(x)
  <2>1. /\ Live(x) \in Seq(Bytes) /\ Len(Live(x)) = y.len - y.off
        /\ \A i \in 1 .. y.len - y.off : y.data[y.off + i] = Live(x)[i]
    BY <1>6, LiveProperties
  <2> HIDE DEF y
  <2> QED  BY <1>5, <2>1, LiveEqual
<1> QED  BY <1>1, <1>5, <1>7

(* The capacities growth may choose: they fit, and the cap itself is one of
   them as soon as it fits. *)
LEMMA FitsProperties ==
  ASSUME NEW cap \in Nat, cap <= MAX, NEW len \in Nat, NEW need \in Nat
  PROVE  /\ Fits(cap, len, need) \subseteq Nat
         /\ \A c \in Fits(cap, len, need) :
              c >= len + need /\ cap <= c /\ c <= MAX
         /\ Fits(cap, len, need) = {} => len + need > MAX
<1>1. /\ Ladder(cap) \subseteq Nat /\ MAX \in Ladder(cap)
      /\ \A c \in Ladder(cap) : cap <= c /\ c <= MAX
  BY BufConstants DEF Ladder
<1> QED  BY <1>1, BufConstants DEF Fits

(* ensure_tail_cap() never changes the live bytes; when it succeeds there is
   room, when it fails the cap would be exceeded or memory has run out. *)
LEMMA EnsureTailProperties ==
  ASSUME NEW x, WF(x), NEW need \in Nat, NEW e \in EnsureTail(x, need)
  PROVE  /\ WF(e.buf) /\ Live(e.buf) = Live(x)
         /\ e.ok \in BOOLEAN
         /\ e.ok => Cap(e.buf) - e.buf.len >= need
         /\ ~e.ok => MayFail \/ Len(Live(x)) + need > MAX
<1> DEFINE y == IF Cap(x) - x.len < need /\ x.off > 0 THEN Compact(x) ELSE x
           fits == Fits(Cap(y), y.len, need)
<1>1. WF(y) /\ Live(y) = Live(x)
  BY CompactProperties
<1>2. Cap(y) - y.len < need => y.off = 0
  <2>1. x.off \in Nat
    BY DEF WF
  <2> QED  BY <2>1, CompactProperties
<1>3. /\ Cap(y) \in Nat /\ y.len \in Nat /\ y.off \in Nat /\ y.len <= Cap(y)
      /\ Cap(y) <= MAX
  BY <1>1, LenProperties DEF WF, Cap
<1>4. /\ fits \subseteq Nat
      /\ \A c \in fits : c >= y.len + need /\ Cap(y) <= c /\ c <= MAX
      /\ fits = {} => y.len + need > MAX
  BY <1>3, FitsProperties
<1>5. \/ e = [ok |-> TRUE, buf |-> y] /\ Cap(y) - y.len >= need
      \/ /\ Cap(y) - y.len < need
         /\ \/ \E c \in fits : e = [ok |-> TRUE, buf |-> Resize(y, c)]
            \/ e = [ok |-> FALSE, buf |-> y] /\ (MayFail \/ fits = {})
  BY <1>3, BufConstants DEF EnsureTail
<1> HIDE DEF y, fits
<1>6. CASE e = [ok |-> TRUE, buf |-> y] /\ Cap(y) - y.len >= need
  BY <1>1, <1>6
<1>7. ASSUME NEW c \in fits, e = [ok |-> TRUE, buf |-> Resize(y, c)]
      PROVE  WF(e.buf) /\ Live(e.buf) = Live(x) /\ Cap(e.buf) - e.buf.len >= need
  <2>1. c \in Nat /\ Cap(y) <= c /\ c <= MAX /\ c >= y.len + need
    BY <1>4
  <2>2. /\ WF(Resize(y, c)) /\ Live(Resize(y, c)) = Live(y)
        /\ Cap(Resize(y, c)) = c /\ Resize(y, c).len = y.len
    BY <1>1, <2>1, ResizeProperties
  <2> QED  BY <1>1, <1>3, <1>7, <2>1, <2>2
<1>8. CASE /\ Cap(y) - y.len < need
           /\ e = [ok |-> FALSE, buf |-> y] /\ (MayFail \/ fits = {})
  <2>1. Len(Live(y)) = y.len
    BY <1>1, <1>2, <1>3, <1>8, LiveProperties
  <2> QED  BY <1>1, <1>4, <1>8, <2>1
<1>9. CASE \E c \in fits : e = [ok |-> TRUE, buf |-> Resize(y, c)]
  <2>1. PICK c \in fits : e = [ok |-> TRUE, buf |-> Resize(y, c)]
    BY <1>9
  <2>2. e.ok
    BY <2>1
  <2> QED  BY <1>7, <2>1, <2>2
<1> QED  BY <1>5, <1>6, <1>8, <1>9

(* memcpy() to free cells at the tail appends to the live bytes. *)
LEMMA WriteTailProperties ==
  ASSUME NEW x, WF(x), NEW s \in Seq(Bytes), Cap(x) - x.len >= Len(s)
  PROVE  /\ WF(WriteTail(x, s)) /\ Live(WriteTail(x, s)) = Live(x) \o s
         /\ Cap(WriteTail(x, s)) = Cap(x)
<1> DEFINE d == [i \in 1 .. Cap(x) |-> IF i \in x.len + 1 .. x.len + Len(s)
                                         THEN s[i - x.len] ELSE x.data[i]]
           y == [data |-> d, len |-> x.len + Len(s), off |-> x.off]
<1>1. WriteTail(x, s) = y
  BY DEF WriteTail
<1>2. /\ Cap(x) \in Nat /\ x.data \in [1 .. Cap(x) -> Cell]
      /\ x.len \in Nat /\ x.off \in Nat /\ x.off <= x.len /\ x.len <= Cap(x)
      /\ Cap(x) <= MAX /\ Len(s) \in Nat /\ s \in [1 .. Len(s) -> Bytes]
      /\ \A i \in x.off + 1 .. x.len : x.data[i] \in Bytes
  BY LenProperties DEF WF, Cap
<1>3. /\ d \in [1 .. Cap(x) -> Cell]
      /\ \A i \in 1 .. Cap(x) : i <= x.len => d[i] = x.data[i]
      /\ \A i \in 1 .. Len(s) : d[x.len + i] = s[i]
  BY <1>2 DEF Cell
<1> HIDE DEF d
<1>4. d \in Seq(Cell) /\ Len(d) = Cap(x)
  BY <1>2, <1>3
<1>5. \A i \in x.off + 1 .. x.len + Len(s) : d[i] \in Bytes
  <2> SUFFICES ASSUME NEW i \in x.off + 1 .. x.len + Len(s) PROVE d[i] \in Bytes
    OBVIOUS
  <2>1. CASE i <= x.len
    <3>1. i \in x.off + 1 .. x.len /\ i \in 1 .. Cap(x)
      BY <1>2, <2>1
    <3> QED  BY <1>2, <1>3, <2>1, <3>1
  <2>2. CASE i > x.len
    <3>1. i - x.len \in 1 .. Len(s) /\ x.len + (i - x.len) = i
      BY <1>2, <2>2
    <3>2. d[i] = s[i - x.len]
      BY <1>3, <3>1
    <3> QED  BY <1>2, <3>1, <3>2
  <2> QED  BY <1>2, <2>1, <2>2
<1>6. WF(y) /\ Cap(y) = Cap(x)
  BY <1>2, <1>4, <1>5 DEF WF, Cap
<1>7. Live(y) = Live(x) \o s
  <2> DEFINE q == Live(x) \o s
             n == x.len - x.off
  <2>1. /\ Live(x) \in Seq(Bytes) /\ Len(Live(x)) = n
        /\ \A i \in 1 .. n : Live(x)[i] = x.data[x.off + i]
    BY LiveProperties
  <2>3. n \in Nat /\ y.len - y.off = n + Len(s) /\ x.off + n = x.len
    BY <1>2
  <2> HIDE DEF n
  <2>2. /\ q \in Seq(Bytes) /\ Len(q) = n + Len(s)
        /\ \A i \in 1 .. n + Len(s) :
             q[i] = IF i <= n THEN Live(x)[i] ELSE s[i - n]
    BY <2>1, ConcatProperties
  <2>4. ASSUME NEW i \in 1 .. n + Len(s)
        PROVE  d[x.off + i] = q[i]
    <3>1. CASE i <= n
      <4>1. x.off + i \in 1 .. Cap(x) /\ x.off + i <= x.len /\ i \in 1 .. n
        <5>1. /\ x.off \in Nat /\ x.len \in Nat /\ Cap(x) \in Nat
              /\ x.len <= Cap(x) /\ i \in Int /\ 1 <= i
          BY <1>2, <2>3
        <5> QED  BY <2>3, <3>1, <5>1
      <4>2. d[x.off + i] = x.data[x.off + i]
        BY <1>3, <4>1
      <4>3. q[i] = Live(x)[i] /\ Live(x)[i] = x.data[x.off + i]
        BY <2>1, <2>2, <3>1, <4>1
      <4> QED  BY <4>2, <4>3
    <3>2. CASE i > n
      <4>1. i - n \in 1 .. Len(s) /\ x.len + (i - n) = x.off + i
        BY <1>2, <2>3, <3>2
      <4>2. d[x.off + i] = s[i - n]
        BY <1>3, <4>1
      <4>3. q[i] = s[i - n]
        BY <2>2, <2>3, <3>2
      <4> QED  BY <4>2, <4>3
    <3>3. i \in Int /\ n \in Int /\ (i <= n \/ i > n)
      BY <1>2, <2>3
    <3> QED  BY <3>1, <3>2, <3>3
  <2> HIDE DEF q
  <2>5. \A i \in 1 .. y.len - y.off : y.data[y.off + i] = q[i]
    BY <2>3, <2>4
  <2> HIDE DEF y
  <2> QED  BY <1>6, <2>2, <2>3, <2>5, LiveEqual DEF q
<1> QED  BY <1>1, <1>6, <1>7
-----------------------------------------------------------------------------
(* The operations.                                                         *)

LEMMA EmptyProperties == WF(Empty) /\ Live(Empty) = <<>> /\ Cap(Empty) = 0
<1>1. WF(Empty) /\ Cap(Empty) = 0
  BY BufConstants DEF WF, Empty, Cap
<1>2. Live(Empty) = <<>>
  BY SubSeqEmpty DEF Live, Empty
<1> QED  BY <1>1, <1>2

LEMMA ChunkProperties ==
  ASSUME NEW s \in Chunks
  PROVE  s \in Seq(Bytes) /\ Len(s) \in 0 .. MaxOp
BY BufConstants DEF Chunks

(* An abstract step: what a call does to the queue of live bytes. *)
AbstractStep == [Q!Next]_<<Live(b), ret>>

(* A producer that asks for at least the cells it fills puts its bytes at
   the tail, or is refused for a reason and loses nothing. *)
LEMMA ProduceStep ==
  ASSUME IInv, NEW s \in Chunks, NEW need \in 1 .. MaxOp + 1, Len(s) <= need,
         Produce(s, need), room' = 0
  PROVE  IInv' /\ AbstractStep /\ (Q!Put(s) \/ Q!Refuse(need))
<1>1. s \in Seq(Bytes) /\ Len(s) \in 0 .. MaxOp
  BY ChunkProperties
<1>2. PICK e \in EnsureTail(b, need) :
        \/ e.ok  /\ b' = WriteTail(e.buf, s) /\ ret' = 0
        \/ ~e.ok /\ b' = e.buf /\ ret' = 1
  BY DEF Produce
<1>3. /\ WF(e.buf) /\ Live(e.buf) = Live(b) /\ e.ok \in BOOLEAN
      /\ e.ok => Cap(e.buf) - e.buf.len >= need
      /\ ~e.ok => MayFail \/ Len(Live(b)) + need > MAX
  BY BufConstants, EnsureTailProperties DEF IInv
<1>4. CASE e.ok
  <2>1. Cap(e.buf) - e.buf.len >= Len(s)
    BY <1>1, <1>3, <1>4, LenProperties, BufConstants DEF WF, Cap
  <2>2. /\ WF(b') /\ Live(b)' = Live(b) \o s /\ ret' = 0
    BY <1>1, <1>2, <1>3, <1>4, <2>1, WriteTailProperties DEF Live
  <2>3. Len(Live(b)') <= MAX
    <3>1. Len(Live(b)') = b'.len - b'.off
      BY <2>2, LiveProperties DEF Live
    <3> QED  BY <2>2, <3>1, LenProperties, BufConstants DEF WF, Cap
  <2>4. Len(Live(b)) + Len(s) <= MAX
    <3>1. Live(b) \in Seq(Bytes)
      BY LiveProperties DEF IInv
    <3> QED  BY <1>1, <2>2, <2>3, <3>1, ConcatProperties
  <2>5. Q!Put(s)
    BY <2>2, <2>4 DEF Q!Put
  <2>6. IInv'
    BY <2>2, LenProperties, BufConstants DEF IInv, WF, Cap
  <2> QED  BY <2>5, <2>6 DEF AbstractStep, Q!Next, Q!Chunks, Chunks
<1>5. CASE ~e.ok
  <2>1. WF(b') /\ Live(b)' = Live(b) /\ ret' = 1
    BY <1>2, <1>3, <1>5 DEF Live
  <2>2. Q!Refuse(need)
    BY <1>3, <1>5, <2>1 DEF Q!Refuse
  <2>3. IInv'
    BY <2>1, LenProperties, BufConstants DEF IInv, WF, Cap
  <2> QED  BY <2>2, <2>3 DEF AbstractStep, Q!Next
<1> QED  BY <1>3, <1>4, <1>5

(* A call that changes nothing but the result puts nothing in the queue. *)
LEMMA NoOpStep ==
  ASSUME IInv, b' = b, ret' = 0, room' = 0
  PROVE  IInv' /\ AbstractStep /\ Q!Put(<<>>)
<1>1. Live(b) \in Seq(Bytes) /\ Len(Live(b)) <= MAX
  <2>1. Len(Live(b)) = b.len - b.off /\ Live(b) \in Seq(Bytes)
    BY LiveProperties DEF IInv
  <2> QED  BY <2>1, LenProperties, BufConstants DEF IInv, WF, Cap
<1>2. <<>> \in Q!Chunks
  BY BufConstants DEF Q!Chunks
<1>3. Q!Put(<<>>)
  BY <1>1 DEF Q!Put, Live
<1>4. IInv'
  BY LenProperties, BufConstants DEF IInv, WF, Cap
<1> QED  BY <1>2, <1>3, <1>4 DEF AbstractStep, Q!Next

LEMMA AppendStep ==
  ASSUME IInv, NEW s \in Chunks, AppendBytes(s) \/ Appendf(s)
  PROVE  /\ IInv' /\ AbstractStep
         /\ AppendBytes(s) => Q!Put(s) \/ Q!Refuse(Len(s))
         /\ Appendf(s) => Q!Put(s) \/ Q!Refuse(IF Len(s) < STACK THEN Len(s) ELSE Len(s) + 1)
<1>1. s \in Seq(Bytes) /\ Len(s) \in 0 .. MaxOp
  BY ChunkProperties
<1>2. room' = 0
  BY DEF AppendBytes, Appendf
<1>3. ASSUME s = <<>>, b' = b /\ ret' = 0 PROVE IInv' /\ AbstractStep /\ Q!Put(s)
  BY <1>2, <1>3, NoOpStep
<1>4. ASSUME s # <<>>, Produce(s, Len(s))
      PROVE  IInv' /\ AbstractStep /\ (Q!Put(s) \/ Q!Refuse(Len(s)))
  <2>1. Len(s) \in 1 .. MaxOp + 1 /\ Len(s) <= Len(s)
    BY <1>1, <1>4, BufConstants
  <2> QED  BY <1>2, <1>4, <2>1, ProduceStep
<1>5. ASSUME Produce(s, Len(s) + 1)
      PROVE  IInv' /\ AbstractStep /\ (Q!Put(s) \/ Q!Refuse(Len(s) + 1))
  <2>1. Len(s) + 1 \in 1 .. MaxOp + 1 /\ Len(s) <= Len(s) + 1
    BY <1>1, BufConstants
  <2> QED  BY <1>2, <1>5, <2>1, ProduceStep
<1>6. AppendBytes(s) => IInv' /\ AbstractStep /\ (Q!Put(s) \/ Q!Refuse(Len(s)))
  BY <1>3, <1>4 DEF AppendBytes
<1>7. ASSUME Appendf(s)
      PROVE  /\ IInv' /\ AbstractStep
             /\ Q!Put(s) \/ Q!Refuse(IF Len(s) < STACK THEN Len(s) ELSE Len(s) + 1)
  <2>1. CASE Len(s) < STACK
    BY <1>3, <1>4, <1>7, <2>1 DEF Appendf
  <2>2. CASE ~(Len(s) < STACK)
    BY <1>5, <1>7, <2>2 DEF Appendf
  <2> QED  BY <2>1, <2>2
<1> QED  BY <1>6, <1>7

LEMMA ReserveStep ==
  ASSUME IInv, NEW n \in 1 .. MaxOp, Reserve(n)
  PROVE  IInv' /\ AbstractStep /\ (Q!Put(<<>>) \/ Q!Refuse(n))
<1>1. PICK e \in EnsureTail(b, n) :
        /\ b' = e.buf
        /\ ret' = IF e.ok THEN 0 ELSE 1
        /\ room' = IF e.ok THEN n ELSE 0
  BY DEF Reserve
<1>2. /\ WF(e.buf) /\ Live(e.buf) = Live(b) /\ e.ok \in BOOLEAN
      /\ e.ok => Cap(e.buf) - e.buf.len >= n
      /\ ~e.ok => MayFail \/ Len(Live(b)) + n > MAX
  BY BufConstants, EnsureTailProperties DEF IInv
<1>3. WF(b') /\ Live(b)' = Live(b)
  BY <1>1, <1>2 DEF Live
<1>4. Cap(b)' \in Nat /\ b'.len \in Nat /\ b'.len <= Cap(b)'
  BY <1>3, LenProperties DEF WF, Cap
<1>5. IInv'
  <2>1. e.ok => Cap(b)' - b'.len >= n
    BY <1>1, <1>2 DEF Cap
  <2> QED  BY <1>1, <1>2, <1>3, <1>4, <2>1, BufConstants DEF IInv, Cap
<1>6. CASE e.ok
  <2>1. Len(Live(b)) <= MAX /\ Live(b) \in Seq(Bytes)
    <3>1. Len(Live(b)) = b.len - b.off /\ Live(b) \in Seq(Bytes)
      BY LiveProperties DEF IInv
    <3> QED  BY <3>1, LenProperties, BufConstants DEF IInv, WF, Cap
  <2>2. <<>> \in Q!Chunks
    BY BufConstants DEF Q!Chunks
  <2>3. Live(b) \o <<>> = Live(b) /\ Len(<<>>) = 0
    BY <2>1, ConcatEmptySeq
  <2>4. Len(Live(b)) + Len(<<>>) <= MAX
    BY <2>1, <2>3, LenProperties
  <2>5. Q!Put(<<>>)
    BY <1>1, <1>3, <1>6, <2>3, <2>4 DEF Q!Put
  <2> QED  BY <1>5, <2>2, <2>5 DEF AbstractStep, Q!Next
<1>7. CASE ~e.ok
  <2>1. Q!Refuse(n) /\ n \in 1 .. MaxOp + 1
    BY <1>1, <1>2, <1>3, <1>7, BufConstants DEF Q!Refuse
  <2> QED  BY <1>5, <2>1 DEF AbstractStep, Q!Next
<1> QED  BY <1>2, <1>6, <1>7

LEMMA AdvanceStep ==
  ASSUME IInv, NEW s \in Chunks, Advance(s)
  PROVE  IInv' /\ AbstractStep /\ Q!Put(s)
<1>1. s \in Seq(Bytes) /\ Len(s) \in 0 .. MaxOp
  BY ChunkProperties
<1>2. Cap(b) - b.len >= Len(s)
  BY <1>1, LenProperties, BufConstants DEF Advance, IInv, WF, Cap
<1>3. WF(b') /\ Live(b)' = Live(b) \o s /\ ret' = 0 /\ room' = 0
  BY <1>1, <1>2, WriteTailProperties DEF Advance, IInv, Live
<1>4. Len(Live(b)) + Len(s) <= MAX
  <2>1. Len(Live(b)') = b'.len - b'.off
    BY <1>3, LiveProperties DEF Live
  <2>2. Len(Live(b)') <= MAX
    BY <1>3, <2>1, LenProperties, BufConstants DEF WF, Cap
  <2>3. Live(b) \in Seq(Bytes)
    BY LiveProperties DEF IInv
  <2> QED  BY <1>1, <1>3, <2>2, <2>3, ConcatProperties
<1>5. Q!Put(s)
  BY <1>3, <1>4 DEF Q!Put
<1>6. IInv'
  BY <1>3, LenProperties, BufConstants DEF IInv, WF, Cap
<1> QED  BY <1>5, <1>6 DEF AbstractStep, Q!Next, Q!Chunks, Chunks

(* bytebuf_consume() takes the first n of the live bytes, or all of them,
   whether it resets the offsets, compacts, or only moves the head. *)
LEMMA ConsumeStep ==
  ASSUME IInv, NEW n \in 0 .. MaxOp, Consume(n)
  PROVE  IInv' /\ AbstractStep /\ Q!Take(n)
<1> DEFINE live == b.len - b.off
           off  == b.off + (IF n > live THEN live ELSE n)
           x    == [data |-> b.data, len |-> b.len, off |-> off]
           none == [data |-> b.data, len |-> 0, off |-> 0]
<1>1. /\ b = [data |-> b.data, len |-> b.len, off |-> b.off]
      /\ b.data \in Seq(Cell) /\ b.len \in Nat /\ b.off \in Nat
      /\ b.off <= b.len /\ b.len <= Cap(b) /\ Cap(b) <= MAX
      /\ \A i \in b.off + 1 .. b.len : b.data[i] \in Bytes
      /\ Cap(b) \in Nat /\ n \in Nat /\ MaxOp \in Nat
  BY BufConstants, LenProperties DEF IInv, WF, Cap
<1>2. /\ off \in Nat /\ b.off <= off /\ off <= b.len
      /\ off # b.len => off = b.off + n
      /\ off = b.len => live <= n
  BY <1>1
<1>4. /\ \/ off = b.len /\ b' = none
         \/ off # b.len /\ b' = Compact(x)
         \/ off # b.len /\ b' = x
      /\ room' = 0 /\ ret' = ret
  BY DEF Consume, Drained
<1>5. /\ Live(b) \in Seq(Bytes) /\ Len(Live(b)) = live
      /\ \A i \in 1 .. live : Live(b)[i] = b.data[b.off + i]
  BY LiveProperties DEF IInv
<1> HIDE DEF off
<1>6. WF(x) /\ Cap(x) = Cap(b)
  <2>1. \A i \in off + 1 .. b.len : i \in b.off + 1 .. b.len
    BY <1>1, <1>2
  <2> QED  BY <1>1, <1>2, <2>1 DEF WF, Cap
<1>7. WF(none) /\ Cap(none) = Cap(b)
  BY <1>1 DEF WF, Cap
<1>8. WF(b') /\ Q!Take(n)
  <2>1. CASE off = b.len /\ b' = none
    <3>1. Live(none) = <<>>
      BY SubSeqEmpty DEF Live
    <3>2. SubSeq(Live(b), n + 1, Len(Live(b))) = <<>>
      <4>1. n + 1 \in Int /\ live \in Int /\ n + 1 > live
        BY <1>1, <1>2, <2>1
      <4> HIDE DEF live
      <4> QED  BY <1>5, <4>1, SubSeqEmpty
    <3>3. Live(b)' = <<>>
      BY <2>1, <3>1 DEF Live
    <3> QED  BY <1>4, <1>7, <2>1, <3>2, <3>3 DEF Q!Take
  <2>2. CASE off # b.len /\ (b' = Compact(x) \/ b' = x)
    <3>1. WF(b') /\ Live(b') = Live(x)
      BY <1>6, <2>2, CompactProperties
    <3>2. Live(x) = SubSeq(Live(b), n + 1, Len(Live(b)))
      <4> DEFINE s == Live(b)
                 m == n + 1
                 t == SubSeq(s, m, live)
      <4>1. /\ live \in Nat /\ m \in Nat \ {0} /\ m <= live
            /\ live - m + 1 = b.len - off /\ b.off + n = off
            /\ b.len - off \in Nat
        BY <1>1, <1>2, <2>2
      <4>2. \A i \in m .. live : s[i] \in Bytes
        BY <1>5, <4>1
      <4>3. /\ t \in Seq(Bytes) /\ Len(t) = b.len - off
            /\ \A i \in 1 .. b.len - off : t[i] = s[m + i - 1]
        <5> HIDE DEF s, m, live
        <5>1. m \in Int /\ live \in Int
          BY <4>1
        <5> QED  BY <4>1, <4>2, <5>1, SubSeqProperties
      <4>4. ASSUME NEW i \in 1 .. b.len - off
            PROVE  x.data[x.off + i] = t[i]
        <5>1. m + i - 1 \in 1 .. live
          <6>1. live - m + 1 = b.len - off
            BY <4>1
          <6>2. live \in Nat /\ m \in Nat /\ i \in Int /\ 1 <= i
            BY <4>1
          <6>3. i <= live - m + 1 /\ 1 <= m
            BY <4>1, <6>1
          <6> HIDE DEF m, live
          <6> QED  BY <6>2, <6>3
        <5>3. b.off + (m + i - 1) = off + i
          <6>1. /\ b.off \in Nat /\ n \in Nat /\ off \in Nat /\ i \in Int
                /\ off = b.off + n
            BY <1>1, <1>2, <4>1
          <6>2. b.off + (n + 1 + i - 1) = b.off + n + i
            BY <6>1
          <6> QED  BY <6>1, <6>2
        <5>2. s[m + i - 1] = b.data[off + i]
          BY <1>5, <5>1, <5>3
        <5> QED  BY <4>3, <5>2
      <4>5. x.len - x.off = b.len - off
        OBVIOUS
      <4> HIDE DEF x, t
      <4>6. Live(x) = t
        BY <1>6, <4>3, <4>4, <4>5, LiveEqual
      <4> QED  BY <1>5, <4>6 DEF t
    <3>3. Live(b)' = Live(b')
      BY DEF Live
    <3> QED  BY <1>4, <3>1, <3>2, <3>3 DEF Q!Take
  <2> QED  BY <1>4, <2>1, <2>2
<1>9. IInv'
  <2>1. Cap(b)' = Cap(b') /\ Cap(b') \in Nat /\ b'.len \in Nat /\ b'.len <= Cap(b')
    BY <1>8, LenProperties DEF WF, Cap
  <2> QED  BY <1>1, <1>4, <1>8, <2>1 DEF IInv
<1> QED  BY <1>8, <1>9 DEF AbstractStep, Q!Next

(* bytebuf_reset() and bytebuf_free() empty the queue. *)
LEMMA ClearStep ==
  ASSUME IInv, Reset \/ Free
  PROVE  IInv' /\ AbstractStep
<1> DEFINE none == [data |-> b.data, len |-> 0, off |-> 0]
<1>2. WF(none) /\ Live(none) = <<>>
  <2>1. WF(none)
    BY LenProperties DEF IInv, WF, Cap
  <2> QED  BY <2>1, SubSeqEmpty DEF Live
<1>3. (b' = none \/ b' = Empty) /\ room' = 0 /\ ret' = ret
  BY DEF Reset, Free, Drained
<1>4. WF(b') /\ Live(b') = <<>>
  BY <1>2, <1>3, EmptyProperties
<1>5. Live(b)' = <<>>
  BY <1>4 DEF Live
<1>6. Q!Clear
  BY <1>3, <1>5 DEF Q!Clear
<1>7. IInv'
  BY <1>3, <1>4, LenProperties, BufConstants DEF IInv, WF, Cap
<1> QED  BY <1>6, <1>7 DEF AbstractStep, Q!Next

-----------------------------------------------------------------------------
(* The theorems.                                                           *)

(* The three facts of the induction, with the step of the queue that each
   step of the buffer is. *)
LEMMA InitInv == Init => IInv /\ Q!Init
<1> SUFFICES ASSUME Init PROVE IInv /\ Q!Init
  OBVIOUS
<1>1. b = Empty /\ room = 0 /\ ret = 0
  BY DEF Init
<1>2. IInv
  BY <1>1, EmptyProperties, BufConstants DEF IInv, Empty
<1>3. Q!Init
  BY <1>1, EmptyProperties DEF Q!Init
<1> QED  BY <1>2, <1>3

LEMMA NextInv == IInv /\ [Next]_vars => IInv' /\ AbstractStep
<1> SUFFICES ASSUME IInv, [Next]_vars PROVE IInv' /\ AbstractStep
  OBVIOUS
<1>1. CASE \E s \in Chunks : AppendBytes(s) \/ Appendf(s)
  BY <1>1, AppendStep
<1>2. CASE \E s \in Chunks : Advance(s)
  BY <1>2, AdvanceStep
<1>3. CASE \E n \in 1 .. MaxOp : Reserve(n)
  BY <1>3, ReserveStep
<1>4. CASE \E n \in 0 .. MaxOp : Consume(n)
  BY <1>4, ConsumeStep
<1>5. CASE Reset \/ Free
  BY <1>5, ClearStep
<1>6. CASE UNCHANGED vars
  <2>1. b' = b /\ room' = room /\ ret' = ret
    BY <1>6 DEF vars
  <2>2. IInv'
    BY <2>1 DEF IInv, WF, Cap
  <2>3. UNCHANGED <<Live(b), ret>>
    BY <2>1 DEF Live
  <2> QED  BY <2>2, <2>3 DEF AbstractStep
<1> QED  BY <1>1, <1>2, <1>3, <1>4, <1>5, <1>6 DEF Next

LEMMA InvImplies == IInv => TypeOK /\ LiveWritten
BY DEF IInv, WF, TypeOK, LiveWritten, Cell

THEOREM Invariance == Spec => []IInv
<1>1. Init => IInv
  BY InitInv
<1>2. IInv /\ [Next]_vars => IInv'
  BY NextInv
<1> QED  BY <1>1, <1>2, PTL DEF Spec

(* The offsets of a buffer stay in order and inside an allocation that never
   exceeds BYTEBUF_MAX, whatever sequence of calls its owner makes. *)
THEOREM TypeCorrect == Spec => []TypeOK
<1>1. IInv => TypeOK
  BY InvImplies
<1> QED  BY <1>1, Invariance, PTL

(* bytebuf_data() never exposes a cell that realloc() left uninitialized,
   and the cells bytebuf_reserve() handed out are there when
   bytebuf_advance() counts them. *)
THEOREM LiveAlwaysWritten == Spec => []LiveWritten
<1>1. IInv => LiveWritten
  BY InvImplies
<1> QED  BY <1>1, Invariance, PTL

(* The buffer of src/bytebuf.c implements the bounded queue: no call loses,
   duplicates or reorders a byte, and no producer is refused but for the cap
   or for memory. *)
THEOREM Implementation == Spec => ImplementsFifo
<1>1. Init => Q!Init
  BY InitInv
<1>2. IInv /\ [Next]_vars => [Q!Next]_<<Live(b), ret>>
  BY NextInv DEF AbstractStep
<1> QED  BY <1>1, <1>2, Invariance, PTL DEF Spec, ImplementsFifo, Q!Spec

(* Each call is the operation of the queue that its name promises, on the
   bytes it was given, wherever they lie and whichever realloc() fails. *)
THEOREM CallsKept == Spec => CallsAsPromised
<1>1. ASSUME IInv, NEW s \in Chunks
      PROVE  /\ AppendBytes(s) => Q!Put(s) \/ Q!Refuse(Len(s))
             /\ Appendf(s) => Q!Put(s) \/ Q!Refuse(IF Len(s) < STACK THEN Len(s) ELSE Len(s) + 1)
             /\ Advance(s) => Q!Put(s)
  BY <1>1, AppendStep, AdvanceStep
<1>2. ASSUME IInv, NEW n \in 1 .. MaxOp PROVE Reserve(n) => Q!Put(<<>>) \/ Q!Refuse(n)
  BY <1>2, ReserveStep
<1>3. ASSUME IInv, NEW n \in 0 .. MaxOp PROVE Consume(n) => Q!Take(n)
  BY <1>3, ConsumeStep
<1> DEFINE Kept ==
      /\ \A s \in Chunks :
            /\ AppendBytes(s) => Q!Put(s) \/ Q!Refuse(Len(s))
            /\ Appendf(s) => Q!Put(s) \/ Q!Refuse(IF Len(s) < STACK THEN Len(s) ELSE Len(s) + 1)
            /\ Advance(s) => Q!Put(s)
      /\ \A n \in 1 .. MaxOp : Reserve(n) => Q!Put(<<>>) \/ Q!Refuse(n)
      /\ \A n \in 0 .. MaxOp : Consume(n) => Q!Take(n)
<1>4. IInv => Kept
  BY <1>1, <1>2, <1>3
<1>5. IInv => [Kept]_vars
  BY <1>4
<1> QED  BY <1>5, Invariance, PTL DEF CallsAsPromised
-----------------------------------------------------------------------------
(* The dead space at the head.                                             *)

(* HeadWaste, of any buffer. *)
Tight(x) ==
  /\ x.off <= COMPACT_MIN \/ x.off <= Cap(x) \div 2
  /\ x.off = x.len => x.off = 0

LEMMA HalfMonotone ==
  ASSUME NEW m \in Nat, NEW n \in Nat, m <= n
  PROVE  m \div 2 <= n \div 2
OBVIOUS

(* ensure_tail_cap() moves the head only to 0, and never shrinks. *)
LEMMA EnsureTailTight ==
  ASSUME NEW x, WF(x), Tight(x), NEW need \in Nat, NEW e \in EnsureTail(x, need)
  PROVE  Tight(e.buf)
<1> DEFINE y == IF Cap(x) - x.len < need /\ x.off > 0 THEN Compact(x) ELSE x
           fits == Fits(Cap(y), y.len, need)
<1>1. WF(y)
  BY CompactProperties
<1>2. Tight(y)
  <2>1. CASE y = Compact(x)
    BY <2>1, CompactProperties, BufConstants DEF Tight
  <2>2. CASE y = x
    BY <2>2
  <2> QED  BY <2>1, <2>2
<1>3. Cap(y) \in Nat /\ y.len \in Nat /\ y.off \in Nat /\ Cap(y) <= MAX
  BY <1>1, LenProperties DEF WF, Cap
<1>4. fits \subseteq Nat /\ \A c \in fits : Cap(y) <= c /\ c <= MAX
  BY <1>3, FitsProperties
<1>5. \/ e.buf = y
      \/ \E c \in fits : e.buf = Resize(y, c)
  BY DEF EnsureTail
<1> HIDE DEF y, fits
<1>6. ASSUME NEW c \in fits, e.buf = Resize(y, c)
      PROVE  Tight(e.buf)
  <2>1. Cap(Resize(y, c)) = c /\ Resize(y, c).off = y.off /\ Resize(y, c).len = y.len
    BY <1>1, <1>4, ResizeProperties
  <2>2. Cap(y) \div 2 <= c \div 2
    BY <1>3, <1>4, HalfMonotone
  <2>3. c \div 2 \in Int /\ Cap(y) \div 2 \in Int
    BY <1>3, <1>4
  <2> QED  BY <1>2, <1>3, <1>6, <2>1, <2>2, <2>3, BufConstants DEF Tight
<1> QED  BY <1>2, <1>5, <1>6

LEMMA WriteTailTight ==
  ASSUME NEW x, WF(x), Tight(x), NEW s \in Seq(Bytes), Cap(x) - x.len >= Len(s)
  PROVE  Tight(WriteTail(x, s))
<1>1. Cap(WriteTail(x, s)) = Cap(x)
  BY WriteTailProperties
<1>2. WriteTail(x, s).len = x.len + Len(s) /\ WriteTail(x, s).off = x.off
  BY DEF WriteTail
<1>3. x.len \in Nat /\ x.off \in Nat /\ x.off <= x.len /\ Len(s) \in Nat
  BY LenProperties DEF WF
<1> QED  BY <1>1, <1>2, <1>3 DEF Tight

LEMMA ProduceTight ==
  ASSUME IInv, Tight(b), NEW s \in Chunks, NEW need \in Nat, Len(s) <= need,
         Produce(s, need)
  PROVE  Tight(b')
<1>1. PICK e \in EnsureTail(b, need) :
        \/ e.ok  /\ b' = WriteTail(e.buf, s)
        \/ ~e.ok /\ b' = e.buf
  BY DEF Produce
<1>2. /\ WF(e.buf) /\ Tight(e.buf)
      /\ e.ok => Cap(e.buf) - e.buf.len >= need
  BY EnsureTailProperties, EnsureTailTight DEF IInv
<1>3. CASE e.ok /\ b' = WriteTail(e.buf, s)
  <2>1. s \in Seq(Bytes) /\ Len(s) \in Nat
    BY ChunkProperties
  <2>2. Cap(e.buf) - e.buf.len >= Len(s)
    BY <1>2, <1>3, <2>1, LenProperties DEF WF, Cap
  <2>3. Tight(WriteTail(e.buf, s))
    BY <1>2, <2>1, <2>2, WriteTailTight
  <2> QED  BY <1>3, <2>3
<1>4. CASE b' = e.buf
  BY <1>2, <1>4
<1> QED  BY <1>1, <1>3, <1>4

LEMMA ConsumeTight ==
  ASSUME IInv, Tight(b), NEW n \in 0 .. MaxOp, Consume(n)
  PROVE  Tight(b')
<1> DEFINE live == b.len - b.off
           off  == b.off + (IF n > live THEN live ELSE n)
           x    == [data |-> b.data, len |-> b.len, off |-> off]
<1>1. b.len \in Nat /\ b.off \in Nat /\ b.off <= b.len /\ Cap(b) \in Nat
  BY LenProperties DEF IInv, WF, Cap
<1>2. off \in Nat
  BY <1>1, BufConstants
<1>3. b' = IF off = b.len THEN Drained(b)
           ELSE IF off > COMPACT_MIN /\ off > Cap(b) \div 2 THEN Compact(x)
           ELSE x
  BY DEF Consume
<1>4. CASE off = b.len
  <2>1. b' = Drained(b)
    BY <1>3, <1>4
  <2>2. b'.off = 0
    BY <2>1 DEF Drained
  <2> QED  BY <2>2, BufConstants DEF Tight
<1>5. CASE off # b.len /\ off > COMPACT_MIN /\ off > Cap(b) \div 2
  <2>1. b' = Compact(x)
    BY <1>3, <1>5
  <2>2. b'.off = 0
    BY <2>1 DEF Compact
  <2> QED  BY <2>2, BufConstants DEF Tight
<1>6. CASE off # b.len /\ ~(off > COMPACT_MIN /\ off > Cap(b) \div 2)
  <2>1. b' = x
    BY <1>3, <1>6
  <2>2. b'.off = off /\ b'.len = b.len /\ Cap(b') = Cap(b)
    BY <2>1 DEF Cap
  <2>3. Cap(b) \div 2 \in Int
    BY <1>1
  <2> QED  BY <1>2, <1>6, <2>2, <2>3, BufConstants DEF Tight
<1> QED  BY <1>4, <1>5, <1>6

LEMMA NextTight ==
  ASSUME IInv, Tight(b), [Next]_vars
  PROVE  Tight(b')
<1>1. ASSUME NEW s \in Chunks, AppendBytes(s) \/ Appendf(s)
      PROVE  Tight(b')
  <2>1. Len(s) \in Nat
    BY ChunkProperties
  <2>2. b' = b \/ Produce(s, Len(s)) \/ Produce(s, Len(s) + 1)
    BY <1>1 DEF AppendBytes, Appendf
  <2> QED  BY <2>1, <2>2, ProduceTight
<1>2. ASSUME NEW s \in Chunks, Advance(s)
      PROVE  Tight(b')
  <2>1. s \in Seq(Bytes) /\ Len(s) \in 0 .. MaxOp
    BY ChunkProperties
  <2>2. Cap(b) - b.len >= Len(s)
    BY <1>2, <2>1, LenProperties, BufConstants DEF Advance, IInv, WF, Cap
  <2> QED  BY <1>2, <2>1, <2>2, WriteTailTight DEF Advance, IInv
<1>3. ASSUME NEW n \in 1 .. MaxOp, Reserve(n)
      PROVE  Tight(b')
  <2>1. PICK e \in EnsureTail(b, n) : b' = e.buf
    BY <1>3 DEF Reserve
  <2>2. Tight(e.buf)
    BY BufConstants, EnsureTailTight DEF IInv
  <2> QED  BY <2>1, <2>2
<1>4. ASSUME NEW n \in 0 .. MaxOp, Consume(n)
      PROVE  Tight(b')
  BY <1>4, ConsumeTight
<1>5. CASE Reset \/ Free
  BY <1>5, BufConstants DEF Reset, Free, Drained, Empty, Tight
<1>6. CASE UNCHANGED vars
  BY <1>6 DEF vars
<1> QED  BY <1>1, <1>2, <1>3, <1>4, <1>5, <1>6 DEF Next

(* However requests are consumed and input arrives, at most half of the
   allocation, or BYTEBUF_COMPACT_MIN bytes of it, lies dead in front of the
   live bytes. *)
THEOREM LittleWaste == Spec => []HeadWaste
<1>1. Init => Tight(b)
  BY BufConstants DEF Init, Empty, Tight
<1>2. IInv /\ Tight(b) /\ [Next]_vars => Tight(b)'
  BY NextTight DEF Tight, Cap
<1>3. Tight(b) => HeadWaste
  BY DEF Tight, HeadWaste
<1> QED  BY <1>1, <1>2, <1>3, Invariance, PTL DEF Spec

-----------------------------------------------------------------------------
(* The doubling loop.                                                      *)

NoOdd(p) == \A d, q \in 1 .. p : p = d * q /\ d % 2 = 1 => d = 1

(* An even number is a power of two if its half is. *)
LEMMA HalfNoOdd ==
  ASSUME NEW p \in Nat, p >= 1
  PROVE  NoOdd(2 * p) <=> NoOdd(p)
<1>1. ASSUME NoOdd(2 * p) PROVE NoOdd(p)
  <2>1. SUFFICES ASSUME NEW d \in 1 .. p, NEW q \in 1 .. p, p = d * q, d % 2 = 1
                 PROVE  d = 1
    BY DEF NoOdd
  <2>2. 2 * q \in 1 .. 2 * p /\ d \in 1 .. 2 * p
    OBVIOUS
  <2>3. 2 * p = d * (2 * q)
    BY <2>1
  <2> QED  BY <1>1, <2>1, <2>2, <2>3 DEF NoOdd
<1>2. ASSUME NoOdd(p) PROVE NoOdd(2 * p)
  <2>1. SUFFICES ASSUME NEW d \in 1 .. 2 * p, NEW q \in 1 .. 2 * p,
                        2 * p = d * q, d % 2 = 1
                 PROVE  d = 1
    BY DEF NoOdd
  <2>2. PICK e \in Nat : d = 2 * e + 1
    <3>1. d = 2 * (d \div 2) + 1 /\ d \div 2 \in Nat
      BY <2>1
    <3> QED  BY <3>1
  <2>3. CASE q % 2 = 1
    <3>1. PICK r \in Nat : q = 2 * r + 1
      <4>1. q = 2 * (q \div 2) + 1 /\ q \div 2 \in Nat
        BY <2>3
      <4> QED  BY <4>1
    <3>2. d * q = 2 * (2 * (e * r) + e + r) + 1
      BY <2>2, <3>1
    <3>3. e * r \in Nat
      OBVIOUS
    <3> DEFINE m == e * r
    <3>4. m \in Nat /\ 2 * p = 2 * (2 * m + e + r) + 1
      BY <2>1, <3>2, <3>3
    <3> HIDE DEF m
    <3> QED  BY <3>4
  <2>4. CASE q % 2 # 1
    <3>1. PICK r \in Nat : q = 2 * r
      <4>1. q = 2 * (q \div 2) /\ q \div 2 \in Nat
        BY <2>4
      <4> QED  BY <4>1
    <3>2. r >= 1
      BY <3>1
    <3>3. d * q = 2 * (d * r) /\ d * r \in Nat
      BY <3>1
    <3>4. p = d * r
      BY <2>1, <3>3
    <3>5. d <= d * r /\ r <= d * r
      BY <3>2
    <3>6. d \in 1 .. p /\ r \in 1 .. p
      BY <3>2, <3>4, <3>5
    <3> QED  BY <1>2, <2>1, <3>4, <3>6 DEF NoOdd
  <2> QED  BY <2>3, <2>4
<1> QED  BY <1>1, <1>2

(* A number is a doubling of itself, and every other doubling of it is one of
   twice it. *)
LEMMA DoubledStep ==
  ASSUME NEW c \in Nat, c >= 1, NEW d \in Nat, d <= MAX, MAX \in Nat, MAX >= 1
  PROVE  Doubled(c, d) <=> d = c \/ Doubled(2 * c, d)
<1>1. Doubled(c, d) <=> \E p \in 1 .. MAX : d = c * p /\ NoOdd(p)
  BY DEF Doubled, NoOdd
<1>2. Doubled(2 * c, d) <=> \E p \in 1 .. MAX : d = (2 * c) * p /\ NoOdd(p)
  BY DEF Doubled, NoOdd
<1>3. ASSUME d = c PROVE Doubled(c, d)
  <2>1. NoOdd(1) /\ 1 \in 1 .. MAX /\ d = c * 1
    BY <1>3 DEF NoOdd
  <2> QED  BY <1>1, <2>1
<1>4. ASSUME NEW p \in 1 .. MAX, d = (2 * c) * p, NoOdd(p) PROVE Doubled(c, d)
  <2>1. d = c * (2 * p)
    BY <1>4
  <2>2. 2 * p <= c * (2 * p)
    OBVIOUS
  <2>3. 2 * p \in 1 .. MAX
    BY <2>1, <2>2
  <2>4. NoOdd(2 * p)
    BY <1>4, HalfNoOdd
  <2> QED  BY <1>1, <2>1, <2>3, <2>4
<1>5. ASSUME NEW p \in 1 .. MAX, d = c * p, NoOdd(p), d # c
      PROVE  Doubled(2 * c, d)
  <2>1. p # 1
    BY <1>5
  <2>2. p % 2 = 0
    <3>1. p = p * 1 /\ p \in 1 .. p /\ 1 \in 1 .. p
      OBVIOUS
    <3>2. p % 2 # 1
      BY <1>5, <2>1, <3>1 DEF NoOdd
    <3> QED  BY <3>2
  <2>3. PICK r \in Nat : p = 2 * r
    <3>1. p = 2 * (p \div 2) /\ p \div 2 \in Nat
      BY <2>2
    <3> QED  BY <3>1
  <2>4. r \in 1 .. MAX
    BY <2>3
  <2>5. NoOdd(r)
    BY <1>5, <2>3, <2>4, HalfNoOdd
  <2>6. d = (2 * c) * r
    BY <1>5, <2>3
  <2> QED  BY <1>2, <2>4, <2>5, <2>6
<1> QED  BY <1>1, <1>2, <1>3, <1>4, <1>5

(* The capacities the loop goes through from c. *)
Rungs(c) == {d \in c .. MAX : d = MAX \/ Doubled(c, d)}

RungsThatFit(c, len, need) == {d \in Rungs(c) : d >= len + need}

(* What the loop has found when it ends, if it starts with c. *)
Found(c, len, need) ==
  IF RungsThatFit(c, len, need) # {} THEN Least(RungsThatFit(c, len, need))
  ELSE IF c > MAX /\ c - len >= need THEN c
  ELSE 0

LoopStep(new_cap, len, need, c) ==
  IF c - len >= need THEN c
  ELSE IF c >= MAX THEN 0
  ELSE IF c > MAX \div 2 THEN new_cap[MAX]
  ELSE new_cap[2 * c]

Loops(new_cap, len, need) ==
  new_cap = [c \in Nat |-> LoopStep(new_cap, len, need, c)]

(* What each turn of the loop does to the capacities that fit. *)
LEMMA RungStep ==
  ASSUME NEW len \in Nat, NEW need \in Nat, need >= 1, NEW c \in Nat
  PROVE  Found(c, len, need) =
           IF c - len >= need THEN c
           ELSE IF c >= MAX THEN 0
           ELSE IF c > MAX \div 2 THEN Found(MAX, len, need)
           ELSE Found(2 * c, len, need)
<1> DEFINE R == RungsThatFit(c, len, need)
<1> USE BufConstants
<1>1. R \subseteq Nat /\ \A d \in R : c <= d /\ d <= MAX /\ d >= len + need
  BY DEF RungsThatFit, Rungs
<1>2. CASE c - len >= need
  <2>1. CASE c <= MAX
    <3>1. c \in R
      BY <1>2, <2>1, DoubledStep DEF RungsThatFit, Rungs
    <3>2. Least(R) \in R /\ Least(R) <= c
      BY <1>1, <3>1, LeastProperties
    <3>3. Least(R) = c
      BY <1>1, <3>2
    <3> QED  BY <1>2, <3>1, <3>3 DEF Found
  <2>2. CASE c > MAX
    <3>1. R = {}
      BY <1>1, <2>2
    <3> QED  BY <1>2, <2>2, <3>1 DEF Found
  <2> QED  BY <2>1, <2>2
<1>3. CASE ~(c - len >= need) /\ c >= MAX
  <2>1. R = {}
    BY <1>1, <1>3
  <2> QED  BY <1>3, <2>1 DEF Found
<1>4. CASE ~(c - len >= need) /\ c < MAX /\ c > MAX \div 2
  <2>1. c >= 1 /\ 2 * c > MAX
    BY <1>4
  <2>2. ASSUME NEW d \in c .. MAX, Doubled(c, d) PROVE d = c
    <3>1. ~Doubled(2 * c, d)
      <4>1. ASSUME NEW p \in 1 .. MAX, d = (2 * c) * p PROVE FALSE
        <5>1. 2 * c <= (2 * c) * p
          OBVIOUS
        <5> QED  BY <2>1, <4>1, <5>1
      <4> QED  BY <4>1 DEF Doubled
    <3> QED  BY <2>1, <2>2, <3>1, DoubledStep
  <2>3. R = RungsThatFit(MAX, len, need)
    BY <1>1, <1>4, <2>2 DEF RungsThatFit, Rungs
  <2>4. ~(MAX > MAX) /\ ~(c > MAX)
    BY <1>4
  <2> QED  BY <1>4, <2>3, <2>4 DEF Found
<1>5. CASE ~(c - len >= need) /\ c < MAX /\ c <= MAX \div 2 /\ c >= 1
  <2>1. 2 * c <= MAX /\ 2 * c \in Nat /\ c < 2 * c
    BY <1>5
  <2>2. ASSUME NEW d \in 2 * c .. MAX
        PROVE  Doubled(c, d) <=> Doubled(2 * c, d)
    BY <2>1, <1>5, DoubledStep
  <2>3. ASSUME NEW d \in c .. MAX, Doubled(c, d), d # c PROVE d \in 2 * c .. MAX
    <3>1. Doubled(2 * c, d)
      BY <1>5, <2>3, DoubledStep
    <3>2. PICK p \in 1 .. MAX : d = (2 * c) * p
      BY <3>1 DEF Doubled
    <3>3. 2 * c <= (2 * c) * p
      OBVIOUS
    <3> QED  BY <3>2, <3>3
  <2>4. ASSUME NEW d \in R PROVE d \in RungsThatFit(2 * c, len, need)
    <3>1. d # c /\ d \in c .. MAX
      BY <1>1, <1>5
    <3>2. d = MAX \/ Doubled(c, d)
      BY DEF RungsThatFit, Rungs
    <3>3. d \in 2 * c .. MAX
      BY <2>1, <2>3, <3>1, <3>2
    <3> QED  BY <1>1, <2>2, <3>2, <3>3 DEF RungsThatFit, Rungs
  <2>5. ASSUME NEW d \in RungsThatFit(2 * c, len, need) PROVE d \in R
    <3>1. d \in 2 * c .. MAX /\ d >= len + need /\ (d = MAX \/ Doubled(2 * c, d))
      BY DEF RungsThatFit, Rungs
    <3>2. d \in c .. MAX
      BY <2>1, <3>1
    <3> QED  BY <2>2, <3>1, <3>2 DEF RungsThatFit, Rungs
  <2>6. R = RungsThatFit(2 * c, len, need)
    BY <2>4, <2>5
  <2>7. ~(c > MAX) /\ ~(2 * c > MAX)
    BY <1>5, <2>1
  <2> QED  BY <1>5, <2>6, <2>7 DEF Found
<1>6. CASE c = 0 /\ ~(c - len >= need)
  <2>1. ~(c >= MAX) /\ ~(c > MAX \div 2) /\ 2 * c = c
    BY <1>6
  <2> QED  BY <1>6, <2>1
<1> QED  BY <1>2, <1>3, <1>4, <1>5, <1>6

(* The loop can be run from every capacity. *)
LEMMA LoopExists ==
  ASSUME NEW len \in Nat, NEW need \in Nat, need >= 1
  PROVE  \E f : Loops(f, len, need)
<1> DEFINE F == [c \in Nat |-> Found(c, len, need)]
<1>1. ASSUME NEW c \in Nat PROVE F[c] = LoopStep(F, len, need, c)
  <2>1. MAX \in Nat /\ 2 * c \in Nat
    BY BufConstants
  <2>2. F[MAX] = Found(MAX, len, need) /\ F[2 * c] = Found(2 * c, len, need)
    BY <2>1
  <2> HIDE DEF F
  <2>3. LoopStep(F, len, need, c) = Found(c, len, need)
    BY <2>2, RungStep DEF LoopStep
  <2> QED  BY <2>3 DEF F
<1>2. F = [c \in Nat |-> LoopStep(F, len, need, c)]
  <2>1. F = [c \in Nat |-> F[c]]
    OBVIOUS
  <2> QED  BY <1>1, <2>1
<1> QED  BY <1>2 DEF Loops

(* The doubling loop ends with the first capacity that fits. *)
LEMMA LoopFinds ==
  ASSUME NEW cap \in 0 .. MAX, NEW len \in Nat, NEW need \in Nat, need >= 1
  PROVE  LoopCap(cap, len, need) =
           IF Fits(cap, len, need) = {} THEN 0 ELSE Least(Fits(cap, len, need))
<1> DEFINE f  == CHOOSE g : Loops(g, len, need)
           c0 == IF cap = 0 THEN INIT_CAP ELSE cap
           T  == {c \in 1 .. MAX : f[c] = Found(c, len, need)}
<1>1. Loops(f, len, need)
  BY LoopExists
<1>2. LoopCap(cap, len, need) = f[c0]
  BY DEF LoopCap, Loops, LoopStep
<1> HIDE DEF f
<1>3. \A c \in Nat : f[c] = LoopStep(f, len, need, c)
  BY <1>1 DEF Loops
<1>4. ASSUME NEW c \in 1 .. MAX, \A d \in c + 1 .. MAX : d \in T
      PROVE  c \in T
  <2>1. f[c] = LoopStep(f, len, need, c)
    BY <1>3
  <2>2. CASE c - len >= need \/ c >= MAX
    BY <2>1, <2>2, RungStep DEF LoopStep
  <2>3. CASE ~(c - len >= need) /\ c < MAX /\ c > MAX \div 2
    <3>1. f[MAX] = Found(MAX, len, need)
      BY <1>4, <2>3, BufConstants
    <3> QED  BY <2>1, <2>3, <3>1, RungStep, BufConstants DEF LoopStep
  <2>4. CASE ~(c - len >= need) /\ c < MAX /\ c <= MAX \div 2
    <3>1. 2 * c \in c + 1 .. MAX
      BY <2>4, BufConstants
    <3>2. f[2 * c] = Found(2 * c, len, need)
      BY <1>4, <3>1
    <3> QED  BY <2>1, <2>4, <3>2, RungStep, BufConstants DEF LoopStep
  <2> QED  BY <2>2, <2>3, <2>4, BufConstants
<1>5. \A c \in 1 .. MAX : c \in T
  <2> DEFINE U == {m \in Nat : m < MAX /\ MAX - m \notin T}
  <2>1. SUFFICES ASSUME NEW c \in 1 .. MAX, c \notin T PROVE FALSE
    OBVIOUS
  <2> HIDE DEF T
  <2>2. MAX - c \in U /\ U \subseteq Nat
    <3>1. MAX - c \in Nat /\ MAX - c < MAX /\ MAX - (MAX - c) = c
      BY BufConstants
    <3> QED  BY <2>1, <3>1
  <2>3. PICK m \in U : \A n \in U : m <= n
    <3> HIDE DEF U
    <3> QED  BY <2>2, LeastProperties
  <2>4. m \in Nat /\ MAX - m \in 1 .. MAX /\ MAX - m \notin T
    BY BufConstants
  <2>5. PICK d \in MAX - m + 1 .. MAX : d \notin T
    BY <1>4, <2>4
  <2>6. MAX - d \in Nat /\ MAX - d < m /\ MAX - d < MAX /\ MAX - (MAX - d) = d
    BY <2>4, <2>5, BufConstants
  <2> QED  BY <2>3, <2>4, <2>5, <2>6
<1>6. c0 \in 1 .. MAX
  BY BufConstants
<1>7. f[c0] = Found(c0, len, need)
  BY <1>5, <1>6
<1>8. Fits(cap, len, need) = RungsThatFit(c0, len, need)
  BY DEF Fits, Ladder, RungsThatFit, Rungs
<1> QED  BY <1>2, <1>6, <1>7, <1>8, BufConstants DEF Found

(* A buffer grows as far as the doubling loop of ensure_tail_cap() takes it:
   by doublings, and at last to the cap that need not be one; the loop always
   ends, and fails exactly when the cap leaves no room. *)
THEOREM GrowthLoops == Spec => []GrowthLoop
<1>1. IInv => GrowthLoop
  <2> SUFFICES ASSUME IInv, NEW need \in 1 .. MaxOp + 1
               PROVE  LoopCap(Cap(b), b.len, need) =
                        IF Fits(Cap(b), b.len, need) = {} THEN 0
                        ELSE Least(Fits(Cap(b), b.len, need))
    BY DEF GrowthLoop
  <2>1. Cap(b) \in 0 .. MAX /\ b.len \in Nat
    BY BufConstants DEF IInv, WF, Cap
  <2>2. need \in Nat /\ need >= 1
    BY BufConstants
  <2> QED  BY <2>1, <2>2, LoopFinds
<1> QED  BY <1>1, Invariance, PTL
==============================================================================
