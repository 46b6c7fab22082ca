--------------------------- MODULE CommandsProofs ----------------------------
(***************************************************************************)
(* Proofs about Commands for every set of keys, values and requests and     *)
(* however much memory there is: no handler leaks a block or leaves the     *)
(* table with one it freed, the table stays sound, and every command does   *)
(* and answers what KeyValueStore says.  What the handlers call is proved   *)
(* in HashTableProofs and NumbersProofs.                                    *)
(***************************************************************************)
EXTENDS Commands, NumbersProofs, FiniteSetTheorems

P == INSTANCE HashTableProofs WITH
       Vals <- Values, res <- rc, Done <- 0, Failed <- -1, Missing <- 1

-----------------------------------------------------------------------------
(* Numbers.                                                                *)

(* What parse_int64() makes of a value, in terms of what the value denotes. *)
LEMMA ParsedValue ==
  ASSUME NEW s \in Values
  PROVE  /\ ParseInt64(s) \in -ReadLimit .. ReadLimit \cup {Malformed}
         /\ ParseInt64(s) # Malformed => Denotes(s, ParseInt64(s))
         /\ ParseInt64(s) = Malformed =>
              \A n \in -ReadLimit .. ReadLimit : ~Denotes(s, n)
<1> DEFINE R == Range(s)
           n == ParseInt64(s)
<1>1. s \in Seq(R)
  BY CommandConstants
<1> HIDE DEF R, n
<1>2. \A i \in Int : n = i <=> Denotes(s, i) /\ i \in -ReadLimit .. ReadLimit
  BY <1>1, ParseDenotes DEF n
<1>3. n \in Int \cup {Malformed}
  BY <1>1, ParseType DEF n
<1>4. ReadLimit \in Nat /\ Malformed \notin Int
  BY Limits, NumberConstants
<1>5. n # Malformed => Denotes(s, n) /\ n \in -ReadLimit .. ReadLimit
  BY <1>2, <1>3
<1>6. ASSUME n = Malformed, NEW i \in -ReadLimit .. ReadLimit PROVE ~Denotes(s, i)
  BY <1>2, <1>4, <1>6
<1> QED  BY <1>3, <1>5, <1>6 DEF n

-----------------------------------------------------------------------------
(* The table of the commands is the table of the proofs.                   *)

LEMMA SameHeap ==
  ASSUME NEW h, NEW c
  PROVE  T!Load(h, c) = P!Load(h, c) /\ T!Free(h, c) = P!Free(h, c) /\ T!Dup(h, c) = P!Dup(h, c)
BY DEF T!Load, P!Load, T!Free, P!Free, T!Dup, P!Dup

LEMMA SameFind ==
  ASSUME NEW t, NEW k
  PROVE  /\ T!Found(t, k) = P!Found(t, k) /\ T!At(t, k) = P!At(t, k)
         /\ T!HtGet(t, k) = P!HtGet(t, k)
<1>1. T!Hits(t, k) = P!Hits(t, k)
  BY SameHeap DEF T!Hits, P!Hits
<1>2. T!Found(t, k) = P!Found(t, k) /\ T!At(t, k) = P!At(t, k)
  BY <1>1 DEF T!Found, P!Found, T!At, P!At
<1> QED  BY <1>2 DEF T!HtGet, P!HtGet

LEMMA SameSet ==
  ASSUME NEW t, NEW k, NEW v
  PROVE  T!HtSet(t, k, v) = P!HtSet(t, k, v)
<1>1. \A h, p : T!Revalue(t, k, h, p) = P!Revalue(t, k, h, p)
  BY SameHeap, SameFind DEF T!Revalue, P!Revalue
<1>2. T!Overwrite(t, k, v) = P!Overwrite(t, k, v)
  BY <1>1, SameHeap DEF T!Overwrite, P!Overwrite
<1>3. \A h, ps : T!Unwind(t, h, ps) = P!Unwind(t, h, ps)
  BY SameHeap DEF T!Unwind, P!Unwind
<1>4. \A h, e : T!Link(t, k, h, e) = P!Link(t, k, h, e)
  BY DEF T!Link, P!Link
<1>5. \A h, c : T!Dup(h, c) = P!Dup(h, c)
  BY SameHeap
<1>6. T!Insert(t, k, v) = P!Insert(t, k, v)
  <2> DEFINE e(n, c, d) == [node |-> n.ptr, key |-> c.ptr, val |-> d.ptr]
             tLast(n, c) == {IF d.ptr = NULL THEN T!Unwind(t, d.heap, {n.ptr, c.ptr})
                             ELSE T!Link(t, k, d.heap, e(n, c, d)) : d \in T!Dup(c.heap, v)}
             pLast(n, c) == {IF d.ptr = NULL THEN P!Unwind(t, d.heap, {n.ptr, c.ptr})
                             ELSE P!Link(t, k, d.heap, e(n, c, d)) : d \in P!Dup(c.heap, v)}
             tRest(n) == UNION {IF c.ptr = NULL THEN {T!Unwind(t, c.heap, {n.ptr})}
                                ELSE tLast(n, c) : c \in T!Dup(n.heap, k)}
             pRest(n) == UNION {IF c.ptr = NULL THEN {P!Unwind(t, c.heap, {n.ptr})}
                                ELSE pLast(n, c) : c \in P!Dup(n.heap, k)}
  <2>1. \A n, c : tLast(n, c) = pLast(n, c)
    BY <1>3, <1>4, <1>5
  <2> HIDE DEF tLast, pLast
  <2>2. \A n : tRest(n) = pRest(n)
    BY <1>3, <1>5, <2>1
  <2> HIDE DEF tRest, pRest
  <2>3. /\ T!Insert(t, k, v) = UNION {IF n.ptr = NULL THEN {T!Unwind(t, n.heap, {})}
                                      ELSE tRest(n) : n \in T!Dup(t.heap, NodeBytes)}
        /\ P!Insert(t, k, v) = UNION {IF n.ptr = NULL THEN {P!Unwind(t, n.heap, {})}
                                      ELSE pRest(n) : n \in P!Dup(t.heap, NodeBytes)}
    BY Zenon DEF T!Insert, P!Insert, tRest, pRest, tLast, pLast
  <2> QED  BY <1>3, <1>5, <2>2, <2>3
<1> QED  BY <1>2, <1>6, SameFind DEF T!HtSet, P!HtSet

LEMMA SameDel ==
  ASSUME NEW t, NEW k
  PROVE  T!HtDel(t, k) = P!HtDel(t, k)
<1>1. \A e : T!EntryBlocks(e) = P!EntryBlocks(e)
  BY DEF T!EntryBlocks, P!EntryBlocks
<1> QED  BY <1>1, SameHeap, SameFind DEF T!HtDel, P!HtDel, T!RemoveAt, P!RemoveAt

LEMMA SameFresh == \A h : T!Fresh(h) = P!Fresh(h)
BY DEF T!Fresh, P!Fresh, T!Buckets, P!Buckets

LEMMA SameEntries ==
  ASSUME NEW t
  PROVE  T!EntrySet(t) = P!EntrySet(t) /\ T!Owned(t) = P!Owned(t)
<1>1. T!EntrySet(t) = P!EntrySet(t)
  BY DEF T!EntrySet, P!EntrySet, T!Buckets, P!Buckets, T!Range, P!Range
<1>2. \A e : T!EntryBlocks(e) = P!EntryBlocks(e)
  BY DEF T!EntryBlocks, P!EntryBlocks
<1> QED  BY <1>1, <1>2 DEF T!Owned, P!Owned

LEMMA SameDestroy ==
  ASSUME NEW t
  PROVE  T!HtDestroy(t) = P!HtDestroy(t)
BY SameHeap, SameEntries, SameFresh DEF T!HtDestroy, P!HtDestroy

LEMMA Constants == P!TableConstants
BY CommandConstants DEF T!TableConstants, P!TableConstants

(* That the heap is exact is part of what is proved of the table. *)
LEMMA SoundShows == P!Sound(table) => HeapExact
<1> SUFFICES ASSUME P!Sound(table) PROVE HeapExact
  OBVIOUS
<1>1. T!Exact(table)
  <2>1. P!Exact(table)
    BY DEF P!Sound
  <2>2. \A e : T!EntryBlocks(e) = P!EntryBlocks(e)
    BY DEF T!EntryBlocks, P!EntryBlocks
  <2> QED  BY <2>1, <2>2, SameEntries DEF T!Exact, P!Exact
<1> QED  BY <1>1 DEF HeapExact, T!HeapExact

-----------------------------------------------------------------------------
(* The handlers.                                                           *)

(* What is shown of every outcome a of a handler on table t. *)
Leaves(a, t) == P!Sound(a.t) /\ (a.reply \in Errors => a.t = t)

LEMMA NoError ==
  /\ Ok \notin Errors /\ Nil \notin Errors
  /\ \A n : Integer(n) \notin Errors
  /\ \A v : Bulk(v) \notin Errors
BY DEF Ok, Nil, Integer, Bulk, Errors, Error, SimpleString, Crlf,
       OutOfMemory, NotInteger, Overflows, WrongArity, Unknown

LEMMA ValueIs ==
  ASSUME NEW t, P!Sound(t), NEW k \in Keys, Hit(t, k)
  PROVE  Value(t, k) \in Values
<1>1. P!HtGet(t, k) # NULL
  BY SameFind DEF Hit
<1>2. P!Load(t.heap, P!HtGet(t, k)) \in Values
  BY <1>1, Constants, P!GetOutcome, Zenon
<1> QED  BY <1>2, SameFind, SameHeap DEF Value

(* What ht_get() says of a table is what its map says. *)
LEMMA HitIs ==
  ASSUME NEW t, P!Sound(t), NEW k \in Keys
  PROVE  /\ Hit(t, k) <=> k \in DOMAIN P!Contents(t)
         /\ Hit(t, k) => Value(t, k) = P!Contents(t)[k]
<1>1. /\ P!Found(t, k) <=> k \in DOMAIN P!Contents(t)
      /\ P!HtGet(t, k) # NULL <=> P!Found(t, k)
  BY Constants, P!ContentsByEntry, Zenon
<1>2. k \in DOMAIN P!Contents(t) => P!Contents(t)[k] = P!Load(t.heap, P!HtGet(t, k))
  BY DEF P!Contents
<1> QED  BY <1>1, <1>2, SameFind, SameHeap DEF Hit, Value

(* Outcome a of a handler on table t: it found no memory, or it answered
   reply and left the map m. *)
Becomes(a, t, m, reply) ==
  \/ a = Answered(t, OutOfMemory)
  \/ a.reply = reply /\ P!Sound(a.t) /\ P!Contents(a.t) = m

LEMMA BecomesLeaves ==
  ASSUME NEW t, P!Sound(t), NEW m, NEW reply, reply \notin Errors, NEW a, Becomes(a, t, m, reply)
  PROVE  Leaves(a, t)
BY DEF Becomes, Leaves, Answered

(* ht_set() on its own. *)
LEMMA StoredBecomes ==
  ASSUME NEW t, P!Sound(t), NEW k \in Keys, NEW v \in Values,
         NEW reply, NEW a \in Stored(t, k, v, reply)
  PROVE  Becomes(a, t, P!With(P!Contents(t), k, v), reply)
<1>1. PICK s \in P!HtSet(t, k, v) : a = Answered(s.t, IF s.ok THEN reply ELSE OutOfMemory)
  BY SameSet DEF Stored
<1>2. \/ s.ok = FALSE /\ s.t = t
      \/ s.ok = TRUE /\ P!Sound(s.t) /\ P!Contents(s.t) = P!With(P!Contents(t), k, v)
  BY Constants, P!SetOutcome, Zenon
<1> QED  BY <1>1, <1>2 DEF Answered, Becomes

(* Outcome s of an ht_set() on table t while the handler held block p with c,
   and freed it afterwards. *)
LeftBy(s, t, k, v, p, c) ==
  /\ P!Load(s.t.heap, p) = c
  /\ \/ s.ok = FALSE /\ FreeBlock(s.t, p) = t
     \/ /\ s.ok = TRUE /\ P!Sound(FreeBlock(s.t, p))
        /\ P!Contents(FreeBlock(s.t, p)) = P!With(P!Contents(t), k, v)

LEMMA StoredHolding ==
  ASSUME NEW t, P!Sound(t), NEW k \in Keys, NEW v \in Values, NEW c \in Values,
         NEW d \in P!Dup(t.heap, c), d.ptr # NULL,
         NEW s \in P!HtSet([t EXCEPT !.heap = d.heap], k, v)
  PROVE  LeftBy(s, t, k, v, d.ptr, c)
<1> DEFINE u == [t EXCEPT !.heap = d.heap]
           w == P!Released(s.t, {d.ptr})
<1>1. P!Holding(u, t, {d.ptr}) /\ P!Load(d.heap, d.ptr) = c
  BY Constants, P!DupHolds, Zenon
<1>2. u.heap = d.heap
  BY DEF P!Sound, P!Typed
<1> HIDE DEF u
<1>3. P!SetLeaves(s, u, t, {d.ptr}, k, v)
  <2>1. s \in P!HtSet(u, k, v)
    BY DEF u
  <2> QED  BY <1>1, <2>1, Constants, P!SetHolding, Zenon
<1>4. s.t = [buckets |-> s.t.buckets, count |-> s.t.count, heap |-> s.t.heap]
  BY <1>3 DEF P!SetLeaves, P!Holding, P!Released
<1>5. FreeBlock(s.t, d.ptr) = w
  BY <1>4, SameHeap DEF FreeBlock, P!Released
<1>6. P!Load(s.t.heap, d.ptr) = c
  <2>1. s.t.heap[d.ptr] = d.heap[d.ptr]
    BY <1>2, <1>3 DEF P!SetLeaves
  <2>2. d.ptr \in DOMAIN s.t.heap
    BY <1>3 DEF P!SetLeaves, P!Holding
  <2>3. d.ptr \in DOMAIN d.heap
    BY <1>1, <1>2 DEF P!Holding
  <2> QED  BY <1>1, <2>1, <2>2, <2>3 DEF P!Load
<1> HIDE DEF w
<1> QED  BY <1>3, <1>5, <1>6 DEF P!SetLeaves, LeftBy, w

(* ht_set() while it holds none, and free(NULL). *)
LEMMA StoredBare ==
  ASSUME NEW t, P!Sound(t), NEW k \in Keys, NEW v \in Values,
         NEW s \in P!HtSet([t EXCEPT !.heap = t.heap], k, v)
  PROVE  \/ s.ok = FALSE /\ FreeBlock(s.t, NULL) = t
         \/ /\ s.ok = TRUE /\ P!Sound(FreeBlock(s.t, NULL))
            /\ P!Contents(FreeBlock(s.t, NULL)) = P!With(P!Contents(t), k, v)
<1>1. [t EXCEPT !.heap = t.heap] = t
  BY DEF P!Sound, P!Typed
<1>2. \/ s.ok = FALSE /\ s.t = t
      \/ s.ok = TRUE /\ P!Sound(s.t) /\ P!Contents(s.t) = P!With(P!Contents(t), k, v)
  BY <1>1, Constants, P!SetOutcome, Zenon
<1>3. P!Sound(s.t)
  BY <1>2
<1>4. FreeBlock(s.t, NULL) = s.t
  <2>1. /\ s.t = [buckets |-> s.t.buckets, count |-> s.t.count, heap |-> s.t.heap]
        /\ P!Heap(s.t.heap)
    BY <1>3 DEF P!Sound, P!Typed
  <2>2. NULL \notin DOMAIN s.t.heap
    BY <2>1, Constants DEF P!Heap, P!TableConstants
  <2>3. P!Free(s.t.heap, {NULL}) = s.t.heap
    BY <2>1, <2>2 DEF P!Free, P!Heap
  <2> QED  BY <2>1, <2>3, SameHeap DEF FreeBlock
<1> QED  BY <1>2, <1>4

(* What an addition finds at its key: a number that the value there denotes,
   or that stands for none, or nothing that can be read. *)
Current(t, k) == IF Hit(t, k) THEN ParseInt64(Value(t, k)) ELSE 0

LEMMA CurrentType ==
  ASSUME NEW t, P!Sound(t), NEW k \in Keys
  PROVE  Current(t, k) \in -ReadLimit .. ReadLimit \cup {Malformed}
<1>1. ReadLimit \in Nat
  BY Limits
<1> QED  BY <1>1, ValueIs, ParsedValue DEF Current

LEMMA IncrByBecomes ==
  ASSUME NEW t, P!Sound(t), NEW k \in Keys, NEW delta \in INT_MIN .. INT_MAX,
         NEW a \in incrby_op(t, k, delta)
  PROVE  LET cur == Current(t, k)
         IN \/ cur = Malformed /\ a = Answered(t, NotInteger)
            \/ /\ cur # Malformed /\ cur + delta \notin INT_MIN .. INT_MAX
               /\ a = Answered(t, Overflows)
            \/ /\ cur # Malformed /\ cur + delta \in INT_MIN .. INT_MAX
               /\ Becomes(a, t, P!With(P!Contents(t), k, Format(cur + delta)),
                          Integer(cur + delta))
<1> DEFINE cur == Current(t, k)
<1>1. a \in IF cur = Malformed THEN {Answered(t, NotInteger)}
            ELSE IF \/ delta > 0 /\ cur > INT_MAX - delta
                    \/ delta < 0 /\ cur < INT_MIN - delta THEN {Answered(t, Overflows)}
            ELSE Stored(t, k, Format(cur + delta), Integer(cur + delta))
  BY DEF incrby_op, Current
<1>2. cur \in -INT_MAX .. INT_MAX \cup {Malformed}
  BY CurrentType, Limits, NumberConstants
<1> HIDE DEF cur
<1>3. CASE cur = Malformed
  BY <1>1, <1>3 DEF cur
<1>4. CASE cur # Malformed
  <2>1. /\ INT_MAX \in Nat /\ INT_MIN = -INT_MAX - 1 /\ cur \in -INT_MAX .. INT_MAX
        /\ delta \in INT_MIN .. INT_MAX
    BY <1>2, <1>4, NumberConstants DEF INT_MIN
  <2>2. (\/ delta > 0 /\ cur > INT_MAX - delta
         \/ delta < 0 /\ cur < INT_MIN - delta) <=> cur + delta \notin INT_MIN .. INT_MAX
    BY <2>1
  <2>3. CASE cur + delta \notin INT_MIN .. INT_MAX
    BY <1>1, <1>4, <2>2, <2>3 DEF cur
  <2>4. CASE cur + delta \in INT_MIN .. INT_MAX
    <3>1. Format(cur + delta) \in Values
      BY <2>4, CommandConstants
    <3>2. a \in Stored(t, k, Format(cur + delta), Integer(cur + delta))
      BY <1>1, <1>4, <2>2, <2>4
    <3>3. Becomes(a, t, P!With(P!Contents(t), k, Format(cur + delta)), Integer(cur + delta))
      BY <3>1, <3>2, StoredBecomes
    <3> QED  BY <1>4, <2>4, <3>3 DEF cur
  <2> QED  BY <2>3, <2>4
<1> QED  BY <1>3, <1>4

(* What is added is inside the width, and so is what is taken away. *)
LEMMA Deltas ==
  /\ 1 \in INT_MIN .. INT_MAX /\ -1 \in INT_MIN .. INT_MAX
  /\ \A d \in -ReadLimit .. ReadLimit :
       d \in Int /\ d \in INT_MIN .. INT_MAX /\ -d \in INT_MIN .. INT_MAX /\ d # INT_MIN
  /\ 1 \in -ReadLimit .. ReadLimit /\ -1 \in -ReadLimit .. ReadLimit
<1>1. /\ ReadLimit \in BASE - 1 .. INT_MAX /\ BASE \in Nat \ {0, 1}
      /\ INT_MAX \in Nat /\ INT_MIN = -INT_MAX - 1
  BY Limits, NumberConstants DEF INT_MIN
<1> QED  BY <1>1

LEMMA IncrByLeaves ==
  ASSUME NEW t, P!Sound(t), NEW k \in Keys, NEW delta \in INT_MIN .. INT_MAX,
         NEW a \in incrby_op(t, k, delta)
  PROVE  Leaves(a, t)
<1>1. \A reply : Leaves(Answered(t, reply), t)
  BY DEF Leaves, Answered
<1> QED  BY <1>1, IncrByBecomes, BecomesLeaves, NoError

(* What APPEND makes of the value at its key. *)
Longer(t, k, v) == IF Hit(t, k) THEN Value(t, k) \o v ELSE v

LEMMA AppendBecomes ==
  ASSUME NEW t, P!Sound(t), NEW r, r[2] \in Keys, r[3] \in Values,
         Hit(t, r[2]) => Len(Value(t, r[2])) + Len(r[3]) <= MaxLen,
         NEW a \in cmd_append(t, r)
  PROVE  LET new == Longer(t, r[2], r[3])
         IN Becomes(a, t, P!With(P!Contents(t), r[2], new), Integer(Len(new)))
<1> DEFINE new == Longer(t, r[2], r[3])
           n == Len(new)
<1>1. CASE ~Hit(t, r[2])
  <2>1. a \in Stored(t, r[2], r[3], Integer(Len(r[3]))) /\ new = r[3]
    BY <1>1 DEF cmd_append, Longer
  <2> QED  BY <2>1, StoredBecomes
<1>2. CASE Hit(t, r[2])
  <2>1. new \in Values /\ new = Value(t, r[2]) \o r[3]
    BY <1>2, ValueIs, CommandConstants DEF Longer
  <2>2. PICK d \in P!Dup(t.heap, new) :
          a \in IF d.ptr = NULL THEN {Answered(t, OutOfMemory)}
                ELSE {Answered(FreeBlock(s.t, d.ptr), s.reply) :
                      s \in Stored([t EXCEPT !.heap = d.heap], r[2],
                                   P!Load(d.heap, d.ptr), Integer(n))}
    BY <1>2, <2>1, SameHeap DEF cmd_append
  <2> HIDE DEF new, n
  <2>3. CASE d.ptr = NULL
    BY <2>2, <2>3 DEF Becomes, new
  <2>4. CASE d.ptr # NULL
    <3>1. P!Load(d.heap, d.ptr) = new
      BY <2>1, <2>4, Constants, P!DupHolds, Zenon
    <3>2. PICK s \in P!HtSet([t EXCEPT !.heap = d.heap], r[2], new) :
            a = Answered(FreeBlock(s.t, d.ptr), IF s.ok THEN Integer(n) ELSE OutOfMemory)
      BY <2>2, <2>4, <3>1, SameSet DEF Stored, Answered
    <3>3. LeftBy(s, t, r[2], new, d.ptr, new)
      <4>1. new \in Values /\ d \in P!Dup(t.heap, new)
        BY <2>1, <2>2
      <4> QED  BY <2>4, <4>1, StoredHolding, Zenon
    <3>4. Becomes(a, t, P!With(P!Contents(t), r[2], new), Integer(n))
      BY <3>2, <3>3 DEF Becomes, Answered, LeftBy
    <3> QED  BY <3>4 DEF new, n
  <2> QED  BY <2>3, <2>4
<1> QED  BY <1>1, <1>2

(* The reply of GETSET is the value that was there. *)
Before(t, k) == IF Hit(t, k) THEN Bulk(Value(t, k)) ELSE Nil

LEMMA GetSetBecomes ==
  ASSUME NEW t, P!Sound(t), NEW r, r[2] \in Keys, r[3] \in Values,
         NEW a \in cmd_getset(t, r)
  PROVE  Becomes(a, t, P!With(P!Contents(t), r[2], r[3]), Before(t, r[2]))
<1> DEFINE k    == r[2]
           hit  == Hit(t, k)
           full == hit /\ Value(t, k) # <<>>
           copy == IF full THEN T!Dup(t.heap, Value(t, k))
                           ELSE {[ptr |-> NULL, heap |-> t.heap]}
           answer(s, d) ==
             IF ~hit THEN Nil ELSE Bulk(IF full THEN T!Load(s.t.heap, d.ptr) ELSE <<>>)
           m == P!With(P!Contents(t), k, r[3])
<1>1. PICK d \in copy :
        a \in IF full /\ d.ptr = NULL THEN {Answered(t, OutOfMemory)}
              ELSE {IF ~s.ok THEN Answered(FreeBlock(s.t, d.ptr), OutOfMemory)
                    ELSE Answered(FreeBlock(s.t, d.ptr), answer(s, d)) :
                    s \in T!HtSet([t EXCEPT !.heap = d.heap], k, r[3])}
  BY DEF cmd_getset
<1>2. CASE full /\ d.ptr = NULL
  BY <1>1, <1>2 DEF Becomes
<1>3. CASE ~(full /\ d.ptr = NULL)
  <2>1. PICK s \in P!HtSet([t EXCEPT !.heap = d.heap], k, r[3]) :
          a = Answered(FreeBlock(s.t, d.ptr), IF ~s.ok THEN OutOfMemory ELSE answer(s, d))
    <3> HIDE DEF answer
    <3> QED  BY <1>1, <1>3, SameSet
  <2>2. /\ answer(s, d) = Before(t, k)
        /\ \/ s.ok = FALSE /\ FreeBlock(s.t, d.ptr) = t
           \/ /\ s.ok = TRUE /\ P!Sound(FreeBlock(s.t, d.ptr))
              /\ P!Contents(FreeBlock(s.t, d.ptr)) = m
    <3>1. CASE full
      <4>1. d \in P!Dup(t.heap, Value(t, k)) /\ d.ptr # NULL
        BY <1>3, <3>1, SameHeap
      <4>2. Value(t, k) \in Values
        BY <3>1, ValueIs
      <4>3. LeftBy(s, t, k, r[3], d.ptr, Value(t, k))
        BY <4>1, <4>2, StoredHolding, Zenon
      <4>4. answer(s, d) = Before(t, k)
        BY <3>1, <4>3, SameHeap DEF Before, LeftBy
      <4> QED  BY <4>3, <4>4 DEF LeftBy
    <3>2. CASE ~full
      <4>1. d = [ptr |-> NULL, heap |-> t.heap]
        BY <3>2
      <4>2. d.ptr = NULL /\ d.heap = t.heap
        BY <4>1
      <4>3. answer(s, d) = Before(t, k)
        BY <3>2 DEF Before
      <4>4. s \in P!HtSet([t EXCEPT !.heap = t.heap], k, r[3])
        BY <4>2
      <4>5. \/ s.ok = FALSE /\ FreeBlock(s.t, NULL) = t
            \/ /\ s.ok = TRUE /\ P!Sound(FreeBlock(s.t, NULL))
               /\ P!Contents(FreeBlock(s.t, NULL)) = m
        BY <4>4, StoredBare
      <4> QED  BY <4>2, <4>3, <4>5
    <3> QED  BY <3>1, <3>2
  <2> HIDE DEF answer, m
  <2>3. Becomes(a, t, m, Before(t, k))
    BY <2>1, <2>2 DEF Becomes, Answered
  <2> QED  BY <2>3 DEF m
<1> QED  BY <1>2, <1>3

(* The deletions of one DEL, the first i - 1 of them. *)
Deleting(t, r, del, n) ==
  del = [i \in 1 .. n |->
          IF i = 1 THEN [t |-> t, n |-> 0]
          ELSE [t |-> T!HtDel(del[i - 1].t, r[i]),
                n |-> del[i - 1].n + (IF Hit(del[i - 1].t, r[i]) THEN 1 ELSE 0)]]

LEMMA DeletingExists ==
  ASSUME NEW t, NEW r, NEW n \in Nat
  PROVE  \E del : Deleting(t, r, del, n)
<1> DEFINE first == [t |-> t, n |-> 0]
           step(i, d) == [t |-> T!HtDel(d.t, r[i]),
                          n |-> d.n + (IF Hit(d.t, r[i]) THEN 1 ELSE 0)]
           D == {m \in Nat : \E del :
                   del = [i \in 1 .. m |-> IF i = 1 THEN first ELSE step(i, del[i - 1])]}
<1>0. \A del, m : Deleting(t, r, del, m) <=>
        del = [i \in 1 .. m |-> IF i = 1 THEN first ELSE step(i, del[i - 1])]
  BY DEF Deleting
<1> HIDE DEF step, first
<1>1. 0 \in D
  <2> DEFINE del == [i \in 1 .. 0 |-> first]
  <2>1. del = [i \in 1 .. 0 |-> IF i = 1 THEN first ELSE step(i, del[i - 1])]
    OBVIOUS
  <2> QED  BY <2>1
<1>2. ASSUME NEW m \in Nat, m \in D PROVE m + 1 \in D
  <2>1. PICK v : v = [i \in 1 .. m |-> IF i = 1 THEN first ELSE step(i, v[i - 1])]
    BY <1>2
  <2> DEFINE w == [i \in 1 .. m + 1 |->
                    IF i = 1 THEN first ELSE IF i = m + 1 THEN step(i, v[m]) ELSE v[i]]
  <2>2. ASSUME NEW i \in 1 .. m + 1
        PROVE  w[i] = IF i = 1 THEN first ELSE step(i, w[i - 1])
    <3>1. CASE i = 1
      BY <3>1
    <3>2. CASE i # 1
      <4>1. i - 1 \in 1 .. m
        BY <3>2
      <4>2. w[i - 1] = v[i - 1]
        BY <2>1, <4>1
      <4>3. CASE i = m + 1
        <5>1. w[i] = step(i, v[m]) /\ i - 1 = m
          BY <3>2, <4>3
        <5> QED  BY <3>2, <4>2, <5>1
      <4>4. CASE i # m + 1
        <5>1. i \in 1 .. m /\ w[i] = v[i]
          BY <3>2, <4>4
        <5>2. v[i] = step(i, v[i - 1])
          BY <2>1, <3>2, <5>1
        <5> QED  BY <3>2, <4>2, <5>1, <5>2
      <4> QED  BY <4>3, <4>4
    <3> QED  BY <3>1, <3>2
  <2>3. w = [i \in 1 .. m + 1 |-> w[i]]
    OBVIOUS
  <2> HIDE DEF w
  <2>4. w = [i \in 1 .. m + 1 |-> IF i = 1 THEN first ELSE step(i, w[i - 1])]
    BY <2>2, <2>3
  <2> QED  BY <2>4
<1>3. n \in D
  <2> HIDE DEF D
  <2> QED  BY <1>1, <1>2, NumberInduction
<1> QED  BY <1>0, <1>3

(* The map without some keys, and the keys a request names up to argument m. *)
Dropped(f, K) == [j \in DOMAIN f \ K |-> f[j]]
Named(r, m)   == {r[i] : i \in 2 .. m}

LEMMA DelBecomes ==
  ASSUME NEW t, P!Sound(t), NEW r, Len(r) \in Nat \ {0}, \A i \in 2 .. Len(r) : r[i] \in Keys,
         NEW a \in cmd_del(t, r)
  PROVE  LET named == Named(r, Len(r))
         IN /\ P!Sound(a.t) /\ P!Contents(a.t) = Dropped(P!Contents(t), named)
            /\ a.reply = Integer(Cardinality(named \cap DOMAIN P!Contents(t)))
<1> DEFINE del == CHOOSE del : Deleting(t, r, del, Len(r))
           f == P!Contents(t)
           D == DOMAIN f
           U == {m \in Nat : m \in 1 .. Len(r) =>
                   /\ P!Sound(del[m].t)
                   /\ P!Contents(del[m].t) = Dropped(f, Named(r, m))
                   /\ IsFiniteSet(Named(r, m) \cap D)
                   /\ del[m].n = Cardinality(Named(r, m) \cap D)}
<1>1. Deleting(t, r, del, Len(r))
  BY DeletingExists
<1>2. a = Answered(del[Len(r)].t, Integer(del[Len(r)].n))
  BY DEF cmd_del, Deleting
<1> HIDE DEF del
<1>3. 0 \in U
  OBVIOUS
<1>4. ASSUME NEW m \in Nat, m \in U PROVE m + 1 \in U
  <2> SUFFICES ASSUME m + 1 \in 1 .. Len(r)
               PROVE  /\ P!Sound(del[m + 1].t)
                      /\ P!Contents(del[m + 1].t) = Dropped(f, Named(r, m + 1))
                      /\ IsFiniteSet(Named(r, m + 1) \cap D)
                      /\ del[m + 1].n = Cardinality(Named(r, m + 1) \cap D)
    OBVIOUS
  <2>1. CASE m = 0
    <3>1. del[m + 1] = [t |-> t, n |-> 0]
      BY <1>1, <2>1 DEF Deleting
    <3>2. Named(r, m + 1) = {}
      BY <2>1 DEF Named
    <3>3. f = [j \in D |-> f[j]]
      BY DEF P!Contents
    <3> HIDE DEF f
    <3>4. Dropped(f, {}) = f
      BY <3>3 DEF Dropped
    <3>5. IsFiniteSet({} \cap D) /\ Cardinality({} \cap D) = 0
      <4>1. {} \cap D = {}
        OBVIOUS
      <4> QED  BY <4>1, FS_EmptySet
    <3>6. P!Sound(t) /\ P!Contents(t) = f
      BY DEF f
    <3>7. del[m + 1].t = t /\ del[m + 1].n = 0
      BY <3>1
    <3>8. P!Sound(del[m + 1].t) /\ P!Contents(del[m + 1].t) = Dropped(f, Named(r, m + 1))
      BY <3>2, <3>4, <3>6, <3>7
    <3> QED  BY <3>2, <3>5, <3>7, <3>8
  <2>2. CASE m # 0
    <3> DEFINE u == del[m].t
               k == r[m + 1]
               n == del[m].n
               N == Named(r, m)
    <3>1. m \in 1 .. Len(r) /\ m + 1 \in 2 .. Len(r) /\ (m + 1) - 1 = m /\ m + 1 # 1
      BY <2>2
    <3>2. del[m + 1] = [t |-> T!HtDel(u, k), n |-> n + (IF Hit(u, k) THEN 1 ELSE 0)]
      BY <1>1, <3>1 DEF Deleting
    <3>3. /\ P!Sound(u) /\ P!Contents(u) = Dropped(f, N) /\ k \in Keys
          /\ IsFiniteSet(N \cap D) /\ n = Cardinality(N \cap D)
      BY <1>4, <3>1
    <3>4. Named(r, m + 1) = N \cup {k}
      BY <3>1 DEF Named
    <3> HIDE DEF u, k, n, N, f
    <3>5. del[m + 1].t = P!HtDel(u, k) /\ del[m + 1].n = n + (IF Hit(u, k) THEN 1 ELSE 0)
      BY <3>2, SameDel
    <3>6. P!Sound(P!HtDel(u, k)) /\ P!Contents(P!HtDel(u, k)) = P!Without(P!Contents(u), k)
      BY <3>3, Constants, P!DelOutcome, Zenon
    <3>7. P!Without(Dropped(f, N), k) = Dropped(f, N \cup {k})
      <4>1. D \ (N \cup {k}) = (D \ N) \ {k}
        OBVIOUS
      <4> QED  BY <4>1 DEF P!Without, Dropped
    <3>8. Hit(u, k) <=> k \in D \ N
      <4>1. DOMAIN Dropped(f, N) = D \ N
        BY DEF Dropped
      <4> QED  BY <3>3, <4>1, HitIs
    <3>9. /\ IsFiniteSet((N \cup {k}) \cap D)
          /\ Cardinality((N \cup {k}) \cap D) = n + (IF Hit(u, k) THEN 1 ELSE 0)
      <4>0. n \in Nat
        BY <3>3, FS_CardinalityType
      <4>1. CASE k \in D
        <5> DEFINE X == N \cap D
        <5>1. (N \cup {k}) \cap D = X \cup {k}
          BY <4>1
        <5>2. k \in X <=> ~Hit(u, k)
          BY <3>8, <4>1
        <5>3. IsFiniteSet(X) /\ n = Cardinality(X)
          BY <3>3
        <5> HIDE DEF X
        <5>4. IsFiniteSet(X \cup {k})
              /\ Cardinality(X \cup {k}) = IF k \in X THEN Cardinality(X) ELSE Cardinality(X) + 1
          BY <5>3, FS_AddElement
        <5>5. CASE k \in X
          <6>1. Cardinality(X \cup {k}) = n /\ IsFiniteSet(X \cup {k})
            BY <5>3, <5>4, <5>5
          <6>2. n + (IF Hit(u, k) THEN 1 ELSE 0) = n
            BY <4>0, <5>2, <5>5
          <6> QED  BY <5>1, <6>1, <6>2
        <5>6. CASE k \notin X
          BY <4>0, <5>1, <5>2, <5>3, <5>4, <5>6
        <5> QED  BY <5>5, <5>6
      <4>2. CASE k \notin D
        <5>1. (N \cup {k}) \cap D = N \cap D /\ ~Hit(u, k)
          BY <3>8, <4>2
        <5>2. n + (IF Hit(u, k) THEN 1 ELSE 0) = n
          BY <4>0, <5>1
        <5> QED  BY <3>3, <5>1, <5>2
      <4> QED  BY <4>1, <4>2
    <3> QED  BY <3>3, <3>4, <3>5, <3>6, <3>7, <3>9
  <2> QED  BY <2>1, <2>2
<1>5. Len(r) \in U
  <2> HIDE DEF U
  <2> QED  BY <1>3, <1>4, NumberInduction
<1> QED  BY <1>2, <1>5 DEF Answered

LEMMA FlushBecomes ==
  ASSUME NEW t, P!Sound(t), NEW r, NEW a \in cmd_flushdb(t, r)
  PROVE  P!Sound(a.t) /\ DOMAIN P!Contents(a.t) = {} /\ a.reply = Ok
<1> DEFINE h == P!HtDestroy(t).heap
<1>1. P!Sound(P!HtDestroy(t)) /\ DOMAIN h = {}
  BY Constants, P!DestroyOutcome, Zenon
<1>2. h \in [DOMAIN h -> P!Cell]
  BY <1>1 DEF P!Sound, P!Typed, P!Heap
<1> HIDE DEF h
<1>3. h = [p \in {} |-> h[p]]
  BY <1>1, <1>2
<1>4. P!Sound(P!Fresh(h)) /\ DOMAIN P!Contents(P!Fresh(h)) = {}
  BY <1>1, <1>3, Constants, P!FreshSound, Zenon
<1>5. a = Answered(P!Fresh(h), Ok)
  BY SameDestroy, SameFresh DEF cmd_flushdb, h
<1> QED  BY <1>4, <1>5 DEF Answered

(* The handlers that only read. *)
LEMMA ReadLeaves ==
  ASSUME NEW t, P!Sound(t), NEW r,
         NEW a \in cmd_ping(t, r) \cup cmd_get(t, r) \cup cmd_exists(t, r) \cup cmd_command(t, r)
                   \cup cmd_strlen(t, r) \cup cmd_keys(t, r) \cup cmd_dbsize(t, r)
  PROVE  Leaves(a, t)
<1>1. \A reply : Leaves(Answered(t, reply), t)
  BY DEF Leaves, Answered
<1>2. \E reply : a = Answered(t, reply)
  BY DEF cmd_ping, cmd_get, cmd_exists, cmd_command, cmd_strlen, cmd_keys, cmd_dbsize
<1> QED  BY <1>1, <1>2

(* The handlers that store or delete. *)
LEMMA WriteLeaves ==
  ASSUME NEW t, P!Sound(t), NEW r
  PROVE  /\ r[2] \in Keys /\ r[3] \in Values =>
              /\ \A a \in cmd_set(t, r) \cup cmd_setnx(t, r) \cup cmd_getset(t, r) : Leaves(a, t)
              /\ (Hit(t, r[2]) => Len(Value(t, r[2])) + Len(r[3]) <= MaxLen) =>
                   \A a \in cmd_append(t, r) : Leaves(a, t)
         /\ Len(r) \in Nat \ {0} /\ (\A i \in 2 .. Len(r) : r[i] \in Keys) =>
              \A a \in cmd_del(t, r) : Leaves(a, t)
         /\ \A a \in cmd_flushdb(t, r) : Leaves(a, t)
<1>1. ASSUME r[2] \in Keys, r[3] \in Values, NEW a \in cmd_set(t, r) \cup cmd_setnx(t, r)
      PROVE  Leaves(a, t)
  <2>1. CASE \/ a \in Stored(t, r[2], r[3], Ok)
             \/ a \in Stored(t, r[2], r[3], Integer(1))
    BY <1>1, <2>1, StoredBecomes, BecomesLeaves, NoError
  <2>2. CASE a = Answered(t, Integer(0))
    BY <2>2 DEF Leaves, Answered
  <2> QED  BY <1>1, <2>1, <2>2 DEF cmd_set, cmd_setnx
<1>2. ASSUME r[2] \in Keys, r[3] \in Values, NEW a \in cmd_getset(t, r) PROVE Leaves(a, t)
  <2>1. Before(t, r[2]) \notin Errors
    BY NoError DEF Before
  <2> QED  BY <1>2, <2>1, GetSetBecomes, BecomesLeaves
<1>3. ASSUME r[2] \in Keys, r[3] \in Values,
             Hit(t, r[2]) => Len(Value(t, r[2])) + Len(r[3]) <= MaxLen,
             NEW a \in cmd_append(t, r)
      PROVE  Leaves(a, t)
  BY <1>3, AppendBecomes, BecomesLeaves, NoError
<1>4. ASSUME Len(r) \in Nat \ {0}, \A i \in 2 .. Len(r) : r[i] \in Keys, NEW a \in cmd_del(t, r)
      PROVE  Leaves(a, t)
  BY <1>4, DelBecomes, NoError DEF Leaves
<1>5. ASSUME NEW a \in cmd_flushdb(t, r) PROVE Leaves(a, t)
  BY <1>5, FlushBecomes, NoError DEF Leaves
<1> QED  BY <1>1, <1>2, <1>3, <1>4, <1>5

(* The four that add, with what parse_int64() makes of their argument. *)
LEMMA AddLeaves ==
  ASSUME NEW t, P!Sound(t), NEW r, r[2] \in Keys
  PROVE  /\ \A a \in cmd_incr(t, r) \cup cmd_decr(t, r) : Leaves(a, t)
         /\ r[3] \in Values =>
              \A a \in cmd_incrby(t, r) \cup cmd_decrby(t, r) : Leaves(a, t)
<1>1. \A reply : Leaves(Answered(t, reply), t)
  BY DEF Leaves, Answered
<1>2. \A d \in INT_MIN .. INT_MAX : \A a \in incrby_op(t, r[2], d) : Leaves(a, t)
  BY IncrByLeaves
<1>3. 1 \in INT_MIN .. INT_MAX /\ -1 \in INT_MIN .. INT_MAX
  BY Deltas
<1>4. ASSUME NEW a \in cmd_incr(t, r) \cup cmd_decr(t, r) PROVE Leaves(a, t)
  <2>1. a \in incrby_op(t, r[2], -1) \/ a \in incrby_op(t, r[2], 1)
    BY DEF cmd_incr, cmd_decr
  <2> QED  BY <1>2, <1>3, <2>1
<1>5. ASSUME r[3] \in Values, NEW a \in cmd_incrby(t, r) \cup cmd_decrby(t, r)
      PROVE  Leaves(a, t)
  <2> DEFINE d == ParseInt64(r[3])
  <2>1. d \in -ReadLimit .. ReadLimit \cup {Malformed}
    BY <1>5, ParsedValue
  <2>2. \/ \E reply : a = Answered(t, reply)
        \/ d # Malformed /\ (a \in incrby_op(t, r[2], d) \/ a \in incrby_op(t, r[2], -d))
    BY DEF cmd_incrby, cmd_decrby
  <2> HIDE DEF d
  <2>3. CASE d # Malformed
    <3>1. d \in INT_MIN .. INT_MAX /\ -d \in INT_MIN .. INT_MAX
      BY <2>1, <2>3, Deltas
    <3> QED  BY <1>1, <1>2, <2>2, <3>1
  <2> QED  BY <1>1, <2>2, <2>3
<1> QED  BY <1>4, <1>5

-----------------------------------------------------------------------------
(* The specification.                                                      *)

LEMMA FinishKeeps ==
  ASSUME NEW r, NEW outcomes, \A a \in outcomes : Leaves(a, table), Finish(r, outcomes)
  PROVE  P!Sound(table') /\ (rc' = 0 /\ out' \in Errors => table' = table)
<1>1. PICK a \in outcomes : table' = a.t /\ Deliver(a.reply)
  BY DEF Finish
<1>2. rc' = 0 => out' = a.reply
  BY <1>1 DEF Deliver
<1> QED  BY <1>1, <1>2 DEF Leaves

LEMMA ExecuteKeeps ==
  ASSUME P!Sound(table), NEW r \in Requests, Execute(r)
  PROVE  P!Sound(table') /\ (rc' = 0 /\ out' \in Errors => table' = table)
<1>1. \A name \in {"DEL", "EXISTS"} : Calls(r, name) =>
        Len(r) \in Nat \ {0} /\ \A i \in 2 .. Len(r) : r[i] \in Keys
  BY RequestsTyped DEF Calls, Takes, ArityOK, commands
<1>2. \A name \in {"GET", "STRLEN", "INCR", "DECR"} : Calls(r, name) => r[2] \in Keys
  BY RequestsTyped DEF Calls, Takes
<1>3. \A name \in {"SET", "SETNX", "GETSET", "APPEND", "INCRBY", "DECRBY"} :
        Calls(r, name) => r[2] \in Keys /\ r[3] \in Values
  BY RequestsTyped DEF Calls, Takes
<1>4. ASSUME \/ Calls(r, "PING") /\ Finish(r, cmd_ping(table, r))
             \/ Calls(r, "GET") /\ Finish(r, cmd_get(table, r))
             \/ Calls(r, "EXISTS") /\ Finish(r, cmd_exists(table, r))
             \/ Calls(r, "COMMAND") /\ Finish(r, cmd_command(table, r))
             \/ Calls(r, "STRLEN") /\ Finish(r, cmd_strlen(table, r))
             \/ Calls(r, "KEYS") /\ Finish(r, cmd_keys(table, r))
             \/ Calls(r, "DBSIZE") /\ Finish(r, cmd_dbsize(table, r))
      PROVE  P!Sound(table') /\ (rc' = 0 /\ out' \in Errors => table' = table)
  BY <1>4, ReadLeaves, FinishKeeps
<1>5. CASE \/ Calls(r, "SET") /\ Finish(r, cmd_set(table, r))
           \/ Calls(r, "SETNX") /\ Finish(r, cmd_setnx(table, r))
           \/ Calls(r, "GETSET") /\ Finish(r, cmd_getset(table, r))
  BY <1>3, <1>5, WriteLeaves, FinishKeeps
<1>6. CASE Calls(r, "DEL") /\ Finish(r, cmd_del(table, r))
  BY <1>1, <1>6, WriteLeaves, FinishKeeps
<1>7. CASE \/ Calls(r, "INCR") /\ Finish(r, cmd_incr(table, r))
           \/ Calls(r, "DECR") /\ Finish(r, cmd_decr(table, r))
  BY <1>2, <1>7, AddLeaves, FinishKeeps
<1>8. CASE \/ Calls(r, "INCRBY") /\ Finish(r, cmd_incrby(table, r))
           \/ Calls(r, "DECRBY") /\ Finish(r, cmd_decrby(table, r))
  BY <1>3, <1>8, AddLeaves, FinishKeeps
<1>9. CASE Calls(r, "APPEND") /\ Short(r) /\ Finish(r, cmd_append(table, r))
  BY <1>3, <1>9, WriteLeaves, FinishKeeps DEF Short
<1>10. CASE Calls(r, "FLUSHDB") /\ Finish(r, cmd_flushdb(table, r))
  BY <1>10, WriteLeaves, FinishKeeps
<1>11. CASE Reject(r)
  <2>1. \A reply : \A a \in {Answered(table, reply)} : Leaves(a, table)
    BY DEF Leaves, Answered
  <2> QED  BY <1>11, <2>1, FinishKeeps DEF Reject
<1> QED  BY <1>4, <1>5, <1>6, <1>7, <1>8, <1>9, <1>10, <1>11 DEF Execute

LEMMA SoundInit == Init => P!Sound(table)
<1> SUFFICES ASSUME Init PROVE P!Sound(table)
  OBVIOUS
<1> DEFINE h == T!Nothing
<1>1. DOMAIN h = {} /\ h = [p \in {} |-> h[p]]
  BY DEF T!Nothing
<1>2. table = P!Fresh(h)
  BY SameFresh DEF Init
<1> HIDE DEF h
<1>3. P!Sound(P!Fresh(h))
  BY <1>1, Constants, P!FreshSound, Zenon
<1> QED  BY <1>2, <1>3

LEMMA SoundNext == P!Sound(table) /\ [Next]_vars => P!Sound(table)'
<1> SUFFICES ASSUME P!Sound(table), [Next]_vars PROVE P!Sound(table')
  OBVIOUS
<1>1. CASE Next
  BY <1>1, ExecuteKeeps DEF Next
<1>2. CASE UNCHANGED vars
  BY <1>2 DEF vars
<1> QED  BY <1>1, <1>2

LEMMA Invariance == Spec => []P!Sound(table)
BY SoundInit, SoundNext, PTL DEF Spec

(* No command leaks a block, frees one twice or leaves an entry with a block
   that was freed, whichever of its allocations fails. *)
THEOREM NoLeak == Spec => []HeapExact
BY Invariance, SoundShows, PTL

(* A command that answers with an error has left the table and the heap as
   they were. *)
THEOREM NothingHalfDone == Spec => ErrorsUndone
<1>1. P!Sound(table) /\ [Next]_vars => [rc' = 0 /\ out' \in Errors => table' = table]_vars
  BY ExecuteKeeps DEF Next
<1> QED  BY <1>1, Invariance, PTL DEF Spec, ErrorsUndone
-----------------------------------------------------------------------------
(* The refinement.  First what module KeyValueStore says, in the words of   *)
(* the handlers.                                                            *)

LEMMA SameContents == \A t : T!Contents(t) = P!Contents(t)
<1> SUFFICES ASSUME NEW t PROVE T!Contents(t) = P!Contents(t)
  OBVIOUS
<1>1. \A k : /\ T!Found(t, k) = P!Found(t, k)
             /\ T!Load(t.heap, T!HtGet(t, k)) = P!Load(t.heap, P!HtGet(t, k))
  BY SameFind, SameHeap
<1> QED  BY <1>1 DEF T!Contents, P!Contents

LEMMA SameReplies ==
  /\ S!Ok = Ok /\ S!Nil = Nil /\ S!OutOfMemory = OutOfMemory /\ S!NotInteger = NotInteger
  /\ S!Overflows = Overflows /\ S!WrongArity = WrongArity /\ S!Unknown = Unknown
  /\ \A n : S!Integer(n) = Integer(n) /\ S!ArrayHeader(n) = ArrayHeader(n)
  /\ \A v : S!Bulk(v) = Bulk(v) /\ S!SimpleString(v) = SimpleString(v)
BY DEF S!Ok, S!Nil, S!OutOfMemory, S!NotInteger, S!Overflows, S!WrongArity, S!Unknown,
       S!Integer, S!ArrayHeader, S!Bulk, S!SimpleString, S!Error, S!Crlf,
       Ok, Nil, OutOfMemory, NotInteger, Overflows, WrongArity, Unknown,
       Integer, ArrayHeader, Bulk, SimpleString, Error, Crlf

LEMMA SameArrays == \A vs : S!BulkArray(vs) = ArrayHeader(Len(vs)) \o Bulks(vs)
<1> SUFFICES ASSUME NEW vs PROVE S!BulkArray(vs) = ArrayHeader(Len(vs)) \o Bulks(vs)
  OBVIOUS
<1>1. \A v : S!Bulk(v) = Bulk(v)
  BY SameReplies
<1>2. S!Bulks(vs) = Bulks(vs)
  BY <1>1 DEF S!Bulks, Bulks
<1> QED  BY <1>2, SameReplies DEF S!BulkArray

LEMMA SameNumbers ==
  /\ S!INT_MIN = INT_MIN /\ S!ReadLimit = ReadLimit
  /\ \A n : S!Format(n) = Format(n)
  /\ \A s, n : S!Denotes(s, n) = Denotes(s, n)
<1>1. S!BASE = BASE /\ S!INT_MIN = INT_MIN
  BY DEF S!BASE, BASE, S!INT_MIN, INT_MIN
<1>2. S!ReadLimit = ReadLimit
  BY <1>1 DEF S!ReadLimit, ReadLimit
<1>3. \A n : S!Format(n) = Format(n)
  BY <1>1 DEF S!Format, Format
<1>4. \A c : S!DigitOf(c) = DigitOf(c) /\ S!IsDigit(c) = IsDigit(c)
  BY <1>1 DEF S!DigitOf, DigitOf, S!IsDigit, IsDigit
<1>5. \A d : S!PlaceValue(d) = PlaceValue(d)
  BY DEF S!PlaceValue, PlaceValue, S!DigitOf, DigitOf, S!BASE, BASE
<1>6. \A s, n : S!Denotes(s, n) = Denotes(s, n)
  BY <1>4, <1>5 DEF S!Denotes, Denotes
<1> QED  BY <1>1, <1>2, <1>3, <1>6

LEMMA SameCardinality == \A X : S!Cardinality(X) = Cardinality(X)
BY DEF S!Cardinality, Cardinality

(* What a handler finished with is an answer of the abstract store. *)
LEMMA Answers ==
  ASSUME NEW r, NEW outcomes, Finish(r, outcomes)
  PROVE  /\ req' = r
         /\ \E a \in outcomes : S!Answer(P!Contents(a.t), a.reply)
<1>1. PICK a \in outcomes : req' = r /\ table' = a.t /\ Deliver(a.reply)
  BY DEF Finish
<1>2. T!Contents(table)' = P!Contents(a.t)
  <2>1. T!Contents(table') = P!Contents(a.t)
    BY <1>1, SameContents
  <2> QED  BY <2>1
<1>3. \/ rc' = 0 /\ S!Whole(a.reply, out')
      \/ rc' = -1 /\ S!CutShort(a.reply, out')
  BY <1>1 DEF Deliver, S!Whole, S!CutShort
<1> QED  BY <1>1, <1>2, <1>3 DEF S!Answer

(* What it finds at a key is what the abstract store has there. *)
LEMMA Has ==
  ASSUME P!Sound(table), NEW k \in Keys
  PROVE  /\ S!Has(k) <=> Hit(table, k)
         /\ Hit(table, k) => T!Contents(table)[k] = Value(table, k)
BY HitIs, SameContents DEF S!Has

LEMMA Puts == \A k, v : S!Put(k, v) = P!With(P!Contents(table), k, v)
BY SameContents DEF S!Put, P!With

-----------------------------------------------------------------------------
(* The commands that only read.                                            *)

LEMMA Unchanged ==
  ASSUME NEW r, NEW reply, Finish(r, {Answered(table, reply)})
  PROVE  S!Answer(T!Contents(table), reply)
<1>1. Answered(table, reply).t = table /\ Answered(table, reply).reply = reply
  BY DEF Answered
<1>2. S!Answer(P!Contents(table), reply)
  BY <1>1, Answers
<1> QED  BY <1>2, SameContents

LEMMA ServesReads ==
  ASSUME P!Sound(table), NEW r
  PROVE  /\ r[1] = "PING" /\ Finish(r, cmd_ping(table, r)) => S!Ping(r)
         /\ r[1] = "COMMAND" /\ Finish(r, cmd_command(table, r)) => S!Command(r)
         /\ r[1] = "GET" /\ r[2] \in Keys /\ Finish(r, cmd_get(table, r)) => S!Get(r)
         /\ r[1] = "STRLEN" /\ r[2] \in Keys /\ Finish(r, cmd_strlen(table, r)) => S!Strlen(r)
         /\ r[1] = "DBSIZE" /\ Finish(r, cmd_dbsize(table, r)) => S!DbSize(r)
<1>1. ASSUME r[1] = "PING", Finish(r, cmd_ping(table, r)) PROVE S!Ping(r)
  BY <1>1, Unchanged, SameReplies DEF cmd_ping, S!Ping
<1>2. ASSUME r[1] = "COMMAND", Finish(r, cmd_command(table, r)) PROVE S!Command(r)
  BY <1>2, Unchanged, SameReplies DEF cmd_command, S!Command
<1>3. ASSUME r[1] = "GET", r[2] \in Keys, Finish(r, cmd_get(table, r)) PROVE S!Get(r)
  <2> DEFINE reply == IF Hit(table, r[2]) THEN Bulk(Value(table, r[2])) ELSE Nil
  <2>1. S!Answer(T!Contents(table), reply)
    BY <1>3, Unchanged DEF cmd_get
  <2>2. reply = IF S!Has(r[2]) THEN S!Bulk(T!Contents(table)[r[2]]) ELSE S!Nil
    BY <1>3, Has, SameReplies
  <2> QED  BY <1>3, <2>1, <2>2 DEF S!Get
<1>4. ASSUME r[1] = "STRLEN", r[2] \in Keys, Finish(r, cmd_strlen(table, r)) PROVE S!Strlen(r)
  <2> DEFINE n == IF Hit(table, r[2]) THEN Len(Value(table, r[2])) ELSE 0
  <2>1. S!Answer(T!Contents(table), Integer(n))
    BY <1>4, Unchanged DEF cmd_strlen
  <2>2. n = IF S!Has(r[2]) THEN Len(T!Contents(table)[r[2]]) ELSE 0
    BY <1>4, Has
  <2> QED  BY <1>4, <2>1, <2>2, SameReplies DEF S!Strlen
<1>5. ASSUME r[1] = "DBSIZE", Finish(r, cmd_dbsize(table, r)) PROVE S!DbSize(r)
  <2>1. S!Answer(T!Contents(table), Integer(table.count))
    BY <1>5, Unchanged DEF cmd_dbsize
  <2>2. table.count = S!Cardinality(DOMAIN T!Contents(table))
    <3>1. /\ table.count = P!Cardinality(P!EntrySet(table))
          /\ P!Cardinality(P!EntrySet(table)) = P!Cardinality(DOMAIN P!Contents(table))
      BY Constants, P!OneKeyPerEntry DEF P!Sound, P!Counted
    <3>2. P!Cardinality(DOMAIN P!Contents(table)) = S!Cardinality(DOMAIN P!Contents(table))
      BY DEF P!Cardinality, S!Cardinality
    <3> QED  BY <3>1, <3>2, SameContents
  <2> QED  BY <1>5, <2>1, <2>2, SameReplies DEF S!DbSize
<1> QED  BY <1>1, <1>2, <1>3, <1>4, <1>5

(* The arguments of a request, counted without and with its name. *)
LEMMA ArgumentsAre ==
  ASSUME NEW r, Len(r) \in Nat \ {0}, r = [i \in 1 .. Len(r) |-> r[i]]
  PROVE  /\ DOMAIN S!Arguments(r) = 1 .. Len(r) - 1
         /\ \A i \in 1 .. Len(r) - 1 : S!Arguments(r)[i] = r[i + 1]
<1> DEFINE n == Len(r)
           R == {r[i] : i \in 1 .. n}
<1>1. r \in Seq(R) /\ r # <<>>
  <2>1. r \in [1 .. n -> R]
    OBVIOUS
  <2> QED  BY <2>1
<1> HIDE DEF n, R
<1>2. /\ Tail(r) \in Seq(R) /\ Len(Tail(r)) = Len(r) - 1
      /\ \A i \in 1 .. Len(r) - 1 : Tail(r)[i] = r[i + 1]
  BY <1>1, HeadTailProperties
<1>3. DOMAIN Tail(r) = 1 .. Len(Tail(r))
  BY <1>2
<1> QED  BY <1>2, <1>3 DEF S!Arguments

LEMMA ServesExists ==
  ASSUME P!Sound(table), NEW r, Len(r) \in Nat \ {0}, r = [i \in 1 .. Len(r) |-> r[i]],
         \A i \in 2 .. Len(r) : r[i] \in Keys, r[1] = "EXISTS",
         Finish(r, cmd_exists(table, r))
  PROVE  S!Exists(r)
<1> DEFINE X == {i \in 2 .. Len(r) : Hit(table, r[i])}
           Y == {i \in DOMAIN S!Arguments(r) : S!Has(S!Arguments(r)[i])}
           f == [i \in X |-> i - 1]
<1>1. S!Answer(T!Contents(table), Integer(Cardinality(X)))
  BY Unchanged DEF cmd_exists
<1>2. \A i \in 2 .. Len(r) : S!Has(r[i]) <=> Hit(table, r[i])
  BY Has
<1>3. Y = {i \in 1 .. Len(r) - 1 : Hit(table, r[i + 1])}
  <2>1. \A i \in 1 .. Len(r) - 1 : i + 1 \in 2 .. Len(r)
    OBVIOUS
  <2> QED  BY <1>2, <2>1, ArgumentsAre
<1> HIDE DEF Y
<1>4. f \in [X -> Y]
  <2>1. \A i \in X : i - 1 \in 1 .. Len(r) - 1 /\ (i - 1) + 1 = i
    OBVIOUS
  <2> QED  BY <1>3, <2>1
<1>5. \A i, j \in X : f[i] = f[j] => i = j
  OBVIOUS
<1>6. \A j \in Y : \E i \in X : f[i] = j
  <2> SUFFICES ASSUME NEW j \in Y PROVE j + 1 \in X /\ f[j + 1] = j
    OBVIOUS
  <2> QED  BY <1>3
<1>7. IsFiniteSet(X)
  <2>1. 2 \in Int /\ Len(r) \in Int
    OBVIOUS
  <2>2. IsFiniteSet(2 .. Len(r))
    BY <2>1, FS_Interval, Zenon
  <2> QED  BY <2>2, FS_Subset
<1> HIDE DEF X, f
<1>8. f \in Bijection(X, Y)
  BY <1>4, <1>5, <1>6 DEF Bijection, Injection, Surjection, IsInjective
<1>9. Cardinality(Y) = Cardinality(X)
  BY <1>7, <1>8, FS_Bijection DEF ExistsBijection
<1>10. S!Answer(T!Contents(table), S!Integer(S!Cardinality(Y)))
  BY <1>1, <1>9, SameReplies, SameCardinality
<1> QED  BY <1>10 DEF S!Exists, Y

-----------------------------------------------------------------------------
(* The commands that store or delete.                                      *)

LEMMA Changed ==
  ASSUME NEW r, NEW outcomes, NEW m, NEW reply,
         \A a \in outcomes : Becomes(a, table, m, reply), Finish(r, outcomes)
  PROVE  S!Answer(m, reply) \/ S!Answer(T!Contents(table), S!OutOfMemory)
<1>1. PICK a \in outcomes : S!Answer(P!Contents(a.t), a.reply)
  BY Answers
<1>2. CASE a = Answered(table, OutOfMemory)
  <2>1. a.t = table /\ a.reply = S!OutOfMemory
    BY <1>2, SameReplies DEF Answered
  <2> QED  BY <1>1, <2>1, SameContents
<1>3. CASE a.reply = reply /\ P!Contents(a.t) = m
  BY <1>1, <1>3
<1> QED  BY <1>2, <1>3 DEF Becomes

LEMMA ServesWrites ==
  ASSUME P!Sound(table), NEW r, r[2] \in Keys, r[3] \in Values
  PROVE  /\ r[1] = "SET" /\ Finish(r, cmd_set(table, r)) => S!Set(r) \/ S!NoMemory(r)
         /\ r[1] = "SETNX" /\ Finish(r, cmd_setnx(table, r)) => S!SetNx(r) \/ S!NoMemory(r)
         /\ r[1] = "GETSET" /\ Finish(r, cmd_getset(table, r)) => S!GetSet(r) \/ S!NoMemory(r)
         /\ r[1] = "APPEND" /\ Short(r) /\ Finish(r, cmd_append(table, r)) =>
              S!AppendTo(r) \/ S!NoMemory(r)
<1> DEFINE k == r[2]
           v == r[3]
           f == T!Contents(table)
<1>1. \A a, w, reply : w \in Values /\ a \in Stored(table, k, w, reply) =>
        Becomes(a, table, S!Put(k, w), reply)
  BY StoredBecomes, Puts
<1>2. ASSUME r[1] = "SET", Finish(r, cmd_set(table, r)) PROVE S!Set(r) \/ S!NoMemory(r)
  <2>1. \A a \in cmd_set(table, r) : Becomes(a, table, S!Put(k, v), Ok)
    BY <1>1 DEF cmd_set
  <2>2. S!Answer(S!Put(k, v), S!Ok) \/ S!Answer(f, S!OutOfMemory)
    BY <1>2, <2>1, Changed, SameReplies
  <2> QED  BY <1>2, <2>2 DEF S!Set, S!NoMemory
<1>3. ASSUME r[1] = "SETNX", Finish(r, cmd_setnx(table, r)) PROVE S!SetNx(r) \/ S!NoMemory(r)
  <2>1. CASE Hit(table, k)
    <3>1. S!Answer(f, S!Integer(0))
      BY <1>3, <2>1, Unchanged, SameReplies DEF cmd_setnx
    <3> QED  BY <1>3, <2>1, <3>1, Has DEF S!SetNx
  <2>2. CASE ~Hit(table, k)
    <3>1. \A a \in cmd_setnx(table, r) : Becomes(a, table, S!Put(k, v), Integer(1))
      BY <1>1, <2>2 DEF cmd_setnx
    <3>2. S!Answer(S!Put(k, v), S!Integer(1)) \/ S!Answer(f, S!OutOfMemory)
      BY <1>3, <3>1, Changed, SameReplies
    <3> QED  BY <1>3, <2>2, <3>2, Has DEF S!SetNx, S!NoMemory
  <2> QED  BY <2>1, <2>2
<1>4. ASSUME r[1] = "GETSET", Finish(r, cmd_getset(table, r)) PROVE S!GetSet(r) \/ S!NoMemory(r)
  <2>1. \A a \in cmd_getset(table, r) : Becomes(a, table, S!Put(k, v), Before(table, k))
    BY GetSetBecomes, Puts
  <2>2. Before(table, k) = IF S!Has(k) THEN S!Bulk(f[k]) ELSE S!Nil
    BY Has, SameReplies DEF Before
  <2>3. S!Answer(S!Put(k, v), Before(table, k)) \/ S!Answer(f, S!OutOfMemory)
    BY <1>4, <2>1, Changed
  <2> QED  BY <1>4, <2>2, <2>3 DEF S!GetSet, S!NoMemory
<1>5. ASSUME r[1] = "APPEND", Short(r), Finish(r, cmd_append(table, r))
      PROVE  S!AppendTo(r) \/ S!NoMemory(r)
  <2> DEFINE new == Longer(table, k, v)
  <2>1. \A a \in cmd_append(table, r) : Becomes(a, table, S!Put(k, new), Integer(Len(new)))
    BY <1>5, AppendBecomes, Puts DEF Short
  <2>2. new = IF S!Has(k) THEN f[k] \o v ELSE v
    BY Has DEF Longer
  <2> HIDE DEF new
  <2>3. S!Answer(S!Put(k, new), S!Integer(Len(new))) \/ S!Answer(f, S!OutOfMemory)
    BY <1>5, <2>1, Changed, SameReplies
  <2> QED  BY <1>5, <2>2, <2>3 DEF S!AppendTo, S!NoMemory
<1> QED  BY <1>2, <1>3, <1>4, <1>5

LEMMA ServesDel ==
  ASSUME P!Sound(table), NEW r, Len(r) \in Nat \ {0}, r = [i \in 1 .. Len(r) |-> r[i]],
         \A i \in 2 .. Len(r) : r[i] \in Keys, r[1] = "DEL", Finish(r, cmd_del(table, r))
  PROVE  S!Del(r)
<1> DEFINE named == {S!Arguments(r)[i] : i \in DOMAIN S!Arguments(r)}
           f == T!Contents(table)
<1>1. named = Named(r, Len(r))
  <2>1. named = {r[i + 1] : i \in 1 .. Len(r) - 1}
    BY ArgumentsAre
  <2>2. \A i \in 1 .. Len(r) - 1 : i + 1 \in 2 .. Len(r)
    OBVIOUS
  <2>3. \A i \in 2 .. Len(r) : i - 1 \in 1 .. Len(r) - 1 /\ i = (i - 1) + 1
    OBVIOUS
  <2> QED  BY <2>1, <2>2, <2>3 DEF Named
<1> HIDE DEF named
<1>2. PICK a \in cmd_del(table, r) : S!Answer(P!Contents(a.t), a.reply)
  BY Answers
<1>3. /\ P!Contents(a.t) = Dropped(P!Contents(table), named)
      /\ a.reply = Integer(Cardinality(named \cap DOMAIN P!Contents(table)))
  BY <1>1, DelBecomes
<1>4. /\ P!Contents(a.t) = S!Without(named)
      /\ a.reply = S!Integer(S!Cardinality(named \cap DOMAIN f))
  BY <1>3, SameContents, SameReplies, SameCardinality DEF Dropped, S!Without
<1>5. S!Answer(S!Without(named), S!Integer(S!Cardinality(named \cap DOMAIN f)))
  BY <1>2, <1>4
<1> QED  BY <1>5 DEF S!Del, named

LEMMA ServesFlush ==
  ASSUME P!Sound(table), NEW r, r[1] = "FLUSHDB", Finish(r, cmd_flushdb(table, r))
  PROVE  S!FlushDb(r)
<1>1. PICK a \in cmd_flushdb(table, r) : S!Answer(P!Contents(a.t), a.reply)
  BY Answers
<1>2. DOMAIN P!Contents(a.t) = {} /\ a.reply = S!Ok
  BY FlushBecomes, SameReplies
<1>3. P!Contents(a.t) = [k \in DOMAIN P!Contents(a.t) |-> P!Contents(a.t)[k]]
  BY DEF P!Contents
<1>4. P!Contents(a.t) = S!Without(DOMAIN T!Contents(table))
  BY <1>2, <1>3 DEF S!Without
<1> QED  BY <1>1, <1>2, <1>4 DEF S!FlushDb

-----------------------------------------------------------------------------
(* The commands that add.                                                  *)

(* What is read from a value is what it denotes, if that is in range. *)
LEMMA ReadsIs ==
  ASSUME NEW s \in Values
  PROVE  /\ ParseInt64(s) # Malformed =>
              /\ ParseInt64(s) \in -ReadLimit .. ReadLimit
              /\ S!ReadsAs(s, ParseInt64(s))
         /\ ParseInt64(s) = Malformed => ~S!IsInt(s)
<1> DEFINE n == ParseInt64(s)
<1>1. /\ n \in -ReadLimit .. ReadLimit \cup {Malformed}
      /\ n # Malformed => Denotes(s, n)
      /\ n = Malformed => \A i \in -ReadLimit .. ReadLimit : ~Denotes(s, i)
  BY ParsedValue
<1> HIDE DEF n
<1>2. n # Malformed => n \in -ReadLimit .. ReadLimit /\ S!ReadsAs(s, n)
  BY <1>1, SameNumbers DEF S!ReadsAs
<1>3. n = Malformed => ~S!IsInt(s)
  BY <1>1, SameNumbers DEF S!IsInt
<1> QED  BY <1>2, <1>3 DEF n

LEMMA ServesSum ==
  ASSUME P!Sound(table), NEW r, r[2] \in Keys, NEW d \in -ReadLimit .. ReadLimit,
         S!Adds(r, d), r[1] \in {"INCR", "DECR", "INCRBY", "DECRBY"},
         Finish(r, incrby_op(table, r[2], d))
  PROVE  S!Add(r) \/ S!AddsNoNumber(r) \/ S!NoMemory(r)
<1> DEFINE k == r[2]
           f == T!Contents(table)
           n == Current(table, k)
           fits == n + d \in INT_MIN .. INT_MAX
<1>1. d \in INT_MIN .. INT_MAX
  BY Deltas
<1>2. ReadLimit \in Nat /\ Malformed \notin Int
  BY Limits, NumberConstants
<1>3. PICK a \in incrby_op(table, k, d) : S!Answer(P!Contents(a.t), a.reply)
  BY Answers
<1>4. \/ n = Malformed /\ a = Answered(table, NotInteger)
      \/ n # Malformed /\ ~fits /\ a = Answered(table, Overflows)
      \/ /\ n # Malformed /\ fits
         /\ Becomes(a, table, P!With(P!Contents(table), k, Format(n + d)), Integer(n + d))
  BY <1>1, IncrByBecomes
<1>5. n # Malformed => n \in -ReadLimit .. ReadLimit /\ S!Holds(k, n)
  <2>1. CASE Hit(table, k)
    <3>1. n = ParseInt64(f[k]) /\ f[k] \in Values
      BY <2>1, ValueIs, Has DEF Current
    <3>2. n # Malformed => n \in -ReadLimit .. ReadLimit /\ S!ReadsAs(f[k], n)
      BY <3>1, ReadsIs
    <3> QED  BY <2>1, <3>2, Has DEF S!Holds
  <2>2. CASE ~Hit(table, k)
    <3>1. n = 0
      BY <2>2 DEF Current
    <3>2. n \in -ReadLimit .. ReadLimit
      BY <1>2, <3>1
    <3> QED  BY <2>2, <3>1, <3>2, Has DEF S!Holds
  <2> QED  BY <2>1, <2>2
<1>6. CASE n = Malformed
  <2>1. Hit(table, k) /\ ParseInt64(Value(table, k)) = Malformed
    BY <1>2, <1>6 DEF Current
  <2>2. S!Has(k) /\ ~S!IsInt(f[k])
    BY <2>1, Has, ValueIs, ReadsIs
  <2>3. a = Answered(table, NotInteger)
    BY <1>4, <1>6
  <2>4. S!Answer(f, S!NotInteger)
    <3>1. a.t = table /\ a.reply = S!NotInteger
      BY <2>3, SameReplies DEF Answered
    <3> QED  BY <1>3, <3>1, SameContents
  <2> QED  BY <2>2, <2>4 DEF S!AddsNoNumber
<1>7. CASE n # Malformed /\ ~fits
  <2>1. a.t = table /\ a.reply = S!Overflows
    BY <1>4, <1>7, SameReplies DEF Answered
  <2>2. S!Answer(f, S!Overflows) /\ ~(n + d \in S!INT_MIN .. INT_MAX)
    BY <1>3, <1>7, <2>1, SameContents, SameNumbers
  <2> HIDE DEF n
  <2> QED  BY <1>5, <1>7, <2>2, SameNumbers DEF S!Add
<1>8. CASE n # Malformed /\ fits
  <2>1. Becomes(a, table, S!Put(k, S!Format(n + d)), S!Integer(n + d))
    BY <1>4, <1>8, Puts, SameNumbers, SameReplies
  <2>2. CASE a = Answered(table, OutOfMemory)
    <3>1. a.t = table /\ a.reply = S!OutOfMemory
      BY <2>2, SameReplies DEF Answered
    <3> QED  BY <1>3, <3>1, SameContents DEF S!NoMemory
  <2>3. CASE /\ a.reply = S!Integer(n + d)
             /\ P!Contents(a.t) = S!Put(k, S!Format(n + d))
    <3>1. S!Answer(S!Put(k, S!Format(n + d)), S!Integer(n + d)) /\ n + d \in S!INT_MIN .. INT_MAX
      BY <1>3, <1>8, <2>3, SameNumbers
    <3> HIDE DEF n
    <3> QED  BY <1>5, <1>8, <3>1, SameNumbers DEF S!Add
  <2> QED  BY <2>1, <2>2, <2>3 DEF Becomes
<1> QED  BY <1>4, <1>6, <1>7, <1>8

LEMMA ServesAdd ==
  ASSUME P!Sound(table), NEW r, r[2] \in Keys
  PROVE  /\ r[1] = "INCR" /\ Finish(r, cmd_incr(table, r)) =>
              S!Add(r) \/ S!AddsNoNumber(r) \/ S!NoMemory(r)
         /\ r[1] = "DECR" /\ Finish(r, cmd_decr(table, r)) =>
              S!Add(r) \/ S!AddsNoNumber(r) \/ S!NoMemory(r)
         /\ r[3] \in Values /\ r[1] = "INCRBY" /\ Finish(r, cmd_incrby(table, r)) =>
              S!Add(r) \/ S!AddsNoNumber(r) \/ S!NoMemory(r)
         /\ r[3] \in Values /\ r[1] = "DECRBY" /\ Finish(r, cmd_decrby(table, r)) =>
              S!Add(r) \/ S!AddsNoNumber(r) \/ S!NoMemory(r)
<1> DEFINE done == S!Add(r) \/ S!AddsNoNumber(r) \/ S!NoMemory(r)
           d == ParseInt64(r[3])
<1>1. ASSUME r[1] = "INCR", Finish(r, cmd_incr(table, r)) PROVE done
  <2>1. S!Adds(r, 1)
    BY <1>1 DEF S!Adds
  <2> QED  BY <1>1, <2>1, Deltas, ServesSum DEF cmd_incr
<1>2. ASSUME r[1] = "DECR", Finish(r, cmd_decr(table, r)) PROVE done
  <2>1. S!Adds(r, -1)
    BY <1>2 DEF S!Adds
  <2> QED  BY <1>2, <2>1, Deltas, ServesSum DEF cmd_decr
<1>3. ASSUME r[3] \in Values, d = Malformed, r[1] \in {"INCRBY", "DECRBY"},
             Finish(r, {Answered(table, NotInteger)})
      PROVE  done
  <2>1. S!Answer(T!Contents(table), S!NotInteger)
    BY <1>3, Unchanged, SameReplies
  <2> QED  BY <1>3, <2>1, ReadsIs DEF S!AddsNoNumber
<1>4. ASSUME r[3] \in Values, r[1] = "INCRBY", Finish(r, cmd_incrby(table, r)) PROVE done
  <2>1. CASE d = Malformed
    BY <1>3, <1>4, <2>1 DEF cmd_incrby
  <2>2. CASE d # Malformed
    <3>1. d \in -ReadLimit .. ReadLimit /\ S!ReadsAs(r[3], d)
      BY <1>4, <2>2, ReadsIs
    <3>2. S!Adds(r, d) /\ Finish(r, incrby_op(table, r[2], d))
      BY <1>4, <2>2, <3>1 DEF S!Adds, cmd_incrby
    <3> QED  BY <1>4, <3>1, <3>2, ServesSum
  <2> QED  BY <2>1, <2>2
<1>5. ASSUME r[3] \in Values, r[1] = "DECRBY", Finish(r, cmd_decrby(table, r)) PROVE done
  <2>1. CASE d = Malformed
    BY <1>3, <1>5, <2>1 DEF cmd_decrby
  <2>2. CASE d # Malformed
    <3> DEFINE e == -d
    <3>1. d \in -ReadLimit .. ReadLimit /\ S!ReadsAs(r[3], d)
      BY <1>5, <2>2, ReadsIs
    <3>2. d \in Int /\ d # INT_MIN /\ ReadLimit \in Nat
      BY <3>1, Deltas, Limits
    <3> HIDE DEF d
    <3>3. e \in -ReadLimit .. ReadLimit /\ -e = d
      BY <3>1, <3>2
    <3>4. Finish(r, incrby_op(table, r[2], e))
      BY <1>5, <2>2, <3>2 DEF cmd_decrby, d
    <3> HIDE DEF e
    <3>5. S!Adds(r, e)
      BY <1>5, <3>1, <3>3 DEF S!Adds
    <3> QED  BY <1>5, <3>3, <3>4, <3>5, ServesSum
  <2> QED  BY <2>1, <2>2
<1> QED  BY <1>1, <1>2, <1>4, <1>5

-----------------------------------------------------------------------------
(* KEYS.                                                                   *)

(* The walk of ht_scan() comes by every entry once. *)
LEMMA WalkIs ==
  ASSUME NEW t, P!Sound(t)
  PROVE  /\ T!Entries(t) \in Seq(P!Entry) /\ Distinct(T!Entries(t))
         /\ Members(T!Entries(t)) = P!EntrySet(t)
<1> DEFINE ss == t.buckets
           n  == HT_NUM_BUCKETS
<1>1. /\ n \in Nat \ {0} /\ P!Buckets = 1 .. n
      /\ ss \in [1 .. n -> Seq(P!Entry)]
  BY Constants DEF P!TableConstants, P!Sound, P!Typed, P!Buckets
<1>2. T!Entries(t) = FlattenSeq(ss)
  BY DEF T!Entries, T!FlattenSeq, FlattenSeq
<1>3. \A i \in 1 .. n : Distinct(ss[i])
  BY <1>1, Constants, P!ChainInjective DEF Distinct
<1>4. \A i, j \in 1 .. n : i # j => Members(ss[i]) \cap Members(ss[j]) = {}
  <2>1. \A i \in 1 .. n : \A m \in DOMAIN ss[i] : hash[t.heap[ss[i][m].key]] = i
    BY <1>1, Constants, P!EntryCells
  <2> QED  BY <2>1 DEF Members
<1>5. P!EntrySet(t) = UNION {Members(ss[i]) : i \in 1 .. n}
  BY <1>1 DEF P!EntrySet, P!Range, Members
<1> HIDE DEF ss, n
<1>6. /\ FlattenSeq(ss) \in Seq(P!Entry) /\ Distinct(FlattenSeq(ss))
      /\ Members(FlattenSeq(ss)) = UNION {Members(ss[i]) : i \in 1 .. n}
  BY <1>1, <1>3, <1>4, FlattenDistinct, Zenon
<1> QED  BY <1>2, <1>5, <1>6

(* What keys_cb() has collected from the first entries of a walk. *)
Collecting(t, pattern, found) ==
  LET walk   == T!Entries(t)
      key(i) == T!Load(t.heap, walk[i].key)
  IN found = [i \in 0 .. Len(walk) |->
               IF i = 0 THEN <<>>
               ELSE IF Matches(pattern, key(i)) THEN Append(found[i - 1], key(i))
               ELSE found[i - 1]]

LEMMA CollectingExists ==
  ASSUME NEW t, P!Sound(t), NEW p
  PROVE  \E found : Collecting(t, p, found)
<1> DEFINE walk   == T!Entries(t)
           n      == Len(walk)
           key(i) == T!Load(t.heap, walk[i].key)
           V      == Seq({key(i) : i \in 1 .. n})
           g      == [i \in 1 .. n |-> [s \in V |->
                        IF Matches(p, key(i)) THEN Append(s, key(i)) ELSE s]]
<1>1. n \in Nat
  BY WalkIs
<1>2. <<>> \in V
  OBVIOUS
<1>3. g \in [1 .. n -> [V -> V]]
  OBVIOUS
<1> HIDE DEF n
<1>4. PICK f : Recursive(f, n, V, <<>>, g)
  <2> HIDE DEF V, g
  <2> QED  BY <1>1, <1>2, <1>3, Recursion
<1> DEFINE at(i) == IF i = 0 THEN <<>>
                    ELSE IF Matches(p, key(i)) THEN Append(f[i - 1], key(i))
                    ELSE f[i - 1]
<1>5. ASSUME NEW i \in 0 .. n PROVE f[i] = at(i)
  <2>1. CASE i = 0
    BY <1>4, <2>1 DEF Recursive
  <2>2. CASE i # 0
    <3>1. i \in 1 .. n /\ i - 1 \in 0 .. n
      BY <1>1, <2>2
    <3>2. f[i] = g[i][f[i - 1]] /\ f[i - 1] \in V
      BY <1>4, <3>1 DEF Recursive
    <3> QED  BY <2>2, <3>1, <3>2
  <2> QED  BY <2>1, <2>2
<1>6. f = [i \in 0 .. n |-> f[i]]
  BY <1>4 DEF Recursive
<1> HIDE DEF at
<1>7. f = [i \in 0 .. n |-> at(i)]
  BY <1>5, <1>6
<1> QED  BY <1>7 DEF Collecting, at, n

(* They are the matching keys of the table, each of them once. *)
LEMMA MatchesAre ==
  ASSUME NEW t, P!Sound(t), NEW p
  PROVE  LET m == scan_matches(t, p)
         IN /\ m \in Seq(Keys) /\ Distinct(m)
            /\ Members(m) = {k \in DOMAIN P!Contents(t) : Matches(p, k)}
<1> DEFINE found  == CHOOSE found : Collecting(t, p, found)
           walk   == T!Entries(t)
           n      == Len(walk)
           key(i) == T!Load(t.heap, walk[i].key)
           Upto(i) == {key(j) : j \in {j \in 1 .. i : Matches(p, key(j))}}
           U == {i \in Nat : i \in 0 .. n =>
                   found[i] \in Seq(Keys) /\ Distinct(found[i]) /\ Members(found[i]) = Upto(i)}
<1>1. Collecting(t, p, found)
  BY CollectingExists
<1>2. scan_matches(t, p) = found[n]
  BY DEF scan_matches, Collecting
<1>3. /\ \A i \in 0 .. n : found[i] =
           IF i = 0 THEN <<>>
           ELSE IF Matches(p, key(i)) THEN Append(found[i - 1], key(i))
           ELSE found[i - 1]
  BY <1>1 DEF Collecting
<1> HIDE DEF found
<1>4. /\ n \in Nat /\ DOMAIN walk = 1 .. n
      /\ \A i \in 1 .. n : walk[i] \in P!EntrySet(t)
      /\ P!EntrySet(t) = {walk[i] : i \in 1 .. n}
      /\ \A i, j \in 1 .. n : walk[i] = walk[j] => i = j
  BY WalkIs DEF Members, Distinct
<1>5. \A e \in P!EntrySet(t) :
        T!Load(t.heap, e.key) = t.heap[e.key] /\ t.heap[e.key] \in Keys
  <2> SUFFICES ASSUME NEW e \in P!EntrySet(t)
               PROVE  T!Load(t.heap, e.key) = t.heap[e.key] /\ t.heap[e.key] \in Keys
    OBVIOUS
  <2>1. e.key \in DOMAIN t.heap
    BY DEF P!Sound, P!Exact, P!Owned, P!EntryBlocks
  <2> QED  BY <2>1 DEF P!Sound, P!Exact, T!Load
<1>6. /\ \A i \in 1 .. n : key(i) \in Keys
      /\ \A i, j \in 1 .. n : key(i) = key(j) => i = j
  BY <1>4, <1>5, Constants, P!OneEntry
<1>7. DOMAIN P!Contents(t) = {key(i) : i \in 1 .. n}
  <2>1. \A k : k \in DOMAIN P!Contents(t) <=> \E e \in P!EntrySet(t) : k = t.heap[e.key]
    BY Constants, P!ContentsByEntry, Zenon
  <2>2. \A i \in 1 .. n : key(i) = t.heap[walk[i].key]
    BY <1>4, <1>5
  <2> HIDE DEF key, walk, n
  <2>3. \A k : k \in DOMAIN P!Contents(t) <=> \E i \in 1 .. n : k = key(i)
    BY <1>4, <2>1, <2>2
  <2> QED  BY <2>3
<1> HIDE DEF n, walk, key
<1>8. 0 \in U
  <2>1. <<>> \in Seq(Keys) /\ DOMAIN <<>> = {} /\ 1 .. 0 = {}
    OBVIOUS
  <2>2. Distinct(<<>>) /\ Members(<<>>) = {} /\ Upto(0) = {}
    BY <2>1 DEF Distinct, Members
  <2>3. 0 \in 0 .. n /\ found[0] = <<>>
    BY <1>3, <1>4
  <2> QED  BY <2>1, <2>2, <2>3
<1>9. ASSUME NEW i \in Nat, i \in U PROVE i + 1 \in U
  <2> SUFFICES ASSUME i + 1 \in 0 .. n
               PROVE  /\ found[i + 1] \in Seq(Keys) /\ Distinct(found[i + 1])
                      /\ Members(found[i + 1]) = Upto(i + 1)
    OBVIOUS
  <2> DEFINE j == i + 1
             k == key(j)
             s == found[i]
  <2>1. /\ j \in 1 .. n /\ i \in 0 .. n /\ j # 0 /\ j - 1 = i
        /\ 1 .. j = (1 .. i) \cup {j} /\ j \notin 1 .. i /\ 1 .. i \subseteq 1 .. n
    BY <1>4
  <2> HIDE DEF j
  <2>2. s \in Seq(Keys) /\ Distinct(s) /\ Members(s) = Upto(i)
    BY <1>9, <2>1
  <2>3. found[j] = IF Matches(p, k) THEN Append(s, k) ELSE s
    BY <1>3, <2>1
  <2>4. k \in Keys /\ k \notin Upto(i)
    BY <1>6, <2>1
  <2>5. CASE Matches(p, k)
    <3>1. Upto(j) = Upto(i) \cup {k}
      BY <2>1, <2>5
    <3>2. found[j] = Append(s, k)
      BY <2>3, <2>5
    <3> HIDE DEF s, k, Upto
    <3>3. found[j] \in Seq(Keys) /\ Distinct(found[j]) /\ Members(found[j]) = Upto(j)
      BY <2>2, <2>4, <3>1, <3>2, DistinctAppend
    <3> QED  BY <3>3 DEF j
  <2>6. CASE ~Matches(p, k)
    <3>1. Upto(j) = Upto(i)
      BY <2>1, <2>6
    <3> QED  BY <2>2, <2>3, <2>6, <3>1 DEF j
  <2> QED  BY <2>5, <2>6
<1>10. n \in U
  <2> HIDE DEF U
  <2> QED  BY <1>4, <1>8, <1>9, NumberInduction
<1>11. Upto(n) = {k \in DOMAIN P!Contents(t) : Matches(p, k)}
  BY <1>7
<1> QED  BY <1>2, <1>4, <1>10, <1>11

LEMMA ServesKeys ==
  ASSUME P!Sound(table), NEW r, r[1] = "KEYS", Finish(r, cmd_keys(table, r))
  PROVE  S!KeysLike(r)
<1> DEFINE m == scan_matches(table, r[2])
           X == {k \in DOMAIN T!Contents(table) : Matches(r[2], k)}
<1>1. m \in Seq(Keys) /\ Distinct(m) /\ Members(m) = X
  BY MatchesAre, SameContents
<1>2. S!Answer(T!Contents(table), S!BulkArray(m))
  <2>1. S!Answer(T!Contents(table), ArrayHeader(Len(m)) \o Bulks(m))
    BY Unchanged DEF cmd_keys
  <2> QED  BY <2>1, SameArrays
<1> HIDE DEF m, X
<1>3. Len(m) \in Nat /\ DOMAIN m = 1 .. Len(m) /\ X = {m[i] : i \in 1 .. Len(m)}
  BY <1>1 DEF Members
<1>4. m \in [1 .. Len(m) -> X]
  BY <1>1, <1>3
<1>5. m \in Bijection(1 .. Len(m), X)
  BY <1>1, <1>3, <1>4 DEF Bijection, Injection, Surjection, IsInjective, Distinct
<1>6. Cardinality(X) = Len(m)
  BY <1>3, <1>5, FS_CountingElements DEF ExistsBijection
<1>7. /\ m \in [1 .. S!Cardinality(X) -> X] /\ X = {m[i] : i \in DOMAIN m}
  BY <1>3, <1>4, <1>6, SameCardinality
<1> QED  BY <1>2, <1>7 DEF S!KeysLike, X

-----------------------------------------------------------------------------
(* The specification implements the abstract store.                        *)

(* How many arguments a command takes is what the dispatch table says. *)
LEMMA TakesIs ==
  ASSUME NEW r, Len(r) \in Nat
  PROVE  /\ r[1] \in DOMAIN commands => (S!Takes(r[1], Len(r)) <=> ArityOK(r))
         /\ r[1] \in DOMAIN commands <=> \E m \in 1 .. 3 : S!Takes(r[1], m)
         /\ S!Takes(r[1], Len(r)) => r[1] \in DOMAIN commands
<1> DEFINE names == {"PING", "GET", "SET", "DEL", "EXISTS", "COMMAND", "INCR", "DECR", "INCRBY",
                     "DECRBY", "STRLEN", "APPEND", "KEYS", "DBSIZE", "FLUSHDB", "SETNX", "GETSET"}
           n == Len(r)
<1>1. DOMAIN commands = names
  BY DEF commands
<1>2. ASSUME r[1] \in names PROVE S!Takes(r[1], n) <=> ArityOK(r)
  <2> n \in Nat
    OBVIOUS
  <2> DEFINE row == commands[r[1]]
  <2>0. ArityOK(r) <=> n >= row[1] /\ (row[2] = -1 \/ n <= row[2])
    BY DEF ArityOK
  <2> HIDE DEF n
  <2>1. CASE r[1] \in {"DBSIZE", "FLUSHDB"}
    <3>1. row = <<1, 1>>
      BY <2>1 DEF commands
    <3>2. row[1] = 1 /\ row[2] = 1
      BY <3>1
    <3> HIDE DEF row
    <3>3. ArityOK(r) <=> n = 1
      BY <2>0, <3>2
    <3>4. S!Takes(r[1], n) <=> n = 1
      BY <2>1 DEF S!Takes
    <3> QED  BY <3>3, <3>4
  <2>2. CASE r[1] \in {"PING"}
    <3>1. row = <<1, 2>>
      BY <2>2 DEF commands
    <3>2. row[1] = 1 /\ row[2] = 2
      BY <3>1
    <3> HIDE DEF row
    <3>3. ArityOK(r) <=> n \in {1, 2}
      BY <2>0, <3>2
    <3>4. S!Takes(r[1], n) <=> n \in {1, 2}
      BY <2>2 DEF S!Takes
    <3> QED  BY <3>3, <3>4
  <2>3. CASE r[1] \in {"GET", "STRLEN", "INCR", "DECR", "KEYS"}
    <3>1. row = <<2, 2>>
      BY <2>3 DEF commands
    <3>2. row[1] = 2 /\ row[2] = 2
      BY <3>1
    <3> HIDE DEF row
    <3>3. ArityOK(r) <=> n = 2
      BY <2>0, <3>2
    <3>4. S!Takes(r[1], n) <=> n = 2
      BY <2>3 DEF S!Takes
    <3> QED  BY <3>3, <3>4
  <2>4. CASE r[1] \in {"SET", "SETNX", "GETSET", "APPEND", "INCRBY", "DECRBY"}
    <3>1. row = <<3, 3>>
      BY <2>4 DEF commands
    <3>2. row[1] = 3 /\ row[2] = 3
      BY <3>1
    <3> HIDE DEF row
    <3>3. ArityOK(r) <=> n = 3
      BY <2>0, <3>2
    <3>4. S!Takes(r[1], n) <=> n = 3
      BY <2>4 DEF S!Takes
    <3> QED  BY <3>3, <3>4
  <2>5. CASE r[1] \in {"DEL", "EXISTS"}
    <3>1. row = <<2, -1>>
      BY <2>5 DEF commands
    <3>2. row[1] = 2 /\ row[2] = -1
      BY <3>1
    <3> HIDE DEF row
    <3>3. ArityOK(r) <=> n >= 2
      BY <2>0, <3>2
    <3>4. S!Takes(r[1], n) <=> n >= 2
      BY <2>5 DEF S!Takes
    <3> QED  BY <3>3, <3>4
  <2>6. CASE r[1] \in {"COMMAND"}
    <3>1. row = <<1, -1>>
      BY <2>6 DEF commands
    <3>2. row[1] = 1 /\ row[2] = -1
      BY <3>1
    <3> HIDE DEF row
    <3>3. ArityOK(r) <=> n >= 1
      BY <2>0, <3>2
    <3>4. S!Takes(r[1], n) <=> n >= 1
      BY <2>6 DEF S!Takes
    <3> QED  BY <3>3, <3>4
  <2> QED  BY <1>2, <2>1, <2>2, <2>3, <2>4, <2>5, <2>6
<1>3. r[1] \in names <=> \E m \in 1 .. 3 : S!Takes(r[1], m)
  <2>1. \A m \in 1 .. 3 : S!Takes(r[1], m) => r[1] \in names
    BY DEF S!Takes
  <2>2. ASSUME r[1] \in names PROVE S!Takes(r[1], 1) \/ S!Takes(r[1], 2) \/ S!Takes(r[1], 3)
    BY <2>2 DEF S!Takes
  <2>3. 1 \in 1 .. 3 /\ 2 \in 1 .. 3 /\ 3 \in 1 .. 3
    OBVIOUS
  <2> QED  BY <2>1, <2>2, <2>3
<1>4. S!Takes(r[1], Len(r)) => r[1] \in names
  BY DEF S!Takes
<1> QED  BY <1>1, <1>2, <1>3, <1>4

LEMMA Refuses ==
  ASSUME NEW r, Len(r) \in Nat, Reject(r)
  PROVE  S!Refused(r)
<1> DEFINE known == \E n \in 1 .. 3 : S!Takes(r[1], n)
           f == T!Contents(table)
<1>1. known <=> r[1] \in DOMAIN commands
  BY TakesIs
<1> HIDE DEF known
<1>2. CASE r[1] \in DOMAIN commands /\ ~ArityOK(r) /\ Finish(r, {Answered(table, WrongArity)})
  <2>1. ~S!Takes(r[1], Len(r)) /\ known
    BY <1>1, <1>2, TakesIs
  <2>2. S!Answer(f, S!WrongArity)
    BY <1>2, Unchanged, SameReplies
  <2> QED  BY <2>1, <2>2 DEF S!Refused, known
<1>3. CASE r[1] \notin DOMAIN commands /\ Finish(r, {Answered(table, Unknown)})
  <2>1. ~S!Takes(r[1], Len(r)) /\ ~known
    BY <1>1, <1>3, TakesIs
  <2>2. S!Answer(f, S!Unknown)
    BY <1>3, Unchanged, SameReplies
  <2> QED  BY <2>1, <2>2 DEF S!Refused, known
<1> QED  BY <1>2, <1>3 DEF Reject

LEMMA Serves ==
  ASSUME P!Sound(table), NEW r \in Requests, Execute(r)
  PROVE  req' = r /\ (S!Served(r) \/ S!Refused(r))
<1>0. /\ Len(r) \in Nat /\ r = [i \in 1 .. Len(r) |-> r[i]]
      /\ \A name : Calls(r, name) => r[1] = name
  BY RequestsTyped DEF Calls
<1>1. \A name \in {"DEL", "EXISTS"} : Calls(r, name) =>
        Len(r) \in Nat \ {0} /\ \A i \in 2 .. Len(r) : r[i] \in Keys
  BY RequestsTyped DEF Calls, Takes, ArityOK, commands
<1>2. \A name \in {"GET", "STRLEN", "INCR", "DECR"} : Calls(r, name) => r[2] \in Keys
  BY RequestsTyped DEF Calls, Takes
<1>3. \A name \in {"SET", "SETNX", "GETSET", "APPEND", "INCRBY", "DECRBY"} :
        Calls(r, name) => r[2] \in Keys /\ r[3] \in Values
  BY RequestsTyped DEF Calls, Takes
<1>4. \A name \in DOMAIN commands : Calls(r, name) => S!Takes(r[1], Len(r))
  BY <1>0, TakesIs DEF Calls
<1> DEFINE served == req' = r /\ S!Served(r)
<1>5. ASSUME NEW name \in DOMAIN commands, Calls(r, name), NEW outcomes, Finish(r, outcomes),
             \/ S!Ping(r) \/ S!Command(r) \/ S!Get(r) \/ S!Strlen(r) \/ S!Set(r) \/ S!SetNx(r)
             \/ S!GetSet(r) \/ S!AppendTo(r) \/ S!Del(r) \/ S!Exists(r) \/ S!DbSize(r)
             \/ S!FlushDb(r) \/ S!KeysLike(r) \/ S!Add(r) \/ S!AddsNoNumber(r) \/ S!NoMemory(r)
      PROVE  served
  <2>1. req' = r /\ S!Takes(r[1], Len(r))
    BY <1>4, <1>5, Answers
  <2> QED  BY <1>5, <2>1 DEF S!Served
<1> HIDE DEF served
<1>6. {"PING", "GET", "SET", "DEL", "EXISTS", "COMMAND", "INCR", "DECR", "INCRBY", "DECRBY",
       "STRLEN", "APPEND", "KEYS", "DBSIZE", "FLUSHDB", "SETNX", "GETSET"} \subseteq DOMAIN commands
  BY DEF commands
<1>7. ASSUME Calls(r, "PING") /\ Finish(r, cmd_ping(table, r)) PROVE served
  BY <1>0, <1>5, <1>6, <1>7, ServesReads
<1>8. ASSUME Calls(r, "GET") /\ Finish(r, cmd_get(table, r)) PROVE served
  BY <1>0, <1>2, <1>5, <1>6, <1>8, ServesReads
<1>9. ASSUME Calls(r, "SET") /\ Finish(r, cmd_set(table, r)) PROVE served
  BY <1>0, <1>3, <1>5, <1>6, <1>9, ServesWrites
<1>10. ASSUME Calls(r, "DEL") /\ Finish(r, cmd_del(table, r)) PROVE served
  BY <1>0, <1>1, <1>5, <1>6, <1>10, ServesDel
<1>11. ASSUME Calls(r, "EXISTS") /\ Finish(r, cmd_exists(table, r)) PROVE served
  BY <1>0, <1>1, <1>5, <1>6, <1>11, ServesExists
<1>12. ASSUME Calls(r, "COMMAND") /\ Finish(r, cmd_command(table, r)) PROVE served
  BY <1>0, <1>5, <1>6, <1>12, ServesReads
<1>13. ASSUME Calls(r, "INCR") /\ Finish(r, cmd_incr(table, r)) PROVE served
  BY <1>0, <1>2, <1>5, <1>6, <1>13, ServesAdd
<1>14. ASSUME Calls(r, "DECR") /\ Finish(r, cmd_decr(table, r)) PROVE served
  BY <1>0, <1>2, <1>5, <1>6, <1>14, ServesAdd
<1>15. ASSUME Calls(r, "INCRBY") /\ Finish(r, cmd_incrby(table, r)) PROVE served
  BY <1>0, <1>3, <1>5, <1>6, <1>15, ServesAdd
<1>16. ASSUME Calls(r, "DECRBY") /\ Finish(r, cmd_decrby(table, r)) PROVE served
  BY <1>0, <1>3, <1>5, <1>6, <1>16, ServesAdd
<1>17. ASSUME Calls(r, "STRLEN") /\ Finish(r, cmd_strlen(table, r)) PROVE served
  BY <1>0, <1>2, <1>5, <1>6, <1>17, ServesReads
<1>18. ASSUME Calls(r, "APPEND") /\ Short(r) /\ Finish(r, cmd_append(table, r)) PROVE served
  BY <1>0, <1>3, <1>5, <1>6, <1>18, ServesWrites
<1>19. ASSUME Calls(r, "KEYS") /\ Finish(r, cmd_keys(table, r)) PROVE served
  BY <1>0, <1>5, <1>6, <1>19, ServesKeys
<1>20. ASSUME Calls(r, "DBSIZE") /\ Finish(r, cmd_dbsize(table, r)) PROVE served
  BY <1>0, <1>5, <1>6, <1>20, ServesReads
<1>21. ASSUME Calls(r, "FLUSHDB") /\ Finish(r, cmd_flushdb(table, r)) PROVE served
  BY <1>0, <1>5, <1>6, <1>21, ServesFlush
<1>22. ASSUME Calls(r, "SETNX") /\ Finish(r, cmd_setnx(table, r)) PROVE served
  BY <1>0, <1>3, <1>5, <1>6, <1>22, ServesWrites
<1>23. ASSUME Calls(r, "GETSET") /\ Finish(r, cmd_getset(table, r)) PROVE served
  BY <1>0, <1>3, <1>5, <1>6, <1>23, ServesWrites
<1>24. CASE Reject(r)
  <2>1. req' = r
    BY <1>24, Answers DEF Reject
  <2> QED  BY <1>0, <1>24, <2>1, Refuses
<1>25. served \/ Reject(r)
  BY <1>7, <1>8, <1>9, <1>10, <1>11, <1>12, <1>13, <1>14, <1>15, <1>16, <1>17, <1>18, <1>19,
     <1>20, <1>21, <1>22, <1>23 DEF Execute
<1> QED  BY <1>24, <1>25 DEF served

(* Every command does to the table, and answers, what the abstract store
   promises of it: the sums and the numbers it reads are the ones the digits
   denote, KEYS lists every matching key once, and a command that finds no
   memory has changed nothing. *)
THEOREM Implementation == Spec => ImplementsStore
<1>1. Init => S!Init
  <2> SUFFICES ASSUME Init PROVE S!Init
    OBVIOUS
  <2> DEFINE f == P!Contents(table)
  <2>1. DOMAIN f = {}
    <3> DEFINE h == T!Nothing
    <3>1. DOMAIN h = {} /\ h = [p \in {} |-> h[p]] /\ table = P!Fresh(h)
      BY SameFresh DEF Init, T!Nothing
    <3> HIDE DEF h
    <3> QED  BY <3>1, Constants, P!FreshSound, Zenon
  <2>2. f = [k \in DOMAIN f |-> f[k]]
    BY DEF P!Contents
  <2>3. T!Contents(table) = f
    BY SameContents
  <2> QED  BY <2>1, <2>2, <2>3 DEF Init, S!Init
<1>2. P!Sound(table) /\ [Next]_vars => [S!Next]_<<T!Contents(table), req, out, rc>>
  <2> SUFFICES ASSUME P!Sound(table), [Next]_vars
               PROVE  [S!Next]_<<T!Contents(table), req, out, rc>>
    OBVIOUS
  <2>1. CASE Next
    BY <2>1, Serves DEF Next, S!Next
  <2>2. CASE UNCHANGED vars
    <3>1. T!Contents(table') = T!Contents(table)
      BY <2>2 DEF vars
    <3>2. T!Contents(table)' = T!Contents(table)
      BY <3>1
    <3> QED  BY <2>2, <3>2 DEF vars
  <2> QED  BY <2>1, <2>2
<1> QED  BY <1>1, <1>2, Invariance, PTL DEF Spec, ImplementsStore, S!Spec
=============================================================================
