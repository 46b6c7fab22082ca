------------------------------ MODULE HashTable ------------------------------
(***************************************************************************)
(* The chained hash table of src/hashtable.c and the heap it allocates      *)
(* from.                                                                   *)
(*                                                                         *)
(* A chain is the sequence of its entries, from the head.  An entry names   *)
(* the three heap blocks it owns: its node, its key and its value; lengths  *)
(* go with the contents.  heap maps every allocated block to its contents,  *)
(* so that a read of a block that was freed is seen to be one.              *)
(***************************************************************************)
EXTENDS Naturals, Sequences, FiniteSets, SequencesExt

CONSTANTS
  Keys, Vals,
  HT_NUM_BUCKETS,
  hash,            (* bucket_index(ht_hash()) of every key                   *)
  Blocks,          (* the memory there is                                    *)
  NULL,
  NodeBytes,       (* contents of a node's block                             *)
  Garbage,         (* what a read of a freed block returns                   *)
  Done, Failed, Missing

ASSUME TableConstants ==
  /\ HT_NUM_BUCKETS \in Nat \ {0}
  /\ hash \in [Keys -> 1 .. HT_NUM_BUCKETS]
  /\ NULL \notin Blocks
  /\ Garbage \notin Keys \cup Vals \cup {NodeBytes}
  /\ NodeBytes \notin Keys \cup Vals

VARIABLES
  table,   (* buckets and count of the hashtable_t, and the heap             *)
  res      (* what the last call returned                                    *)

vars == <<table, res>>

Buckets == 1 .. HT_NUM_BUCKETS

-----------------------------------------------------------------------------
(* The heap.                                                               *)

Nothing == [p \in {} |-> Garbage]

Load(h, p) == IF p \in DOMAIN h THEN h[p] ELSE Garbage

Free(h, ps) == [p \in DOMAIN h \ ps |-> h[p]]

(* malloc() of a block and the copy into it (dup_bytes()): it may fail at
   any call, and does when no block is free. *)
Dup(h, c) ==
  LET unused == Blocks \ DOMAIN h IN
  {[ptr |-> NULL, heap |-> h]} \cup
  {[ptr |-> p, heap |-> [q \in DOMAIN h \cup {p} |-> IF q = p THEN c ELSE h[q]]] :
     p \in {r \in unused : r = CHOOSE q \in unused : TRUE}}

-----------------------------------------------------------------------------
(* The operations, as functions of a table.                                *)

(* ht_init(). *)
Fresh(h) == [buckets |-> [i \in Buckets |-> <<>>], count |-> 0, heap |-> h]

(* Variant: only the head of the chain is compared. *)
HitsHeadOnly(t, k) ==
  LET chain == t.buckets[hash[k]]
  IN {i \in DOMAIN chain \cap {1} : Load(t.heap, chain[i].key) = k}

(* The positions in its chain where the walk finds key k. *)
Hits(t, k) ==
  LET chain == t.buckets[hash[k]]
  IN {i \in DOMAIN chain : Load(t.heap, chain[i].key) = k}

Found(t, k) == Hits(t, k) # {}

(* The walk stops at the first of them. *)
At(t, k) == CHOOSE i \in Hits(t, k) : \A j \in Hits(t, k) : i <= j

(* The entry of k gets the value in block p, and its old one is freed. *)
Revalue(t, k, h, p) ==
  LET i == At(t, k)
  IN [buckets |-> [t.buckets EXCEPT ![hash[k]][i].val = p],
      count   |-> t.count,
      heap    |-> Free(h, {t.buckets[hash[k]][i].val})]

(* Variant: the old value is freed first. *)
OverwriteFreesFirst(t, k, v) ==
  LET i     == At(t, k)
      freed == Free(t.heap, {t.buckets[hash[k]][i].val})
  IN {IF d.ptr = NULL THEN [ok |-> FALSE, t |-> [t EXCEPT !.heap = freed]]
      ELSE [ok |-> TRUE,
            t  |-> [t EXCEPT !.buckets[hash[k]][i].val = d.ptr, !.heap = d.heap]] :
        d \in Dup(freed, v)}

(* The first pass of ht_set(): the replacement value is allocated before the
   old one is freed. *)
Overwrite(t, k, v) ==
  {IF d.ptr = NULL THEN [ok |-> FALSE, t |-> t]
   ELSE [ok |-> TRUE, t |-> Revalue(t, k, d.heap, d.ptr)] : d \in Dup(t.heap, v)}

(* Variant: only the node is freed. *)
UnwindNodeOnly(t, h, ps) ==
  [ok |-> FALSE, t |-> [t EXCEPT !.heap = Free(h, {p \in ps : h[p] = NodeBytes})]]

(* An allocation failed: those made before it, ps, are given back. *)
Unwind(t, h, ps) == [ok |-> FALSE, t |-> [t EXCEPT !.heap = Free(h, ps)]]

(* A new entry at the head of its chain. *)
Link(t, k, h, e) ==
  [ok |-> TRUE,
   t  |-> [buckets |-> [t.buckets EXCEPT ![hash[k]] = <<e>> \o @],
           count   |-> t.count + 1,
           heap    |-> h]]

(* The rest of ht_set(): node, key and value are allocated in this order. *)
Insert(t, k, v) ==
  UNION {IF n.ptr = NULL THEN {Unwind(t, n.heap, {})} ELSE
    UNION {IF c.ptr = NULL THEN {Unwind(t, c.heap, {n.ptr})} ELSE
      {IF d.ptr = NULL THEN Unwind(t, d.heap, {n.ptr, c.ptr})
         ELSE Link(t, k, d.heap, [node |-> n.ptr, key |-> c.ptr, val |-> d.ptr]) :
         d \in Dup(c.heap, v)} :
      c \in Dup(n.heap, k)} :
    n \in Dup(t.heap, NodeBytes)}

(* ht_set(): its possible outcomes. *)
HtSet(t, k, v) == IF Found(t, k) THEN Overwrite(t, k, v) ELSE Insert(t, k, v)

EntryBlocks(e) == {e.node, e.key, e.val}

(* Variant: the entry is unlinked together with those behind it. *)
HtDelCutsChain(t, k) ==
  LET chain == t.buckets[hash[k]]
      i     == At(t, k)
  IN IF ~Found(t, k) THEN t
     ELSE [buckets |-> [t.buckets EXCEPT ![hash[k]] = SubSeq(chain, 1, i - 1)],
           count   |-> t.count - 1,
           heap    |-> Free(t.heap, EntryBlocks(chain[i]))]

(* Variant: the counter goes down also when there was nothing to delete. *)
HtDelDecrements(t, k) ==
  LET chain == t.buckets[hash[k]]
      i     == At(t, k)
  IN IF ~Found(t, k) THEN [t EXCEPT !.count = @ - 1]
     ELSE [buckets |-> [t.buckets EXCEPT ![hash[k]] = RemoveAt(chain, i)],
           count   |-> t.count - 1,
           heap    |-> Free(t.heap, EntryBlocks(chain[i]))]

(* ht_del(): the entry is unlinked, then its node, key and value freed. *)
HtDel(t, k) ==
  LET chain == t.buckets[hash[k]]
      i     == At(t, k)
  IN IF ~Found(t, k) THEN t
     ELSE [buckets |-> [t.buckets EXCEPT ![hash[k]] = RemoveAt(chain, i)],
           count   |-> t.count - 1,
           heap    |-> Free(t.heap, EntryBlocks(chain[i]))]

(* ht_get() lends the block of the value, which stays the table's; NULL is a
   miss. *)
HtGet(t, k) ==
  IF Found(t, k) THEN t.buckets[hash[k]][At(t, k)].val ELSE NULL

(* The entries in the order ht_scan() walks them. *)
Entries(t) == FlattenSeq(t.buckets)

EntrySet(t) == UNION {Range(t.buckets[i]) : i \in Buckets}

Owned(t) == UNION {EntryBlocks(e) : e \in EntrySet(t)}

(* Variant: the counter survives. *)
HtDestroyKeepsCount(t) == [Fresh(Free(t.heap, Owned(t))) EXCEPT !.count = t.count]

(* ht_destroy(): every entry is freed and every chain emptied. *)
HtDestroy(t) == Fresh(Free(t.heap, Owned(t)))

-----------------------------------------------------------------------------
(* The table on its own.                                                   *)

Init == table = Fresh(Nothing) /\ res = Done

Set(k, v) ==
  \E r \in HtSet(table, k, v) :
    /\ table' = r.t
    /\ res' = IF r.ok THEN Done ELSE Failed

Del(k) ==
  /\ table' = HtDel(table, k)
  /\ res' = IF Found(table, k) THEN 1 ELSE 0

Get(k) ==
  /\ res' = IF HtGet(table, k) = NULL THEN Missing
            ELSE Load(table.heap, HtGet(table, k))
  /\ UNCHANGED table

(* ht_scan() with a callback that returns 0 at its n-th call; what it returns
   is how often it called. *)
Scan(n) ==
  /\ res' = IF n <= Cardinality(EntrySet(table)) THEN n ELSE Cardinality(EntrySet(table))
  /\ UNCHANGED table

Size == res' = table.count /\ UNCHANGED table

Destroy == table' = HtDestroy(table) /\ res' = Done

Next ==
  \/ \E k \in Keys : (\E v \in Vals : Set(k, v)) \/ Del(k) \/ Get(k)
  \/ \E n \in 1 .. Cardinality(Keys) : Scan(n)
  \/ Size \/ Destroy

Spec == Init /\ [][Next]_vars

-----------------------------------------------------------------------------
(* Properties.                                                             *)

Entry == [node : Blocks, key : Blocks, val : Blocks]
Cell  == Keys \cup Vals \cup {NodeBytes}

Heap(h) == DOMAIN h \subseteq Blocks /\ h \in [DOMAIN h -> Cell]

Typed(t) ==
  /\ t = [buckets |-> t.buckets, count |-> t.count, heap |-> t.heap]
  /\ t.buckets \in [Buckets -> Seq(Entry)]
  /\ t.count \in Nat
  /\ Heap(t.heap)

TypeOK == Typed(table) /\ res \in {Done, Failed, Missing} \cup Nat \cup Cell

(* The buffers an entry points at are allocated, hold what the entry needs
   and belong to no other entry, and nothing else is allocated: no sequence
   of calls and of failing allocations leaks a block, frees one twice or
   leaves an entry pointing at a freed one. *)
Exact(t) ==
  /\ DOMAIN t.heap = Owned(t)
  /\ \A e \in EntrySet(t) :
       /\ e.node # e.key /\ e.node # e.val /\ e.key # e.val
       /\ t.heap[e.node] = NodeBytes
       /\ t.heap[e.key] \in Keys
       /\ t.heap[e.val] \in Vals
  /\ \A e, f \in EntrySet(t) : e # f => EntryBlocks(e) \cap EntryBlocks(f) = {}

HeapExact == Exact(table)

(* Every entry is in the bucket its key hashes to, and a key has one entry
   at most: the walk that stops at the first hit misses nothing, and ht_del()
   leaves no older entry behind to come back. *)
Chained(t) ==
  \A i \in Buckets : \A m, n \in DOMAIN t.buckets[i] :
    LET key(j) == Load(t.heap, t.buckets[i][j].key)
    IN hash[key(m)] = i /\ (key(m) = key(n) => m = n)

ChainsSound == Chained(table)

(* The counter that DBSIZE reports is the number of entries. *)
Counted(t) == t.count = Cardinality(EntrySet(t))

CountExact == Counted(table)

(* The table is the partial function of module KeyMap, whichever keys share
   a bucket and whichever allocations fail. *)
Contents(t) ==
  [k \in {j \in Keys : Found(t, j)} |-> Load(t.heap, HtGet(t, k))]

M == INSTANCE KeyMap WITH map <- Contents(table)
ImplementsMap == M!Spec
==============================================================================
