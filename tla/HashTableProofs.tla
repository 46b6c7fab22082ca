--------------------------- MODULE HashTableProofs ---------------------------
(***************************************************************************)
(* Proofs about HashTable for every set of keys, every hash, every number   *)
(* of buckets and however much memory there is: the heap is exact, the      *)
(* chains sound, the counter right, and the table implements KeyMap.        *)
(***************************************************************************)
EXTENDS HashTable, FiniteSetTheorems, SequenceTheorems, TLAPS

(* The inductive invariant, as a property of a table. *)
Sound(t) ==
  /\ Typed(t)
  /\ Exact(t)
  /\ Chained(t)
  /\ IsFiniteSet(EntrySet(t)) /\ Counted(t)

IInv == Sound(table) /\ res \in {Done, Failed, Missing} \cup Nat \cup Cell

-----------------------------------------------------------------------------
(* Chains.                                                                 *)

(* A chain with an entry put at its head. *)
LEMMA ConsChain ==
  ASSUME NEW s \in Seq(Entry), NEW e \in Entry
  PROVE  /\ <<e>> \o s \in Seq(Entry)
         /\ Range(<<e>> \o s) = Range(s) \cup {e}
         /\ \A m \in DOMAIN (<<e>> \o s) :
              (<<e>> \o s)[m] = IF m = 1 THEN e ELSE s[m - 1]
         /\ \A m \in DOMAIN (<<e>> \o s) : m # 1 => m - 1 \in DOMAIN s
<1> DEFINE c == <<e>> \o s
<1>1. <<e>> \in Seq(Entry) /\ Len(<<e>>) = 1 /\ <<e>>[1] = e
  OBVIOUS
<1>2. /\ c \in Seq(Entry) /\ Len(c) = 1 + Len(s)
      /\ \A m \in 1 .. Len(c) : c[m] = IF m = 1 THEN e ELSE s[m - 1]
  BY <1>1, ConcatProperties
<1> HIDE DEF c
<1>3. DOMAIN c = 1 .. Len(s) + 1 /\ DOMAIN s = 1 .. Len(s) /\ Len(s) \in Nat
  BY <1>2
<1>4. \A m \in DOMAIN c : m # 1 => m - 1 \in DOMAIN s
  BY <1>3
<1>5. \A m \in DOMAIN c : c[m] = IF m = 1 THEN e ELSE s[m - 1]
  BY <1>2, <1>3
<1>6. \A m \in DOMAIN s : m + 1 \in DOMAIN c /\ c[m + 1] = s[m]
  BY <1>3, <1>5
<1>7. 1 \in DOMAIN c /\ c[1] = e
  BY <1>3, <1>5
<1>8. Range(c) = Range(s) \cup {e}
  BY <1>4, <1>5, <1>6, <1>7 DEF Range
<1> QED  BY <1>2, <1>4, <1>5, <1>8 DEF c

(* A chain without its i-th entry. *)
LEMMA CutChain ==
  ASSUME NEW s \in Seq(Entry), NEW i \in DOMAIN s,
         \A m, n \in DOMAIN s : s[m] = s[n] => m = n
  PROVE  /\ RemoveAt(s, i) \in Seq(Entry)
         /\ Range(RemoveAt(s, i)) = Range(s) \ {s[i]}
         /\ \A m \in DOMAIN RemoveAt(s, i) :
              LET k == IF m < i THEN m ELSE m + 1
              IN k \in DOMAIN s /\ RemoveAt(s, i)[m] = s[k]
<1> DEFINE a == SubSeq(s, 1, i - 1)
           b == SubSeq(s, i + 1, Len(s))
           c == RemoveAt(s, i)
           L == Len(s)
<1>1. L \in Nat /\ i \in 1 .. L /\ DOMAIN s = 1 .. L
  OBVIOUS
<1> HIDE DEF L
<1>2. /\ a \in Seq(Entry) /\ Len(a) = i - 1
      /\ \A m \in 1 .. i - 1 : a[m] = s[m]
  <2>1. 1 \in Int /\ i - 1 \in Int /\ \A m \in 1 .. i - 1 : s[m] \in Entry
    BY <1>1
  <2>2. /\ a \in Seq(Entry)
        /\ Len(a) = IF 1 <= i - 1 THEN (i - 1) - 1 + 1 ELSE 0
        /\ \A m \in 1 .. (i - 1) - 1 + 1 : a[m] = s[1 + m - 1]
    BY <2>1, SubSeqProperties
  <2> QED  BY <1>1, <2>2
<1>3. /\ b \in Seq(Entry) /\ Len(b) = L - i
      /\ \A m \in 1 .. L - i : b[m] = s[i + m]
  <2>1. i + 1 \in Int /\ L \in Int /\ \A m \in i + 1 .. L : s[m] \in Entry
    BY <1>1
  <2>2. /\ b \in Seq(Entry)
        /\ Len(b) = IF i + 1 <= L THEN L - (i + 1) + 1 ELSE 0
        /\ \A m \in 1 .. L - (i + 1) + 1 : b[m] = s[(i + 1) + m - 1]
    BY <2>1, SubSeqProperties DEF L
  <2> QED  BY <1>1, <2>2
<1> HIDE DEF a, b
<1>4. /\ a \o b \in Seq(Entry) /\ Len(a \o b) = (i - 1) + (L - i)
      /\ \A m \in 1 .. (i - 1) + (L - i) :
           (a \o b)[m] = IF m <= i - 1 THEN a[m] ELSE b[m - (i - 1)]
  <2>1. /\ a \o b \in Seq(Entry) /\ Len(a \o b) = Len(a) + Len(b)
        /\ \A m \in 1 .. Len(a) + Len(b) :
             (a \o b)[m] = IF m <= Len(a) THEN a[m] ELSE b[m - Len(a)]
    <3>1. a \in Seq(Entry) /\ b \in Seq(Entry)
      BY <1>2, <1>3
    <3> QED  BY ONLY <3>1, ConcatProperties
  <2> QED  BY <2>1, <1>2, <1>3
<1>5. c = a \o b
  BY DEF RemoveAt, a, b
<1> HIDE DEF c
<1>6. /\ c \in Seq(Entry) /\ DOMAIN c = 1 .. L - 1
      /\ \A m \in 1 .. L - 1 : c[m] = IF m < i THEN s[m] ELSE s[m + 1]
  <2>1. c \in Seq(Entry) /\ DOMAIN c = 1 .. L - 1
    BY <1>1, <1>4, <1>5
  <2>2. ASSUME NEW m \in 1 .. L - 1
        PROVE  c[m] = IF m < i THEN s[m] ELSE s[m + 1]
    <3>1. CASE m < i
      BY <3>1, <1>1, <1>2, <1>4, <1>5
    <3>2. CASE ~(m < i)
      <4>1. m - (i - 1) \in 1 .. L - i /\ i + (m - (i - 1)) = m + 1
        BY <3>2, <1>1
      <4>2. c[m] = b[m - (i - 1)]
        BY <3>2, <1>1, <1>4, <1>5
      <4> QED  BY <3>2, <4>1, <4>2, <1>3
    <3> QED  BY <3>1, <3>2
  <2> QED  BY <2>1, <2>2
<1>7. \A m \in DOMAIN c :
        LET k == IF m < i THEN m ELSE m + 1
        IN k \in DOMAIN s /\ c[m] = s[k] /\ k # i
  BY <1>1, <1>6
<1>8. \A k \in DOMAIN s \ {i} : \E m \in DOMAIN c : c[m] = s[k]
  <2> SUFFICES ASSUME NEW k \in DOMAIN s \ {i}
               PROVE  \E m \in DOMAIN c : c[m] = s[k]
    OBVIOUS
  <2>1. CASE k < i
    BY <2>1, <1>1, <1>6
  <2>2. CASE k > i
    <3>1. k - 1 \in DOMAIN c /\ ~(k - 1 < i) /\ (k - 1) + 1 = k
      BY <2>2, <1>1, <1>6
    <3> QED  BY <3>1, <1>6
  <2> QED  BY <2>1, <2>2, <1>1
<1>9. Range(c) = Range(s) \ {s[i]}
  BY <1>7, <1>8 DEF Range
<1> QED  BY <1>6, <1>7, <1>9 DEF c

(* A chain whose i-th entry got another value. *)
LEMMA RewriteChain ==
  ASSUME NEW s \in Seq(Entry), NEW i \in DOMAIN s, NEW e \in Entry,
         \A m, n \in DOMAIN s : s[m] = s[n] => m = n
  PROVE  /\ [s EXCEPT ![i] = e] \in Seq(Entry)
         /\ DOMAIN [s EXCEPT ![i] = e] = DOMAIN s
         /\ Range([s EXCEPT ![i] = e]) = (Range(s) \ {s[i]}) \cup {e}
         /\ \A m \in DOMAIN s : [s EXCEPT ![i] = e][m] = IF m = i THEN e ELSE s[m]
<1> DEFINE c == [s EXCEPT ![i] = e]
<1>1. c \in Seq(Entry) /\ DOMAIN c = DOMAIN s
  BY ExceptSeq
<1>2. \A m \in DOMAIN s : c[m] = IF m = i THEN e ELSE s[m]
  OBVIOUS
<1> HIDE DEF c
<1>3. Range(c) = (Range(s) \ {s[i]}) \cup {e}
  BY <1>1, <1>2 DEF Range
<1> QED  BY <1>1, <1>2, <1>3 DEF c

-----------------------------------------------------------------------------
(* The heap.                                                               *)

LEMMA FreeKeeps ==
  ASSUME NEW h, Heap(h), NEW ps
  PROVE  /\ Heap(Free(h, ps))
         /\ DOMAIN Free(h, ps) = DOMAIN h \ ps
         /\ \A p \in DOMAIN h \ ps : Free(h, ps)[p] = h[p]
BY DEF Heap, Free

(* malloc() fails and changes nothing, or gives a block that was not in use. *)
LEMMA DupGives ==
  ASSUME NEW h, Heap(h), NEW c \in Cell, NEW d \in Dup(h, c)
  PROVE  /\ Heap(d.heap)
         /\ \/ d.ptr = NULL /\ d.heap = h
            \/ /\ d.ptr # NULL
               /\ d.ptr \in Blocks \ DOMAIN h
               /\ DOMAIN d.heap = DOMAIN h \cup {d.ptr}
               /\ d.heap[d.ptr] = c
               /\ \A q \in DOMAIN h : d.heap[q] = h[q]
<1>1. CASE d = [ptr |-> NULL, heap |-> h]
  BY <1>1
<1>2. ASSUME NEW p \in Blocks \ DOMAIN h,
             d = [ptr |-> p, heap |-> [q \in DOMAIN h \cup {p} |-> IF q = p THEN c ELSE h[q]]]
      PROVE  /\ Heap(d.heap)
             /\ d.ptr # NULL
             /\ d.ptr \in Blocks \ DOMAIN h
             /\ DOMAIN d.heap = DOMAIN h \cup {d.ptr}
             /\ d.heap[d.ptr] = c
             /\ \A q \in DOMAIN h : d.heap[q] = h[q]
  BY <1>2, TableConstants DEF Heap
<1> QED  BY <1>1, <1>2 DEF Dup

-----------------------------------------------------------------------------
(* What a sound table finds.                                               *)

(* An entry and the cells it names, in terms of the set of entries. *)
LEMMA EntryCells ==
  ASSUME NEW t, Sound(t), NEW i \in Buckets, NEW m \in DOMAIN t.buckets[i]
  PROVE  LET e == t.buckets[i][m]
         IN /\ e \in EntrySet(t) /\ e \in Entry
            /\ EntryBlocks(e) \subseteq DOMAIN t.heap
            /\ Load(t.heap, e.key) = t.heap[e.key] /\ t.heap[e.key] \in Keys
            /\ Load(t.heap, e.val) = t.heap[e.val] /\ t.heap[e.val] \in Vals
            /\ hash[t.heap[e.key]] = i
<1> DEFINE e == t.buckets[i][m]
<1>1. t.buckets[i] \in Seq(Entry)
  BY DEF Sound, Typed
<1>2. e \in EntrySet(t) /\ e \in Entry
  BY <1>1 DEF EntrySet, Range
<1>3. EntryBlocks(e) \subseteq DOMAIN t.heap
  BY <1>2 DEF Sound, Exact, Owned
<1>4. e.key \in DOMAIN t.heap /\ e.val \in DOMAIN t.heap
  BY <1>3 DEF EntryBlocks
<1>5. hash[Load(t.heap, e.key)] = i
  BY DEF Sound, Chained
<1> QED  BY <1>2, <1>3, <1>4, <1>5 DEF Sound, Exact, Load

(* Every entry of the set is in the chain of its key. *)
LEMMA EntryPlace ==
  ASSUME NEW t, Sound(t), NEW e \in EntrySet(t)
  PROVE  /\ e \in Entry /\ t.heap[e.key] \in Keys
         /\ hash[t.heap[e.key]] \in Buckets
         /\ \E m \in DOMAIN t.buckets[hash[t.heap[e.key]]] :
              t.buckets[hash[t.heap[e.key]]][m] = e
<1>1. PICK i \in Buckets : e \in Range(t.buckets[i])
  BY DEF EntrySet
<1>2. PICK m \in DOMAIN t.buckets[i] : t.buckets[i][m] = e
  BY <1>1 DEF Range
<1> QED  BY <1>2, EntryCells

(* No two entries of a chain are the same. *)
LEMMA ChainInjective ==
  ASSUME NEW t, Sound(t), NEW i \in Buckets
  PROVE  \A m, n \in DOMAIN t.buckets[i] : t.buckets[i][m] = t.buckets[i][n] => m = n
BY DEF Sound, Chained

(* Two entries with the same key are the same. *)
LEMMA OneEntry ==
  ASSUME NEW t, Sound(t), NEW e \in EntrySet(t), NEW f \in EntrySet(t),
         t.heap[e.key] = t.heap[f.key]
  PROVE  e = f
<1> DEFINE i == hash[t.heap[e.key]]
<1>1. i \in Buckets
  BY EntryPlace
<1>2. PICK m \in DOMAIN t.buckets[i] : t.buckets[i][m] = e
  BY EntryPlace
<1>3. PICK n \in DOMAIN t.buckets[i] : t.buckets[i][n] = f
  BY EntryPlace
<1>4. /\ Load(t.heap, t.buckets[i][m].key) = t.heap[e.key]
      /\ Load(t.heap, t.buckets[i][n].key) = t.heap[f.key]
  BY <1>1, <1>2, <1>3, EntryCells
<1>5. m = n
  BY <1>1, <1>2, <1>3, <1>4 DEF Sound, Chained
<1> QED  BY <1>2, <1>3, <1>5

(* The walk for a key stops at its entry. *)
LEMMA WalkFinds ==
  ASSUME NEW t, Sound(t), NEW k \in Keys
  PROVE  /\ Found(t, k) <=> \E e \in EntrySet(t) : t.heap[e.key] = k
         /\ Found(t, k) =>
              /\ At(t, k) \in DOMAIN t.buckets[hash[k]]
              /\ t.heap[t.buckets[hash[k]][At(t, k)].key] = k
         /\ \A e \in EntrySet(t) : t.heap[e.key] = k =>
              t.buckets[hash[k]][At(t, k)] = e
<1> DEFINE i == hash[k]
           chain == t.buckets[i]
<1>1. i \in Buckets
  BY TableConstants DEF Buckets
<1>2. \A m \in DOMAIN chain : Load(t.heap, chain[m].key) = t.heap[chain[m].key]
                             /\ chain[m] \in EntrySet(t)
  BY <1>1, EntryCells
<1>3. Hits(t, k) = {m \in DOMAIN chain : t.heap[chain[m].key] = k}
  BY <1>2 DEF Hits
<1>4. \A m, n \in Hits(t, k) : m = n
  BY <1>1, <1>2, <1>3 DEF Sound, Chained
<1>5. \A m \in Hits(t, k) : m \in Nat
  <2>1. chain \in Seq(Entry)
    BY <1>1 DEF Sound, Typed
  <2> QED  BY <2>1, <1>3
<1>6. Found(t, k) => At(t, k) \in Hits(t, k)
  <2> SUFFICES ASSUME NEW m \in Hits(t, k)
               PROVE  \E n \in Hits(t, k) : \A j \in Hits(t, k) : n <= j
    BY DEF Found, At
  <2> QED  BY <1>4, <1>5
<1>7. ASSUME NEW e \in EntrySet(t), t.heap[e.key] = k
      PROVE  Found(t, k) /\ chain[At(t, k)] = e
  <2>1. PICK m \in DOMAIN chain : chain[m] = e
    BY <1>7, EntryPlace
  <2>2. m \in Hits(t, k)
    BY <2>1, <1>3, <1>7
  <2> QED  BY <2>1, <2>2, <1>4, <1>6 DEF Found
<1> QED  BY <1>2, <1>3, <1>6, <1>7

-----------------------------------------------------------------------------
(* What the operations do to a sound table.                                *)

(* A new entry at the head of a chain. *)
LEMMA LinkKeeps ==
  ASSUME NEW t, Sound(t), NEW k \in Keys, NEW v \in Vals, ~Found(t, k),
         NEW e \in Entry, e.node # e.key, e.node # e.val, e.key # e.val,
         EntryBlocks(e) \cap DOMAIN t.heap = {},
         NEW h, Heap(h), DOMAIN h = DOMAIN t.heap \cup EntryBlocks(e),
         \A p \in DOMAIN t.heap : h[p] = t.heap[p],
         h[e.node] = NodeBytes, h[e.key] = k, h[e.val] = v
  PROVE  LET u == Link(t, k, h, e).t
         IN Sound(u) /\ u.heap = h /\ EntrySet(u) = EntrySet(t) \cup {e}
<1> DEFINE u == Link(t, k, h, e).t
           i == hash[k]
           chain == t.buckets[i]
           new == <<e>> \o chain
<1>1. i \in Buckets /\ chain \in Seq(Entry) /\ t.buckets \in [Buckets -> Seq(Entry)]
  BY TableConstants DEF Buckets, Sound, Typed
<1>2. /\ new \in Seq(Entry)
      /\ Range(new) = Range(chain) \cup {e}
      /\ \A m \in DOMAIN new : new[m] = IF m = 1 THEN e ELSE chain[m - 1]
      /\ \A m \in DOMAIN new : m # 1 => m - 1 \in DOMAIN chain
  BY <1>1, ConsChain
<1>3. u = [buckets |-> [t.buckets EXCEPT ![i] = new], count |-> t.count + 1, heap |-> h]
  BY DEF Link
<1> HIDE DEF new, u
<1>4. /\ u.buckets \in [Buckets -> Seq(Entry)]
      /\ u.buckets[i] = new
      /\ \A j \in Buckets : j # i => u.buckets[j] = t.buckets[j]
  BY <1>1, <1>2, <1>3
<1>5. u.heap = h /\ u.count = t.count + 1
  BY <1>3
<1>6. EntrySet(u) = EntrySet(t) \cup {e}
  <2>1. \A j \in Buckets : Range(u.buckets[j]) =
          IF j = i THEN Range(t.buckets[j]) \cup {e} ELSE Range(t.buckets[j])
    BY <1>2, <1>4
  <2>2. \A x : x \in EntrySet(u) <=> \E j \in Buckets : x \in Range(u.buckets[j])
    BY DEF EntrySet
  <2>3. \A x : x \in EntrySet(t) <=> \E j \in Buckets : x \in Range(t.buckets[j])
    BY DEF EntrySet
  <2> HIDE DEF i
  <2>4. \A x : x \in EntrySet(u) <=> x \in EntrySet(t) \cup {e}
    BY <1>1, <2>1, <2>2, <2>3
  <2> QED  BY <2>4
<1>7. e \notin EntrySet(t)
  <2> SUFFICES ASSUME e \in EntrySet(t) PROVE FALSE
    OBVIOUS
  <2>1. EntryBlocks(e) \subseteq DOMAIN t.heap
    BY DEF Sound, Exact, Owned
  <2> QED  BY <2>1 DEF EntryBlocks
<1>8. Typed(u)
  BY <1>3, <1>4, <1>5 DEF Typed, Sound
<1>9. Exact(u)
  <2>1. \A f \in EntrySet(t) : EntryBlocks(f) \subseteq DOMAIN t.heap
    BY DEF Sound, Exact, Owned
  <2>2. DOMAIN u.heap = Owned(u)
    <3>1. Owned(u) = Owned(t) \cup EntryBlocks(e)
      BY <1>6 DEF Owned
    <3> QED  BY <3>1, <1>5 DEF Sound, Exact
  <2>3. ASSUME NEW f \in EntrySet(u)
        PROVE  /\ f.node # f.key /\ f.node # f.val /\ f.key # f.val
               /\ u.heap[f.node] = NodeBytes /\ u.heap[f.key] \in Keys /\ u.heap[f.val] \in Vals
    <3>1. CASE f = e
      BY <3>1, <1>5
    <3>2. CASE f \in EntrySet(t)
      <4>1. {f.node, f.key, f.val} \subseteq DOMAIN t.heap
        BY <3>2, <2>1 DEF EntryBlocks
      <4> QED  BY <3>2, <4>1, <1>5 DEF Sound, Exact
    <3> QED  BY <3>1, <3>2, <1>6
  <2>4. ASSUME NEW f \in EntrySet(u), NEW g \in EntrySet(u), f # g
        PROVE  EntryBlocks(f) \cap EntryBlocks(g) = {}
    <3>1. CASE f \in EntrySet(t) /\ g \in EntrySet(t)
      BY <3>1, <2>4 DEF Sound, Exact
    <3>2. CASE f = e
      BY <3>2, <2>4, <2>1, <1>6
    <3>3. CASE g = e
      BY <3>3, <2>4, <2>1, <1>6
    <3> QED  BY <3>1, <3>2, <3>3, <1>6
  <2> QED  BY <2>2, <2>3, <2>4 DEF Exact
<1>10. Chained(u)
  <2>1. ASSUME NEW j \in Buckets, NEW m \in DOMAIN t.buckets[j]
        PROVE  Load(h, t.buckets[j][m].key) = Load(t.heap, t.buckets[j][m].key)
    <3>1. EntryBlocks(t.buckets[j][m]) \subseteq DOMAIN t.heap
      BY EntryCells
    <3> QED  BY <3>1 DEF EntryBlocks, Load
  <2>2. Load(h, e.key) = k
    BY DEF Load, EntryBlocks
  <2>3. ASSUME NEW j \in Buckets, NEW m \in DOMAIN u.buckets[j], NEW n \in DOMAIN u.buckets[j]
        PROVE  LET key(q) == Load(u.heap, u.buckets[j][q].key)
               IN hash[key(m)] = j /\ (key(m) = key(n) => m = n)
    <3>1. CASE j # i
      BY <3>1, <1>4, <1>5, <2>1 DEF Sound, Chained
    <3>2. CASE j = i
      <4> DEFINE key(q) == Load(u.heap, u.buckets[j][q].key)
                 old(q) == Load(t.heap, chain[q].key)
      <4>1. \A q \in DOMAIN new :
              /\ q = 1 => key(q) = k
              /\ q # 1 => q - 1 \in DOMAIN chain /\ key(q) = old(q - 1)
        BY <3>2, <1>1, <1>2, <1>4, <1>5, <2>1, <2>2
      <4>2. \A q \in DOMAIN chain : old(q) # k
        <5>1. \A q \in DOMAIN chain : q \notin Hits(t, k)
          BY DEF Found
        <5> QED  BY <5>1 DEF Hits
      <4>3. \A q, r \in DOMAIN chain : hash[old(q)] = i /\ (old(q) = old(r) => q = r)
        BY <1>1 DEF Sound, Chained
      <4>4. m \in DOMAIN new /\ n \in DOMAIN new
        BY <3>2, <1>4
      <4>5. \A q \in DOMAIN new : q \in Int
        BY <1>2
      <4> HIDE DEF key, old, chain
      <4>6. hash[key(m)] = j
        BY <3>2, <4>1, <4>3, <4>4
      <4>7. key(m) = key(n) => m = n
        BY <4>1, <4>2, <4>3, <4>4, <4>5
      <4> QED  BY <4>6, <4>7 DEF key
    <3> QED  BY <3>1, <3>2
  <2> QED  BY <2>3 DEF Chained
<1>11. IsFiniteSet(EntrySet(u)) /\ Counted(u)
  BY <1>5, <1>6, <1>7, FS_AddElement DEF Sound, Counted
<1> QED  BY <1>5, <1>6, <1>8, <1>9, <1>10, <1>11 DEF Sound, u

(* An entry taken out of its chain, and its blocks freed. *)
LEMMA DelKeeps ==
  ASSUME NEW t, Sound(t), NEW k \in Keys, Found(t, k)
  PROVE  LET u == HtDel(t, k)
             e == t.buckets[hash[k]][At(t, k)]
         IN /\ Sound(u)
            /\ EntrySet(u) = EntrySet(t) \ {e}
            /\ \A f \in EntrySet(u) : u.heap[f.key] = t.heap[f.key] /\ u.heap[f.val] = t.heap[f.val]
<1> DEFINE u == HtDel(t, k)
           i == hash[k]
           chain == t.buckets[i]
           a == At(t, k)
           e == chain[a]
           new == RemoveAt(chain, a)
           h == Free(t.heap, EntryBlocks(e))
<1>1. i \in Buckets /\ chain \in Seq(Entry) /\ t.buckets \in [Buckets -> Seq(Entry)]
  BY TableConstants DEF Buckets, Sound, Typed
<1>2. a \in DOMAIN chain /\ e \in EntrySet(t) /\ hash[t.heap[e.key]] = i
  <2>1. a \in DOMAIN chain
    BY <1>1, WalkFinds
  <2> HIDE DEF a, i
  <2> QED  BY <1>1, <2>1, EntryCells
<1>3. /\ new \in Seq(Entry)
      /\ Range(new) = Range(chain) \ {e}
      /\ \A m \in DOMAIN new :
           LET j == IF m < a THEN m ELSE m + 1
           IN j \in DOMAIN chain /\ new[m] = chain[j]
  <2>1. \A m, n \in DOMAIN chain : chain[m] = chain[n] => m = n
    BY <1>1, ChainInjective
  <2> HIDE DEF chain, a
  <2> QED  BY <1>1, <1>2, <2>1, CutChain
<1>4. u = [buckets |-> [t.buckets EXCEPT ![i] = new], count |-> t.count - 1, heap |-> h]
  BY DEF HtDel
<1>5. /\ Heap(h) /\ DOMAIN h = DOMAIN t.heap \ EntryBlocks(e)
      /\ \A p \in DOMAIN h : h[p] = t.heap[p]
  <2>1. Heap(t.heap)
    BY DEF Sound, Typed
  <2> DEFINE ps == EntryBlocks(e)
             g == t.heap
  <2> HIDE DEF ps, g
  <2>2. /\ Heap(Free(g, ps))
        /\ DOMAIN Free(g, ps) = DOMAIN g \ ps
        /\ \A p \in DOMAIN g \ ps : Free(g, ps)[p] = g[p]
    BY <2>1, FreeKeeps DEF g
  <2> QED  BY <2>2 DEF ps, g
<1> HIDE DEF new, u, h
<1>6. /\ u.buckets \in [Buckets -> Seq(Entry)]
      /\ u.buckets[i] = new
      /\ \A j \in Buckets : j # i => u.buckets[j] = t.buckets[j]
      /\ u.heap = h /\ u.count = t.count - 1
  BY <1>1, <1>3, <1>4
<1>7. \A j \in Buckets : j # i => e \notin Range(t.buckets[j])
  <2> SUFFICES ASSUME NEW j \in Buckets, NEW m \in DOMAIN t.buckets[j], t.buckets[j][m] = e
               PROVE  j = i
    BY DEF Range
  <2> HIDE DEF e
  <2>1. hash[t.heap[t.buckets[j][m].key]] = j
    BY EntryCells
  <2> QED  BY <2>1, <1>2
<1>8. EntrySet(u) = EntrySet(t) \ {e}
  <2>1. \A j \in Buckets : Range(u.buckets[j]) = Range(t.buckets[j]) \ {e}
    BY <1>3, <1>6, <1>7
  <2>2. \A x : x \in EntrySet(u) <=> \E j \in Buckets : x \in Range(u.buckets[j])
    BY DEF EntrySet
  <2>3. \A x : x \in EntrySet(t) <=> \E j \in Buckets : x \in Range(t.buckets[j])
    BY DEF EntrySet
  <2> HIDE DEF e
  <2>4. \A x : x \in EntrySet(u) <=> x \in EntrySet(t) \ {e}
    BY <2>1, <2>2, <2>3
  <2> QED  BY <2>4
<1>9. ASSUME NEW f \in EntrySet(u)
      PROVE  EntryBlocks(f) \subseteq DOMAIN h
  <2>1. EntryBlocks(f) \cap EntryBlocks(e) = {} /\ EntryBlocks(f) \subseteq DOMAIN t.heap
    BY <1>2, <1>8 DEF Sound, Exact, Owned
  <2> QED  BY <2>1, <1>5
<1>10. \A f \in EntrySet(u) : /\ u.heap[f.node] = t.heap[f.node]
                              /\ u.heap[f.key] = t.heap[f.key]
                              /\ u.heap[f.val] = t.heap[f.val]
  BY <1>5, <1>6, <1>9 DEF EntryBlocks
<1>11. Counted(u) /\ IsFiniteSet(EntrySet(u)) /\ u.count \in Nat
  <2>1. /\ IsFiniteSet(EntrySet(u))
        /\ Cardinality(EntrySet(u)) = Cardinality(EntrySet(t)) - 1
    <3>1. IsFiniteSet(EntrySet(t))
      BY DEF Sound
    <3> HIDE DEF e
    <3> QED  BY <1>2, <1>8, <3>1, FS_RemoveElement
  <2>2. Cardinality(EntrySet(u)) \in Nat
    BY <2>1, FS_CardinalityType
  <2> QED  BY <2>1, <2>2, <1>6 DEF Sound, Counted
<1>12. Typed(u)
  BY <1>4, <1>5, <1>6, <1>11 DEF Typed, Sound
<1>13. Exact(u)
  <2>1. DOMAIN u.heap = Owned(u)
    <3>1. \A p : p \in Owned(u) <=> \E f \in EntrySet(u) : p \in EntryBlocks(f)
      BY DEF Owned
    <3>2. \A p : p \in DOMAIN t.heap <=> \E f \in EntrySet(t) : p \in EntryBlocks(f)
      BY DEF Sound, Exact, Owned
    <3> HIDE DEF e
    <3>3. \A p : p \in Owned(u) <=> p \in DOMAIN u.heap
      BY <3>1, <3>2, <1>5, <1>6, <1>8, <1>9
    <3> QED  BY <3>3
  <2> QED  BY <2>1, <1>8, <1>10 DEF Sound, Exact
<1>14. Chained(u)
  <2>1. ASSUME NEW j \in Buckets, NEW m \in DOMAIN u.buckets[j]
        PROVE  /\ u.buckets[j][m] \in EntrySet(u)
               /\ Load(u.heap, u.buckets[j][m].key) = Load(t.heap, u.buckets[j][m].key)
    <3>1. u.buckets[j][m] \in EntrySet(u)
      BY DEF EntrySet, Range
    <3>2. u.buckets[j][m].key \in DOMAIN u.heap
      BY <3>1, <1>6, <1>9 DEF EntryBlocks
    <3>3. u.buckets[j][m].key \in DOMAIN t.heap
      BY <3>2, <1>5, <1>6
    <3> QED  BY <3>1, <3>2, <3>3, <1>10 DEF Load
  <2>2. ASSUME NEW j \in Buckets, NEW m \in DOMAIN u.buckets[j], NEW n \in DOMAIN u.buckets[j]
        PROVE  LET key(q) == Load(u.heap, u.buckets[j][q].key)
               IN hash[key(m)] = j /\ (key(m) = key(n) => m = n)
    <3>1. CASE j # i
      BY <3>1, <1>6, <2>1 DEF Sound, Chained
    <3>2. CASE j = i
      <4> DEFINE key(q) == Load(u.heap, u.buckets[j][q].key)
                 old(q) == Load(t.heap, chain[q].key)
                 was(q) == IF q < a THEN q ELSE q + 1
      <4>1. \A q \in DOMAIN new : was(q) \in DOMAIN chain /\ key(q) = old(was(q))
        BY <3>2, <1>1, <1>3, <1>6, <2>1
      <4>2. \A q, r \in DOMAIN chain : hash[old(q)] = i /\ (old(q) = old(r) => q = r)
        BY <1>1 DEF Sound, Chained
      <4>3. m \in DOMAIN new /\ n \in DOMAIN new
        BY <3>2, <1>6
      <4>4. m \in Int /\ n \in Int /\ a \in Int
        <5>1. \A q \in DOMAIN new : q \in Int
          BY <1>3
        <5> HIDE DEF chain, a
        <5>2. \A q \in DOMAIN chain : q \in Int
          BY <1>1
        <5> QED  BY <4>3, <5>1, <5>2, <1>2
      <4>5. was(m) = was(n) => m = n
        BY <4>4
      <4> HIDE DEF key, old, chain, was
      <4>6. hash[key(m)] = j /\ (key(m) = key(n) => m = n)
        BY <3>2, <4>1, <4>2, <4>3, <4>5
      <4> QED  BY <4>6 DEF key
    <3> QED  BY <3>1, <3>2
  <2> QED  BY <2>2 DEF Chained
<1> QED  BY <1>8, <1>10, <1>11, <1>12, <1>13, <1>14 DEF Sound, u

(* An entry that got another value, and whose old one was freed. *)
LEMMA OverwriteKeeps ==
  ASSUME NEW t, Sound(t), NEW k \in Keys, NEW v \in Vals, Found(t, k),
         NEW ptr \in Blocks \ DOMAIN t.heap, NEW mem, Heap(mem),
         DOMAIN mem = DOMAIN t.heap \cup {ptr}, mem[ptr] = v,
         \A q \in DOMAIN t.heap : mem[q] = t.heap[q]
  PROVE  LET e  == t.buckets[hash[k]][At(t, k)]
             e2 == [node |-> e.node, key |-> e.key, val |-> ptr]
             u  == Revalue(t, k, mem, ptr)
         IN /\ Sound(u)
            /\ EntrySet(u) = (EntrySet(t) \ {e}) \cup {e2}
            /\ u.heap[e2.key] = k /\ u.heap[e2.val] = v
            /\ \A f \in EntrySet(t) \ {e} :
                 u.heap[f.key] = t.heap[f.key] /\ u.heap[f.val] = t.heap[f.val]
<1> DEFINE i == hash[k]
           chain == t.buckets[i]
           a == At(t, k)
           e == chain[a]
           e2 == [node |-> e.node, key |-> e.key, val |-> ptr]
           new == [chain EXCEPT ![a] = e2]
           h == Free(mem, {e.val})
           u == Revalue(t, k, mem, ptr)
<1>1. i \in Buckets /\ chain \in Seq(Entry) /\ t.buckets \in [Buckets -> Seq(Entry)]
  BY TableConstants DEF Buckets, Sound, Typed
<1>2. a \in DOMAIN chain /\ t.heap[e.key] = k
  BY <1>1, WalkFinds
<1>3. e \in EntrySet(t) /\ e \in Entry /\ {e.node, e.key, e.val} \subseteq DOMAIN t.heap
  <2> HIDE DEF a, i
  <2>1. e \in EntrySet(t) /\ e \in Entry /\ EntryBlocks(e) \subseteq DOMAIN t.heap
    BY <1>1, <1>2, EntryCells
  <2> HIDE DEF e
  <2> QED  BY <2>1 DEF EntryBlocks
<1>4. e2 \in Entry
  BY <1>3 DEF Entry
<1>5. /\ new \in Seq(Entry) /\ DOMAIN new = DOMAIN chain
      /\ Range(new) = (Range(chain) \ {e}) \cup {e2}
      /\ \A m \in DOMAIN chain : new[m] = IF m = a THEN e2 ELSE chain[m]
  <2>1. \A m, n \in DOMAIN chain : chain[m] = chain[n] => m = n
    BY <1>1, ChainInjective
  <2> HIDE DEF chain, a, e2
  <2> QED  BY <1>1, <1>2, <1>4, <2>1, RewriteChain
<1>6. u = [buckets |-> [t.buckets EXCEPT ![i] = new], count |-> t.count, heap |-> h]
  <2>1. [e EXCEPT !.val = ptr] = e2
    BY <1>3 DEF Entry
  <2>2. u = [buckets |-> [t.buckets EXCEPT ![i][a].val = ptr], count |-> t.count, heap |-> h]
    BY DEF Revalue
  <2> HIDE DEF e2, h, u
  <2> QED  BY <2>1, <2>2
<1>7. /\ Heap(h) /\ DOMAIN h = (DOMAIN t.heap \cup {ptr}) \ {e.val}
      /\ \A p \in DOMAIN h : h[p] = mem[p]
  <2> DEFINE ps == {e.val}
             g == mem
  <2> HIDE DEF ps, g
  <2>1. /\ Heap(Free(g, ps))
        /\ DOMAIN Free(g, ps) = DOMAIN g \ ps
        /\ \A p \in DOMAIN g \ ps : Free(g, ps)[p] = g[p]
    BY FreeKeeps DEF g
  <2> QED  BY <2>1 DEF ps, g
<1> HIDE DEF h, u, new
<1>8. /\ u.buckets \in [Buckets -> Seq(Entry)]
      /\ u.buckets[i] = new
      /\ \A j \in Buckets : j # i => u.buckets[j] = t.buckets[j]
      /\ u.heap = h /\ u.count = t.count
  BY <1>1, <1>5, <1>6
<1>9. \A j \in Buckets : j # i => e \notin Range(t.buckets[j])
  <2> SUFFICES ASSUME NEW j \in Buckets, NEW m \in DOMAIN t.buckets[j], t.buckets[j][m] = e
               PROVE  j = i
    BY DEF Range
  <2> HIDE DEF e
  <2>1. hash[t.heap[t.buckets[j][m].key]] = j
    BY EntryCells
  <2> QED  BY <2>1, <1>2
<1>10. EntrySet(u) = (EntrySet(t) \ {e}) \cup {e2}
  <2>1. \A j \in Buckets : Range(u.buckets[j]) =
          IF j = i THEN (Range(t.buckets[j]) \ {e}) \cup {e2} ELSE Range(t.buckets[j])
    BY <1>5, <1>8
  <2>2. \A x : x \in EntrySet(u) <=> \E j \in Buckets : x \in Range(u.buckets[j])
    BY DEF EntrySet
  <2>3. \A x : x \in EntrySet(t) <=> \E j \in Buckets : x \in Range(t.buckets[j])
    BY DEF EntrySet
  <2> HIDE DEF e, e2, i
  <2>4. \A x : x \in EntrySet(u) <=> x \in (EntrySet(t) \ {e}) \cup {e2}
    BY <1>1, <1>9, <2>1, <2>2, <2>3
  <2> QED  BY <2>4
<1>11. ASSUME NEW f \in EntrySet(t) \ {e}
       PROVE  {f.node, f.key, f.val} \subseteq DOMAIN h \ {ptr}
  <2>1. /\ EntryBlocks(f) \cap EntryBlocks(e) = {}
        /\ EntryBlocks(f) \subseteq DOMAIN t.heap
    BY <1>3 DEF Sound, Exact, Owned
  <2> HIDE DEF e
  <2>2. /\ f.node # e.val /\ f.key # e.val /\ f.val # e.val
        /\ {f.node, f.key, f.val} \subseteq DOMAIN t.heap
    BY <2>1 DEF EntryBlocks
  <2> QED  BY <2>2, <1>7
<1>12. /\ {e2.node, e2.key, e2.val} \subseteq DOMAIN h
       /\ e2.node = e.node /\ e2.key = e.key /\ e2.val = ptr
       /\ e.node # e.key /\ e.node # e.val /\ e.key # e.val
       /\ ptr \notin {e.node, e.key, e.val}
       /\ t.heap[e.node] = NodeBytes
  <2>1. /\ e.node # e.key /\ e.node # e.val /\ e.key # e.val
        /\ t.heap[e.node] = NodeBytes
    BY <1>3 DEF Sound, Exact
  <2> HIDE DEF e
  <2> QED  BY <1>3, <1>7, <2>1
<1>13. ASSUME NEW f \in EntrySet(t) \ {e}
       PROVE  u.heap[f.node] = t.heap[f.node] /\ u.heap[f.key] = t.heap[f.key] /\ u.heap[f.val] = t.heap[f.val]
  BY <1>7, <1>8, <1>11
<1>14. u.heap[e2.node] = NodeBytes /\ u.heap[e2.key] = k /\ u.heap[e2.val] = v
  <2> HIDE DEF e, e2
  <2> QED  BY <1>2, <1>3, <1>7, <1>8, <1>12
<1>15. Counted(u) /\ IsFiniteSet(EntrySet(u)) /\ u.count \in Nat
  <2> DEFINE S == EntrySet(t)
  <2>1. e2 \notin S
    <3> SUFFICES ASSUME e2 \in EntrySet(t) PROVE FALSE
      OBVIOUS
    <3>1. EntryBlocks(e2) \subseteq DOMAIN t.heap
      BY DEF Sound, Exact, Owned
    <3> HIDE DEF e2
    <3> QED  BY <3>1, <1>12 DEF EntryBlocks
  <2>2. IsFiniteSet(S) /\ Cardinality(S) = t.count /\ t.count \in Nat /\ e \in S
    BY <1>3 DEF Sound, Counted, Typed
  <2> HIDE DEF S, e, e2
  <2>3. IsFiniteSet(S \ {e}) /\ Cardinality(S \ {e}) = Cardinality(S) - 1
    BY <2>2, FS_RemoveElement
  <2>4. e2 \notin S \ {e}
    BY <2>1
  <2>5. IsFiniteSet((S \ {e}) \cup {e2}) /\ Cardinality((S \ {e}) \cup {e2}) = Cardinality(S \ {e}) + 1
    BY <2>3, <2>4, FS_AddElement
  <2>6. EntrySet(u) = (S \ {e}) \cup {e2}
    BY <1>10 DEF S
  <2> QED  BY <2>2, <2>3, <2>5, <2>6, <1>8 DEF Counted
<1>16. Typed(u)
  BY <1>6, <1>7, <1>8, <1>15 DEF Typed
<1>17. Exact(u)
  <2>1. DOMAIN u.heap = Owned(u)
    <3>1. \A p : p \in Owned(u) <=> \E f \in EntrySet(u) : p \in {f.node, f.key, f.val}
      BY DEF Owned, EntryBlocks
    <3>2. \A p : p \in DOMAIN t.heap <=> \E f \in EntrySet(t) : p \in {f.node, f.key, f.val}
      BY DEF Sound, Exact, Owned, EntryBlocks
    <3>3. \A f \in EntrySet(t) \ {e} : {f.node, f.key, f.val} \subseteq DOMAIN h
      BY <1>11
    <3> HIDE DEF e, e2
    <3>4. ASSUME NEW p \in Owned(u) PROVE p \in DOMAIN h
      BY <3>1, <3>3, <1>10, <1>12
    <3>5. ASSUME NEW p \in DOMAIN h PROVE p \in Owned(u)
      <4>1. CASE p = ptr
        BY <4>1, <3>1, <1>10, <1>12
      <4>2. CASE p # ptr
        <5>1. p \in DOMAIN t.heap /\ p # e.val
          BY <4>2, <1>7
        <5>2. PICK f \in EntrySet(t) : p \in {f.node, f.key, f.val}
          BY <5>1, <3>2
        <5>3. CASE f = e
          BY <5>1, <5>2, <5>3, <3>1, <1>10, <1>12
        <5>4. CASE f # e
          BY <5>2, <5>4, <3>1, <1>10
        <5> QED  BY <5>3, <5>4
      <4> QED  BY <4>1, <4>2
    <3> QED  BY <3>4, <3>5, <1>8
  <2>2. ASSUME NEW f \in EntrySet(u)
        PROVE  /\ f.node # f.key /\ f.node # f.val /\ f.key # f.val
               /\ u.heap[f.node] = NodeBytes /\ u.heap[f.key] \in Keys /\ u.heap[f.val] \in Vals
    <3>1. CASE f = e2
      <4> HIDE DEF e, e2
      <4> QED  BY <3>1, <1>12, <1>14
    <3>2. CASE f \in EntrySet(t) \ {e}
      BY <3>2, <1>13 DEF Sound, Exact
    <3> QED  BY <3>1, <3>2, <1>10
  <2>3. ASSUME NEW f \in EntrySet(t) \ {e}
        PROVE  EntryBlocks(f) \cap EntryBlocks(e2) = {}
    <3>1. EntryBlocks(f) \cap EntryBlocks(e) = {}
      BY <1>3 DEF Sound, Exact
    <3>2. ptr \notin {f.node, f.key, f.val}
      BY <1>11
    <3> HIDE DEF e, e2
    <3> QED  BY <3>1, <3>2, <1>12 DEF EntryBlocks
  <2>4. ASSUME NEW f \in EntrySet(u), NEW g \in EntrySet(u), f # g
        PROVE  EntryBlocks(f) \cap EntryBlocks(g) = {}
    <3>1. CASE f \in EntrySet(t) /\ g \in EntrySet(t)
      BY <3>1, <2>4 DEF Sound, Exact
    <3> HIDE DEF e, e2
    <3>2. CASE f = e2
      BY <3>2, <2>3, <2>4, <1>10
    <3>3. CASE g = e2
      BY <3>3, <2>3, <2>4, <1>10
    <3> QED  BY <3>1, <3>2, <3>3, <1>10
  <2> QED  BY <2>1, <2>2, <2>4 DEF Exact
<1>18. Chained(u)
  <2>1. ASSUME NEW j \in Buckets, NEW m \in DOMAIN u.buckets[j]
        PROVE  /\ m \in DOMAIN t.buckets[j]
               /\ Load(u.heap, u.buckets[j][m].key) = Load(t.heap, t.buckets[j][m].key)
    <3>1. m \in DOMAIN t.buckets[j]
      BY <1>5, <1>8
    <3>2. t.buckets[j][m] \in EntrySet(t)
      BY <3>1 DEF EntrySet, Range
    <3>3. CASE t.buckets[j][m] = e
      <4>1. j = i
        BY <3>1, <3>3, <1>9 DEF Range
      <4>2. m = a
        BY <4>1, <3>1, <3>3, <1>1, <1>2, ChainInjective
      <4>3. u.buckets[j][m] = e2
        BY <4>1, <4>2, <1>2, <1>5, <1>8
      <4> HIDE DEF e, e2
      <4> QED  BY <3>1, <3>3, <4>3, <1>2, <1>3, <1>8, <1>12, <1>14 DEF Load
    <3>4. CASE t.buckets[j][m] # e
      <4>1. u.buckets[j][m] = t.buckets[j][m]
        BY <3>1, <3>4, <1>5, <1>8
      <4>2. {t.buckets[j][m].node, t.buckets[j][m].key, t.buckets[j][m].val} \subseteq DOMAIN h
        BY <3>2, <3>4, <1>11
      <4>3. u.heap[t.buckets[j][m].key] = t.heap[t.buckets[j][m].key]
        BY <3>2, <3>4, <1>13
      <4>4. t.buckets[j][m].key \in DOMAIN t.heap
        BY <3>2 DEF Sound, Exact, Owned, EntryBlocks
      <4> QED  BY <3>1, <4>1, <4>2, <4>3, <4>4, <1>8 DEF Load
    <3> QED  BY <3>3, <3>4
  <2> QED  BY <2>1 DEF Sound, Chained
<1>19. Sound(u)
  BY <1>15, <1>16, <1>17, <1>18 DEF Sound
<1> QED  BY <1>10, <1>13, <1>14, <1>19 DEF u, h

-----------------------------------------------------------------------------
(* The map a sound table stands for, in terms of its entries.              *)

With(f, k, v) == [j \in DOMAIN f \cup {k} |-> IF j = k THEN v ELSE f[j]]
Without(f, k) == [j \in DOMAIN f \ {k} |-> f[j]]

LEMMA ContentsByEntry ==
  ASSUME NEW t, Sound(t)
  PROVE  /\ \A j : j \in DOMAIN Contents(t) <=> \E e \in EntrySet(t) : j = t.heap[e.key]
         /\ DOMAIN Contents(t) \subseteq Keys
         /\ \A e \in EntrySet(t) : Contents(t)[t.heap[e.key]] = t.heap[e.val]
         /\ \A k \in Keys : Found(t, k) <=> k \in DOMAIN Contents(t)
         /\ \A k \in Keys : HtGet(t, k) # NULL <=> Found(t, k)
<1>1. DOMAIN Contents(t) = {k \in Keys : Found(t, k)}
  BY DEF Contents
<1>2. \A e \in EntrySet(t) : t.heap[e.key] \in Keys
  BY EntryPlace
<1>3. \A j : j \in DOMAIN Contents(t) <=> \E e \in EntrySet(t) : j = t.heap[e.key]
  BY <1>1, <1>2, WalkFinds
<1>4. ASSUME NEW e \in EntrySet(t)
      PROVE  /\ Found(t, t.heap[e.key])
             /\ HtGet(t, t.heap[e.key]) = e.val
             /\ e.val \in DOMAIN t.heap /\ e.val \in Blocks
  <2>1. Found(t, t.heap[e.key]) /\ t.buckets[hash[t.heap[e.key]]][At(t, t.heap[e.key])] = e
    BY <1>2, WalkFinds
  <2>2. e.val \in DOMAIN t.heap
    BY DEF Sound, Exact, Owned, EntryBlocks
  <2>3. e \in Entry
    BY EntryPlace
  <2> QED  BY <2>1, <2>2, <2>3 DEF HtGet, Entry
<1>5. \A e \in EntrySet(t) : Contents(t)[t.heap[e.key]] = t.heap[e.val]
  BY <1>2, <1>4 DEF Contents, Load
<1>6. ASSUME NEW k \in Keys PROVE HtGet(t, k) # NULL <=> Found(t, k)
  <2>1. CASE Found(t, k)
    BY <2>1, <1>4, WalkFinds, TableConstants
  <2>2. CASE ~Found(t, k)
    BY <2>2 DEF HtGet
  <2> QED  BY <2>1, <2>2
<1> QED  BY <1>1, <1>3, <1>5, <1>6

LEMMA ContentsWithout ==
  ASSUME NEW t, Sound(t), NEW u, Sound(u), NEW e \in EntrySet(t),
         EntrySet(u) = EntrySet(t) \ {e},
         \A f \in EntrySet(u) : u.heap[f.key] = t.heap[f.key] /\ u.heap[f.val] = t.heap[f.val]
  PROVE  Contents(u) = Without(Contents(t), t.heap[e.key])
<1>1. \A f \in EntrySet(t) : f # e => t.heap[f.key] # t.heap[e.key]
  BY OneEntry
<1>2. DOMAIN Contents(u) = DOMAIN Contents(t) \ {t.heap[e.key]}
  <2>1. \A j : j \in DOMAIN Contents(u) <=> \E f \in EntrySet(u) : j = u.heap[f.key]
    BY ContentsByEntry
  <2>2. \A j : j \in DOMAIN Contents(t) <=> \E f \in EntrySet(t) : j = t.heap[f.key]
    BY ContentsByEntry
  <2>3. ASSUME NEW j
        PROVE  j \in DOMAIN Contents(u) <=> j \in DOMAIN Contents(t) \ {t.heap[e.key]}
    BY <1>1, <2>1, <2>2
  <2> QED  BY <2>3
<1>3. ASSUME NEW j \in DOMAIN Contents(u) PROVE Contents(u)[j] = Contents(t)[j]
  <2>1. PICK f \in EntrySet(u) : j = u.heap[f.key]
    BY ContentsByEntry
  <2> QED  BY <2>1, ContentsByEntry
<1>4. Contents(u) = [j \in DOMAIN Contents(u) |-> Contents(u)[j]]
  BY DEF Contents
<1> QED  BY <1>2, <1>3, <1>4 DEF Without

LEMMA ContentsWith ==
  ASSUME NEW t, Sound(t), NEW u, Sound(u), NEW k, NEW v, NEW e \in EntrySet(u),
         u.heap[e.key] = k, u.heap[e.val] = v,
         \A f \in EntrySet(u) \ {e} : /\ f \in EntrySet(t)
                                     /\ u.heap[f.key] = t.heap[f.key]
                                     /\ u.heap[f.val] = t.heap[f.val],
         \A f \in EntrySet(t) : t.heap[f.key] # k => f \in EntrySet(u) \ {e}
  PROVE  Contents(u) = With(Contents(t), k, v)
<1>1. DOMAIN Contents(u) = DOMAIN Contents(t) \cup {k}
  <2>1. ASSUME NEW j \in DOMAIN Contents(u) PROVE j \in DOMAIN Contents(t) \cup {k}
    <3>1. PICK f \in EntrySet(u) : j = u.heap[f.key]
      BY ContentsByEntry
    <3> QED  BY <3>1, ContentsByEntry
  <2>2. ASSUME NEW j \in DOMAIN Contents(t) \cup {k} PROVE j \in DOMAIN Contents(u)
    <3>1. CASE j = k
      BY <3>1, ContentsByEntry
    <3>2. CASE j # k
      <4>1. PICK f \in EntrySet(t) : j = t.heap[f.key]
        BY <3>2, ContentsByEntry
      <4> QED  BY <3>2, <4>1, ContentsByEntry
    <3> QED  BY <3>1, <3>2
  <2> QED  BY <2>1, <2>2
<1>2. Contents(u)[k] = v
  BY ContentsByEntry
<1>3. ASSUME NEW j \in DOMAIN Contents(u), j # k PROVE Contents(u)[j] = Contents(t)[j]
  <2>1. PICK f \in EntrySet(u) : j = u.heap[f.key]
    BY ContentsByEntry
  <2>2. f # e
    BY <2>1, <1>3
  <2> QED  BY <2>1, <2>2, ContentsByEntry
<1>4. Contents(u) = [j \in DOMAIN Contents(u) |-> Contents(u)[j]]
  BY DEF Contents
<1> QED  BY <1>1, <1>2, <1>3, <1>4 DEF With

-----------------------------------------------------------------------------
(* The operations.                                                         *)

(* The callers of ht_set() may hold blocks of their own meanwhile: u is the
   table t with, in the same heap, the blocks X besides. *)
Holding(u, t, X) ==
  /\ u = [buckets |-> t.buckets, count |-> t.count, heap |-> u.heap]
  /\ Heap(u.heap)
  /\ X \cap DOMAIN t.heap = {}
  /\ DOMAIN u.heap = DOMAIN t.heap \cup X
  /\ \A q \in DOMAIN t.heap : u.heap[q] = t.heap[q]

Released(u, X) == [buckets |-> u.buckets, count |-> u.count, heap |-> Free(u.heap, X)]

LEMMA ReleasedIs ==
  ASSUME NEW t, Sound(t), NEW u, NEW X, Holding(u, t, X)
  PROVE  Released(u, X) = t
<1>1. Heap(t.heap) /\ t = [buckets |-> t.buckets, count |-> t.count, heap |-> t.heap]
  BY DEF Sound, Typed
<1>2. /\ u.buckets = t.buckets /\ u.count = t.count /\ Heap(u.heap)
      /\ DOMAIN u.heap \ X = DOMAIN t.heap
      /\ \A q \in DOMAIN t.heap : u.heap[q] = t.heap[q]
  BY DEF Holding
<1>3. Free(u.heap, X) = t.heap
  BY <1>1, <1>2 DEF Heap, Free
<1> QED  BY <1>1, <1>2, <1>3 DEF Released

(* The walk goes by the table's own blocks. *)
LEMMA SameWalk ==
  ASSUME NEW t, Sound(t), NEW u, NEW X, Holding(u, t, X), NEW k \in Keys
  PROVE  /\ u.buckets = t.buckets /\ u.count = t.count
         /\ Found(u, k) <=> Found(t, k)
         /\ At(u, k) = At(t, k)
<1>1. u.buckets = t.buckets /\ u.count = t.count
  BY DEF Holding
<1>2. hash[k] \in Buckets
  BY TableConstants DEF Buckets
<1>3. ASSUME NEW m \in DOMAIN t.buckets[hash[k]]
      PROVE  Load(u.heap, t.buckets[hash[k]][m].key) = Load(t.heap, t.buckets[hash[k]][m].key)
  <2>1. t.buckets[hash[k]][m].key \in DOMAIN t.heap
    BY <1>2, EntryCells DEF EntryBlocks
  <2> QED  BY <2>1 DEF Holding, Load
<1>4. Hits(u, k) = Hits(t, k)
  BY <1>1, <1>3 DEF Hits
<1> QED  BY <1>1, <1>4 DEF Found, At

(* Giving back what was just allocated undoes it. *)
LEMMA Unwound ==
  ASSUME NEW u, u = [buckets |-> u.buckets, count |-> u.count, heap |-> u.heap],
         Heap(u.heap), NEW h, Heap(h), NEW ps, DOMAIN h = DOMAIN u.heap \cup ps,
         ps \cap DOMAIN u.heap = {}, \A q \in DOMAIN u.heap : h[q] = u.heap[q]
  PROVE  Unwind(u, h, ps) = [ok |-> FALSE, t |-> u]
<1>1. DOMAIN h \ ps = DOMAIN u.heap
  OBVIOUS
<1>2. Free(h, ps) = u.heap
  BY <1>1 DEF Heap, Free
<1> QED  BY <1>2 DEF Unwind

(* What an outcome r of ht_set() on u leaves, t being what u was without the
   blocks that its caller holds. *)
SetLeaves(r, u, t, X, k, v) ==
  /\ Holding(r.t, Released(r.t, X), X)
  /\ \A q \in X : r.t.heap[q] = u.heap[q]
  /\ \/ r.ok = FALSE /\ Released(r.t, X) = t
     \/ /\ r.ok = TRUE /\ Sound(Released(r.t, X))
        /\ Contents(Released(r.t, X)) = With(Contents(t), k, v)

LEMMA FailureLeaves ==
  ASSUME NEW t, Sound(t), NEW u, NEW X, Holding(u, t, X), NEW k, NEW v
  PROVE  SetLeaves([ok |-> FALSE, t |-> u], u, t, X, k, v)
BY ReleasedIs DEF SetLeaves

(* An outcome that keeps the caller's blocks and is otherwise that of t. *)
LEMMA SuccessLeaves ==
  ASSUME NEW t, NEW u, NEW X, NEW k, NEW v, NEW b, NEW n, NEW h, Heap(h),
         X \subseteq DOMAIN h, \A q \in X : h[q] = u.heap[q],
         NEW w, w = [buckets |-> b, count |-> n, heap |-> Free(h, X)],
         Sound(w), Contents(w) = With(Contents(t), k, v)
  PROVE  SetLeaves([ok |-> TRUE, t |-> [buckets |-> b, count |-> n, heap |-> h]], u, t, X, k, v)
<1> DEFINE r == [ok |-> TRUE, t |-> [buckets |-> b, count |-> n, heap |-> h]]
<1>1. Released(r.t, X) = w
  BY DEF Released
<1>2. DOMAIN Free(h, X) = DOMAIN h \ X /\ \A q \in DOMAIN h \ X : Free(h, X)[q] = h[q]
  BY DEF Free
<1>3. Holding(r.t, w, X)
  BY <1>2 DEF Holding
<1> QED  BY <1>1, <1>3 DEF SetLeaves

(* An insertion either changes nothing, wherever an allocation failed, or
   adds the key. *)
LEMMA InsertHolding ==
  ASSUME NEW t, Sound(t), NEW u, NEW X, Holding(u, t, X),
         NEW k \in Keys, NEW v \in Vals, ~Found(t, k), NEW r \in Insert(u, k, v)
  PROVE  SetLeaves(r, u, t, X, k, v)
<1>1. /\ Heap(u.heap) /\ NodeBytes \in Cell /\ k \in Cell /\ v \in Cell
      /\ u = [buckets |-> u.buckets, count |-> u.count, heap |-> u.heap]
  BY DEF Holding, Cell
<1>2. SetLeaves([ok |-> FALSE, t |-> u], u, t, X, k, v)
  BY FailureLeaves
<1>3. PICK n \in Dup(u.heap, NodeBytes) :
        r \in IF n.ptr = NULL THEN {Unwind(u, n.heap, {})} ELSE
          UNION {IF c.ptr = NULL THEN {Unwind(u, c.heap, {n.ptr})} ELSE
            {IF d.ptr = NULL THEN Unwind(u, d.heap, {n.ptr, c.ptr})
               ELSE Link(u, k, d.heap, [node |-> n.ptr, key |-> c.ptr, val |-> d.ptr]) :
               d \in Dup(c.heap, v)} :
            c \in Dup(n.heap, k)}
  BY DEF Insert
<1>4. /\ Heap(n.heap)
      /\ \/ n.ptr = NULL /\ n.heap = u.heap
         \/ /\ n.ptr # NULL /\ n.ptr \in Blocks \ DOMAIN u.heap
            /\ DOMAIN n.heap = DOMAIN u.heap \cup {n.ptr}
            /\ n.heap[n.ptr] = NodeBytes
            /\ \A q \in DOMAIN u.heap : n.heap[q] = u.heap[q]
  BY <1>1, DupGives
<1>5. CASE n.ptr = NULL
  <2>1. Unwind(u, n.heap, {}) = [ok |-> FALSE, t |-> u]
    BY <1>1, <1>4, <1>5, Unwound
  <2> QED  BY <1>2, <1>3, <1>5, <2>1
<1>6. CASE n.ptr # NULL
  <2>1. PICK c \in Dup(n.heap, k) :
          r \in IF c.ptr = NULL THEN {Unwind(u, c.heap, {n.ptr})} ELSE
            {IF d.ptr = NULL THEN Unwind(u, d.heap, {n.ptr, c.ptr})
               ELSE Link(u, k, d.heap, [node |-> n.ptr, key |-> c.ptr, val |-> d.ptr]) :
               d \in Dup(c.heap, v)}
    BY <1>3, <1>6
  <2>2. /\ Heap(c.heap)
        /\ \/ c.ptr = NULL /\ c.heap = n.heap
           \/ /\ c.ptr # NULL /\ c.ptr \in Blocks \ DOMAIN n.heap
              /\ DOMAIN c.heap = DOMAIN n.heap \cup {c.ptr}
              /\ c.heap[c.ptr] = k
              /\ \A q \in DOMAIN n.heap : c.heap[q] = n.heap[q]
    BY <1>1, <1>4, DupGives
  <2>3. CASE c.ptr = NULL
    <3>1. Unwind(u, c.heap, {n.ptr}) = [ok |-> FALSE, t |-> u]
      <4> DEFINE ps == {n.ptr}
      <4>1. /\ DOMAIN c.heap = DOMAIN u.heap \cup ps /\ ps \cap DOMAIN u.heap = {}
            /\ \A q \in DOMAIN u.heap : c.heap[q] = u.heap[q]
        BY <1>4, <1>6, <2>2, <2>3
      <4> HIDE DEF ps
      <4>2. Unwind(u, c.heap, ps) = [ok |-> FALSE, t |-> u]
        BY <1>1, <2>2, <4>1, Unwound
      <4> QED  BY <4>2 DEF ps
    <3> QED  BY <1>2, <2>1, <2>3, <3>1
  <2>4. CASE c.ptr # NULL
    <3>1. PICK d \in Dup(c.heap, v) :
            r = IF d.ptr = NULL THEN Unwind(u, d.heap, {n.ptr, c.ptr})
                ELSE Link(u, k, d.heap, [node |-> n.ptr, key |-> c.ptr, val |-> d.ptr])
      BY <2>1, <2>4
    <3>2. /\ Heap(d.heap)
          /\ \/ d.ptr = NULL /\ d.heap = c.heap
             \/ /\ d.ptr # NULL /\ d.ptr \in Blocks \ DOMAIN c.heap
                /\ DOMAIN d.heap = DOMAIN c.heap \cup {d.ptr}
                /\ d.heap[d.ptr] = v
                /\ \A q \in DOMAIN c.heap : d.heap[q] = c.heap[q]
      BY <1>1, <2>2, DupGives
    <3>3. CASE d.ptr = NULL
      <4>1. Unwind(u, d.heap, {n.ptr, c.ptr}) = [ok |-> FALSE, t |-> u]
        <5> DEFINE ps == {n.ptr, c.ptr}
        <5>1. /\ DOMAIN d.heap = DOMAIN u.heap \cup ps /\ ps \cap DOMAIN u.heap = {}
              /\ \A q \in DOMAIN u.heap : d.heap[q] = u.heap[q]
          BY <1>4, <1>6, <2>2, <2>4, <3>2, <3>3
        <5> HIDE DEF ps
        <5>2. Unwind(u, d.heap, ps) = [ok |-> FALSE, t |-> u]
          BY <1>1, <3>2, <5>1, Unwound
        <5> QED  BY <5>2 DEF ps
      <4> QED  BY <1>2, <3>1, <3>3, <4>1
    <3>4. CASE d.ptr # NULL
      <4> DEFINE e == [node |-> n.ptr, key |-> c.ptr, val |-> d.ptr]
                 b == [t.buckets EXCEPT ![hash[k]] = <<e>> \o @]
                 m == t.count + 1
                 h == Free(d.heap, X)
                 w == Link(t, k, h, e).t
      <4>1. /\ e \in Entry /\ e.node = n.ptr /\ e.key = c.ptr /\ e.val = d.ptr
            /\ EntryBlocks(e) = {n.ptr, c.ptr, d.ptr}
        BY <1>4, <1>6, <2>2, <2>4, <3>2, <3>4 DEF Entry, EntryBlocks
      <4>2. r = [ok |-> TRUE, t |-> [buckets |-> b, count |-> m, heap |-> d.heap]]
        BY <3>1, <3>4, SameWalk DEF Link
      <4>3. w = [buckets |-> b, count |-> m, heap |-> h]
        BY DEF Link
      <4> HIDE DEF e, b, m, w
      <4>4. /\ e.node # e.key /\ e.node # e.val /\ e.key # e.val
            /\ EntryBlocks(e) \cap DOMAIN u.heap = {}
            /\ DOMAIN d.heap = DOMAIN u.heap \cup EntryBlocks(e)
        BY <4>1, <1>4, <1>6, <2>2, <2>4, <3>2, <3>4
      <4>5. /\ \A q \in DOMAIN u.heap : d.heap[q] = u.heap[q]
            /\ d.heap[e.node] = NodeBytes /\ d.heap[e.key] = k /\ d.heap[e.val] = v
        BY <4>1, <1>4, <1>6, <2>2, <2>4, <3>2, <3>4
      <4>6. /\ DOMAIN u.heap = DOMAIN t.heap \cup X /\ X \cap DOMAIN t.heap = {}
            /\ \A q \in DOMAIN t.heap : u.heap[q] = t.heap[q]
        BY DEF Holding
      <4>7. {e.node, e.key, e.val} \subseteq EntryBlocks(e)
        BY DEF EntryBlocks
      <4>8. /\ Heap(h) /\ DOMAIN h = DOMAIN t.heap \cup EntryBlocks(e)
            /\ \A q \in DOMAIN t.heap : h[q] = t.heap[q]
            /\ h[e.node] = NodeBytes /\ h[e.key] = k /\ h[e.val] = v
            /\ EntryBlocks(e) \cap DOMAIN t.heap = {}
        <5>1. /\ Heap(h) /\ DOMAIN h = DOMAIN d.heap \ X
              /\ \A q \in DOMAIN d.heap \ X : h[q] = d.heap[q]
          BY <3>2, FreeKeeps
        <5> HIDE DEF h
        <5> QED  BY <4>4, <4>5, <4>6, <4>7, <5>1
      <4> HIDE DEF h
      <4>9. Sound(w) /\ w.heap = h /\ EntrySet(w) = EntrySet(t) \cup {e}
        BY <4>1, <4>4, <4>8, LinkKeeps DEF w
      <4>10. \A f \in EntrySet(t) : /\ {f.key, f.val} \subseteq DOMAIN t.heap
                                    /\ t.heap[f.key] # k
        BY WalkFinds DEF Sound, Exact, Owned, EntryBlocks
      <4>11. e \notin EntrySet(t)
        BY <4>7, <4>8, <4>10
      <4>12. Contents(w) = With(Contents(t), k, v)
        <5>1. \A f \in EntrySet(w) \ {e} : /\ f \in EntrySet(t)
                                            /\ w.heap[f.key] = t.heap[f.key]
                                            /\ w.heap[f.val] = t.heap[f.val]
          BY <4>8, <4>9, <4>10
        <5>2. \A f \in EntrySet(t) : t.heap[f.key] # k => f \in EntrySet(w) \ {e}
          BY <4>9, <4>11
        <5>3. e \in EntrySet(w) /\ w.heap[e.key] = k /\ w.heap[e.val] = v
          BY <4>8, <4>9
        <5> QED  BY <4>9, <5>1, <5>2, <5>3, ContentsWith
      <4>13. X \subseteq DOMAIN d.heap /\ \A q \in X : d.heap[q] = u.heap[q]
        BY <4>4, <4>5, <4>6
      <4> QED  BY <3>2, <4>2, <4>3, <4>9, <4>12, <4>13, SuccessLeaves DEF h
    <3> QED  BY <3>3, <3>4
  <2> QED  BY <2>3, <2>4
<1> QED  BY <1>5, <1>6

(* ht_set() as a whole. *)
LEMMA SetHolding ==
  ASSUME NEW t, Sound(t), NEW u, NEW X, Holding(u, t, X),
         NEW k \in Keys, NEW v \in Vals, NEW r \in HtSet(u, k, v)
  PROVE  SetLeaves(r, u, t, X, k, v)
<1>1. CASE ~Found(t, k)
  <2>1. r \in Insert(u, k, v)
    BY <1>1, SameWalk DEF HtSet
  <2> QED  BY <1>1, <2>1, InsertHolding
<1>2. CASE Found(t, k)
  <2> DEFINE e == t.buckets[hash[k]][At(t, k)]
  <2>1. PICK d \in Dup(u.heap, v) :
          r = IF d.ptr = NULL
                THEN [ok |-> FALSE, t |-> u]
                ELSE [ok |-> TRUE, t |-> Revalue(u, k, d.heap, d.ptr)]
    BY <1>2, SameWalk DEF HtSet, Overwrite
  <2>2. /\ Heap(d.heap)
        /\ \/ d.ptr = NULL /\ d.heap = u.heap
           \/ /\ d.ptr # NULL /\ d.ptr \in Blocks \ DOMAIN u.heap
              /\ DOMAIN d.heap = DOMAIN u.heap \cup {d.ptr}
              /\ d.heap[d.ptr] = v
              /\ \A q \in DOMAIN u.heap : d.heap[q] = u.heap[q]
    <3>1. Heap(u.heap) /\ v \in Cell
      BY DEF Holding, Cell
    <3> QED  BY <3>1, DupGives
  <2>3. CASE d.ptr = NULL
    BY <2>1, <2>3, FailureLeaves
  <2>4. CASE d.ptr # NULL
    <3> DEFINE mem == Free(d.heap, X)
               w   == Revalue(t, k, mem, d.ptr)
               e2  == [node |-> e.node, key |-> e.key, val |-> d.ptr]
               b   == [t.buckets EXCEPT ![hash[k]][At(t, k)].val = d.ptr]
               h   == Free(d.heap, {e.val})
    <3>1. r = [ok |-> TRUE, t |-> [buckets |-> b, count |-> t.count, heap |-> h]]
      BY <2>1, <2>4, SameWalk DEF Revalue
    <3>2. w = [buckets |-> b, count |-> t.count, heap |-> Free(mem, {e.val})]
      BY DEF Revalue
    <3>3. /\ DOMAIN u.heap = DOMAIN t.heap \cup X /\ X \cap DOMAIN t.heap = {}
          /\ \A q \in DOMAIN t.heap : u.heap[q] = t.heap[q]
      BY DEF Holding
    <3>4. /\ Heap(mem) /\ DOMAIN mem = DOMAIN t.heap \cup {d.ptr} /\ mem[d.ptr] = v
          /\ \A q \in DOMAIN t.heap : mem[q] = t.heap[q]
          /\ d.ptr \in Blocks \ DOMAIN t.heap
      <4>1. /\ Heap(mem) /\ DOMAIN mem = DOMAIN d.heap \ X
            /\ \A q \in DOMAIN d.heap \ X : mem[q] = d.heap[q]
        BY <2>2, FreeKeeps
      <4> HIDE DEF mem
      <4> QED  BY <2>2, <2>4, <3>3, <4>1
    <3>5. e \in EntrySet(t) /\ t.heap[e.key] = k
      <4>1. hash[k] \in Buckets
        BY TableConstants DEF Buckets
      <4>2. At(t, k) \in DOMAIN t.buckets[hash[k]] /\ t.heap[e.key] = k
        BY <1>2, WalkFinds
      <4> QED  BY <4>1, <4>2, EntryCells
    <3>6. e.val \in DOMAIN t.heap
      <4> HIDE DEF e
      <4> QED  BY <3>5 DEF Sound, Exact, Owned, EntryBlocks
    <3> HIDE DEF mem
    <3>7. /\ Sound(w)
          /\ EntrySet(w) = (EntrySet(t) \ {e}) \cup {e2}
          /\ w.heap[e2.key] = k /\ w.heap[e2.val] = v
          /\ \A f \in EntrySet(t) \ {e} :
               w.heap[f.key] = t.heap[f.key] /\ w.heap[f.val] = t.heap[f.val]
      BY <1>2, <3>4, OverwriteKeeps
    <3>8. \A f \in EntrySet(t) : t.heap[f.key] = k => f = e
      BY WalkFinds
    <3>9. e2.key = e.key /\ e2.val = d.ptr
      OBVIOUS
    <3>10. \A f \in EntrySet(t) : f.val # d.ptr
      BY <3>4 DEF Sound, Exact, Owned, EntryBlocks
    <3> HIDE DEF w, e, e2, b, h
    <3>11. e2 \notin EntrySet(t)
      BY <3>9, <3>10
    <3>12. /\ \A f \in EntrySet(w) \ {e2} : /\ f \in EntrySet(t)
                                            /\ w.heap[f.key] = t.heap[f.key]
                                            /\ w.heap[f.val] = t.heap[f.val]
           /\ \A f \in EntrySet(t) : t.heap[f.key] # k => f \in EntrySet(w) \ {e2}
           /\ e2 \in EntrySet(w)
      BY <3>5, <3>7, <3>8, <3>11
    <3>13. Contents(w) = With(Contents(t), k, v)
      BY <3>7, <3>12, ContentsWith
    <3>14. /\ Heap(h) /\ DOMAIN h = DOMAIN d.heap \ {e.val}
           /\ \A q \in DOMAIN d.heap \ {e.val} : h[q] = d.heap[q]
      BY <2>2, FreeKeeps DEF h
    <3>15. X \subseteq DOMAIN h /\ \A q \in X : h[q] = u.heap[q]
      BY <2>2, <2>4, <3>3, <3>6, <3>14
    <3>16. Free(h, X) = Free(mem, {e.val})
      <4>1. (DOMAIN d.heap \ {e.val}) \ X = (DOMAIN d.heap \ X) \ {e.val}
        OBVIOUS
      <4> QED  BY <4>1 DEF Free, h, mem
    <3>17. w = [buckets |-> b, count |-> t.count, heap |-> Free(h, X)]
      BY <3>2, <3>16
    <3> QED  BY <3>1, <3>7, <3>13, <3>14, <3>15, <3>17, SuccessLeaves
  <2> QED  BY <2>3, <2>4
<1> QED  BY <1>1, <1>2

(* A block just allocated is one that its caller holds. *)
LEMMA DupHolds ==
  ASSUME NEW t, Sound(t), NEW c \in Vals, NEW d \in Dup(t.heap, c), d.ptr # NULL
  PROVE  Holding([t EXCEPT !.heap = d.heap], t, {d.ptr}) /\ Load(d.heap, d.ptr) = c
<1>1. /\ Heap(t.heap) /\ c \in Cell
      /\ t = [buckets |-> t.buckets, count |-> t.count, heap |-> t.heap]
  BY DEF Sound, Typed, Cell
<1>2. /\ Heap(d.heap) /\ d.ptr \in Blocks \ DOMAIN t.heap
      /\ DOMAIN d.heap = DOMAIN t.heap \cup {d.ptr} /\ d.heap[d.ptr] = c
      /\ \A q \in DOMAIN t.heap : d.heap[q] = t.heap[q]
  BY <1>1, DupGives
<1>3. [t EXCEPT !.heap = d.heap] = [buckets |-> t.buckets, count |-> t.count, heap |-> d.heap]
  BY <1>1
<1> QED  BY <1>2, <1>3 DEF Holding, Load

(* A caller that holds nothing. *)
LEMMA SetOutcome ==
  ASSUME NEW t, Sound(t), NEW k \in Keys, NEW v \in Vals, NEW r \in HtSet(t, k, v)
  PROVE  \/ r.ok = FALSE /\ r.t = t
         \/ r.ok = TRUE /\ Sound(r.t) /\ Contents(r.t) = With(Contents(t), k, v)
<1>1. Holding(t, t, {})
  BY DEF Holding, Sound, Typed
<1>2. SetLeaves(r, t, t, {}, k, v)
  BY <1>1, SetHolding
<1>3. Released(r.t, {}) = r.t
  <2>1. Holding(r.t, Released(r.t, {}), {})
    BY <1>2 DEF SetLeaves
  <2>2. /\ r.t = [buckets |-> r.t.buckets, count |-> r.t.count, heap |-> r.t.heap]
        /\ Heap(r.t.heap)
    BY <2>1 DEF Holding, Released
  <2>3. Free(r.t.heap, {}) = r.t.heap
    BY <2>2 DEF Heap, Free
  <2> QED  BY <2>2, <2>3 DEF Released
<1> QED  BY <1>2, <1>3 DEF SetLeaves

(* ht_del() as a whole. *)
LEMMA DelOutcome ==
  ASSUME NEW t, Sound(t), NEW k \in Keys
  PROVE  /\ Sound(HtDel(t, k))
         /\ Contents(HtDel(t, k)) = Without(Contents(t), k)
<1>1. CASE ~Found(t, k)
  <2>1. HtDel(t, k) = t
    BY <1>1 DEF HtDel
  <2>2. k \notin DOMAIN Contents(t)
    BY <1>1, ContentsByEntry
  <2>3. Contents(t) = [j \in DOMAIN Contents(t) |-> Contents(t)[j]]
    BY DEF Contents
  <2>4. DOMAIN Contents(t) \ {k} = DOMAIN Contents(t)
    BY <2>2
  <2> QED  BY <1>1, <2>1, <2>3, <2>4 DEF Without
<1>2. CASE Found(t, k)
  <2> DEFINE e == t.buckets[hash[k]][At(t, k)]
             u == HtDel(t, k)
  <2>1. /\ Sound(u)
        /\ EntrySet(u) = EntrySet(t) \ {e}
        /\ \A f \in EntrySet(u) : u.heap[f.key] = t.heap[f.key] /\ u.heap[f.val] = t.heap[f.val]
    BY <1>2, DelKeeps
  <2>2. e \in EntrySet(t) /\ t.heap[e.key] = k
    <3>1. hash[k] \in Buckets
      BY TableConstants DEF Buckets
    <3>2. At(t, k) \in DOMAIN t.buckets[hash[k]] /\ t.heap[e.key] = k
      BY <1>2, WalkFinds
    <3> QED  BY <3>1, <3>2, EntryCells
  <2> HIDE DEF e, u
  <2>3. Contents(u) = Without(Contents(t), t.heap[e.key])
    BY <2>1, <2>2, ContentsWithout
  <2> QED  BY <2>1, <2>2, <2>3 DEF u
<1> QED  BY <1>1, <1>2

(* What ht_get() lends is a value. *)
LEMMA GetOutcome ==
  ASSUME NEW t, Sound(t), NEW k \in Keys, HtGet(t, k) # NULL
  PROVE  Load(t.heap, HtGet(t, k)) \in Vals
<1>1. PICK e \in EntrySet(t) : HtGet(t, k) = e.val
  BY WalkFinds, ContentsByEntry DEF HtGet
<1> QED  BY <1>1 DEF Sound, Exact, Owned, EntryBlocks, Load

(* An empty table over an empty heap. *)
LEMMA FreshSound ==
  ASSUME NEW h, DOMAIN h = {}, h = [p \in {} |-> h[p]]
  PROVE  Sound(Fresh(h)) /\ DOMAIN Contents(Fresh(h)) = {}
<1> DEFINE t == Fresh(h)
           none == <<>>
<1>1. none \in Seq(Entry) /\ DOMAIN none = {}
  OBVIOUS
<1>2. t = [buckets |-> [i \in Buckets |-> none], count |-> 0, heap |-> h]
  BY DEF Fresh
<1> HIDE DEF none, t
<1>3. \A i \in Buckets : t.buckets[i] = none
  BY <1>2
<1>4. EntrySet(t) = {}
  <2>1. \A i \in Buckets : Range(t.buckets[i]) = {}
    BY <1>1, <1>3 DEF Range
  <2> QED  BY <2>1 DEF EntrySet
<1>5. Typed(t)
  BY <1>1, <1>2 DEF Typed, Heap
<1>6. Exact(t) /\ Chained(t)
  BY <1>1, <1>2, <1>3, <1>4 DEF Exact, Chained, Owned
<1>7. IsFiniteSet(EntrySet(t)) /\ Counted(t)
  BY <1>2, <1>4, FS_EmptySet DEF Counted
<1>8. Sound(t)
  BY <1>5, <1>6, <1>7 DEF Sound
<1>9. DOMAIN Contents(t) = {}
  BY <1>4, <1>8, ContentsByEntry
<1> QED  BY <1>8, <1>9 DEF t

(* ht_destroy() leaves neither an entry nor a block. *)
LEMMA DestroyOutcome ==
  ASSUME NEW t, Sound(t)
  PROVE  /\ Sound(HtDestroy(t)) /\ DOMAIN Contents(HtDestroy(t)) = {}
         /\ DOMAIN HtDestroy(t).heap = {}
<1> DEFINE h == Free(t.heap, Owned(t))
<1>1. DOMAIN h = {} /\ h = [p \in {} |-> h[p]]
  BY DEF Free, Sound, Exact
<1>2. HtDestroy(t) = Fresh(h)
  BY DEF HtDestroy
<1>3. Fresh(h).heap = h
  BY DEF Fresh
<1> HIDE DEF h
<1> QED  BY <1>1, <1>2, <1>3, FreshSound

-----------------------------------------------------------------------------
(* The specification.                                                      *)

LEMMA SoundInit == Init => IInv /\ DOMAIN Contents(table) = {}
<1> SUFFICES ASSUME Init PROVE IInv /\ DOMAIN Contents(table) = {}
  OBVIOUS
<1>1. DOMAIN Nothing = {} /\ Nothing = [p \in {} |-> Nothing[p]]
  BY DEF Nothing
<1> QED  BY <1>1, FreshSound DEF Init, IInv

LEMMA Outcomes ==
  ASSUME IInv
  PROVE  /\ \A k \in Keys, v \in Vals : Set(k, v) => Sound(table') /\ res' \in {Done, Failed}
         /\ \A k \in Keys : Del(k) => Sound(table') /\ res' \in {0, 1}
         /\ \A k \in Keys : Get(k) => Sound(table') /\ res' \in {Missing} \cup Cell
         /\ \A n \in 1 .. Cardinality(Keys) : Scan(n) => Sound(table') /\ res' \in Nat
         /\ Size => Sound(table') /\ res' \in Nat
         /\ Destroy => Sound(table') /\ res' = Done
<1>1. Sound(table)
  BY DEF IInv
<1>2. ASSUME NEW k \in Keys, NEW v \in Vals, Set(k, v)
      PROVE  Sound(table') /\ res' \in {Done, Failed}
  BY <1>1, <1>2, SetOutcome DEF Set
<1>3. ASSUME NEW k \in Keys, Del(k) PROVE Sound(table') /\ res' \in {0, 1}
  BY <1>1, <1>3, DelOutcome DEF Del
<1>4. ASSUME NEW k \in Keys, Get(k) PROVE Sound(table') /\ res' \in {Missing} \cup Cell
  <2>1. table' = table
    BY <1>4 DEF Get
  <2>2. CASE HtGet(table, k) # NULL
    BY <1>1, <1>4, <2>1, <2>2, GetOutcome DEF Get, Cell
  <2>3. CASE HtGet(table, k) = NULL
    BY <1>1, <1>4, <2>1, <2>3 DEF Get
  <2> QED  BY <2>2, <2>3
<1>5. ASSUME NEW n \in 1 .. Cardinality(Keys), Scan(n) PROVE Sound(table') /\ res' \in Nat
  <2>1. Cardinality(EntrySet(table)) \in Nat
    BY <1>1, FS_CardinalityType DEF Sound
  <2>2. n \in Nat
    <3> DEFINE c == Cardinality(Keys)
    <3>1. n \in 1 .. c
      OBVIOUS
    <3> HIDE DEF c
    <3> QED  BY <3>1
  <2> QED  BY <1>1, <1>5, <2>1, <2>2 DEF Scan
<1>6. ASSUME Size PROVE Sound(table') /\ res' \in Nat
  BY <1>1, <1>6 DEF Size, Sound, Typed
<1>7. ASSUME Destroy PROVE Sound(table') /\ res' = Done
  BY <1>1, <1>7, DestroyOutcome DEF Destroy
<1> QED  BY <1>2, <1>3, <1>4, <1>5, <1>6, <1>7

LEMMA SoundNext == IInv /\ [Next]_vars => IInv'
<1> SUFFICES ASSUME IInv, [Next]_vars PROVE IInv'
  OBVIOUS
<1>1. CASE UNCHANGED vars
  BY <1>1 DEF vars, IInv, Sound, Typed, Exact, Chained, Counted
<1>2. CASE Next
  <2>1. Sound(table') /\ res' \in {Done, Failed, Missing} \cup Nat \cup Cell
    <3>1. 0 \in Nat /\ 1 \in Nat
      OBVIOUS
    <3> QED  BY <1>2, <3>1, Outcomes DEF Next
  <2> QED  BY <2>1 DEF IInv
<1> QED  BY <1>1, <1>2

LEMMA Invariance == Spec => []IInv
BY SoundInit, SoundNext, PTL DEF Spec

(* The chains, the counter and the heap keep their types. *)
THEOREM TypeCorrect == Spec => []TypeOK
<1>1. IInv => TypeOK
  BY DEF IInv, Sound, TypeOK
<1> QED  BY <1>1, Invariance, PTL

(* No block leaks, none is freed twice and no entry points at a freed one,
   whichever allocations fail. *)
THEOREM NoLeak == Spec => []HeapExact
<1>1. IInv => HeapExact
  BY DEF IInv, Sound, HeapExact
<1> QED  BY <1>1, Invariance, PTL

(* Every entry can be found by its key and has no older twin. *)
THEOREM ChainsStaySound == Spec => []ChainsSound
<1>1. IInv => ChainsSound
  BY DEF IInv, Sound, ChainsSound
<1> QED  BY <1>1, Invariance, PTL

(* The counter is the number of entries. *)
THEOREM CounterRight == Spec => []CountExact
<1>1. IInv => CountExact
  BY DEF IInv, Sound, CountExact
<1> QED  BY <1>1, Invariance, PTL

(* As many keys have a value as there are entries. *)
LEMMA OneKeyPerEntry ==
  ASSUME NEW t, Sound(t)
  PROVE  Cardinality(EntrySet(t)) = Cardinality(DOMAIN Contents(t))
<1> DEFINE S == EntrySet(t)
           D == DOMAIN Contents(t)
           key == [e \in S |-> t.heap[e.key]]
<1>1. \A j : j \in D <=> \E e \in S : j = t.heap[e.key]
  BY ContentsByEntry
<1>2. \A e, f \in S : t.heap[e.key] = t.heap[f.key] => e = f
  BY OneEntry
<1>3. IsFiniteSet(S)
  BY DEF Sound
<1> HIDE DEF S, D
<1>4. key \in Bijection(S, D)
  <2>1. key \in [S -> D]
    BY <1>1
  <2>2. \A e, f \in S : key[e] = key[f] => e = f
    BY <1>2
  <2>3. \A j \in D : \E e \in S : key[e] = j
    BY <1>1
  <2> QED  BY <2>1, <2>2, <2>3 DEF Bijection, Injection, Surjection, IsInjective
<1>5. ExistsBijection(S, D)
  BY <1>4 DEF ExistsBijection
<1>6. Cardinality(D) = Cardinality(S)
  BY <1>3, <1>5, FS_Bijection
<1> QED  BY <1>6 DEF S, D

(* Cardinality as module KeyMap knows it. *)
LEMMA SameCardinality == \A S : M!Cardinality(S) = Cardinality(S)
BY DEF M!Cardinality, Cardinality

(* The table is one partial function: a set reports and undoes its failures,
   a deletion removes one key, a walk visits every key once. *)
THEOREM Implementation == Spec => ImplementsMap
<1>1. Init => M!Init
  <2> SUFFICES ASSUME Init PROVE M!Init
    OBVIOUS
  <2>1. DOMAIN Contents(table) = {} /\ res = Done
    BY SoundInit DEF Init
  <2>2. Contents(table) = [k \in DOMAIN Contents(table) |-> Contents(table)[k]]
    BY DEF Contents
  <2> QED  BY <2>1, <2>2 DEF M!Init
<1>2. IInv /\ [Next]_vars => [M!Next]_<<Contents(table), res>>
  <2> SUFFICES ASSUME IInv, [Next]_vars PROVE [M!Next]_<<Contents(table), res>>
    OBVIOUS
  <2>0. Sound(table)
    BY DEF IInv
  <2>1. ASSUME table' = table PROVE Contents(table)' = Contents(table)
    BY <2>1
  <2>2. ASSUME NEW k \in Keys, NEW v \in Vals, Set(k, v) PROVE M!Set(k, v) \/ M!SetFails
    <3>1. PICK r \in HtSet(table, k, v) :
            table' = r.t /\ res' = IF r.ok THEN Done ELSE Failed
      BY <2>2 DEF Set
    <3>2. CASE r.ok = FALSE /\ r.t = table
      BY <2>1, <3>1, <3>2 DEF M!SetFails
    <3>3. CASE r.ok = TRUE /\ Contents(r.t) = With(Contents(table), k, v)
      BY <3>1, <3>3 DEF M!Set, With
    <3> QED  BY <2>0, <3>2, <3>3, SetOutcome
  <2>3. ASSUME NEW k \in Keys, Del(k) PROVE M!Del(k)
    <3>1. Contents(table)' = Without(Contents(table), k)
      BY <2>0, <2>3, DelOutcome DEF Del
    <3>2. res' = IF k \in DOMAIN Contents(table) THEN 1 ELSE 0
      BY <2>0, <2>3, ContentsByEntry DEF Del
    <3> QED  BY <3>1, <3>2 DEF M!Del, Without
  <2>4. ASSUME NEW k \in Keys, Get(k) PROVE M!Get(k)
    <3>1. table' = table
      BY <2>4 DEF Get
    <3>2. CASE Found(table, k)
      <4>1. k \in DOMAIN Contents(table) /\ HtGet(table, k) # NULL
        BY <2>0, <3>2, ContentsByEntry
      <4>2. Contents(table)[k] = Load(table.heap, HtGet(table, k))
        BY <4>1 DEF Contents
      <4> QED  BY <2>1, <2>4, <3>1, <4>1, <4>2 DEF Get, M!Get
    <3>3. CASE ~Found(table, k)
      <4>1. k \notin DOMAIN Contents(table) /\ HtGet(table, k) = NULL
        BY <2>0, <3>3, ContentsByEntry
      <4> QED  BY <2>1, <2>4, <3>1, <4>1 DEF Get, M!Get
    <3> QED  BY <3>2, <3>3
  <2>5. ASSUME NEW n \in 1 .. Cardinality(Keys), Scan(n) PROVE M!Scan(n)
    BY <2>0, <2>1, <2>5, OneKeyPerEntry, SameCardinality DEF Scan, M!Scan
  <2>6. ASSUME Size PROVE M!Size
    BY <2>0, <2>1, <2>6, OneKeyPerEntry, SameCardinality DEF Size, M!Size, Sound, Counted
  <2>7. ASSUME Destroy PROVE M!Clear
    <3>1. DOMAIN Contents(table)' = {} /\ res' = Done
      BY <2>0, <2>7, DestroyOutcome DEF Destroy
    <3>2. Contents(table)' = [k \in DOMAIN Contents(table)' |-> Contents(table)'[k]]
      BY DEF Contents
    <3> QED  BY <3>1, <3>2 DEF M!Clear
  <2>8. CASE Next
    BY <2>2, <2>3, <2>4, <2>5, <2>6, <2>7, <2>8, SameCardinality DEF Next, M!Next
  <2>9. CASE UNCHANGED vars
    BY <2>1, <2>9 DEF vars
  <2> QED  BY <2>8, <2>9
<1> QED  BY <1>1, <1>2, Invariance, PTL DEF Spec, ImplementsMap, M!Spec
==============================================================================
