----------------------------- MODULE MCHashTable -----------------------------
(* Instances of HashTable for TLC.                                         *)
EXTENDS HashTable

CONSTANTS k1, k2, k3, k4

(* Keys k1, k3 and k4 collide. *)
TwoBuckets == [k \in Keys |-> IF k = k2 THEN 2 ELSE 1]

(* One chain holds every key. *)
OneBucket == [k \in Keys |-> 1]

(* Which block is which does not matter: blocks are only compared with each
   other, and so two tables with the same contents in the same chains and as
   many blocks allocated have the same futures. *)
Shape ==
  << [i \in Buckets |->
        [j \in DOMAIN table.buckets[i] |->
           LET e == table.buckets[i][j]
           IN <<Load(table.heap, e.key), Load(table.heap, e.val)>>]],
     table.count, Cardinality(DOMAIN table.heap), Cardinality(Owned(table)), res >>
==============================================================================
