------------------------------- MODULE KeyMap --------------------------------
(***************************************************************************)
(* What hashtable.h promises of a table: one partial function from keys to  *)
(* values.  A set that cannot allocate reports it and changes nothing.      *)
(***************************************************************************)
EXTENDS Naturals, FiniteSets

CONSTANTS Keys, Vals,
          Done, Failed, Missing   (* results that are neither value nor number *)

VARIABLES map, res

Init == map = [k \in {} |-> Missing] /\ res = Done

Set(k, v) ==
  /\ map' = [i \in DOMAIN map \cup {k} |-> IF i = k THEN v ELSE map[i]]
  /\ res' = Done

SetFails == res' = Failed /\ UNCHANGED map

Del(k) ==
  /\ map' = [i \in DOMAIN map \ {k} |-> map[i]]
  /\ res' = IF k \in DOMAIN map THEN 1 ELSE 0

Get(k) == res' = (IF k \in DOMAIN map THEN map[k] ELSE Missing) /\ UNCHANGED map

(* A walk that its callback stops at the n-th entry, if there is one. *)
Scan(n) ==
  /\ res' = IF n <= Cardinality(DOMAIN map) THEN n ELSE Cardinality(DOMAIN map)
  /\ UNCHANGED map

Size  == res' = Cardinality(DOMAIN map) /\ UNCHANGED map
Clear == map' = [k \in {} |-> Missing] /\ res' = Done

Next ==
  \/ \E k \in Keys : (\E v \in Vals : Set(k, v)) \/ Del(k) \/ Get(k)
  \/ SetFails
  \/ \E n \in 1 .. Cardinality(Keys) : Scan(n)
  \/ Size \/ Clear

Spec == Init /\ [][Next]_<<map, res>>
==============================================================================
