----------------------------- MODULE MCCommands ------------------------------
(* Instances of Commands for TLC.                                          *)
EXTENDS Commands

(* Ternary digits, and an integer type of four bits. *)
Ternary == <<"0", "1", "2">>

OneBucket == [k \in Keys |-> 1]

(* The requests on keys K and values V, with no more than two of them for
   DEL and EXISTS, and for every command argument vectors that are too short
   and too long. *)
Typed(K, V, P) ==
  {<<"PING">>, <<"DBSIZE">>, <<"FLUSHDB">>, <<"COMMAND">>, <<"NOSUCH">>}
  \cup {<<"PING", v>> : v \in V}
  \cup {<<c, k>> : c \in {"GET", "STRLEN", "DEL", "EXISTS"}, k \in K}
  \cup {<<c, k, j>> : c \in {"DEL", "EXISTS"}, k \in K, j \in K}
  \cup {<<c, k, v>> : c \in {"SET", "SETNX", "GETSET", "APPEND"}, k \in K, v \in V}
  \cup {<<"KEYS", p>> : p \in P}

Sums(K, V) ==
  {<<c, k>> : c \in {"INCR", "DECR"}, k \in K}
  \cup {<<c, k, v>> : c \in {"INCRBY", "DECRBY"}, k \in K, v \in V}

BadArity(k, v) ==
  {<<c>> : c \in DOMAIN commands \ {"PING", "DBSIZE", "FLUSHDB", "COMMAND"}}
  \cup {<<c, k, v, v>> : c \in DOMAIN commands \ {"DEL", "EXISTS", "COMMAND"}}

a  == <<"a">>
bc == <<"b", "c">>

OneKey == {a}
TwoKeys == {a, bc}

Plain == {<<>>, <<"x">>}

(* 0, 1, -2 and 5, the largest number that is read, and no number. *)
Numeric == {<<"0">>, <<"-">>, <<"1">>, <<"-", "2">>, <<"1", "2">>, <<"x">>}

AllValues == UNION {[1 .. n -> {"0", "1", "2", "-", "x"}] : n \in 0 .. MaxLen}

NumericRequests == Typed({a}, Numeric, {<<"*">>}) \cup Sums({a}, Numeric)

(* Arithmetic on one of the keys, everything else on both. *)
AllRequests ==
  Typed(TwoKeys, Plain, {<<"*">>, <<"b", "*">>}) \cup NumericRequests \cup BadArity(a, <<"x">>)

(* The two patterns, as glob_match() reads them. *)
StarOrB(p, k) == p = <<"*">> \/ (k # <<>> /\ k[1] = "b")

(* What is in a freed block: bytes that are in no value. *)
Freed == <<"?", "?", "?">>

(* Blocks for one entry or two, and for one more that is being made. *)
FewBlocks  == 1 .. 5
NineBlocks == 1 .. 9

(* Requests and replies have no influence on what follows, and which block
   is which does not matter. *)
Shape ==
  << [i \in DOMAIN table.buckets |->
        [j \in DOMAIN table.buckets[i] |->
           LET e == table.buckets[i][j]
           IN <<T!Load(table.heap, e.key), T!Load(table.heap, e.val)>>]],
     table.count, Cardinality(DOMAIN table.heap) >>
==============================================================================
