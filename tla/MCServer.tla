------------------------------- MODULE MCServer --------------------------------
(* An instance of Server for TLC.                                           *)
EXTENDS Server

CONSTANTS c1, c2

Decimal == <<"0", "1", "2", "3", "4", "5", "6", "7", "8", "9">>

(* Names are single letters here. *)
Named(name) ==
  CASE name \in {<<"i">>, <<"I">>} -> "INCR"
    [] name = <<"g">> -> "GET"
    [] name = <<"x">> -> "GETSET"
    [] OTHER -> "NOSUCH"

Increment == << <<"i">>, <<"gs">> >>
Exchange  == << <<"x">>, <<"gs">>, <<"2">> >>
Read      == << <<"g">>, <<"gs">> >>

(* The first client fills the input buffer with its two requests; the other
   makes one, or types an empty line behind it. *)
MCSessions ==
  (c1 :> {<<Exchange, Read>>}) @@ (c2 :> {<<Increment>>, <<Increment, <<>> >>})

(* The patterns of the self tests: a key, a star, or one behind a word that
   begins no key. *)
Matching(p, k) == p = k \/ p = <<Star>>

AllKeys ==
  {<<k>> : k \in {"hello", "name", "bin_key", "smoke_foo", "smoke_nope", "only_key", "counter",
                 "not_int", "missing", "greeting", "k1", "k2", "k3", "sk", "gs"}}

OneBucket == [k \in Keys |-> 1]
(* What the self tests store, each a byte of its own, besides what is typed. *)
Texts == {"i", "g", "x", "gs", "H", "e", "l", "o", "W", "r", "d", "world", "redis-in-c", "bin_val",
          "WORLD!", "bar", "hello", "first", "second", "v1", "v2", "v3"}

Freed == <<"?", "?", "?">>
==============================================================================
