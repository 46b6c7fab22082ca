------------------------------ MODULE SmokeTests ------------------------------
(***************************************************************************)
(* What the self tests of src/main.c do and expect, on the store that is    *)
(* served afterwards.  A key, and a text that is never taken apart, is one  *)
(* byte of its own.                                                         *)
(***************************************************************************)
EXTENDS Resp

R == INSTANCE Replies

-----------------------------------------------------------------------------
(* smoke_test(): calls of the table, of which a failure of the first three
   ends the test.                                                          *)

HashCalls ==
  << <<"ht_set", <<"hello">>, <<"world">> >>,
     <<"ht_set", <<"name">>, <<"redis-in-c">> >>,
     <<"ht_set", <<"bin_key">>, <<"bin_val">> >>,
     <<"ht_set", <<"hello">>, <<"WORLD!">> >>,
     <<"ht_del", <<"name">> >> >>

EndsTest(i) == i <= 3

-----------------------------------------------------------------------------
(* resp_smoke_test(): each input, and what the parser is to make of it.     *)

SetFooBar == << <<"S", "E", "T">>, <<"f", "o", "o">>, <<"b", "a", "r">> >>
PingOnly  == << <<"P", "I", "N", "G">> >>
SetBinary == << <<"S", "E", "T">>, <<"f", "o", "o">>, <<"a", "NUL", "b", "0xff", "c">> >>

Good(buf, args)  ==
  [buf |-> buf, result |-> [st |-> "OK", args |-> args, next |-> Len(buf) + 1]]
Other(buf, what) == [buf |-> buf, result |-> what]

ParserCases ==
  { Good(ArrayFrame(SetFooBar), SetFooBar),
    Good(ArrayFrame(PingOnly), PingOnly),
    Good(LineFrame(PingOnly, Crlf), PingOnly),
    Good(LineFrame([SetFooBar EXCEPT ![3] = <<Blank>> \o @], <<LF>>), SetFooBar),
    Good(ArrayFrame(SetBinary), SetBinary),
    Other(SubSeq(ArrayFrame(SetFooBar), 1, Len(ArrayFrame(SetFooBar)) - 2), NeedMore),
    Other(<<Star>> \o Format(-1) \o Crlf, Refuse),
    Other(<<Star>> \o Format(1) \o Crlf \o <<Dollar>> \o Format(2) \o Crlf
          \o <<"A", "B", "C", "D">> \o Crlf, Refuse) }

ParserChecks == \A c \in ParserCases : resp_parse_request(c.buf) = c.result

-----------------------------------------------------------------------------
(* command_smoke_test(): each request, and the replies that pass.           *)

Check(request, reply) == [req |-> request, ok |-> {reply}]

BasicCases ==
  << Check(<<"PING">>, R!SimpleString("PONG")),
     Check(<<"PING", <<"hello">> >>, R!Bulk(<<"hello">>)),
     Check(<<"SET", <<"smoke_foo">>, <<"bar">> >>, R!Ok),
     Check(<<"GET", <<"smoke_foo">> >>, R!Bulk(<<"bar">>)),
     Check(<<"GET", <<"smoke_nope">> >>, R!Nil),
     Check(<<"EXISTS", <<"smoke_foo">>, <<"smoke_nope">>, <<"smoke_foo">> >>,
           R!Integer(2)),
     Check(<<"DEL", <<"smoke_foo">> >>, R!Integer(1)),
     Check(<<"GET", <<"smoke_foo">> >>, R!Nil),
     Check(<<"COMMAND">>, R!ArrayHeader(0)),
     Check(<<"XYZ">>, R!Unknown),
     Check(<<"SET", <<"only_key">> >>, R!WrongArity) >>

NumberCases ==
  << Check(<<"FLUSHDB">>, R!Ok),
     Check(<<"INCR", <<"counter">> >>, R!Integer(1)),
     Check(<<"INCR", <<"counter">> >>, R!Integer(2)),
     Check(<<"INCRBY", <<"counter">>, Format(10)>>, R!Integer(12)),
     Check(<<"DECRBY", <<"counter">>, Format(5)>>, R!Integer(7)),
     Check(<<"DECR", <<"counter">> >>, R!Integer(6)),
     Check(<<"SET", <<"not_int">>, <<"hello">> >>, R!Ok),
     Check(<<"INCR", <<"not_int">> >>, R!NotInteger) >>

Hello == <<"H", "e", "l", "l", "o">>
World == <<" ", "W", "o", "r", "l", "d">>

StringCases ==
  << Check(<<"STRLEN", <<"counter">> >>, R!Integer(1)),
     Check(<<"STRLEN", <<"missing">> >>, R!Integer(0)),
     Check(<<"APPEND", <<"greeting">>, Hello>>, R!Integer(5)),
     Check(<<"APPEND", <<"greeting">>, World>>, R!Integer(11)),
     Check(<<"GET", <<"greeting">> >>, R!Bulk(Hello \o World)) >>

(* The keys come in the order of their buckets. *)
ThreeKeys == << <<"k1">>, <<"k2">>, <<"k3">> >>
AnyOrder  ==
  {R!BulkArray([i \in 1 .. 3 |-> ThreeKeys[p[i]]]) : p \in Permutations(1 .. 3)}

KeyspaceCases ==
  << Check(<<"FLUSHDB">>, R!Ok),
     Check(<<"DBSIZE">>, R!Integer(0)),
     Check(<<"SET", ThreeKeys[1], <<"v1">> >>, R!Ok),
     Check(<<"SET", ThreeKeys[2], <<"v2">> >>, R!Ok),
     Check(<<"SET", ThreeKeys[3], <<"v3">> >>, R!Ok),
     Check(<<"DBSIZE">>, R!Integer(3)),
     Check(<<"KEYS", <<"k1">> >>, R!BulkArray(<<ThreeKeys[1]>>)),
     Check(<<"KEYS", <<"nope", Star>> >>, R!ArrayHeader(0)),
     [req |-> <<"KEYS", <<Star>> >>, ok |-> AnyOrder] >>

(* Variant: the keys stay. *)
CleanUpForgotten == <<>>

CleanUp == << Check(<<"FLUSHDB">>, R!Ok), Check(<<"DBSIZE">>, R!Integer(0)) >>

AtomicCases ==
  << Check(<<"SETNX", <<"sk">>, <<"first">> >>, R!Integer(1)),
     Check(<<"SETNX", <<"sk">>, <<"second">> >>, R!Integer(0)),
     Check(<<"GET", <<"sk">> >>, R!Bulk(<<"first">>)),
     Check(<<"GETSET", <<"gs">>, <<"v1">> >>, R!Nil),
     Check(<<"GETSET", <<"gs">>, <<"v2">> >>, R!Bulk(<<"v1">>)),
     Check(<<"GET", <<"gs">> >>, R!Bulk(<<"v2">>)) >>

Cases ==
  BasicCases \o NumberCases \o StringCases \o KeyspaceCases \o CleanUp \o AtomicCases

(* The keys that are named from the last FLUSHDB on. *)
LateKeys == {AtomicCases[i].req[2] : i \in DOMAIN AtomicCases}
==============================================================================
