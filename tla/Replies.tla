------------------------------- MODULE Replies -------------------------------
(***************************************************************************)
(* The reply serializers of src/resp.c.  A reply is the sequence of the     *)
(* appends that write it, each of which may be refused by the buffer; an    *)
(* append is a tag and what it formats.                                     *)
(***************************************************************************)
EXTENDS Naturals, Sequences

Crlf == <<"crlf", "">>

SimpleString(s) == << <<"+", "">>, <<"text", s>>, Crlf >>
Error(msg)      == << <<"-", "">>, <<"text", msg>>, Crlf >>
Integer(n)      == << <<":", n>> >>
Bulk(v)         == << <<"$", Len(v)>>, <<"body", v>>, Crlf >>
Nil             == << <<"$-1", "">> >>
ArrayHeader(n)  == << <<"*", n>> >>

(* An array of bulk strings. *)
Bulks(vs) ==
  LET part[i \in 0 .. Len(vs)] == IF i = 0 THEN <<>> ELSE part[i - 1] \o Bulk(vs[i])
  IN part[Len(vs)]
BulkArray(vs) == ArrayHeader(Len(vs)) \o Bulks(vs)

Ok          == SimpleString("OK")
OutOfMemory == Error("out of memory")
NotInteger  == Error("value is not an integer or out of range")
Overflows   == Error("increment or decrement would overflow")
WrongArity  == Error("wrong number of arguments")
Unknown     == Error("unknown command")

(* What is in the buffer when every append succeeded, or the first i did. *)
Whole(reply, out)    == out = reply
CutShort(reply, out) == \E i \in 0 .. Len(reply) - 1 : out = SubSeq(reply, 1, i)
==============================================================================
