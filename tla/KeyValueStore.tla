---------------------------- MODULE KeyValueStore ----------------------------
(***************************************************************************)
(* What the commands of src/command.h promise a client: each one acts on    *)
(* one partial function from keys to values and gets one reply that says    *)
(* what it did.  Memory may run out, and then nothing has changed; the      *)
(* reply itself may be cut short by a full output buffer, which the caller  *)
(* is told by a result other than 0.                                        *)
(***************************************************************************)
EXTENDS Replies, Numbers, FiniteSets

CONSTANTS
  Requests,                (* argument vectors, the command name first         *)
  Matches(_, _)            (* whether a KEYS pattern matches a key           *)

VARIABLES map, req, out, rc

Put(k, v)  == [i \in DOMAIN map \cup {k} |-> IF i = k THEN v ELSE map[i]]
Without(S) == [i \in DOMAIN map \ S |-> map[i]]
Has(k)     == k \in DOMAIN map

(* The value of k is, or reads as, the integer n; a missing one as 0. *)
ReadsAs(s, n) == Denotes(s, n) /\ n \in -ReadLimit .. ReadLimit
Holds(k, n)   == IF Has(k) THEN ReadsAs(map[k], n) ELSE n = 0
IsInt(s)      == \E n \in -ReadLimit .. ReadLimit : Denotes(s, n)

Arguments(r) == Tail(r)

(* The map becomes m and the answer is reply, or a part of it. *)
Answer(m, reply) ==
  /\ map' = m
  /\ \/ rc' = 0  /\ Whole(reply, out')
     \/ rc' = -1 /\ CutShort(reply, out')

(* How many arguments a command takes, its name included. *)
Takes(name, n) ==
  \/ name \in {"DBSIZE", "FLUSHDB"} /\ n = 1
  \/ name = "PING" /\ n \in {1, 2}
  \/ name \in {"GET", "STRLEN", "INCR", "DECR", "KEYS"} /\ n = 2
  \/ name \in {"SET", "SETNX", "GETSET", "APPEND", "INCRBY", "DECRBY"} /\ n = 3
  \/ name \in {"DEL", "EXISTS"} /\ n >= 2
  \/ name = "COMMAND" /\ n >= 1

-----------------------------------------------------------------------------
(* The commands.  r is a request that has the arguments it needs.          *)

Ping(r) ==
  r[1] = "PING" /\ Answer(map, IF Len(r) = 1 THEN SimpleString("PONG") ELSE Bulk(r[2]))

Command(r) == r[1] = "COMMAND" /\ Answer(map, ArrayHeader(0))

Get(r) ==
  r[1] = "GET" /\ Answer(map, IF Has(r[2]) THEN Bulk(map[r[2]]) ELSE Nil)

Strlen(r) ==
  r[1] = "STRLEN" /\ Answer(map, Integer(IF Has(r[2]) THEN Len(map[r[2]]) ELSE 0))

Set(r) == r[1] = "SET" /\ Answer(Put(r[2], r[3]), Ok)

SetNx(r) ==
  /\ r[1] = "SETNX"
  /\ IF Has(r[2]) THEN Answer(map, Integer(0))
                  ELSE Answer(Put(r[2], r[3]), Integer(1))

(* The reply is the value that was there before. *)
GetSet(r) ==
  /\ r[1] = "GETSET"
  /\ Answer(Put(r[2], r[3]), IF Has(r[2]) THEN Bulk(map[r[2]]) ELSE Nil)

AppendTo(r) ==
  LET new == IF Has(r[2]) THEN map[r[2]] \o r[3] ELSE r[3]
  IN r[1] = "APPEND" /\ Answer(Put(r[2], new), Integer(Len(new)))

(* A key counts once, however often it is named. *)
Del(r) ==
  LET named == {Arguments(r)[i] : i \in DOMAIN Arguments(r)}
  IN /\ r[1] = "DEL"
     /\ Answer(Without(named), Integer(Cardinality(named \cap DOMAIN map)))

(* A key counts as often as it is named. *)
Exists(r) ==
  /\ r[1] = "EXISTS"
  /\ Answer(map, Integer(Cardinality({i \in DOMAIN Arguments(r) : Has(Arguments(r)[i])})))

DbSize(r)  == r[1] = "DBSIZE" /\ Answer(map, Integer(Cardinality(DOMAIN map)))
FlushDb(r) == r[1] = "FLUSHDB" /\ Answer(Without(DOMAIN map), Ok)

(* The matching keys, each once, in some order. *)
KeysLike(r) ==
  /\ r[1] = "KEYS"
  /\ LET matching == {k \in DOMAIN map : Matches(r[2], k)}
     IN \E order \in [1 .. Cardinality(matching) -> matching] :
          /\ matching = {order[i] : i \in DOMAIN order}
          /\ Answer(map, BulkArray(order))

(* Request r asks to add d to the number at its key. *)
Adds(r, d) ==
  \/ r[1] = "INCR" /\ d = 1
  \/ r[1] = "DECR" /\ d = -1
  \/ r[1] = "INCRBY" /\ ReadsAs(r[3], d)
  \/ r[1] = "DECRBY" /\ ReadsAs(r[3], -d)

Add(r) ==
  \E d \in -ReadLimit .. ReadLimit :
    /\ Adds(r, d)
    /\ \E n \in -ReadLimit .. ReadLimit :
         /\ Holds(r[2], n)
         /\ IF n + d \in INT_MIN .. INT_MAX
              THEN Answer(Put(r[2], Format(n + d)), Integer(n + d))
              ELSE Answer(map, Overflows)

AddsNoNumber(r) ==
  /\ r[1] \in {"INCR", "DECR", "INCRBY", "DECRBY"}
  /\ \/ Has(r[2]) /\ ~IsInt(map[r[2]])
     \/ r[1] \in {"INCRBY", "DECRBY"} /\ ~IsInt(r[3])
  /\ Answer(map, NotInteger)

(* A command that stores a value, or copies one, may find no memory. *)
NoMemory(r) ==
  /\ r[1] \in {"SET", "SETNX", "GETSET", "APPEND", "INCR", "DECR", "INCRBY", "DECRBY"}
  /\ r[1] = "SETNX" => ~Has(r[2])
  /\ Answer(map, OutOfMemory)

(* A request that is no command, or has too few or too many arguments. *)
Refused(r) ==
  /\ ~Takes(r[1], Len(r))
  /\ Answer(map, IF \E n \in 1 .. 3 : Takes(r[1], n) THEN WrongArity ELSE Unknown)

Init == map = [k \in {} |-> <<>>] /\ req = <<>> /\ out = <<>> /\ rc = 0

Served(r) ==
  /\ Takes(r[1], Len(r))
  /\ \/ Ping(r) \/ Command(r) \/ Get(r) \/ Strlen(r) \/ Set(r) \/ SetNx(r)
     \/ GetSet(r) \/ AppendTo(r) \/ Del(r) \/ Exists(r) \/ DbSize(r) \/ FlushDb(r)
     \/ KeysLike(r) \/ Add(r) \/ AddsNoNumber(r) \/ NoMemory(r)

Next == \E r \in Requests : req' = r /\ (Served(r) \/ Refused(r))

Spec == Init /\ [][Next]_<<map, req, out, rc>>
==============================================================================
