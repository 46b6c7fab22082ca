------------------------------ MODULE Commands -------------------------------
(***************************************************************************)
(* The command handlers of src/command.c over the hash table and its heap.  *)
(*                                                                         *)
(* A request is its argument vector; the name stands for its upper-case     *)
(* form (slice_eq_ci()).  Bytes of keys and values are kept, because        *)
(* APPEND, STRLEN and the INCR family compute with them.                    *)
(*                                                                         *)
(* A handler is the set of its outcomes: the table it leaves and the reply  *)
(* it gives to the serializers.  What ht_get() lends is a block, which a    *)
(* handler reads at the point where the code does.                          *)
(***************************************************************************)
EXTENDS Replies, Numbers, FiniteSets, SequencesExt

CONSTANTS
  Keys, Values, Requests,
  Matches(_, _),           (* glob_match()                                   *)
  HT_NUM_BUCKETS, hash, Blocks, NULL, NodeBytes, Garbage,
  MaxLen                   (* bound: length of a value that APPEND makes     *)

VARIABLES
  table,   (* ctx->store                                                     *)
  req,     (* the last request                                               *)
  out,     (* what it appended to ctx->out                                   *)
  rc       (* what command_execute() returned                                *)

vars == <<table, req, out, rc>>

T == INSTANCE HashTable WITH
       Vals <- Values, res <- rc, Done <- 0, Failed <- -1, Missing <- 1

Answered(t, reply) == [t |-> t, reply |-> reply]

(* ht_set() and the two replies it leads to. *)
Stored(t, k, v, reply) ==
  {Answered(s.t, IF s.ok THEN reply ELSE OutOfMemory) : s \in T!HtSet(t, k, v)}

Hit(t, k)   == T!HtGet(t, k) # NULL
Value(t, k) == T!Load(t.heap, T!HtGet(t, k))

-----------------------------------------------------------------------------
(* The handlers; r[1] is the command name, r[2] the first argument.        *)

cmd_ping(t, r) ==
  {Answered(t, IF Len(r) = 1 THEN SimpleString("PONG") ELSE Bulk(r[2]))}

cmd_get(t, r) == {Answered(t, IF Hit(t, r[2]) THEN Bulk(Value(t, r[2])) ELSE Nil)}

cmd_set(t, r) == Stored(t, r[2], r[3], Ok)

(* One ht_del() after the other; a key that is named twice is gone by then. *)
cmd_del(t, r) ==
  LET del[i \in 1 .. Len(r)] ==
        IF i = 1 THEN [t |-> t, n |-> 0]
        ELSE LET d == del[i - 1]
             IN [t |-> T!HtDel(d.t, r[i]), n |-> d.n + (IF Hit(d.t, r[i]) THEN 1 ELSE 0)]
  IN {Answered(del[Len(r)].t, Integer(del[Len(r)].n))}

cmd_exists(t, r) ==
  {Answered(t, Integer(Cardinality({i \in 2 .. Len(r) : Hit(t, r[i])})))}

cmd_command(t, r) == {Answered(t, ArrayHeader(0))}

(* Variant: the sum is not checked below. *)
incrby_op_unchecked(t, k, delta) ==
  LET cur == IF Hit(t, k) THEN ParseInt64(Value(t, k)) ELSE 0
  IN IF cur = Malformed THEN {Answered(t, NotInteger)}
     ELSE IF delta > 0 /\ cur > INT_MAX - delta THEN {Answered(t, Overflows)}
     ELSE Stored(t, k, Format(cur + delta), Integer(cur + delta))

incrby_op(t, k, delta) ==
  LET cur == IF Hit(t, k) THEN ParseInt64(Value(t, k)) ELSE 0
  IN IF cur = Malformed THEN {Answered(t, NotInteger)}
     ELSE IF \/ delta > 0 /\ cur > INT_MAX - delta
             \/ delta < 0 /\ cur < INT_MIN - delta THEN {Answered(t, Overflows)}
     ELSE Stored(t, k, Format(cur + delta), Integer(cur + delta))

cmd_incr(t, r) == incrby_op(t, r[2], 1)
cmd_decr(t, r) == incrby_op(t, r[2], -1)

cmd_incrby(t, r) ==
  LET delta == ParseInt64(r[3])
  IN IF delta = Malformed THEN {Answered(t, NotInteger)} ELSE incrby_op(t, r[2], delta)

cmd_decrby(t, r) ==
  LET delta == ParseInt64(r[3])
  IN IF delta = Malformed THEN {Answered(t, NotInteger)}
     ELSE IF delta = INT_MIN THEN {Answered(t, Overflows)}
     ELSE incrby_op(t, r[2], -delta)

cmd_strlen(t, r) == {Answered(t, Integer(IF Hit(t, r[2]) THEN Len(Value(t, r[2])) ELSE 0))}

FreeBlock(t, p) == [t EXCEPT !.heap = T!Free(t.heap, {p})]

(* Variant: the temporary is freed only when the store succeeds. *)
cmd_append_leaks(t, r) ==
  IF ~Hit(t, r[2]) THEN Stored(t, r[2], r[3], Integer(Len(r[3])))
  ELSE LET new == Value(t, r[2]) \o r[3] IN
    UNION {IF d.ptr = NULL THEN {Answered(t, OutOfMemory)}
           ELSE {IF s.reply = OutOfMemory THEN s
                 ELSE Answered(FreeBlock(s.t, d.ptr), s.reply) :
                 s \in Stored([t EXCEPT !.heap = d.heap], r[2],
                              T!Load(d.heap, d.ptr), Integer(Len(new)))} :
           d \in T!Dup(t.heap, new)}

(* The concatenation is made in a temporary block, stored from there, and
   the block freed whether the store succeeded or not. *)
cmd_append(t, r) ==
  IF ~Hit(t, r[2]) THEN Stored(t, r[2], r[3], Integer(Len(r[3])))
  ELSE LET new == Value(t, r[2]) \o r[3] IN
    UNION {IF d.ptr = NULL THEN {Answered(t, OutOfMemory)}
           ELSE {Answered(FreeBlock(s.t, d.ptr), s.reply) :
                 s \in Stored([t EXCEPT !.heap = d.heap], r[2],
                              T!Load(d.heap, d.ptr), Integer(Len(new)))} :
           d \in T!Dup(t.heap, new)}

(* keys_cb() over one ht_scan(): the matching keys in the order of the walk. *)
scan_matches(t, pattern) ==
  LET walk   == T!Entries(t)
      key(i) == T!Load(t.heap, walk[i].key)
      found[i \in 0 .. Len(walk)] ==
        IF i = 0 THEN <<>>
        ELSE IF Matches(pattern, key(i)) THEN Append(found[i - 1], key(i))
        ELSE found[i - 1]
  IN found[Len(walk)]

(* One scan counts for the header, a second one emits. *)
cmd_keys(t, r) ==
  {Answered(t, ArrayHeader(Len(scan_matches(t, r[2]))) \o Bulks(scan_matches(t, r[2])))}

cmd_dbsize(t, r) == {Answered(t, Integer(t.count))}

(* ht_destroy(), then ht_init(). *)
cmd_flushdb(t, r) == {Answered(T!Fresh(T!HtDestroy(t).heap), Ok)}

cmd_setnx(t, r) ==
  IF Hit(t, r[2]) THEN {Answered(t, Integer(0))}
  ELSE Stored(t, r[2], r[3], Integer(1))

(* Variant: the reply is read from the value ht_get() lent. *)
cmd_getset_borrowed(t, r) ==
  LET old == T!HtGet(t, r[2])
  IN {IF ~s.ok THEN Answered(s.t, OutOfMemory)
      ELSE Answered(s.t, IF old = NULL THEN Nil ELSE Bulk(T!Load(s.t.heap, old))) :
        s \in T!HtSet(t, r[2], r[3])}

(* The old value is copied to a block of its own, unless there is none or it
   is empty, before ht_set() frees it; the copy is read by the reply and
   then freed. *)
cmd_getset(t, r) ==
  LET hit  == Hit(t, r[2])
      full == hit /\ Value(t, r[2]) # <<>>
      copy == IF full THEN T!Dup(t.heap, Value(t, r[2])) ELSE {[ptr |-> NULL, heap |-> t.heap]}
  IN UNION {
       IF full /\ d.ptr = NULL THEN {Answered(t, OutOfMemory)}
       ELSE {IF ~s.ok THEN Answered(FreeBlock(s.t, d.ptr), OutOfMemory)
             ELSE Answered(FreeBlock(s.t, d.ptr),
                           IF ~hit THEN Nil
                           ELSE Bulk(IF full THEN T!Load(s.t.heap, d.ptr) ELSE <<>>)) :
               s \in T!HtSet([t EXCEPT !.heap = d.heap], r[2], r[3])} : d \in copy}

-----------------------------------------------------------------------------
(* Dispatch.                                                               *)

(* The dispatch table; -1 is no maximum. *)
commands ==
  [PING    |-> <<1, 2>>,  GET    |-> <<2, 2>>, SET    |-> <<3, 3>>, DEL  |-> <<2, -1>>,
   EXISTS  |-> <<2, -1>>, COMMAND |-> <<1, -1>>, INCR |-> <<2, 2>>, DECR |-> <<2, 2>>,
   INCRBY  |-> <<3, 3>>,  DECRBY |-> <<3, 3>>, STRLEN |-> <<2, 2>>, APPEND |-> <<3, 3>>,
   KEYS    |-> <<2, 2>>,  DBSIZE |-> <<1, 1>>, FLUSHDB |-> <<1, 1>>,
   SETNX   |-> <<3, 3>>,  GETSET |-> <<3, 3>>]

ArityOK(r) ==
  LET a == commands[r[1]]
  IN Len(r) >= a[1] /\ (a[2] = -1 \/ Len(r) <= a[2])

(* What the keys and values are for: a request is a sequence that names the
   ones its command takes, a value is a string, and the values are closed under what the
   handlers make, up to the bound on APPEND. *)
ASSUME CommandConstants ==
  /\ T!TableConstants
  /\ \A v \in Values : v \in Seq(Range(v))
  /\ \A v, w \in Values : Len(v) + Len(w) <= MaxLen => v \o w \in Values
  /\ \A n \in INT_MIN .. INT_MAX : Format(n) \in Values

Takes(names) == {r \in Requests : r[1] \in names /\ ArityOK(r)}

ASSUME RequestsTyped ==
  /\ \A r \in Requests : Len(r) \in Nat /\ r = [i \in 1 .. Len(r) |-> r[i]]
  /\ \A r \in Takes({"DEL", "EXISTS"}) : \A i \in 2 .. Len(r) : r[i] \in Keys
  /\ \A r \in Takes({"GET", "STRLEN", "INCR", "DECR"}) : r[2] \in Keys
  /\ \A r \in Takes({"SET", "SETNX", "GETSET", "APPEND", "INCRBY", "DECRBY"}) :
       r[2] \in Keys /\ r[3] \in Values

(* The serializers append piece by piece; the first piece the buffer refuses
   ends the reply, and with it the handler. *)
Deliver(reply) ==
  \/ out' = reply /\ rc' = 0
  \/ \E i \in 0 .. Len(reply) - 1 : out' = SubSeq(reply, 1, i) /\ rc' = -1

Finish(r, outcomes) ==
  \E a \in outcomes :
    /\ req' = r
    /\ table' = a.t
    /\ Deliver(a.reply)

Calls(r, name) == r[1] = name /\ ArityOK(r)

Reject(r) ==
  \/ r[1] \in DOMAIN commands /\ ~ArityOK(r) /\ Finish(r, {Answered(table, WrongArity)})
  \/ r[1] \notin DOMAIN commands /\ Finish(r, {Answered(table, Unknown)})

(* Bound: APPEND makes no value longer than MaxLen. *)
Short(r) == Hit(table, r[2]) => Len(Value(table, r[2])) + Len(r[3]) <= MaxLen

(* command_execute(). *)
Execute(r) ==
  \/ Calls(r, "PING")    /\ Finish(r, cmd_ping(table, r))
  \/ Calls(r, "GET")     /\ Finish(r, cmd_get(table, r))
  \/ Calls(r, "SET")     /\ Finish(r, cmd_set(table, r))
  \/ Calls(r, "DEL")     /\ Finish(r, cmd_del(table, r))
  \/ Calls(r, "EXISTS")  /\ Finish(r, cmd_exists(table, r))
  \/ Calls(r, "COMMAND") /\ Finish(r, cmd_command(table, r))
  \/ Calls(r, "INCR")    /\ Finish(r, cmd_incr(table, r))
  \/ Calls(r, "DECR")    /\ Finish(r, cmd_decr(table, r))
  \/ Calls(r, "INCRBY")  /\ Finish(r, cmd_incrby(table, r))
  \/ Calls(r, "DECRBY")  /\ Finish(r, cmd_decrby(table, r))
  \/ Calls(r, "STRLEN")  /\ Finish(r, cmd_strlen(table, r))
  \/ Calls(r, "APPEND")  /\ Short(r) /\ Finish(r, cmd_append(table, r))
  \/ Calls(r, "KEYS")    /\ Finish(r, cmd_keys(table, r))
  \/ Calls(r, "DBSIZE")  /\ Finish(r, cmd_dbsize(table, r))
  \/ Calls(r, "FLUSHDB") /\ Finish(r, cmd_flushdb(table, r))
  \/ Calls(r, "SETNX")   /\ Finish(r, cmd_setnx(table, r))
  \/ Calls(r, "GETSET")  /\ Finish(r, cmd_getset(table, r))
  \/ Reject(r)

Init ==
  /\ table = T!Fresh(T!Nothing)
  /\ req = <<>> /\ out = <<>> /\ rc = 0

Next == \E r \in Requests : Execute(r)

Spec == Init /\ [][Next]_vars

-----------------------------------------------------------------------------
(* Properties.                                                             *)

(* No handler leaks what it allocates besides the table, in particular not
   on the paths where one of several allocations fails, and none leaves an
   entry with a block it freed. *)
HeapExact == T!HeapExact

(* A command that answers with an error has changed nothing, not even a
   block of the heap: whatever it had allocated or counted up is undone,
   wherever on its way it failed. *)
Errors == {OutOfMemory, NotInteger, Overflows, WrongArity, Unknown}

ErrorsUndone == [][rc' = 0 /\ out' \in Errors => table' = table]_vars

(* The commands are those of module KeyValueStore. *)
S == INSTANCE KeyValueStore WITH map <- T!Contents(table)
ImplementsStore == S!Spec

(* "this accepts the range [-(2^63 - 1), 2^63 - 1]": what INCR stored, short
   of the one value the comment sets apart, can be read back. *)
StoredNumbersReadable ==
  \A k \in Keys : Hit(table, k) =>
    \A n \in -INT_MAX .. INT_MAX :
      Value(table, k) = Format(n) => ParseInt64(Value(table, k)) = n
==============================================================================
