---------------------------- MODULE ServerProofs -----------------------------
(***************************************************************************)
(* Proofs about the whole program, for every set of clients, whatever they  *)
(* ask, however their bytes are cut and whatever fails: it gives its        *)
(* clients the one store that Service describes, it leaves nothing behind,  *)
(* and its self tests leave at most two keys to the clients.                *)
(*                                                                         *)
(* The first and longest part is about what each step does to the           *)
(* connections and, as the clients see it, to the service it gives them:    *)
(* the inductive invariant of the connections, and every step as one of     *)
(* Service.  What the parser and the store do is a hypothesis there.  The    *)
(* second part has it from the proofs about these two, and concludes.       *)
(***************************************************************************)
EXTENDS Server, NumbersProofs, FiniteSetTheorems

-----------------------------------------------------------------------------
(* The lines of the clients.                                               *)

Frame(args)  == LineFrame(args, <<LF>>)
NoArray(in)  == in = <<>> \/ in[1] # Star
Read(args)   == [st |-> "OK", args |-> args, next |-> Len(Frame(args)) + 1]

\* The line feed is no star and no carriage return, and the limit on a line is positive.
LEMMA FrameBytes == LF # Star /\ LF # CR /\ <<LF>> \in Seq(Bytes) /\ RESP_MAX_INLINE_LEN \in Nat \ {0}
<1>1. LET framing == <<Star, Dollar, CR, LF, Blank, Minus>>
      IN framing[1] # framing[4] /\ framing[3] # framing[4]
  BY RespConstants
<1> QED  BY <1>1, RespConstants DEF Bytes

\* A line of the input is bytes and never empty, and the line of no words is a lone line feed.
LEMMA LineType ==
  ASSUME NEW args \in Lines
  PROVE  /\ Frame(args) \in Seq(Bytes) /\ Len(Frame(args)) \in Nat \ {0}
         /\ args = <<>> => Frame(args) = <<LF>>
<1> DEFINE A == Seq(Bytes)
           parts == [i \in DOMAIN args |-> IF i = 1 THEN args[i] ELSE <<Blank>> \o args[i]]
<1>0. Frame(args) = FlattenSeq(parts) \o <<LF>>
  BY DEF Frame, LineFrame
<1>1. CASE args = <<>>
  <2>1. parts = <<>>
    BY <1>1
  <2> HIDE DEF parts
  <2>2. FlattenSeq(parts) = <<>>
    BY <2>1, FlattenEmpty
  <2>3. <<>> \o <<LF>> = <<LF>>
    OBVIOUS
  <2>4. Frame(args) = <<LF>>
    BY <1>0, <2>2, <2>3
  <2> QED  BY <2>4, FrameBytes
<1>2. CASE args # <<>>
  <2>1. args \in Seq(A)
    BY <1>2, ServerConstants
  <2>2. parts \in Seq(A)
    <3>1. \A i \in 1 .. Len(args) : args[i] \in A
      BY <2>1
    <3>2. <<Blank>> \in A
      BY DEF Bytes
    <3>3. \A v \in A : <<Blank>> \o v \in A
      BY <3>2
    <3>4. DOMAIN args = 1 .. Len(args) /\ Len(args) \in Nat
      BY <2>1
    <3> HIDE DEF A
    <3>5. \A i \in 1 .. Len(args) : parts[i] \in A
      BY <3>1, <3>3, <3>4
    <3> QED  BY <3>4, <3>5
  <2>3. FlattenSeq(parts) \in Seq(Bytes)
    BY <2>2, FlattenAppend
  <2> HIDE DEF parts
  <2>4. Frame(args) \in Seq(Bytes) /\ Len(Frame(args)) = Len(FlattenSeq(parts)) + 1
    BY <1>0, <2>3, FrameBytes
  <2> QED  BY <1>2, <2>3, <2>4
<1> QED  BY <1>1, <1>2

(* What the parser does with lines: one that is whole is read as it was
   typed, an empty one is refused, and what is found in the bytes at hand is
   found whatever comes behind. *)
Parses ==
  /\ \A args \in Lines \ {<<>>}, more \in Seq(Bytes) :
       /\ resp_parse_request(Frame(args) \o more) = Read(args)
       /\ NoArray(Frame(args) \o more)
  /\ \A more \in Seq(Bytes) :
       resp_parse_request(<<LF>> \o more) = Refuse /\ NoArray(<<LF>> \o more)
  /\ \A in, more \in Seq(Bytes) : NoArray(in) =>
       LET r == resp_parse_request(in)
       IN \/ r = NeedMore
          \/ /\ r = resp_parse_request(in \o more) /\ in # <<>>
             /\ (r = Refuse \/ (r.st = "OK" /\ r.next \in 2 .. Len(in) + 1))

-----------------------------------------------------------------------------
(* Streams of lines.                                                       *)

FramesOf(fs)   == [i \in DOMAIN fs |-> Frame(fs[i])]
Spells(s, fs)  == fs \in Seq(Lines) /\ s = FlattenSeq(FramesOf(fs))

\* The lines of several requests laid end to end are bytes.
LEMMA FramesType ==
  ASSUME NEW fs \in Seq(Lines)
  PROVE  /\ FramesOf(fs) \in Seq(Seq(Bytes)) /\ FlattenSeq(FramesOf(fs)) \in Seq(Bytes)
         /\ fs = <<>> => FlattenSeq(FramesOf(fs)) = <<>>
<1>1. FramesOf(fs) \in Seq(Seq(Bytes))
  <2> DEFINE A == Seq(Bytes)
  <2>1. \A i \in 1 .. Len(fs) : Frame(fs[i]) \in A
    BY LineType
  <2> HIDE DEF A
  <2>2. FramesOf(fs) \in Seq(A)
    BY <2>1 DEF FramesOf
  <2> QED  BY <2>2 DEF A
<1>2. FlattenSeq(FramesOf(fs)) \in Seq(Bytes)
  BY <1>1, FlattenAppend
<1>3. fs = <<>> => FramesOf(fs) = <<>>
  BY DEF FramesOf
<1> QED  BY <1>1, <1>2, <1>3, FlattenEmpty

\* The input of some requests starts with the line of the first; what follows it is the input
\* of the others.
LEMMA FirstFrame ==
  ASSUME NEW fs \in Seq(Lines), fs # <<>>
  PROVE  /\ fs[1] \in Lines /\ Tail(fs) \in Seq(Lines)
         /\ FlattenSeq(FramesOf(fs)) = Frame(fs[1]) \o FlattenSeq(FramesOf(Tail(fs)))
<1>1. fs[1] \in Lines /\ Tail(fs) \in Seq(Lines) /\ Len(fs) \in Nat \ {0}
  OBVIOUS
<1>2. FramesOf(fs) \in Seq(Seq(Bytes))
  BY FramesType
<1>3. FramesOf(fs) # <<>> /\ Head(FramesOf(fs)) = Frame(fs[1])
  <2>1. Len(FramesOf(fs)) = Len(fs) /\ FramesOf(fs)[1] = Frame(fs[1])
    BY <1>1 DEF FramesOf
  <2> DEFINE A == Seq(Bytes)
  <2> HIDE DEF A
  <2>2. FramesOf(fs) \in Seq(A)
    BY <1>2 DEF A
  <2> QED  BY <1>1, <2>1, <2>2
<1>4. Tail(FramesOf(fs)) = FramesOf(Tail(fs))
  BY <1>1 DEF FramesOf
<1> QED  BY <1>1, <1>2, <1>3, <1>4, FlattenFirst

(* What the parser makes of the beginning of a stream. *)
LEMMA FirstLine ==
  ASSUME Parses, NEW in \in Seq(Bytes), NEW more \in Seq(Bytes), NEW fs, Spells(in \o more, fs)
  PROVE  LET r == resp_parse_request(in)
         IN \/ r = NeedMore
            \/ r = Refuse /\ fs # <<>> /\ fs[1] = <<>>
            \/ /\ fs # <<>> /\ fs[1] # <<>> /\ r.st = "OK" /\ r.args = fs[1]
               /\ SubSeq(in, r.next, Len(in)) \in Seq(Bytes)
               /\ Spells(SubSeq(in, r.next, Len(in)) \o more, Tail(fs))
<1> DEFINE r == resp_parse_request(in)
           all == in \o more
           rest == FlattenSeq(FramesOf(Tail(fs)))
           f == Frame(fs[1])
<1>1. fs \in Seq(Lines) /\ all = FlattenSeq(FramesOf(fs)) /\ all \in Seq(Bytes)
  BY FramesType DEF Spells
<1>2. CASE in = <<>>
  BY <1>2 DEF resp_parse_request
<1>3. ASSUME in # <<>>, r # NeedMore
      PROVE  \/ r = Refuse /\ fs # <<>> /\ fs[1] = <<>>
             \/ /\ fs # <<>> /\ fs[1] # <<>> /\ r.st = "OK" /\ r.args = fs[1]
                /\ SubSeq(in, r.next, Len(in)) \in Seq(Bytes)
                /\ Spells(SubSeq(in, r.next, Len(in)) \o more, Tail(fs))
  <2>1. Len(all) = Len(in) + Len(more) /\ Len(in) \in Nat \ {0} /\ Len(more) \in Nat
    BY <1>3, ConcatProperties
  <2>2. all # <<>> /\ all[1] = in[1]
    BY <2>1, ConcatProperties
  <2>3. fs # <<>>
    BY <1>1, <2>2, FramesType
  <2> HIDE DEF all
  <2>4. /\ fs[1] \in Lines /\ Tail(fs) \in Seq(Lines) /\ all = f \o rest
        /\ f \in Seq(Bytes) /\ rest \in Seq(Bytes) /\ Len(f) \in Nat \ {0}
    BY <1>1, <2>3, FirstFrame, FramesType, LineType
  <2> HIDE DEF f, rest, r
  <2>5. CASE fs[1] = <<>>
    <3>1. f = <<LF>>
      BY <2>4, <2>5, LineType DEF f
    <3>2. resp_parse_request(all) = Refuse /\ NoArray(all)
      BY <2>4, <3>1 DEF Parses
    <3>3. NoArray(in)
      BY <1>3, <2>2, <3>2 DEF NoArray
    <3>4. r = Refuse
      BY <1>3, <3>2, <3>3 DEF Parses, r, all
    <3> QED  BY <2>3, <2>5, <3>4
  <2>6. CASE fs[1] # <<>>
    <3>1. resp_parse_request(all) = Read(fs[1]) /\ NoArray(all)
      BY <2>4, <2>6 DEF Parses, f
    <3>2. NoArray(in)
      BY <1>3, <2>2, <3>1 DEF NoArray
    <3>3. r = resp_parse_request(all) /\ (r = Refuse \/ (r.st = "OK" /\ r.next \in 2 .. Len(in) + 1))
      BY <1>3, <3>2 DEF Parses, r, all
    <3>4. r.st = "OK" /\ r.args = fs[1] /\ r.next = Len(f) + 1
      BY <3>1, <3>3 DEF Read, f
    <3>5. r # Refuse
      BY <3>4 DEF Refuse
    <3> DEFINE n == Len(f)
               a == SubSeq(in, 1, n)
               b == SubSeq(in, n + 1, Len(in))
    <3>6. n \in 0 .. Len(in) /\ n \in Nat
      BY <2>1, <2>4, <3>3, <3>4, <3>5
    <3> HIDE DEF n
    <3>7. in = a \o b /\ a \in Seq(Bytes) /\ b \in Seq(Bytes) /\ Len(a) = n
      BY <3>6, SplitAt
    <3> HIDE DEF a, b
    <3>8. a \o (b \o more) = f \o rest /\ b \o more \in Seq(Bytes)
      <4>1. (a \o b) \o more = a \o (b \o more)
        BY <3>7, ConcatAssociative
      <4>2. all = (a \o b) \o more
        BY <3>7 DEF all
      <4>3. b \o more \in Seq(Bytes)
        BY <3>7
      <4> QED  BY <2>4, <4>1, <4>2, <4>3
    <3>9. b \o more = rest
      BY <2>4, <3>7, <3>8, SameParts DEF n
    <3> QED  BY <2>3, <2>4, <2>6, <3>4, <3>7, <3>9 DEF Spells, rest, b, n
  <2> QED  BY <2>5, <2>6
<1>4. \/ r = NeedMore
      \/ r = Refuse /\ fs # <<>> /\ fs[1] = <<>>
      \/ /\ fs # <<>> /\ fs[1] # <<>> /\ r.st = "OK" /\ r.args = fs[1]
         /\ SubSeq(in, r.next, Len(in)) \in Seq(Bytes)
         /\ Spells(SubSeq(in, r.next, Len(in)) \o more, Tail(fs))
  BY <1>2, <1>3
<1> QED  BY <1>4

-----------------------------------------------------------------------------
(* What a request leaves.                                                  *)

(* A sequence, of whatever it holds. *)
IsSeq(s) == s \in Seq(Range(s))

\* A sequence over any set is a sequence of its own elements.
LEMMA SeqIs ==
  ASSUME NEW S, NEW s \in Seq(S)
  PROVE  IsSeq(s)
BY DEF IsSeq, Range

\* Two sequences make one when laid end to end, whatever their elements are.
LEMMA IsSeqConcat ==
  ASSUME NEW s, NEW t, IsSeq(s), IsSeq(t)
  PROVE  IsSeq(s \o t)
<1> DEFINE S == Range(s) \cup Range(t)
<1>1. s \in Seq(S) /\ t \in Seq(S)
  BY DEF IsSeq
<1> HIDE DEF S
<1>2. s \o t \in Seq(S)
  BY <1>1
<1> QED  BY <1>2, SeqIs

Contents == C!T!Contents(table)

\* Every reply the serializers build is a sequence.
LEMMA PlainReplies ==
  /\ \A s : IsSeq(Service!K!SimpleString(s)) /\ IsSeq(Service!K!Error(s))
  /\ \A s : IsSeq(Service!K!Integer(s)) /\ IsSeq(Service!K!Bulk(s))
  /\ \A s : IsSeq(Service!K!ArrayHeader(s)) /\ IsSeq(Service!K!Nil)
<1>1. \A a : IsSeq(<<a>>)
  <2>1. \A a : <<a>> \in Seq({a})
    OBVIOUS
  <2> QED  BY <2>1, SeqIs
<1>2. \A a, b, c : IsSeq(<<a, b, c>>)
  <2>1. \A a, b, c : <<a, b, c>> \in Seq({a, b, c})
    OBVIOUS
  <2> QED  BY <2>1, SeqIs
<1> QED  BY <1>1, <1>2 DEF Service!K!SimpleString, Service!K!Error, Service!K!Integer,
                           Service!K!Bulk, Service!K!ArrayHeader, Service!K!Nil, Service!K!Crlf

(* An array of bulk strings is a sequence. *)
LEMMA BulksType ==
  ASSUME NEW vs, NEW n \in Nat, Len(vs) = n
  PROVE  IsSeq(Service!K!Bulks(vs)) /\ IsSeq(Service!K!BulkArray(vs))
<1> DEFINE U == UNION {Range(Service!K!Bulk(vs[i])) : i \in 1 .. n}
           V == Seq(U)
           a == <<>>
           g == [i \in 1 .. n |-> [v \in V |-> v \o Service!K!Bulk(vs[i])]]
           Part(f, i) == IF i = 0 THEN <<>> ELSE f[i - 1] \o Service!K!Bulk(vs[i])
           Parts(f) == f = [i \in 0 .. n |-> Part(f, i)]
<1>1. ASSUME NEW i \in 1 .. n PROVE Service!K!Bulk(vs[i]) \in V
  <2> DEFINE b == Service!K!Bulk(vs[i])
  <2>1. b \in Seq(Range(b))
    BY PlainReplies DEF IsSeq
  <2>2. Range(b) \subseteq U
    OBVIOUS
  <2> HIDE DEF b, U
  <2> QED  BY <2>1, <2>2 DEF b
<1>2. \A v \in V, w \in V : v \o w \in V
  OBVIOUS
<1> HIDE DEF U, V
<1>3. g \in [1 .. n -> [V -> V]]
  BY <1>1, <1>2
<1>4. a \in V
  BY DEF V
<1> HIDE DEF a, g
<1>5. PICK h : Recursive(h, n, V, a, g)
  BY <1>3, <1>4, Recursion
<1>6. Parts(h)
  <2>1. h \in [0 .. n -> V] /\ h[0] = a /\ \A i \in 1 .. n : h[i] = g[i][h[i - 1]]
    BY <1>5 DEF Recursive
  <2>2. ASSUME NEW i \in 1 .. n PROVE h[i] = h[i - 1] \o Service!K!Bulk(vs[i])
    <3>1. h[i - 1] \in V
      BY <2>1
    <3> QED  BY <2>1, <3>1 DEF g
  <2>3. \A i \in 0 .. n : h[i] = Part(h, i)
    <3> SUFFICES ASSUME NEW i \in 0 .. n PROVE h[i] = Part(h, i)
      OBVIOUS
    <3>1. CASE i = 0
      BY <2>1, <3>1 DEF a
    <3>2. CASE i # 0
      <4>1. i \in 1 .. n
        BY <3>2
      <4> QED  BY <2>2, <3>2, <4>1
    <3> QED  BY <3>1, <3>2
  <2>4. h = [i \in 0 .. n |-> h[i]]
    BY <2>1, SMTT(30)
  <2> HIDE DEF Part
  <2> QED  BY <2>3, <2>4
<1> DEFINE f == CHOOSE f : Parts(f)
<1>7. Parts(f)
  BY <1>6
<1> HIDE DEF f
<1>8. f[n] \in V
  <2> DEFINE T == {i \in Nat : i <= n => f[i] \in V}
  <2>1. 0 \in T
    BY <1>4, <1>7 DEF a
  <2>2. ASSUME NEW i \in Nat, i \in T PROVE i + 1 \in T
    <3> SUFFICES ASSUME i + 1 <= n PROVE f[i + 1] \in V
      OBVIOUS
    <3>1. i + 1 \in 1 .. n /\ f[i] \in V /\ (i + 1) - 1 = i
      BY <2>2
    <3>2. f[i + 1] = f[i] \o Service!K!Bulk(vs[i + 1])
      BY <1>7, <3>1
    <3> QED  BY <1>1, <1>2, <3>1, <3>2
  <2> HIDE DEF T
  <2>3. n \in T
    BY <2>1, <2>2, NumberInduction
  <2> QED  BY <2>3 DEF T
<1>9. Service!K!Bulks(vs) = f[n]
  BY Zenon DEF Service!K!Bulks, f
<1>10. IsSeq(Service!K!Bulks(vs))
  BY <1>8, <1>9, SeqIs DEF V
<1> QED  BY <1>10, PlainReplies, IsSeqConcat DEF Service!K!BulkArray

(* What is answered when the reply fits, and which keys there are then. *)
Leaves(r) ==
  /\ rc' \in {0, -1} /\ (rc' = 0 => IsSeq(out'))
  /\ DOMAIN Contents' \subseteq DOMAIN Contents \cup
       (IF r[1] \in {"SET", "SETNX", "GETSET", "APPEND", "INCR", "DECR", "INCRBY", "DECRBY"}
          THEN {r[2]} ELSE {})

\* An answer that stores no key but the request's own leaves what Leaves says.
LEMMA AnswerLeaves ==
  ASSUME NEW r, NEW m, NEW reply, Service!K!Answer(m, reply), IsSeq(reply),
         \/ DOMAIN m \subseteq DOMAIN Contents
         \/ /\ r[1] \in {"SET", "SETNX", "GETSET", "APPEND", "INCR", "DECR", "INCRBY", "DECRBY"}
            /\ DOMAIN m \subseteq DOMAIN Contents \cup {r[2]}
  PROVE  Leaves(r)
<1>1. Contents' = m /\ rc' \in {0, -1} /\ (rc' = 0 => out' = reply)
  BY DEF Service!K!Answer, Service!K!Whole, Contents
<1> QED  BY <1>1 DEF Leaves

\* A request that is served or refused is answered by a sequence and adds its own key at most.
LEMMA ServedLeaves ==
  ASSUME IsFiniteSet(DOMAIN Contents), NEW r, Service!K!Served(r) \/ Service!K!Refused(r)
  PROVE  Leaves(r)
<1> DEFINE Stores == r[1] \in {"SET", "SETNX", "GETSET", "APPEND", "INCR", "DECR", "INCRBY", "DECRBY"}
           Plain(m, reply) == /\ Service!K!Answer(m, reply) /\ IsSeq(reply)
                              /\ \/ DOMAIN m \subseteq DOMAIN Contents
                                 \/ Stores /\ DOMAIN m \subseteq DOMAIN Contents \cup {r[2]}
           Some == \E m, reply : Plain(m, reply)
<1>0. \A m, reply : Plain(m, reply) => Leaves(r)
  BY AnswerLeaves
<1>a. /\ \A reply : IsSeq(reply) /\ Service!K!Answer(Contents, reply) => Some
      /\ \A S, reply : IsSeq(reply) /\ Service!K!Answer(Service!K!Without(S), reply) => Some
      /\ \A v, reply : Stores /\ IsSeq(reply) /\ Service!K!Answer(Service!K!Put(r[2], v), reply)
                         => Some
  <2>1. \A S : DOMAIN Service!K!Without(S) \subseteq DOMAIN Contents
    BY DEF Service!K!Without, Contents
  <2>2. \A v : DOMAIN Service!K!Put(r[2], v) \subseteq DOMAIN Contents \cup {r[2]}
    BY DEF Service!K!Put, Contents
  <2> QED  BY <2>1, <2>2
<1>b. Contents = C!T!Contents(table)
  BY DEF Contents
<1> HIDE DEF Some
<1> USE <1>a, <1>b, PlainReplies
<1>1. Service!K!Ping(r) => Some
  BY DEF Service!K!Ping
<1>2. Service!K!Command(r) => Some
  BY DEF Service!K!Command
<1>3. Service!K!Get(r) => Some
  BY DEF Service!K!Get
<1>4. Service!K!Strlen(r) => Some
  BY DEF Service!K!Strlen
<1>5. Service!K!Set(r) => Some
  BY DEF Service!K!Set, Service!K!Ok
<1>6. Service!K!SetNx(r) => Some
  BY DEF Service!K!SetNx
<1>7. Service!K!GetSet(r) => Some
  BY DEF Service!K!GetSet
<1>8. Service!K!AppendTo(r) => Some
  BY DEF Service!K!AppendTo
<1>9. Service!K!Del(r) => Some
  BY DEF Service!K!Del
<1>10. Service!K!Exists(r) => Some
  BY DEF Service!K!Exists
<1>11. Service!K!DbSize(r) => Some
  BY DEF Service!K!DbSize
<1>12. Service!K!FlushDb(r) => Some
  BY DEF Service!K!FlushDb, Service!K!Ok
<1>13. Service!K!AddsNoNumber(r) => Some
  BY DEF Service!K!AddsNoNumber, Service!K!NotInteger
<1>14. Service!K!NoMemory(r) => Some
  BY DEF Service!K!NoMemory, Service!K!OutOfMemory
<1>15. Service!K!Refused(r) => Some
  BY DEF Service!K!Refused, Service!K!WrongArity, Service!K!Unknown
<1>16. Service!K!Add(r) => Some
  <2> SUFFICES ASSUME Service!K!Add(r) PROVE Some
    OBVIOUS
  <2>1. Stores
    BY DEF Service!K!Add, Service!K!Adds
  <2>2. PICK n, d : \/ Service!K!Answer(Service!K!Put(r[2], Service!K!Format(n + d)), Service!K!Integer(n + d))
                   \/ Service!K!Answer(Contents, Service!K!Overflows)
    BY DEF Service!K!Add
  <2> QED  BY <2>1, <2>2 DEF Service!K!Overflows
<1>17. Service!K!KeysLike(r) => Some
  <2> DEFINE X == {k \in DOMAIN Contents : Matches(r[2], k)}
  <2> SUFFICES ASSUME Service!K!KeysLike(r) PROVE Some
    OBVIOUS
  <2>1. IsFiniteSet(X)
    BY FS_Subset
  <2>2. Service!K!Cardinality(X) = Cardinality(X)
    BY Zenon DEF Service!K!Cardinality, Cardinality, Service!K!IsFiniteSet, IsFiniteSet
  <2>3. Cardinality(X) \in Nat
    BY <2>1, FS_CardinalityType
  <2>4. PICK order \in [1 .. Cardinality(X) -> X] : Service!K!Answer(Contents, Service!K!BulkArray(order))
    BY <2>2 DEF Service!K!KeysLike
  <2>5. Len(order) = Cardinality(X)
    BY <2>3, <2>4
  <2>6. IsSeq(Service!K!BulkArray(order))
    BY <2>3, <2>5, BulksType
  <2> QED  BY <2>4, <2>6
<1>18. Some
  BY <1>1, <1>2, <1>3, <1>4, <1>5, <1>6, <1>7, <1>8, <1>9, <1>10, <1>11, <1>12, <1>13, <1>14,
     <1>15, <1>16, <1>17 DEF Service!K!Served
<1> QED  BY <1>0, <1>18 DEF Some

(* A FLUSHDB leaves no key. *)
LEMMA FlushLeaves ==
  ASSUME NEW r, r[1] = "FLUSHDB", Len(r) = 1, Service!K!Served(r) \/ Service!K!Refused(r)
  PROVE  DOMAIN Contents' = {}
<1>1. Service!K!Takes(r[1], Len(r))
  BY DEF Service!K!Takes
<1>2. Service!K!FlushDb(r)
  BY <1>1 DEF Service!K!Served, Service!K!Refused, Service!K!Ping, Service!K!Command, Service!K!Get,
     Service!K!Strlen, Service!K!Set, Service!K!SetNx, Service!K!GetSet, Service!K!AppendTo,
     Service!K!Del, Service!K!Exists, Service!K!DbSize, Service!K!KeysLike, Service!K!Add,
     Service!K!Adds, Service!K!AddsNoNumber, Service!K!NoMemory
<1>3. Contents' = Service!K!Without(DOMAIN Contents)
  BY <1>2 DEF Service!K!FlushDb, Service!K!Answer, Contents
<1>4. DOMAIN Service!K!Without(DOMAIN Contents) = {}
  BY DEF Service!K!Without, Contents
<1> QED  BY <1>3, <1>4

(* A request is executed as the abstract store executes it, and answered by
   a sequence. *)
Executed(r) == Service!Apply(r) /\ (rc' = 0 => IsSeq(out'))

-----------------------------------------------------------------------------
(* The cases of the self tests, up to the last FLUSHDB and after it.       *)

Early == BasicCases \o NumberCases \o StringCases \o KeyspaceCases

\* How the cases of main.c are laid out: the last FLUSHDB follows the early ones, then come DBSIZE
\* and cases on the late keys; each is a request the dispatcher can be given.
LEMMA TestCases ==
  /\ Len(Early) \in Nat
  /\ Len(Cases) = Len(Early) + 8
  /\ Cases[Len(Early) + 1].req = <<"FLUSHDB">>
  /\ Cases[Len(Early) + 2].req = <<"DBSIZE">>
  /\ \A i \in Len(Early) + 3 .. Len(Cases) : Cases[i].req[2] \in LateKeys
  /\ \A i \in 1 .. Len(Cases) : Cases[i].req \in Asked
<1>1. IsSeq(BasicCases)
  <2>1. \A a1, a2, a3, a4, a5, a6, a7, a8, a9, a10, a11 :
          <<a1, a2, a3, a4, a5, a6, a7, a8, a9, a10, a11>>
            \in Seq({a1, a2, a3, a4, a5, a6, a7, a8, a9, a10, a11})
    OBVIOUS
  <2> QED  BY <2>1, SeqIs DEF BasicCases
<1>2. IsSeq(NumberCases)
  <2>1. \A a1, a2, a3, a4, a5, a6, a7, a8 :
          <<a1, a2, a3, a4, a5, a6, a7, a8>> \in Seq({a1, a2, a3, a4, a5, a6, a7, a8})
    OBVIOUS
  <2> QED  BY <2>1, SeqIs DEF NumberCases
<1>3. IsSeq(StringCases)
  <2>1. \A a1, a2, a3, a4, a5 : <<a1, a2, a3, a4, a5>> \in Seq({a1, a2, a3, a4, a5})
    OBVIOUS
  <2> QED  BY <2>1, SeqIs DEF StringCases
<1>4. IsSeq(KeyspaceCases)
  <2>1. \A a1, a2, a3, a4, a5, a6, a7, a8, a9 :
          <<a1, a2, a3, a4, a5, a6, a7, a8, a9>> \in Seq({a1, a2, a3, a4, a5, a6, a7, a8, a9})
    OBVIOUS
  <2> QED  BY <2>1, SeqIs DEF KeyspaceCases
<1>5. IsSeq(CleanUp) /\ Len(CleanUp) = 2 /\ CleanUp[1].req = <<"FLUSHDB">> /\ CleanUp[2].req = <<"DBSIZE">>
  <2>1. \A a1, a2 : <<a1, a2>> \in Seq({a1, a2})
    OBVIOUS
  <2>2. IsSeq(CleanUp)
    BY <2>1, SeqIs DEF CleanUp
  <2> QED  BY <2>2 DEF CleanUp, Check
<1>6. IsSeq(AtomicCases) /\ Len(AtomicCases) = 6
  <2>1. \A a1, a2, a3, a4, a5, a6 :
          /\ <<a1, a2, a3, a4, a5, a6>> \in Seq({a1, a2, a3, a4, a5, a6})
          /\ Len(<<a1, a2, a3, a4, a5, a6>>) = 6
    OBVIOUS
  <2> QED  BY <2>1, SeqIs DEF AtomicCases
<1>7. IsSeq(Early)
  BY <1>1, <1>2, <1>3, <1>4, IsSeqConcat DEF Early
<1> DEFINE S == Range(Early) \cup Range(CleanUp) \cup Range(AtomicCases)
           n == Len(Early)
           t == Early \o CleanUp
<1>8. Early \in Seq(S) /\ CleanUp \in Seq(S) /\ AtomicCases \in Seq(S) /\ n \in Nat
  BY <1>5, <1>6, <1>7 DEF IsSeq
<1>9. Cases = t \o AtomicCases
  BY DEF Cases, Early
<1> HIDE DEF S
<1>10. t \in Seq(S) /\ Len(t) = n + 2 /\ t[n + 1] = CleanUp[1] /\ t[n + 2] = CleanUp[2]
  <2>1. /\ t \in Seq(S) /\ Len(t) = n + Len(CleanUp)
        /\ \A i \in 1 .. n + Len(CleanUp) : t[i] = IF i <= n THEN Early[i] ELSE CleanUp[i - n]
    BY <1>8, ConcatProperties
  <2> HIDE DEF t, n
  <2>2. n + 1 \in 1 .. n + 2 /\ n + 2 \in 1 .. n + 2 /\ ~(n + 1 <= n) /\ ~(n + 2 <= n)
        /\ (n + 1) - n = 1 /\ (n + 2) - n = 2
    BY <1>8
  <2> QED  BY <1>5, <2>1, <2>2
<1> HIDE DEF t
<1>11. /\ Cases \in Seq(S) /\ Len(Cases) = n + 8
       /\ \A i \in 1 .. n + 2 : Cases[i] = t[i]
       /\ \A i \in n + 3 .. n + 8 : Cases[i] = AtomicCases[i - (n + 2)]
  <2> DEFINE m == Len(t)
             k == Len(AtomicCases)
  <2>1. /\ Cases \in Seq(S) /\ Len(Cases) = m + k
        /\ \A i \in 1 .. m + k : Cases[i] = IF i <= m THEN t[i] ELSE AtomicCases[i - m]
    BY <1>8, <1>9, <1>10, ConcatProperties
  <2>2. m = n + 2 /\ k = 6
    BY <1>6, <1>10
  <2> HIDE DEF m, k, n
  <2>3. ASSUME NEW i \in 1 .. n + 2 PROVE Cases[i] = t[i]
    BY <1>8, <2>1, <2>2
  <2>4. ASSUME NEW i \in n + 3 .. n + 8 PROVE Cases[i] = AtomicCases[i - (n + 2)]
    <3>1. i \in 1 .. m + k /\ ~(i <= m)
      BY <1>8, <2>2
    <3> QED  BY <2>1, <2>2, <3>1
  <2>5. Len(Cases) = n + 8
    BY <1>8, <2>1, <2>2
  <2> QED  BY <2>1, <2>3, <2>4, <2>5
<1> HIDE DEF n
<1>12. Cases[n + 1].req = <<"FLUSHDB">> /\ Cases[n + 2].req = <<"DBSIZE">>
  BY <1>5, <1>8, <1>10, <1>11
<1>13. ASSUME NEW i \in n + 3 .. n + 8 PROVE Cases[i].req[2] \in LateKeys
  <2>1. i - (n + 2) \in 1 .. 6 /\ Cases[i] = AtomicCases[i - (n + 2)]
    BY <1>8, <1>11
  <2>2. DOMAIN AtomicCases = 1 .. 6
    BY <1>6, <1>8
  <2> QED  BY <2>1, <2>2 DEF LateKeys
<1>14. \A i \in 1 .. Len(Cases) : Cases[i].req \in Asked
  <2>1. DOMAIN Cases = 1 .. Len(Cases)
    BY <1>11
  <2> QED  BY <2>1 DEF Asked
<1> QED  BY <1>8, <1>11, <1>12, <1>13, <1>14 DEF n

-----------------------------------------------------------------------------
(* The inductive invariant.                                                *)

(* Where the program is: starting, in its loop, or past it. *)
Before  == {"hash", "tests", "listen", "epoll", "register", "handlers"}
Serving == {"loop", "wait", "events", "dispatch"}
Ended   == {"failed", "killed", "down", "exited"}

(* The client's end of a connection, and the program's. *)
NetOK(n) ==
  /\ n = [st |-> n.st, rx |-> n.rx, gone |-> n.gone, got |-> n.got, unsent |-> n.unsent]
  /\ n.st \in {"idle", "pending", "open", "closed"}
  /\ n.rx \in Seq(Bytes) /\ n.unsent \in Seq(Bytes) /\ IsSeq(n.got)

ConnOK(k) ==
  /\ k = [in |-> k.in, out |-> k.out, events |-> k.events, closing |-> k.closing]
  /\ k.in \in Seq(Bytes) /\ IsSeq(k.out) /\ k.closing \in BOOLEAN

(* Lines fs are what is asked next by a client that asks a and of whose
   requests d have been executed. *)
Owes(fs, a, d) ==
  Len(fs) = Len(a) - d /\ \A i \in 1 .. Len(fs) : a[d + i] = Request(fs[i])

(* What has been received, is on its way or not yet written is the lines of
   the requests that have not been executed. *)
Waits(in, n, a, d) == \E fs : Spells(in \o (n.rx \o n.unsent), fs) /\ Owes(fs, a, d)

Input(c) == IF c \in DOMAIN conn THEN conn[c].in ELSE <<>>

(* What holds of each client: its ends are in order, and unless its
   connection is closed nothing of its requests is lost, doubled or swapped. *)
ClientInv(c) ==
  /\ NetOK(net[c])
  /\ net[c].st = "open" <=> c \in DOMAIN conn
  /\ c \in DOMAIN conn => ConnOK(conn[c])
  /\ net[c].st # "closed" => Waits(Input(c), net[c], asked[c], done[c])

ClientsInv == \A c \in Clients : ClientInv(c)

TypeInv ==
  /\ pc \in Before \cup Serving \cup Ended /\ step \in Nat
  /\ readErr \in {"none", "request too large", "out of memory"}
  /\ done \in [Clients -> Nat] /\ \A c \in Clients : IsSeq(asked[c])
  /\ net = [c \in Clients |-> net[c]]
  /\ DOMAIN conn \subseteq Clients /\ conn = [c \in DOMAIN conn |-> conn[c]]

(* Who is given up is not read from any more, and who is read from is not
   given up; nobody is connected before or after the loop, nor waits to be
   after it. *)
PlaceInv ==
  /\ pc = "dispatch" => cur \in DOMAIN conn /\ ~conn[cur].closing /\ <<cur, "IN">> \notin batch
  /\ \A c \in DOMAIN conn : conn[c].closing => "IN" \notin conn[c].events /\ <<c, "IN">> \notin batch
  /\ pc \notin Serving => DOMAIN conn = {}
  /\ pc \in Ended => fds = {} /\ Pending = {}

Inv == TypeInv /\ ClientsInv /\ PlaceInv

(* What is open before and during net_init(): what each of its error paths
   closes is all there is.  Nobody waits before there is a listener. *)
OpenInv ==
  /\ pc \in {"hash", "tests", "listen"} => fds = {} /\ Pending = {}
  /\ pc = "epoll" => fds = {"listener"}
  /\ pc = "register" => fds = {"listener", "epoll"}

(* The program's step is one of Service, or it does not concern the clients. *)
ServiceStep == Service!Next \/ UNCHANGED <<Contents, asked, done, [c \in Clients |-> Answers(c)],
                                           Over, pc \notin {"hash", "tests"}>>

(* A client that is given up. *)
Losing(c) == net[c].st = "closed" \/ (c \in DOMAIN conn /\ conn[c].closing)

\* What comes first in a concatenation is a beginning of it.
LEMMA BeginningOf ==
  ASSUME NEW s, NEW t, IsSeq(s), IsSeq(t)
  PROVE  Service!Beginning(s, s \o t) /\ Service!Beginning(s, s)
<1> DEFINE S == Range(s) \cup Range(t)
<1>1. s \in Seq(S) /\ t \in Seq(S)
  BY DEF IsSeq
<1> HIDE DEF S
<1>2. IsPrefix(s, s \o t) /\ SubSeq(s, 1, Len(s)) = s
  BY <1>1, PrefixOfConcat, SubSeqFull
<1>3. Len(s) <= Len(s)
  BY <1>1
<1> QED  BY <1>2, <1>3 DEF IsPrefix, Service!Beginning

\* Laying nothing behind a sequence leaves it as it is.
LEMMA NothingBehind ==
  ASSUME NEW s, IsSeq(s)
  PROVE  s \o <<>> = s
BY DEF IsSeq

(* A client whom the step does not concern. *)
Alone(c) ==
  /\ net'[c] = net[c] /\ (c \in DOMAIN conn' <=> c \in DOMAIN conn)
  /\ c \in DOMAIN conn => conn'[c] = conn[c]
  /\ done'[c] = done[c]

\* A client whose socket, buffers and place in the loop a step leaves alone keeps its invariant
\* and its answers.
LEMMA AloneKeeps ==
  ASSUME NEW c \in Clients, Alone(c), asked' = asked
  PROVE  /\ ClientInv(c) => ClientInv(c)'
         /\ Answers(c)' = Answers(c) /\ (Losing(c)' <=> Losing(c))
<1>1. Input(c)' = Input(c)
  BY DEF Alone, Input
<1>2. ClientInv(c) => ClientInv(c)'
  BY <1>1 DEF Alone, ClientInv
<1>3. Answers(c)' = Answers(c)
  BY DEF Alone, Answers
<1>4. Losing(c)' <=> Losing(c)
  <2>1. CASE c \in DOMAIN conn
    <3>1. conn'[c].closing = conn[c].closing /\ net'[c].st = net[c].st
      BY <2>1 DEF Alone
    <3> QED  BY Zenon, <2>1, <3>1 DEF Alone, Losing
  <2>2. CASE c \notin DOMAIN conn
    BY Zenon, <2>2 DEF Alone, Losing
  <2> QED  BY <2>1, <2>2
<1> QED  BY <1>2, <1>3, <1>4

\* Who is cut off, before and after a step: everyone once the process has ended.
LEMMA OverIs ==
  /\ Over = IF pc \in Ended THEN Clients ELSE {c \in Clients : Losing(c)}
  /\ Over' = IF pc' \in Ended THEN Clients ELSE {c \in Clients : Losing(c)'}
BY DEF Over, Losing, Ended

(* Nothing that the clients could see has changed. *)
LEMMA NobodySees ==
  ASSUME \A c \in Clients : Answers(c)' = Answers(c) /\ (Losing(c)' <=> Losing(c)),
         pc' \in Ended <=> pc \in Ended,
         pc \in {"hash", "tests"} <=> pc' \in {"hash", "tests"},
         UNCHANGED <<asked, done>>, Contents' = Contents
  PROVE  ServiceStep
<1>1. Over' = Over
  BY OverIs
<1>2. [c \in Clients |-> Answers(c)]' = [c \in Clients |-> Answers(c)]
  OBVIOUS
<1>3. (pc \notin {"hash", "tests"})' = (pc \notin {"hash", "tests"})
  OBVIOUS
<1> QED  BY <1>1, <1>2, <1>3 DEF ServiceStep

(* Connections are given up, and nothing else that the clients could see. *)
LEMMA Lost ==
  ASSUME NEW S \in SUBSET Clients, Over' = Over \cup S,
         \A c \in Clients \ S : Answers(c)' = Answers(c),
         \A c \in S : Service!Beginning(Answers(c)', Answers(c))
  PROVE  Service!Lose(S)
BY DEF Service!Lose

\* A step that only cuts clients off, losing an end of what each was to receive, is a step of the
\* service.
LEMMA CutOff ==
  ASSUME NEW S \in SUBSET Clients, Over' = Over \cup S,
         \A c \in Clients \ S : Answers(c)' = Answers(c),
         \A c \in S : Service!Beginning(Answers(c)', Answers(c)),
         \/ pc \notin {"hash", "tests"} /\ pc' \notin {"hash", "tests"}
         \/ S = Clients /\ pc' \notin {"hash", "tests"},
         UNCHANGED <<asked, done>>, Contents' = Contents
  PROVE  ServiceStep
<1>1. Service!Lose(S)
  BY Lost
<1>2. (pc \notin {"hash", "tests"})' \in {pc \notin {"hash", "tests"},
                                        S = Clients \/ pc \notin {"hash", "tests"}}
  OBVIOUS
<1> QED  BY <1>1, <1>2 DEF ServiceStep, Service!Next, Service!Cut, Contents

-----------------------------------------------------------------------------
(* What the steps have in common.                                          *)

\* A step that looks at a few clients leaves the invariant and the answers of the others.
LEMMA Others ==
  ASSUME ClientsInv, asked' = asked, NEW S \in SUBSET Clients,
         \A d \in Clients \ S : Alone(d), \A d \in S : ClientInv(d)'
  PROVE  /\ ClientsInv'
         /\ \A d \in Clients \ S : Answers(d)' = Answers(d) /\ (Losing(d)' <=> Losing(d))
<1>1. ASSUME NEW d \in Clients \ S
      PROVE  ClientInv(d)' /\ Answers(d)' = Answers(d) /\ (Losing(d)' <=> Losing(d))
  BY <1>1, AloneKeeps DEF ClientsInv
<1>2. \A d \in Clients : ClientInv(d)'
  BY <1>1
<1> QED  BY <1>1, <1>2 DEF ClientsInv

(* close_conn(). *)
LEMMA CloseEffect ==
  ASSUME TypeInv, ClientsInv, PlaceInv, NEW c \in DOMAIN conn, NEW taken, IsSeq(taken),
         Close(c, taken), asked' = asked, \A d \in Clients \ {c} : done'[d] = done[d],
         UNCHANGED fds, pc \in Serving
  PROVE  /\ c \in Clients /\ ClientsInv' /\ PlaceInv'
         /\ \A d \in Clients \ {c} : Answers(d)' = Answers(d) /\ (Losing(d)' <=> Losing(d))
         /\ Answers(c)' = net[c].got \o taken /\ Losing(c)'
         /\ pc' = "events" /\ readErr' = "none"
         /\ net' = [d \in Clients |-> net'[d]]
         /\ DOMAIN conn' \subseteq Clients /\ conn' = [d \in DOMAIN conn' |-> conn'[d]]
<1>1. c \in Clients /\ NetOK(net[c])
  BY DEF TypeInv, ClientsInv, ClientInv
<1>2. /\ DOMAIN conn' = DOMAIN conn \ {c} /\ \A d \in DOMAIN conn' : conn'[d] = conn[d]
      /\ conn' = [d \in DOMAIN conn' |-> conn'[d]]
  BY DEF Close
<1>3. /\ net' = [d \in Clients |-> net'[d]]
      /\ \A d \in Clients \ {c} : net'[d] = net[d]
      /\ net'[c] = [[net[c] EXCEPT !.st = "closed", !.rx = <<>>] EXCEPT !.got = @ \o taken]
  BY <1>1 DEF Close, ClosedNet
<1>4. /\ net'[c].st = "closed" /\ net'[c].rx = <<>> /\ net'[c].got = net[c].got \o taken
      /\ net'[c].unsent = net[c].unsent /\ net'[c].gone = net[c].gone
      /\ net'[c] = [st |-> net'[c].st, rx |-> net'[c].rx, gone |-> net'[c].gone,
                    got |-> net'[c].got, unsent |-> net'[c].unsent]
  BY <1>1, <1>3 DEF NetOK
<1>5. NetOK(net'[c])
  BY <1>1, <1>4, IsSeqConcat DEF NetOK
<1>6. ClientInv(c)'
  BY <1>2, <1>4, <1>5 DEF ClientInv, NetOK
<1>7. \A d \in Clients \ {c} : Alone(d)
  BY <1>2, <1>3 DEF Alone
<1>8. ClientsInv' /\ \A d \in Clients \ {c} : Answers(d)' = Answers(d) /\ (Losing(d)' <=> Losing(d))
  BY <1>1, <1>6, <1>7, Others
<1>9. pc' = "events" /\ batch' \subseteq batch /\ readErr' = "none"
  BY DEF Close
<1>10. PlaceInv'
  BY <1>2, <1>9 DEF PlaceInv, Serving, Ended
<1>11. Answers(c)' = net[c].got \o taken
  <2>1. net'[c].got \in Seq(Range(net'[c].got))
    BY <1>5 DEF NetOK, IsSeq
  <2>2. net'[c].got \o <<>> = net'[c].got
    BY <2>1
  <2> QED  BY <1>2, <1>4, <2>2 DEF Answers
<1>12. Losing(c)'
  BY <1>4 DEF Losing
<1>13. DOMAIN conn' \subseteq Clients
  BY <1>2 DEF TypeInv
<1> QED  BY <1>1, <1>2, <1>3, <1>8, <1>9, <1>10, <1>11, <1>12, <1>13

(* A connection is closed that might as well have been lost. *)
LEMMA CloseStep ==
  ASSUME Inv, NEW c \in DOMAIN conn, NEW taken, IsSeq(taken), Close(c, taken), pc \in Serving,
         Service!Beginning(net[c].got \o taken, Answers(c)),
         UNCHANGED <<step, fds, asked, done, table>>
  PROVE  Inv' /\ ServiceStep
<1>1. /\ c \in Clients /\ ClientsInv' /\ PlaceInv'
      /\ \A d \in Clients \ {c} : Answers(d)' = Answers(d) /\ (Losing(d)' <=> Losing(d))
      /\ Answers(c)' = net[c].got \o taken /\ Losing(c)'
      /\ pc' = "events" /\ readErr' = "none"
      /\ net' = [d \in Clients |-> net'[d]]
      /\ DOMAIN conn' \subseteq Clients /\ conn' = [d \in DOMAIN conn' |-> conn'[d]]
  BY CloseEffect DEF Inv
<1>2. TypeInv'
  BY <1>1 DEF Inv, TypeInv, Serving
<1>3. Contents' = Contents
  BY <1>1 DEF Contents
<1>4. Over' = Over \cup {c}
  BY <1>1, OverIs DEF Serving, Ended
<1>5. ServiceStep
  <2>1. {c} \in SUBSET Clients /\ UNCHANGED <<asked, done>>
    BY <1>1
  <2>2. pc \notin {"hash", "tests"} /\ pc' \notin {"hash", "tests"}
    BY <1>1 DEF Serving
  <2>3. \A d \in {c} : Service!Beginning(Answers(d)', Answers(d))
    BY <1>1
  <2> QED  BY <1>1, <1>3, <1>4, <2>1, <2>2, <2>3, CutOff
<1> QED  BY <1>1, <1>2, <1>3, <1>5 DEF Inv

(* arm_events(), when it succeeds. *)
LEMMA ArmEffect ==
  ASSUME Inv, NEW c \in DOMAIN conn, NEW k, NEW want, NEW taken, NEW left, ConnOK(k), IsSeq(taken),
         k.in = conn[c].in, k.closing => "IN" \notin want /\ <<c, "IN">> \notin left,
         left \subseteq batch, pc \in Serving,
         conn' = [conn EXCEPT ![c] = [k EXCEPT !.events = want]],
         net' = [net EXCEPT ![c].got = @ \o taken],
         batch' = left, readErr' = "none", pc' = "events",
         UNCHANGED <<step, fds, asked, done, table>>
  PROVE  /\ c \in Clients /\ Inv' /\ Contents' = Contents
         /\ \A d \in Clients \ {c} : Answers(d)' = Answers(d) /\ (Losing(d)' <=> Losing(d))
         /\ Answers(c)' = (net[c].got \o taken) \o k.out /\ (Losing(c)' <=> k.closing)
<1>1. c \in Clients /\ ClientInv(c)
  BY DEF Inv, TypeInv, ClientsInv
<1>2. NetOK(net[c]) /\ net[c].st = "open"
  BY <1>1 DEF ClientInv
<1>3. /\ DOMAIN conn' = DOMAIN conn /\ \A d \in DOMAIN conn \ {c} : conn'[d] = conn[d]
      /\ conn' = [d \in DOMAIN conn' |-> conn'[d]]
      /\ conn'[c] = [k EXCEPT !.events = want]
  BY <1>1
<1>4. /\ conn'[c].in = conn[c].in /\ conn'[c].out = k.out /\ conn'[c].closing = k.closing
      /\ conn'[c].events = want /\ ConnOK(conn'[c])
  BY <1>3 DEF ConnOK
<1>5. /\ net' = [d \in Clients |-> net'[d]] /\ \A d \in Clients \ {c} : net'[d] = net[d]
      /\ net'[c] = [net[c] EXCEPT !.got = @ \o taken]
  BY <1>1 DEF Inv, TypeInv
<1>6. /\ net'[c].st = net[c].st /\ net'[c].rx = net[c].rx /\ net'[c].got = net[c].got \o taken
      /\ net'[c].unsent = net[c].unsent /\ net'[c].gone = net[c].gone
      /\ net'[c] = [st |-> net'[c].st, rx |-> net'[c].rx, gone |-> net'[c].gone,
                    got |-> net'[c].got, unsent |-> net'[c].unsent]
  <2> DEFINE n == net[c]
             g == n.got \o taken
  <2>1. n = [st |-> n.st, rx |-> n.rx, gone |-> n.gone, got |-> n.got, unsent |-> n.unsent]
    BY <1>2 DEF NetOK
  <2>2. net'[c] = [n EXCEPT !.got = g]
    BY <1>5
  <2> HIDE DEF n, g
  <2>3. net'[c] = [st |-> n.st, rx |-> n.rx, gone |-> n.gone, got |-> g, unsent |-> n.unsent]
    BY <2>1, <2>2
  <2>4. /\ net'[c].st = n.st /\ net'[c].rx = n.rx /\ net'[c].got = g
        /\ net'[c].unsent = n.unsent /\ net'[c].gone = n.gone
    BY <2>3
  <2>5. net'[c] = [st |-> net'[c].st, rx |-> net'[c].rx, gone |-> net'[c].gone,
                   got |-> net'[c].got, unsent |-> net'[c].unsent]
    BY <2>3, <2>4
  <2> QED  BY <2>4, <2>5 DEF n, g
<1>7. NetOK(net'[c])
  BY <1>2, <1>6, IsSeqConcat DEF NetOK
<1>8. Waits(Input(c), net[c], asked[c], done[c])
  BY <1>1, <1>2 DEF ClientInv
<1>9. Waits(Input(c)', net'[c], asked'[c], done'[c])
  BY <1>3, <1>4, <1>6, <1>8 DEF Waits, Input
<1>10. ClientInv(c)'
  BY <1>2, <1>3, <1>4, <1>6, <1>7, <1>9 DEF ClientInv
<1>11. \A d \in Clients \ {c} : Alone(d)
  BY <1>3, <1>5 DEF Alone
<1>12. ClientsInv' /\ \A d \in Clients \ {c} : Answers(d)' = Answers(d) /\ (Losing(d)' <=> Losing(d))
  BY <1>1, <1>10, <1>11, Others DEF Inv
<1>13. TypeInv'
  BY <1>3, <1>5 DEF Inv, TypeInv, Serving
<1>14. PlaceInv'
  <2>1. \A d \in DOMAIN conn' :
          conn'[d].closing => "IN" \notin conn'[d].events /\ <<d, "IN">> \notin batch'
    BY <1>3, <1>4 DEF Inv, PlaceInv
  <2> QED  BY <2>1 DEF PlaceInv, Serving, Ended
<1>15. Contents' = Contents
  BY DEF Contents
<1>16. Answers(c)' = (net[c].got \o taken) \o k.out
  BY <1>3, <1>4, <1>6 DEF Answers
<1>17. Losing(c)' <=> k.closing
  <2>1. c \in DOMAIN conn' /\ net'[c].st # "closed" /\ conn'[c].closing = k.closing
    BY <1>2, <1>3, <1>4, <1>6
  <2> QED  BY Zenon, <2>1 DEF Losing
<1> QED  BY <1>1, <1>12, <1>13, <1>14, <1>15, <1>16, <1>17 DEF Inv

-----------------------------------------------------------------------------
(* The steps that no client sees.                                          *)

(* Nothing has happened to any client. *)
LEMMA QuietClients ==
  ASSUME ClientsInv, TypeInv, UNCHANGED <<asked, done, conn, net>>
  PROVE  ClientsInv' /\ \A d \in Clients : Answers(d)' = Answers(d) /\ (Losing(d)' <=> Losing(d))
<1>1. \A d \in Clients \ {} : Alone(d)
  BY DEF Alone
<1>2. {} \in SUBSET Clients /\ \A d \in {} : ClientInv(d)'
  OBVIOUS
<1> QED  BY <1>1, <1>2, Others

\* A step that touches no buffer, no socket and no key, such as epoll_wait, stutters in the service.
LEMMA QuietStep ==
  ASSUME Inv, UNCHANGED <<step, fds, readErr, conn, net, table, asked, done>>, pc' \in Serving,
         pc \in Serving \cup {"handlers"}, pc' # "dispatch",
         \A c \in DOMAIN conn : <<c, "IN">> \in batch' =>
            <<c, "IN">> \in batch \/ "IN" \in conn[c].events
  PROVE  Inv' /\ ServiceStep
<1>1. ClientsInv' /\ \A d \in Clients : Answers(d)' = Answers(d) /\ (Losing(d)' <=> Losing(d))
  BY QuietClients DEF Inv
<1>2. TypeInv'
  BY DEF Inv, TypeInv
<1>3. PlaceInv'
  BY DEF Inv, PlaceInv, Serving, Ended
<1>4. Contents' = Contents
  BY DEF Contents
<1>5. ServiceStep
  BY <1>1, <1>4, NobodySees DEF Serving, Ended
<1> QED  BY <1>1, <1>2, <1>3, <1>4, <1>5 DEF Inv

\* The self tests main.c runs before listening.
LEMMA TestStep ==
  ASSUME Inv, Test
  PROVE  Inv' /\ ServiceStep
<1>1. pc \in Serving /\ pc' \in Serving /\ pc' # "dispatch" /\ batch' = batch
  BY DEF Test, Serving, loop
<1> QED  BY <1>1, QuietStep DEF Test, loop, store, history

\* epoll_wait returns a batch.
LEMMA EpollWaitStep ==
  ASSUME Inv, EpollWait
  PROVE  Inv' /\ ServiceStep
<1>1. pc \in Serving /\ pc' \in Serving /\ pc' # "dispatch"
  BY DEF EpollWait, Serving
<1>2. \A c \in DOMAIN conn : <<c, "IN">> \in batch' => "IN" \in conn[c].events
  BY ServerConstants DEF EpollWait, Ready, Inv, TypeInv
<1> QED  BY <1>1, <1>2, QuietStep DEF EpollWait, store, history

\* The loop has handled every event of its batch.
LEMMA BatchDoneStep ==
  ASSUME Inv, BatchDone
  PROVE  Inv' /\ ServiceStep
<1>1. pc \in Serving /\ pc' \in Serving /\ pc' # "dispatch" /\ batch' = batch
  BY DEF BatchDone, Serving, loop
<1> QED  BY <1>1, QuietStep DEF BatchDone, loop, history

\* The listening socket reports an error, and the loop goes on.
LEMMA ListenerFailsStep ==
  ASSUME Inv, ListenerFails
  PROVE  Inv' /\ ServiceStep
<1>1. pc \in Serving /\ pc' \in Serving /\ pc' # "dispatch" /\ batch' = {}
  BY DEF ListenerFails, Serving
<1> QED  BY <1>1, QuietStep DEF ListenerFails, store, history

-----------------------------------------------------------------------------
(* Before the clients are served.                                          *)

\* A step of the start, before any client can be connected, stutters in the service.
LEMMA PrepareStep ==
  ASSUME Inv, pc \in {"hash", "tests"}, pc' \in Before, step' \in Nat,
         UNCHANGED <<fds, readErr, conn, net, asked, done>>
  PROVE  Inv' /\ ServiceStep
<1>1. ClientsInv' /\ \A d \in Clients : Answers(d)' = Answers(d) /\ (Losing(d)' <=> Losing(d))
  BY QuietClients DEF Inv
<1>2. TypeInv'
  BY DEF Inv, TypeInv
<1>3. PlaceInv'
  BY DEF Inv, PlaceInv, Serving, Ended, Before
<1>4. Over' = Over
  <2>1. pc \notin Ended /\ pc' \notin Ended
    BY DEF Before, Ended
  <2> QED  BY <1>1, <2>1, OverIs
<1>5. [c \in Clients |-> Answers(c)]' = [c \in Clients |-> Answers(c)]
  BY <1>1
<1>6. Service!Prepare
  BY <1>4, <1>5 DEF Service!Prepare
<1> QED  BY <1>1, <1>2, <1>3, <1>6 DEF Inv, ServiceStep, Service!Next

\* Each of main.c's own tests, in the hash table, the parser and the dispatcher.
LEMMA SelfTestStep ==
  ASSUME Inv, HashTest \/ ParserTest \/ CommandTest \/ TestsDone
  PROVE  Inv' /\ ServiceStep
<1>1. /\ pc \in {"hash", "tests"} /\ pc' \in Before
      /\ UNCHANGED <<fds, readErr, conn, net, asked, done>>
  BY DEF HashTest, ParserTest, CommandTest, TestsDone, Before, loop, history
<1>2. step \in Nat
  BY DEF Inv, TypeInv
<1>3. step' \in Nat
  <2>1. HashTest => step' \in {Len(HashCalls), step + 1}
    BY DEF HashTest
  <2>2. Len(HashCalls) \in Nat
    BY DEF HashCalls
  <2>3. ParserTest \/ CommandTest \/ TestsDone => step' \in {0, step, step + 1}
    BY DEF ParserTest, CommandTest, TestsDone
  <2> QED  BY <1>2, <2>1, <2>2, <2>3
<1> QED  BY <1>1, <1>3, PrepareStep

-----------------------------------------------------------------------------
(* Clients whose connections are closed.                                   *)

\* What a client has received is a beginning of what is to reach it.
LEMMA AnswersAre ==
  ASSUME NEW c \in Clients, ClientInv(c)
  PROVE  \E s : IsSeq(s) /\ Answers(c) = net[c].got \o s
<1>1. CASE c \in DOMAIN conn
  BY <1>1 DEF ClientInv, ConnOK, Answers
<1>2. CASE c \notin DOMAIN conn
  <2>1. IsSeq(<<>>)
    BY DEF IsSeq
  <2> QED  BY <1>2, <2>1 DEF Answers
<1> QED  BY <1>1, <1>2

\* A connection that is closed keeps what its client received and loses the rest.
LEMMA ClosedOne ==
  ASSUME NEW c \in Clients, ClientInv(c), c \notin DOMAIN conn',
         net'[c] = [net[c] EXCEPT !.st = "closed", !.rx = <<>>]
  PROVE  ClientInv(c)' /\ Service!Beginning(Answers(c)', Answers(c)) /\ Losing(c)'
<1>1. NetOK(net[c])
  BY DEF ClientInv
<1>2. /\ net'[c].st = "closed" /\ net'[c].rx = <<>> /\ net'[c].got = net[c].got
      /\ net'[c].unsent = net[c].unsent /\ net'[c].gone = net[c].gone
      /\ net'[c] = [st |-> net'[c].st, rx |-> net'[c].rx, gone |-> net'[c].gone,
                    got |-> net'[c].got, unsent |-> net'[c].unsent]
  BY <1>1 DEF NetOK
<1>3. NetOK(net'[c])
  BY <1>1, <1>2 DEF NetOK
<1>4. ClientInv(c)'
  BY <1>2, <1>3 DEF ClientInv
<1>5. PICK s : IsSeq(s) /\ Answers(c) = net[c].got \o s
  BY AnswersAre
<1>6. Answers(c)' = net[c].got
  BY <1>1, <1>2, NothingBehind DEF Answers, NetOK
<1>7. Service!Beginning(Answers(c)', Answers(c))
  BY <1>1, <1>5, <1>6, BeginningOf DEF NetOK
<1> QED  BY <1>2, <1>4, <1>7 DEF Losing

(* The program ends, or at least what it does for clients. *)
LEMMA EndStep ==
  ASSUME Inv, pc # "exited", pc' \in Ended \ {"exited"}, DOMAIN conn' = {},
         conn' = [d \in DOMAIN conn' |-> conn'[d]], fds' = {},
         NEW S, Pending \subseteq S, DOMAIN conn \subseteq S, net' = ClosedNet(S),
         UNCHANGED <<step, readErr, table, asked, done>>
  PROVE  Inv' /\ ServiceStep
<1>1. /\ net' = [c \in Clients |-> net'[c]] /\ \A c \in Clients \ S : net'[c] = net[c]
      /\ \A c \in Clients \cap S : net'[c] = [net[c] EXCEPT !.st = "closed", !.rx = <<>>]
  BY DEF ClosedNet
<1>2. \A c \in Clients : ClientInv(c)
  BY DEF Inv, ClientsInv
<1>3. ASSUME NEW c \in Clients \cap S
      PROVE  ClientInv(c)' /\ Service!Beginning(Answers(c)', Answers(c))
             /\ net'[c].st # "pending"
  <2>1. ClientInv(c)' /\ Service!Beginning(Answers(c)', Answers(c))
    BY <1>1, <1>2, <1>3, ClosedOne
  <2>2. net'[c].st = "closed"
    BY <1>1, <1>2, <1>3 DEF ClientInv, NetOK
  <2> QED  BY <2>1, <2>2
<1>4. ASSUME NEW c \in Clients \ S
      PROVE  ClientInv(c)' /\ Service!Beginning(Answers(c)', Answers(c))
             /\ net'[c].st # "pending"
  <2>1. Alone(c)
    BY <1>1, <1>4 DEF Alone
  <2>2. ClientInv(c)' /\ Answers(c)' = Answers(c)
    BY <1>2, <1>4, <2>1, AloneKeeps
  <2>3. PICK s : IsSeq(s) /\ Answers(c) = net[c].got \o s
    BY <1>2, <1>4, AnswersAre
  <2>4. IsSeq(Answers(c))
    <3>1. IsSeq(net[c].got)
      BY <1>2, <1>4 DEF ClientInv, NetOK
    <3> QED  BY <2>3, <3>1, IsSeqConcat
  <2>5. Service!Beginning(Answers(c), Answers(c))
    BY <2>4, BeginningOf
  <2>6. c \notin Pending
    BY <1>4
  <2> QED  BY <1>1, <1>4, <2>2, <2>5, <2>6 DEF Pending
<1>5. ClientsInv' /\ Pending' = {}
  BY <1>3, <1>4 DEF ClientsInv, Pending
<1>6. \A c \in Clients : Service!Beginning(Answers(c)', Answers(c))
  BY <1>3, <1>4
<1>7. TypeInv'
  BY <1>1 DEF Inv, TypeInv
<1>8. PlaceInv'
  BY <1>5 DEF PlaceInv, Ended
<1>9. Contents' = Contents
  BY DEF Contents
<1>10. Over' = Over \cup Clients
  BY OverIs
<1>11. ServiceStep
  <2>1. pc' \notin {"hash", "tests"}
    BY DEF Ended
  <2>2. Clients \in SUBSET Clients /\ UNCHANGED <<asked, done>>
    OBVIOUS
  <2>3. \A c \in Clients \ Clients : Answers(c)' = Answers(c)
    OBVIOUS
  <2> QED  BY <1>6, <1>9, <1>10, <2>1, <2>2, <2>3, CutOff
<1> QED  BY <1>5, <1>7, <1>8, <1>9, <1>11 DEF Inv

\* A step that changes nothing.
LEMMA SameStep ==
  ASSUME Inv, UNCHANGED <<pc, step, fds, batch, cur, readErr, conn, net, table, asked, done>>
  PROVE  Inv' /\ ServiceStep
<1>1. ClientsInv' /\ \A d \in Clients : Answers(d)' = Answers(d) /\ (Losing(d)' <=> Losing(d))
  BY QuietClients DEF Inv
<1>2. TypeInv' /\ PlaceInv'
  BY DEF Inv, TypeInv, PlaceInv, Pending
<1>3. Contents' = Contents
  BY DEF Contents
<1>4. ServiceStep
  BY <1>1, <1>3, NobodySees
<1> QED  BY <1>1, <1>2, <1>3, <1>4 DEF Inv

\* net_init succeeds or fails at one of its steps.
LEMMA NetInitStep ==
  ASSUME Inv, OpenInv, NetInit
  PROVE  Inv' /\ ServiceStep
<1>1. /\ pc \in {"listen", "epoll", "register", "handlers"} /\ DOMAIN conn = {}
      /\ UNCHANGED <<step, batch, cur, readErr, conn, table, asked, done>>
  BY DEF NetInit, Inv, PlaceInv, Serving, loop, store, history
<1>2. ASSUME NEW opened, InitFails(opened), fds = opened,
             "listener" \in opened \/ Pending = {}
      PROVE  Inv' /\ ServiceStep
  <2>1. fds' = {} /\ net' = ClosedNet(Pending)
    BY <1>2 DEF InitFails
  <2>2. pc' = "failed" /\ DOMAIN conn' = {} /\ conn' = [d \in DOMAIN conn' |-> conn'[d]]
    BY <1>1, <1>2 DEF InitFails, Inv, TypeInv
  <2> QED  BY <1>1, <2>1, <2>2, EndStep DEF Ended
<1>3. ASSUME net' = net, pc' \in {"epoll", "register", "handlers", "loop"}
      PROVE  Inv' /\ ServiceStep
  <2>1. ClientsInv' /\ \A d \in Clients : Answers(d)' = Answers(d) /\ (Losing(d)' <=> Losing(d))
    BY <1>1, <1>3, QuietClients DEF Inv
  <2>2. TypeInv'
    BY <1>1, <1>3 DEF Inv, TypeInv, Before, Serving
  <2>3. PlaceInv'
    BY <1>1, <1>3 DEF PlaceInv, Ended
  <2>4. Contents' = Contents
    BY <1>1, <1>3 DEF Contents
  <2>5. ServiceStep
    BY <1>1, <1>3, <2>1, <2>4, NobodySees DEF Ended
  <2> QED  BY <2>1, <2>2, <2>3, <2>4, <2>5 DEF Inv
<1>4. ASSUME pc = "listen", InitFails({}) PROVE Inv' /\ ServiceStep
  BY <1>2, <1>4 DEF OpenInv
<1>5. ASSUME pc = "epoll", InitFails({"listener"}) PROVE Inv' /\ ServiceStep
  BY <1>2, <1>5 DEF OpenInv
<1>6. ASSUME pc = "register", InitFails({"epoll", "listener"}) PROVE Inv' /\ ServiceStep
  BY <1>2, <1>6 DEF OpenInv
<1> QED  BY <1>3, <1>4, <1>5, <1>6 DEF NetInit, GoOn

\* The loop has ended and every connection is closed.
LEMMA TeardownStep ==
  ASSUME Inv, Teardown
  PROVE  Inv' /\ ServiceStep
<1>1. /\ pc # "exited" /\ pc' \in Ended \ {"exited"} /\ fds' = {}
      /\ DOMAIN conn' = {} /\ conn' = [d \in DOMAIN conn' |-> conn'[d]]
      /\ UNCHANGED <<step, readErr, table, asked, done>>
  BY DEF Teardown, Nobody, Ended, loop, store, history
<1>2. DOMAIN conn \subseteq Open
  BY DEF Inv, TypeInv, ClientsInv, ClientInv, Open
<1>3. net' = ClosedNet(Pending \cup Open)
  BY DEF Teardown
<1> QED  BY <1>1, <1>2, <1>3, EndStep

\* A signal is delivered and the loop ends or the process is killed.
LEMMA SignalStep ==
  ASSUME Inv, Signal
  PROVE  Inv' /\ ServiceStep
<1>1. UNCHANGED <<step, batch, cur, readErr, conn, table, asked, done>>
  BY DEF Signal, loop, store, history
<1>2. ASSUME pc \in {"hash", "tests", "listen", "epoll", "register", "handlers", "failed"},
             pc' = "killed", fds' = {}, net' = ClosedNet(Pending)
      PROVE  Inv' /\ ServiceStep
  <2>1. DOMAIN conn = {} /\ conn = [d \in DOMAIN conn |-> conn[d]]
    BY <1>2 DEF Inv, TypeInv, PlaceInv, Serving
  <2> QED  BY <1>1, <1>2, <2>1, EndStep DEF Ended
<1>3. ASSUME pc = "wait", pc' \in {"wait", "loop"}, UNCHANGED <<fds, net>>
      PROVE  Inv' /\ ServiceStep
  BY <1>1, <1>3, QuietStep DEF Serving
<1>4. ASSUME pc' = pc, UNCHANGED <<fds, net>>
      PROVE  Inv' /\ ServiceStep
  BY <1>1, <1>4, SameStep
<1> QED  BY <1>2, <1>3, <1>4 DEF Signal

(* main() returns, and keeps nothing. *)
LEMMA ExitStep ==
  ASSUME Inv, Exit, DOMAIN Contents' = {}
  PROVE  Inv' /\ ServiceStep
<1>1. /\ pc \in {"failed", "down"} /\ pc' = "exited" /\ table' = C!T!HtDestroy(table)
      /\ UNCHANGED <<step, fds, batch, cur, readErr, conn, net, asked, done>>
  BY DEF Exit, loop, history
<1>5. Contents' = [k \in {} |-> <<>>]
  BY DEF Contents, C!T!Contents
<1>6. ClientsInv' /\ \A d \in Clients : Answers(d)' = Answers(d) /\ (Losing(d)' <=> Losing(d))
  BY <1>1, QuietClients DEF Inv
<1>7. TypeInv'
  BY <1>1 DEF Inv, TypeInv, Ended
<1>8. PlaceInv'
  BY <1>1 DEF Inv, PlaceInv, Ended, Serving, Pending
<1>10. Service!Stop
  <2>1. Over' = Clients /\ Over = Clients
    BY <1>1, OverIs DEF Ended
  <2>2. (pc \notin {"hash", "tests"})' = (pc \notin {"hash", "tests"})
    BY <1>1
  <2>3. [c \in Clients |-> Answers(c)]' = [c \in Clients |-> Answers(c)]
    BY <1>6
  <2> QED  BY <1>1, <1>5, <2>1, <2>2, <2>3 DEF Service!Stop, Contents
<1> QED  BY <1>6, <1>7, <1>8, <1>10 DEF Inv, ServiceStep, Service!Next

-----------------------------------------------------------------------------
(* What the clients do.                                                    *)

\* A step of a client on its own end of the connection leaves what the server owes it.
LEMMA ClientActs ==
  ASSUME Inv, NEW c \in Clients, NEW n, net' = [net EXCEPT ![c] = n], NetOK(n),
         n.got = net[c].got, net[c].st # "closed", n.st # "closed",
         n.st = "open" <=> net[c].st = "open", n.rx \o n.unsent = net[c].rx \o net[c].unsent,
         n.st = "pending" => net[c].st = "pending" \/ pc \notin Ended,
         UNCHANGED <<pc, step, fds, batch, cur, readErr, conn, table, asked, done>>
  PROVE  Inv' /\ ServiceStep
<1>1. ClientInv(c)
  BY DEF Inv, ClientsInv
<1>2. /\ net' = [d \in Clients |-> net'[d]] /\ net'[c] = n
      /\ \A d \in Clients \ {c} : net'[d] = net[d]
  BY DEF Inv, TypeInv
<1>3. Waits(Input(c)', net'[c], asked'[c], done'[c])
  <2>1. Waits(Input(c), net[c], asked[c], done[c]) /\ Input(c)' = Input(c)
    BY <1>1 DEF ClientInv, Input
  <2> QED  BY <1>2, <2>1 DEF Waits
<1>4. ClientInv(c)'
  BY <1>1, <1>2, <1>3 DEF ClientInv
<1>5. \A d \in Clients \ {c} : Alone(d)
  BY <1>2 DEF Alone
<1>6. ClientsInv' /\ \A d \in Clients \ {c} : Answers(d)' = Answers(d) /\ (Losing(d)' <=> Losing(d))
  BY <1>4, <1>5, Others DEF Inv
<1>7. Answers(c)' = Answers(c)
  BY <1>2 DEF Answers
<1>8. Losing(c)' <=> Losing(c)
  <2>1. net[c].st # "closed" /\ net'[c].st # "closed" /\ conn' = conn
    BY <1>2
  <2> QED  BY Zenon, <2>1 DEF Losing
<1>9. TypeInv'
  BY <1>2 DEF Inv, TypeInv
<1>10. PlaceInv'
  <2>1. pc \in Ended => Pending' = {}
    BY <1>2 DEF Inv, PlaceInv, Pending
  <2> QED  BY <2>1 DEF Inv, PlaceInv
<1>11. Contents' = Contents
  BY DEF Contents
<1>12. ServiceStep
  <2>1. \A d \in Clients : Answers(d)' = Answers(d) /\ (Losing(d)' <=> Losing(d))
    BY <1>6, <1>7, <1>8
  <2> QED  BY <1>11, <2>1, NobodySees
<1> QED  BY <1>6, <1>9, <1>10, <1>11, <1>12 DEF Inv

\* A client connects.
LEMMA ConnectStep ==
  ASSUME Inv, NEW c \in Clients, Connect(c)
  PROVE  Inv' /\ ServiceStep
<1> DEFINE n == [net[c] EXCEPT !.st = "pending"]
<1>1. NetOK(net[c]) /\ net[c].st = "idle" /\ "listener" \in fds
  BY DEF Inv, ClientsInv, ClientInv, Connect
<1>2. /\ n.st = "pending" /\ n.rx = net[c].rx /\ n.gone = net[c].gone /\ n.got = net[c].got
      /\ n.unsent = net[c].unsent
      /\ n = [st |-> n.st, rx |-> n.rx, gone |-> n.gone, got |-> n.got, unsent |-> n.unsent]
  BY <1>1 DEF NetOK
<1>3. net' = [net EXCEPT ![c] = n]
  BY DEF Connect
<1>4. pc \notin Ended
  BY <1>1 DEF Inv, PlaceInv
<1>5. UNCHANGED <<pc, step, fds, batch, cur, readErr, conn, table, asked, done>>
  BY DEF Connect, program, loop, store, history
<1> HIDE DEF n
<1>6. NetOK(n)
  BY <1>1, <1>2 DEF NetOK
<1> QED  BY <1>1, <1>2, <1>3, <1>4, <1>5, <1>6, ClientActs

\* A client hands bytes of its requests to its socket.
LEMMA SendStep ==
  ASSUME Inv, NEW c \in Clients, Send(c)
  PROVE  Inv' /\ ServiceStep
<1> DEFINE u == net[c].unsent
<1>1. NetOK(net[c]) /\ net[c].st \in {"pending", "open"}
  BY DEF Inv, ClientsInv, ClientInv, Send, Pending, Open
<1>2. PICK m \in 1 .. Len(u) :
        net' = [net EXCEPT ![c].rx = @ \o SubSeq(u, 1, m), ![c].unsent = SubSeq(@, m + 1, Len(@))]
  BY DEF Send
<1> DEFINE a == SubSeq(u, 1, m)
           b == SubSeq(u, m + 1, Len(u))
           x == net[c].rx
           n == [[net[c] EXCEPT !.rx = x \o a] EXCEPT !.unsent = b]
<1>3. u \in Seq(Bytes) /\ x \in Seq(Bytes) /\ m \in 0 .. Len(u)
  BY <1>1, <1>2 DEF NetOK
<1>4. a \in Seq(Bytes) /\ b \in Seq(Bytes) /\ a \o b = u
  BY <1>3, SplitAt
<1>5. net' = [net EXCEPT ![c] = n]
  BY <1>2 DEF Inv, TypeInv
<1> HIDE DEF a, b
<1>6. /\ n.st = net[c].st /\ n.rx = x \o a /\ n.gone = net[c].gone /\ n.got = net[c].got
      /\ n.unsent = b
      /\ n = [st |-> n.st, rx |-> n.rx, gone |-> n.gone, got |-> n.got, unsent |-> n.unsent]
  <2> DEFINE from == net[c]
             read == x \o a
  <2>1. from = [st |-> from.st, rx |-> from.rx, gone |-> from.gone, got |-> from.got,
                unsent |-> from.unsent]
    BY <1>1 DEF NetOK
  <2>2. n = [[from EXCEPT !.rx = read] EXCEPT !.unsent = b]
    OBVIOUS
  <2> HIDE DEF from, read, n
  <2>3. n = [st |-> from.st, rx |-> read, gone |-> from.gone, got |-> from.got, unsent |-> b]
    BY <2>1, <2>2
  <2>4. /\ n.st = from.st /\ n.rx = read /\ n.gone = from.gone /\ n.got = from.got
        /\ n.unsent = b
        /\ n = [st |-> n.st, rx |-> n.rx, gone |-> n.gone, got |-> n.got, unsent |-> n.unsent]
    BY <2>3
  <2> QED  BY <2>4 DEF from, read
<1> HIDE DEF n, u, x
<1>7. n.rx \o n.unsent = x \o u
  <2>1. x \in Seq(Bytes) /\ a \in Seq(Bytes) /\ b \in Seq(Bytes)
    BY <1>3, <1>4
  <2>2. (x \o a) \o b = x \o (a \o b)
    BY <2>1, ConcatAssociative, SMTT(30)
  <2> QED  BY <1>4, <1>6, <2>2
<1>8. x \o a \in Seq(Bytes)
  BY <1>3, <1>4
<1>9. NetOK(n)
  BY <1>1, <1>4, <1>6, <1>8 DEF NetOK
<1>10. UNCHANGED <<pc, step, fds, batch, cur, readErr, conn, table, asked, done>>
  BY DEF Send, program, loop, store, history
<1> QED  BY <1>1, <1>5, <1>6, <1>7, <1>9, <1>10, ClientActs DEF u, x

\* A client shuts its end and sends no more.
LEMMA LeaveStep ==
  ASSUME Inv, NEW c \in Clients, Leave(c)
  PROVE  Inv' /\ ServiceStep
<1> DEFINE n == [net[c] EXCEPT !.gone = TRUE]
<1>1. NetOK(net[c]) /\ net[c].st \in {"pending", "open"}
  BY DEF Inv, ClientsInv, ClientInv, Leave, Pending, Open
<1>2. /\ n.st = net[c].st /\ n.rx = net[c].rx /\ n.got = net[c].got /\ n.unsent = net[c].unsent
      /\ n = [st |-> n.st, rx |-> n.rx, gone |-> n.gone, got |-> n.got, unsent |-> n.unsent]
  <2>1. ASSUME NEW from, NEW g, from = [st |-> from.st, rx |-> from.rx, gone |-> from.gone,
                                        got |-> from.got, unsent |-> from.unsent],
               NEW to, to = [from EXCEPT !.gone = g]
        PROVE  /\ to.st = from.st /\ to.rx = from.rx /\ to.got = from.got
               /\ to.unsent = from.unsent
               /\ to = [st |-> to.st, rx |-> to.rx, gone |-> to.gone, got |-> to.got,
                        unsent |-> to.unsent]
    <3>1. to = [st |-> from.st, rx |-> from.rx, gone |-> g, got |-> from.got,
                unsent |-> from.unsent]
      BY <2>1
    <3> QED  BY <3>1
  <2>2. net[c] = [st |-> net[c].st, rx |-> net[c].rx, gone |-> net[c].gone, got |-> net[c].got,
                  unsent |-> net[c].unsent]
    BY <1>1 DEF NetOK
  <2>3. n = [net[c] EXCEPT !.gone = TRUE]
    OBVIOUS
  <2> HIDE DEF n
  <2> QED  BY Zenon, <2>1, <2>2, <2>3
<1>3. net' = [net EXCEPT ![c] = n]
  BY DEF Leave
<1>4. UNCHANGED <<pc, step, fds, batch, cur, readErr, conn, table, asked, done>>
  BY DEF Leave, program, loop, store, history
<1> HIDE DEF n
<1>5. NetOK(n)
  BY <1>1, <1>2 DEF NetOK
<1> QED  BY <1>1, <1>2, <1>3, <1>4, <1>5, ClientActs

-----------------------------------------------------------------------------
(* Connections are made.                                                   *)

\* A client that is accepted gets empty buffers and nothing has been answered yet.
LEMMA AcceptedOne ==
  ASSUME NEW c \in Clients, ClientInv(c), net[c].st = "pending", c \in DOMAIN conn',
         conn'[c] = FreshConn, net'[c] = [net[c] EXCEPT !.st = "open"],
         asked' = asked, done' = done
  PROVE  ClientInv(c)' /\ Answers(c)' = Answers(c) /\ (Losing(c)' <=> Losing(c))
<1>1. NetOK(net[c]) /\ c \notin DOMAIN conn
  BY DEF ClientInv
<1>2. /\ net'[c].st = "open" /\ net'[c].rx = net[c].rx /\ net'[c].got = net[c].got
      /\ net'[c].unsent = net[c].unsent /\ net'[c].gone = net[c].gone
      /\ net'[c] = [st |-> net'[c].st, rx |-> net'[c].rx, gone |-> net'[c].gone,
                    got |-> net'[c].got, unsent |-> net'[c].unsent]
  BY <1>1 DEF NetOK
<1>3. NetOK(net'[c])
  BY <1>1, <1>2 DEF NetOK
<1>4. /\ conn'[c].in = <<>> /\ conn'[c].out = <<>> /\ conn'[c].closing = FALSE
      /\ conn'[c] = [in |-> conn'[c].in, out |-> conn'[c].out, events |-> conn'[c].events,
                     closing |-> conn'[c].closing]
  <2>1. \A no : LET k == [in |-> <<>>, out |-> <<>>, events |-> {"IN"}, closing |-> no]
                IN /\ k.in = <<>> /\ k.out = <<>> /\ k.closing = no
                   /\ k = [in |-> k.in, out |-> k.out, events |-> k.events, closing |-> k.closing]
    OBVIOUS
  <2> QED  BY ZenonT(40), <2>1 DEF FreshConn
<1>5. ConnOK(conn'[c])
  <2>1. IsSeq(<<>>) /\ <<>> \in Seq(Bytes)
    BY DEF IsSeq
  <2>2. conn'[c].in \in Seq(Bytes) /\ IsSeq(conn'[c].out)
    BY <1>4, <2>1
  <2>3. conn'[c].closing \in BOOLEAN
    BY Zenon, <1>4
  <2> QED  BY <1>4, <2>2, <2>3 DEF ConnOK
<1>6. Waits(Input(c)', net'[c], asked'[c], done'[c])
  <2>1. Waits(Input(c), net[c], asked[c], done[c]) /\ Input(c)' = Input(c)
    BY <1>1, <1>4 DEF ClientInv, Input
  <2> QED  BY <1>2, <2>1 DEF Waits
<1>7. ClientInv(c)'
  BY <1>2, <1>3, <1>5, <1>6 DEF ClientInv
<1>8. Answers(c)' = Answers(c)
  BY <1>1, <1>2, <1>4 DEF Answers
<1>9. ~Losing(c)' /\ ~Losing(c)
  BY Zenon, <1>1, <1>2, <1>4 DEF Losing, NetOK
<1> QED  BY <1>7, <1>8, <1>9

\* accept takes the pending clients, up to a failure.
LEMMA AcceptClientsStep ==
  ASSUME Inv, AcceptClients
  PROVE  Inv' /\ ServiceStep
<1>1. PICK accepted \in SUBSET Pending, closed \in SUBSET Pending :
        /\ accepted \cap closed = {}
        /\ conn' = [c \in DOMAIN conn \cup accepted |->
                      IF c \in accepted THEN FreshConn ELSE conn[c]]
        /\ net' = [c \in Clients |->
                     IF c \in accepted THEN [net[c] EXCEPT !.st = "open"]
                                       ELSE ClosedNet(closed)[c]]
  BY DEF AcceptClients
<1>2. /\ pc = "events" /\ pc' = pc /\ batch' \subseteq batch
      /\ UNCHANGED <<step, fds, readErr, table, asked, done>>
  BY DEF AcceptClients, program, store, history
<1>3. /\ DOMAIN conn' = DOMAIN conn \cup accepted
      /\ \A c \in accepted : conn'[c] = FreshConn
      /\ \A c \in DOMAIN conn' \ accepted : c \in DOMAIN conn /\ conn'[c] = conn[c]
      /\ conn' = [c \in DOMAIN conn' |-> conn'[c]]
  BY <1>1, SMTT(30)
<1>4. /\ net' = [c \in Clients |-> net'[c]]
      /\ \A c \in accepted : net'[c] = [net[c] EXCEPT !.st = "open"]
      /\ \A c \in closed : net'[c] = [net[c] EXCEPT !.st = "closed", !.rx = <<>>]
      /\ \A c \in Clients \ (accepted \cup closed) : net'[c] = net[c]
  BY <1>1 DEF ClosedNet, Pending
<1>5. \A c \in Clients : ClientInv(c)
  BY DEF Inv, ClientsInv
<1>6. \A c \in Pending : c \in Clients /\ net[c].st = "pending" /\ c \notin DOMAIN conn
  BY <1>5 DEF Pending, ClientInv
<1>7. \A c \in accepted :
        ClientInv(c)' /\ Answers(c)' = Answers(c) /\ (Losing(c)' <=> Losing(c))
  BY <1>2, <1>3, <1>4, <1>5, <1>6, AcceptedOne
<1>8. ASSUME NEW c \in closed
      PROVE  ClientInv(c)' /\ Service!Beginning(Answers(c)', Answers(c)) /\ Losing(c)'
  <2>1. c \in Clients /\ c \notin DOMAIN conn'
    BY <1>1, <1>3, <1>6
  <2> QED  BY <1>4, <1>5, <2>1, ClosedOne
<1>9. ASSUME NEW c \in Clients \ (accepted \cup closed)
      PROVE  ClientInv(c)' /\ Answers(c)' = Answers(c) /\ (Losing(c)' <=> Losing(c))
  <2>1. Alone(c)
    BY <1>2, <1>3, <1>4 DEF Alone
  <2> QED  BY <1>2, <1>5, <2>1, AloneKeeps
<1>10. ClientsInv'
  BY <1>7, <1>8, <1>9 DEF ClientsInv
<1>11. TypeInv'
  BY <1>2, <1>3, <1>4, <1>6 DEF Inv, TypeInv
<1>12. PlaceInv'
  <2>1. \A c \in DOMAIN conn' :
          conn'[c].closing => "IN" \notin conn'[c].events /\ <<c, "IN">> \notin batch'
    <3>1. ASSUME NEW c \in accepted PROVE ~conn'[c].closing
      BY <1>3 DEF FreshConn
    <3> QED  BY <1>2, <1>3, <3>1 DEF Inv, PlaceInv
  <2> QED  BY <1>2, <2>1 DEF PlaceInv, Serving, Ended
<1>13. Contents' = Contents
  BY <1>2 DEF Contents
<1>14. Over' = Over \cup closed
  <2>1. \A c \in Clients : Losing(c)' <=> Losing(c) \/ c \in closed
    BY <1>7, <1>8, <1>9
  <2>2. pc \notin Ended /\ pc' \notin Ended /\ closed \subseteq Clients
    BY <1>2, <1>6 DEF Ended
  <2> QED  BY <2>1, <2>2, OverIs
<1>15. ServiceStep
  <2>1. closed \in SUBSET Clients
    BY <1>6
  <2>2. \A c \in Clients \ closed : Answers(c)' = Answers(c)
    BY <1>7, <1>9
  <2>3. pc \notin {"hash", "tests"} /\ pc' \notin {"hash", "tests"}
    BY <1>2
  <2> QED  BY <1>2, <1>8, <1>13, <1>14, <2>1, <2>2, <2>3, CutOff
<1> QED  BY <1>10, <1>11, <1>12, <1>13, <1>15 DEF Inv

-----------------------------------------------------------------------------
(* The handlers of a connection.                                           *)

(* A connection is closed before the answers that are left reach the client. *)
LEMMA CloseUnsent ==
  ASSUME Inv, NEW c \in DOMAIN conn, Close(c, <<>>), pc \in Serving,
         UNCHANGED <<step, fds, asked, done, table>>
  PROVE  Inv' /\ ServiceStep
<1>1. c \in Clients /\ ClientInv(c)
  BY DEF Inv, TypeInv, ClientsInv
<1>2. IsSeq(net[c].got) /\ IsSeq(conn[c].out) /\ IsSeq(<<>>)
  BY <1>1 DEF ClientInv, NetOK, ConnOK, IsSeq
<1>3. net[c].got \o <<>> = net[c].got /\ Answers(c) = net[c].got \o conn[c].out
  BY <1>2, NothingBehind DEF Answers
<1>4. Service!Beginning(net[c].got \o <<>>, Answers(c))
  BY <1>2, <1>3, BeginningOf
<1> QED  BY <1>2, <1>4, CloseStep

\* Bytes taken from the socket into the input buffer stay in order and none is lost.
LEMMA ReadOne ==
  ASSUME Inv, NEW c \in DOMAIN conn, NEW n \in 0 .. Len(net[c].rx),
         conn' = [conn EXCEPT ![c].in = @ \o SubSeq(net[c].rx, 1, n)],
         net' = [net EXCEPT ![c].rx = SubSeq(net[c].rx, n + 1, Len(net[c].rx))],
         UNCHANGED <<asked, done>>
  PROVE  /\ c \in Clients
         /\ net' = [d \in Clients |-> net'[d]]
         /\ DOMAIN conn' = DOMAIN conn /\ conn' = [d \in DOMAIN conn' |-> conn'[d]]
         /\ \A d \in DOMAIN conn : conn'[d].closing = conn[d].closing
                                   /\ conn'[d].events = conn[d].events
         /\ ClientsInv'
         /\ \A d \in Clients : Answers(d)' = Answers(d) /\ (Losing(d)' <=> Losing(d))
<1> DEFINE rx == net[c].rx
           a == SubSeq(rx, 1, n)
           b == SubSeq(rx, n + 1, Len(rx))
           in == conn[c].in
           more == in \o a
<1>1. c \in Clients /\ ClientInv(c)
  BY DEF Inv, TypeInv, ClientsInv
<1>2. NetOK(net[c]) /\ net[c].st = "open" /\ ConnOK(conn[c])
  BY <1>1 DEF ClientInv
<1>3. rx \in Seq(Bytes) /\ in \in Seq(Bytes) /\ net[c].unsent \in Seq(Bytes)
  BY <1>2 DEF NetOK, ConnOK
<1>4. a \in Seq(Bytes) /\ b \in Seq(Bytes) /\ a \o b = rx
  BY <1>3, SplitAt
<1>5. /\ net' = [d \in Clients |-> net'[d]] /\ \A d \in Clients \ {c} : net'[d] = net[d]
      /\ net'[c] = [net[c] EXCEPT !.rx = b]
  BY <1>1 DEF Inv, TypeInv
<1>6. /\ DOMAIN conn' = DOMAIN conn /\ conn' = [d \in DOMAIN conn' |-> conn'[d]]
      /\ \A d \in DOMAIN conn \ {c} : conn'[d] = conn[d]
      /\ conn'[c] = [conn[c] EXCEPT !.in = more]
  OBVIOUS
<1> HIDE DEF a, b
<1>7. more \in Seq(Bytes)
  BY <1>3, <1>4
<1> HIDE DEF more
<1>8. /\ net'[c].st = "open" /\ net'[c].rx = b /\ net'[c].got = net[c].got
      /\ net'[c].unsent = net[c].unsent /\ net'[c].gone = net[c].gone
      /\ net'[c] = [st |-> net'[c].st, rx |-> net'[c].rx, gone |-> net'[c].gone,
                    got |-> net'[c].got, unsent |-> net'[c].unsent]
  <2> DEFINE from == net[c]
             to == net'[c]
  <2>1. from = [st |-> from.st, rx |-> from.rx, gone |-> from.gone, got |-> from.got,
                unsent |-> from.unsent]
    BY <1>2 DEF NetOK
  <2>2. to = [from EXCEPT !.rx = b] /\ from.st = "open"
    BY <1>2, <1>5
  <2> HIDE DEF from, to
  <2>3. to = [st |-> from.st, rx |-> b, gone |-> from.gone, got |-> from.got,
              unsent |-> from.unsent]
    BY <2>1, <2>2
  <2>4. /\ to.st = "open" /\ to.rx = b /\ to.gone = from.gone /\ to.got = from.got
        /\ to.unsent = from.unsent
        /\ to = [st |-> to.st, rx |-> to.rx, gone |-> to.gone, got |-> to.got,
                 unsent |-> to.unsent]
    BY <2>2, <2>3
  <2> QED  BY <2>4 DEF from, to
<1>9. /\ conn'[c].in = more /\ conn'[c].out = conn[c].out /\ conn'[c].events = conn[c].events
      /\ conn'[c].closing = conn[c].closing
      /\ conn'[c] = [in |-> conn'[c].in, out |-> conn'[c].out, events |-> conn'[c].events,
                     closing |-> conn'[c].closing]
  BY <1>2, <1>6 DEF ConnOK
<1>10. NetOK(net'[c]) /\ ConnOK(conn'[c])
  BY <1>2, <1>4, <1>7, <1>8, <1>9 DEF NetOK, ConnOK
<1>11. Waits(Input(c)', net'[c], asked'[c], done'[c])
  <2> DEFINE unsent == net[c].unsent
  <2>1. more \o (b \o unsent) = in \o (rx \o unsent)
    <3> HIDE DEF rx, in, unsent
    <3>1. a \in Seq(Bytes) /\ b \in Seq(Bytes) /\ in \in Seq(Bytes) /\ unsent \in Seq(Bytes)
      BY <1>3, <1>4 DEF unsent
    <3>2. (a \o b) \o unsent = a \o (b \o unsent)
      BY <3>1, ConcatAssociative, SMTT(30)
    <3> DEFINE left == b \o unsent
    <3>3. left \in Seq(Bytes)
      BY <3>1
    <3> HIDE DEF left
    <3>4. (in \o a) \o left = in \o (a \o left)
      BY <3>1, <3>3, ConcatAssociative, SMTT(30)
    <3> QED  BY <1>4, <3>2, <3>4 DEF more, left
  <2>2. Waits(in, net[c], asked[c], done[c])
    BY <1>1, <1>2 DEF ClientInv, Input
  <2>3. PICK fs : Spells(in \o (rx \o unsent), fs) /\ Owes(fs, asked[c], done[c])
    BY <2>2 DEF Waits
  <2>4. Input(c)' = more
    BY <1>6, <1>9 DEF Input
  <2>5. Spells(Input(c)' \o (net'[c].rx \o net'[c].unsent), fs)
    BY <1>8, <2>1, <2>3, <2>4
  <2>6. Owes(fs, asked'[c], done'[c])
    BY <2>3
  <2> QED  BY <2>5, <2>6 DEF Waits
<1>12. ClientInv(c)'
  BY <1>6, <1>8, <1>10, <1>11 DEF ClientInv
<1>13. \A d \in Clients \ {c} : Alone(d)
  BY <1>5, <1>6 DEF Alone
<1>14. ClientsInv' /\ \A d \in Clients \ {c} : Answers(d)' = Answers(d) /\ (Losing(d)' <=> Losing(d))
  BY <1>1, <1>12, <1>13, Others DEF Inv
<1>15. Answers(c)' = Answers(c)
  BY <1>6, <1>8, <1>9 DEF Answers
<1>16. Losing(c)' <=> Losing(c)
  <2>1. net'[c].st = net[c].st /\ conn'[c].closing = conn[c].closing /\ DOMAIN conn' = DOMAIN conn
    BY <1>2, <1>6, <1>8, <1>9
  <2> QED  BY Zenon, <2>1 DEF Losing
<1> QED  BY <1>1, <1>5, <1>6, <1>9, <1>14, <1>15, <1>16

\* handle_read() reads until the socket is empty, the client is gone or a limit is met.
LEMMA HandleReadStep ==
  ASSUME Inv, HandleRead
  PROVE  Inv' /\ ServiceStep
<1>1. pc = "events" /\ UNCHANGED <<step, fds, asked, done, table>>
  BY DEF HandleRead, store, history
<1>2. PICK c \in Open :
        /\ <<c, "IN">> \in batch
        /\ \/ Close(c, <<>>)
           \/ \E n \in Loads(conn[c].in, net[c].rx) :
              \E end \in ReadEnds(Len(conn[c].in) + n, n = Len(net[c].rx)) :
                /\ conn' = [conn EXCEPT ![c].in = @ \o SubSeq(net[c].rx, 1, n)]
                /\ net' = [net EXCEPT ![c].rx = SubSeq(net[c].rx, n + 1, Len(net[c].rx))]
                /\ batch' = batch \ {<<c, "IN">>}
                /\ cur' = c /\ readErr' = end /\ pc' = "dispatch"
  BY DEF HandleRead
<1>3. c \in DOMAIN conn /\ ~conn[c].closing
  BY <1>2 DEF Open, Inv, ClientsInv, ClientInv, PlaceInv
<1>4. ASSUME Close(c, <<>>) PROVE Inv' /\ ServiceStep
  BY <1>1, <1>3, <1>4, CloseUnsent DEF Serving
<1>5. ASSUME NEW n \in Loads(conn[c].in, net[c].rx),
             NEW end \in ReadEnds(Len(conn[c].in) + n, n = Len(net[c].rx)),
             conn' = [conn EXCEPT ![c].in = @ \o SubSeq(net[c].rx, 1, n)],
             net' = [net EXCEPT ![c].rx = SubSeq(net[c].rx, n + 1, Len(net[c].rx))],
             batch' = batch \ {<<c, "IN">>}, cur' = c, readErr' = end, pc' = "dispatch"
      PROVE  Inv' /\ ServiceStep
  <2>1. n \in 0 .. Len(net[c].rx)
    BY DEF Loads
  <2>2. readErr' \in {"none", "request too large", "out of memory"}
    BY <1>5 DEF ReadEnds
  <2>3. /\ net' = [d \in Clients |-> net'[d]]
        /\ DOMAIN conn' = DOMAIN conn /\ conn' = [d \in DOMAIN conn' |-> conn'[d]]
        /\ \A d \in DOMAIN conn : conn'[d].closing = conn[d].closing
                                  /\ conn'[d].events = conn[d].events
        /\ ClientsInv'
        /\ \A d \in Clients : Answers(d)' = Answers(d) /\ (Losing(d)' <=> Losing(d))
    BY <1>1, <1>3, <1>5, <2>1, ReadOne
  <2>4. TypeInv'
    BY <1>1, <1>5, <2>2, <2>3 DEF Inv, TypeInv, Serving
  <2>5. PlaceInv'
    <3>1. cur' \in DOMAIN conn' /\ ~conn'[cur'].closing /\ <<cur', "IN">> \notin batch'
      BY <1>3, <1>5, <2>3
    <3>2. \A d \in DOMAIN conn' :
            conn'[d].closing => "IN" \notin conn'[d].events /\ <<d, "IN">> \notin batch'
      BY <1>5, <2>3 DEF Inv, PlaceInv
    <3> QED  BY <1>5, <3>1, <3>2 DEF PlaceInv, Serving, Ended
  <2>6. Contents' = Contents
    BY <1>1, <1>5 DEF Contents
  <2>7. ServiceStep
    BY <1>1, <1>5, <2>3, <2>6, NobodySees DEF Ended
  <2> QED  BY <2>3, <2>4, <2>5, <2>6, <2>7 DEF Inv
<1> QED  BY <1>2, <1>4, <1>5

\* handle_write() hands the output to the socket until none is left or it would block.
LEMMA HandleWriteStep ==
  ASSUME Inv, HandleWrite
  PROVE  Inv' /\ ServiceStep
<1>1. pc = "events" /\ pc \in Serving /\ UNCHANGED <<step, fds, asked, done, table>>
  BY DEF HandleWrite, store, history, Serving
<1>2. PICK c \in Open : \E n \in 0 .. Len(conn[c].out) :
        LET taken == SubSeq(conn[c].out, 1, n)
            k     == [conn[c] EXCEPT !.out = SubSeq(@, n + 1, Len(@))]
        IN \/ Close(c, taken)
           \/ /\ k.out # <<>> \/ ~k.closing
              /\ Arm(c, k, IF k.out = <<>> THEN {"IN"} ELSE k.events, taken,
                     batch \ {<<c, "OUT">>}, FALSE)
  BY DEF HandleWrite
<1>0. PICK n \in 0 .. Len(conn[c].out) :
        LET taken == SubSeq(conn[c].out, 1, n)
            k     == [conn[c] EXCEPT !.out = SubSeq(@, n + 1, Len(@))]
        IN \/ Close(c, taken)
           \/ /\ k.out # <<>> \/ ~k.closing
              /\ Arm(c, k, IF k.out = <<>> THEN {"IN"} ELSE k.events, taken,
                     batch \ {<<c, "OUT">>}, FALSE)
  BY <1>2
<1> DEFINE s == conn[c].out
           taken == SubSeq(s, 1, n)
           left == SubSeq(s, n + 1, Len(s))
           k == [conn[c] EXCEPT !.out = left]
           want == IF k.out = <<>> THEN {"IN"} ELSE k.events
           rest == batch \ {<<c, "OUT">>}
<1>3. c \in DOMAIN conn /\ c \in Clients /\ ClientInv(c)
  BY DEF Open, Inv, ClientsInv, ClientInv
<1>4. ConnOK(conn[c]) /\ NetOK(net[c]) /\ net[c].st = "open"
  BY <1>3 DEF ClientInv
<1>5. /\ taken \o left = s /\ IsSeq(taken) /\ IsSeq(left)
  <2> DEFINE All == Range(s)
  <2>1. s \in Seq(All)
    BY <1>4 DEF ConnOK, IsSeq
  <2> HIDE DEF All
  <2>2. taken \in Seq(All) /\ left \in Seq(All) /\ taken \o left = s
    BY <2>1, SplitAt
  <2> QED  BY <2>2, SeqIs
<1>6. (net[c].got \o taken) \o left = net[c].got \o s
  <2> DEFINE got == net[c].got
             All == Range(got) \cup (Range(taken) \cup Range(left))
  <2>1. got \in Seq(Range(got)) /\ taken \in Seq(Range(taken)) /\ left \in Seq(Range(left))
    BY <1>4, <1>5 DEF NetOK, IsSeq
  <2> HIDE DEF got, taken, left
  <2>2. got \in Seq(All) /\ taken \in Seq(All) /\ left \in Seq(All)
    BY <2>1
  <2> HIDE DEF All
  <2>3. (got \o taken) \o left = got \o (taken \o left)
    BY <2>2, ConcatAssociative
  <2> QED  BY <1>5, <2>3 DEF got
<1>7. Answers(c) = net[c].got \o s
  BY <1>3 DEF Answers
<1>8. ASSUME Close(c, taken) PROVE Inv' /\ ServiceStep
  <2>1. IsSeq(net[c].got \o taken)
    BY <1>4, <1>5, IsSeqConcat DEF NetOK
  <2>2. Service!Beginning(net[c].got \o taken, Answers(c))
    BY <1>5, <1>6, <1>7, <2>1, BeginningOf
  <2> QED  BY <1>1, <1>3, <1>5, <1>8, <2>2, CloseStep
<1>9. /\ k.in = conn[c].in /\ k.out = left /\ k.events = conn[c].events
      /\ k.closing = conn[c].closing
      /\ k = [in |-> k.in, out |-> k.out, events |-> k.events, closing |-> k.closing]
  <2> HIDE DEF left
  <2> QED  BY <1>4 DEF ConnOK
<1> HIDE DEF k
<1>10. ConnOK(k)
  BY <1>4, <1>5, <1>9 DEF ConnOK
<1>11. ASSUME k.out # <<>> \/ ~k.closing,
              conn' = [conn EXCEPT ![c] = [k EXCEPT !.events = want]],
              net' = [net EXCEPT ![c].got = @ \o taken],
              batch' = rest, readErr' = "none", pc' = "events"
       PROVE  Inv' /\ ServiceStep
  <2>1. k.closing => "IN" \notin want /\ <<c, "IN">> \notin rest
    BY <1>3, <1>9, <1>11 DEF Inv, PlaceInv
  <2>0. rest \subseteq batch /\ IsSeq(taken) /\ k.in = conn[c].in
    BY <1>5, <1>9
  <2> HIDE DEF taken, want, rest
  <2>2. /\ Inv' /\ Contents' = Contents
        /\ \A d \in Clients \ {c} : Answers(d)' = Answers(d) /\ (Losing(d)' <=> Losing(d))
        /\ Answers(c)' = (net[c].got \o taken) \o k.out /\ (Losing(c)' <=> k.closing)
    BY <1>1, <1>3, <1>10, <1>11, <2>0, <2>1, Zenon, ArmEffect
  <2>3. Answers(c)' = Answers(c)
    BY <1>6, <1>7, <1>9, <2>2
  <2>4. Losing(c)' <=> Losing(c)
    <3>1. net[c].st # "closed" /\ k.closing = conn[c].closing
      BY <1>4, <1>9
    <3> QED  BY Zenon, <1>3, <2>2, <3>1 DEF Losing
  <2>5. \A d \in Clients : Answers(d)' = Answers(d) /\ (Losing(d)' <=> Losing(d))
    BY <2>2, <2>3, <2>4
  <2>6. ServiceStep
    BY <1>1, <1>11, <2>2, <2>5, NobodySees DEF Ended
  <2> QED  BY <2>2, <2>6
<1> QED  BY <1>0, <1>8, <1>11 DEF Arm, k

(* The request at the front of the buffer is the next one of the client. *)
LEMMA NextAsked ==
  ASSUME NEW c \in Clients, NEW fs, NEW s, Spells(s, fs), Owes(fs, asked[c], done[c]),
         fs # <<>>, done[c] \in Nat, IsSeq(asked[c])
  PROVE  /\ fs[1] \in Lines /\ Tail(fs) \in Seq(Lines)
         /\ Service!HasNext(c) /\ Service!NextOf(c) = Request(fs[1])
         /\ Owes(Tail(fs), asked[c], done[c] + 1)
<1> DEFINE a == asked[c]
           d == done[c]
           m == Len(a)
           n == Len(fs)
<1>1. fs \in Seq(Lines) /\ n \in Nat \ {0} /\ fs[1] \in Lines /\ Tail(fs) \in Seq(Lines)
  BY DEF Spells
<1>2. n = m - d /\ \A i \in 1 .. n : a[d + i] = Request(fs[i])
  BY DEF Owes
<1>3. m \in Nat /\ d \in Nat
  BY DEF IsSeq
<1>4. Len(Tail(fs)) = n - 1 /\ \A i \in 1 .. n - 1 : Tail(fs)[i] = fs[i + 1]
  BY <1>1
<1> HIDE DEF n, m, d
<1>5. d < m /\ 1 \in 1 .. n
  BY <1>1, <1>2, <1>3
<1>6. a[d + 1] = Request(fs[1])
  BY <1>2, <1>5
<1>7. n - 1 = m - (d + 1)
  BY <1>1, <1>2, <1>3
<1>8. ASSUME NEW i \in 1 .. n - 1 PROVE a[(d + 1) + i] = Request(Tail(fs)[i])
  <2>1. i + 1 \in 1 .. n /\ (d + 1) + i = d + (i + 1)
    BY <1>1, <1>3
  <2>2. a[d + (i + 1)] = Request(fs[i + 1])
    BY <1>2, <2>1
  <2> QED  BY <1>4, <2>1, <2>2
<1>9. Owes(Tail(fs), a, d + 1)
  BY <1>4, <1>7, <1>8 DEF Owes, m
<1> QED  BY <1>1, <1>5, <1>6, <1>9 DEF Service!HasNext, Service!NextOf, d, m

\* The words of a line that has any are a request that the dispatcher can be given.
LEMMA RequestIs ==
  ASSUME NEW args \in Lines, args # <<>>
  PROVE  Request(args) \in Asked /\ Request(args) # <<>>
<1>1. Request(args) = <<CommandName(args[1])>> \o Tail(args)
  BY DEF Request
<1>2. args \in Seq(Seq(Bytes))
  BY ServerConstants
<1>3. Tail(args) \in Seq(Seq(Bytes))
  <2> DEFINE A == Seq(Bytes)
  <2>1. args \in Seq(A)
    BY <1>2
  <2> HIDE DEF A
  <2>2. Tail(args) \in Seq(A)
    BY <2>1
  <2> QED  BY <2>2 DEF A
<1>4. \A x, S : \A t \in Seq(S) : <<x>> \o t # <<>>
  <2> SUFFICES ASSUME NEW x, NEW S, NEW t \in Seq(S) PROVE <<x>> \o t # <<>>
    OBVIOUS
  <2>1. <<x>> \in Seq(S \cup {x}) /\ t \in Seq(S \cup {x})
    OBVIOUS
  <2>2. Len(<<x>> \o t) = 1 + Len(t)
    BY <2>1
  <2> QED  BY <2>2
<1>5. Request(args) # <<>>
  <2> DEFINE t == Tail(args)
             x == CommandName(args[1])
             A == Seq(Bytes)
  <2>1. t \in Seq(A) /\ Request(args) = <<x>> \o t
    BY <1>1, <1>3
  <2> HIDE DEF t, x, A
  <2> QED  BY <1>4, <2>1
<1> QED  BY <1>5 DEF Asked

(* What the parser finds, for the connection that is being dispatched. *)
LEMMA Dispatched ==
  ASSUME Inv, Parses, pc = "dispatch", NEW r, r = resp_parse_request(conn[cur].in)
  PROVE  /\ cur \in DOMAIN conn /\ cur \in Clients /\ ClientInv(cur) /\ ~Losing(cur)
         /\ ConnOK(conn[cur]) /\ NetOK(net[cur]) /\ net[cur].st = "open"
         /\ Answers(cur) = net[cur].got \o conn[cur].out
         /\ r = Refuse => Service!HasNext(cur) /\ Service!NextOf(cur) = <<>>
         /\ r = NeedMore \/ r = Refuse \/ r.st = "OK"
         /\ r.st = "OK" =>
              /\ Request(r.args) \in Asked /\ Request(r.args) # <<>>
              /\ Service!HasNext(cur) /\ Service!NextOf(cur) = Request(r.args)
              /\ SubSeq(conn[cur].in, r.next, Len(conn[cur].in)) \in Seq(Bytes)
              /\ \E fs : /\ Spells(SubSeq(conn[cur].in, r.next, Len(conn[cur].in))
                                     \o (net[cur].rx \o net[cur].unsent), fs)
                         /\ Owes(fs, asked[cur], done[cur] + 1)
<1> DEFINE in == conn[cur].in
           more == net[cur].rx \o net[cur].unsent
           left == SubSeq(in, r.next, Len(in))
<1>1. cur \in DOMAIN conn /\ cur \in Clients /\ ClientInv(cur) /\ ~conn[cur].closing
  BY DEF Inv, PlaceInv, TypeInv, ClientsInv
<1>2. NetOK(net[cur]) /\ ConnOK(conn[cur]) /\ net[cur].st = "open"
  BY <1>1 DEF ClientInv
<1>3. in \in Seq(Bytes) /\ more \in Seq(Bytes)
  BY <1>2 DEF NetOK, ConnOK
<1>4. Waits(in, net[cur], asked[cur], done[cur])
  BY <1>1, <1>2 DEF ClientInv, Input
<1>5. PICK fs : Spells(in \o more, fs) /\ Owes(fs, asked[cur], done[cur])
  BY <1>4 DEF Waits
<1>6. done[cur] \in Nat /\ IsSeq(asked[cur])
  BY <1>1 DEF Inv, TypeInv
<1> HIDE DEF in, more
<1>7. \/ r = NeedMore
      \/ r = Refuse /\ fs # <<>> /\ fs[1] = <<>>
      \/ /\ fs # <<>> /\ fs[1] # <<>> /\ r.st = "OK" /\ r.args = fs[1]
         /\ left \in Seq(Bytes) /\ Spells(left \o more, Tail(fs))
  BY <1>3, <1>5, FirstLine DEF in
<1>8. NeedMore.st # "OK" /\ Refuse.st # "OK" /\ NeedMore # Refuse
  <2>1. NeedMore.st = "NEED_MORE" /\ Refuse.st = "PROTOCOL_ERR"
    BY DEF NeedMore, Refuse
  <2> QED  BY <2>1
<1>9. ASSUME r = Refuse
      PROVE  Service!HasNext(cur) /\ Service!NextOf(cur) = <<>>
  <2>1. fs # <<>> /\ fs[1] = <<>>
    <3>1. r.st # "OK"
      BY <1>8, <1>9
    <3> QED  BY <1>7, <1>8, <1>9, <3>1
  <2>2. Service!HasNext(cur) /\ Service!NextOf(cur) = Request(fs[1])
    BY <1>1, <1>5, <1>6, <2>1, NextAsked
  <2> QED  BY <2>1, <2>2 DEF Request
<1>10. ASSUME r.st = "OK"
       PROVE  /\ Request(r.args) \in Asked /\ Request(r.args) # <<>>
              /\ Service!HasNext(cur) /\ Service!NextOf(cur) = Request(r.args)
              /\ left \in Seq(Bytes)
              /\ Spells(left \o more, Tail(fs)) /\ Owes(Tail(fs), asked[cur], done[cur] + 1)
  <2>1. /\ fs # <<>> /\ fs[1] # <<>> /\ r.args = fs[1]
        /\ left \in Seq(Bytes) /\ Spells(left \o more, Tail(fs))
    BY <1>7, <1>8, <1>10
  <2>2. /\ fs[1] \in Lines
        /\ Service!HasNext(cur) /\ Service!NextOf(cur) = Request(fs[1])
        /\ Owes(Tail(fs), asked[cur], done[cur] + 1)
    BY <1>1, <1>5, <1>6, <2>1, NextAsked
  <2>3. Request(fs[1]) \in Asked /\ Request(fs[1]) # <<>>
    BY <2>1, <2>2, RequestIs
  <2> QED  BY <2>1, <2>2, <2>3
<1>11. ~Losing(cur)
  BY Zenon, <1>1, <1>2 DEF Losing
<1>12. Answers(cur) = net[cur].got \o conn[cur].out
  BY <1>1 DEF Answers
<1> QED  BY <1>1, <1>2, <1>7, <1>9, <1>10, <1>11, <1>12 DEF in, more

(* A frame has left the buffer, and its answer is behind the others. *)
LEMMA FrameEffect ==
  ASSUME Inv, Parses, pc = "dispatch", NEW c, c = cur,
         NEW r, r = resp_parse_request(conn[c].in), r.st = "OK",
         IsSeq(out'), done' = [done EXCEPT ![c] = @ + 1],
         conn' = [conn EXCEPT ![c].in = SubSeq(@, r.next, Len(@)), ![c].out = @ \o out'],
         UNCHANGED <<pc, step, fds, batch, cur, readErr, net, asked>>
  PROVE  /\ TypeInv' /\ ClientsInv' /\ PlaceInv'
         /\ \A d \in Clients \ {c} : Answers(d)' = Answers(d) /\ (Losing(d)' <=> Losing(d))
         /\ Answers(c)' = Answers(c) \o out' /\ ~Losing(c)'
<1> DEFINE left == SubSeq(conn[c].in, r.next, Len(conn[c].in))
           more == net[c].rx \o net[c].unsent
           longer == conn[c].out \o out'
<1>1. /\ c \in DOMAIN conn /\ c \in Clients /\ ClientInv(c) /\ ~Losing(c)
      /\ ConnOK(conn[c]) /\ NetOK(net[c]) /\ net[c].st = "open"
      /\ Answers(c) = net[c].got \o conn[c].out
      /\ left \in Seq(Bytes)
      /\ \E fs : Spells(left \o more, fs) /\ Owes(fs, asked[c], done[c] + 1)
  BY Dispatched
<1>2. /\ done' \in [Clients -> Nat] /\ done'[c] = done[c] + 1
      /\ \A d \in Clients \ {c} : done'[d] = done[d]
  <2>1. done \in [Clients -> Nat] /\ c \in Clients
    BY <1>1 DEF Inv, TypeInv
  <2> DEFINE m == done[c] + 1
  <2>2. m \in Nat /\ done' = [done EXCEPT ![c] = m]
    BY <2>1
  <2> HIDE DEF m
  <2>3. done' \in [Clients -> Nat] /\ done'[c] = m /\ \A d \in Clients \ {c} : done'[d] = done[d]
    BY <2>1, <2>2
  <2> QED  BY <2>3 DEF m
<1>3. /\ DOMAIN conn' = DOMAIN conn /\ conn' = [d \in DOMAIN conn' |-> conn'[d]]
      /\ \A d \in DOMAIN conn \ {c} : conn'[d] = conn[d]
      /\ conn'[c] = [[conn[c] EXCEPT !.in = left] EXCEPT !.out = longer]
  BY <1>1
<1>4. IsSeq(longer)
  BY <1>1, IsSeqConcat DEF ConnOK
<1>5. /\ conn'[c].in = left /\ conn'[c].out = longer /\ conn'[c].events = conn[c].events
      /\ conn'[c].closing = conn[c].closing
      /\ conn'[c] = [in |-> conn'[c].in, out |-> conn'[c].out, events |-> conn'[c].events,
                     closing |-> conn'[c].closing]
  <2> DEFINE from == conn[c]
             to == conn'[c]
  <2>1. from = [in |-> from.in, out |-> from.out, events |-> from.events, closing |-> from.closing]
    BY <1>1 DEF ConnOK
  <2>2. to = [[from EXCEPT !.in = left] EXCEPT !.out = longer]
    BY <1>3
  <2> HIDE DEF from, to, left, longer
  <2>3. to = [in |-> left, out |-> longer, events |-> from.events, closing |-> from.closing]
    BY <2>1, <2>2
  <2>4. /\ to.in = left /\ to.out = longer /\ to.events = from.events /\ to.closing = from.closing
        /\ to = [in |-> to.in, out |-> to.out, events |-> to.events, closing |-> to.closing]
    BY <2>3
  <2> QED  BY <2>4 DEF from, to
<1> HIDE DEF left, longer
<1>6. ConnOK(conn'[c])
  BY <1>1, <1>4, <1>5 DEF ConnOK
<1>7. Waits(Input(c)', net'[c], asked'[c], done'[c])
  <2>1. PICK fs : Spells(left \o more, fs) /\ Owes(fs, asked[c], done[c] + 1)
    BY <1>1
  <2>2. Input(c)' = left
    BY <1>1, <1>3, <1>5 DEF Input
  <2>3. Spells(Input(c)' \o (net'[c].rx \o net'[c].unsent), fs)
    BY <2>1, <2>2
  <2>4. Owes(fs, asked'[c], done'[c])
    BY <1>2, <2>1
  <2> QED  BY <2>3, <2>4 DEF Waits
<1>8. ClientInv(c)'
  BY <1>1, <1>3, <1>6, <1>7 DEF ClientInv
<1>9. \A d \in Clients \ {c} : Alone(d)
  BY <1>2, <1>3 DEF Alone
<1>10. ClientsInv' /\ \A d \in Clients \ {c} : Answers(d)' = Answers(d) /\ (Losing(d)' <=> Losing(d))
  <2>1. ClientsInv /\ asked' = asked /\ {c} \in SUBSET Clients
    BY <1>1 DEF Inv
  <2>2. \A d \in {c} : ClientInv(d)'
    BY <1>8
  <2> QED  BY <1>9, <2>1, <2>2, Others
<1>11. Answers(c)' = Answers(c) \o out'
  <2> DEFINE got == net[c].got
             had == conn[c].out
             new == out'
             All == Range(got) \cup (Range(had) \cup Range(new))
  <2>1. got \in Seq(Range(got)) /\ had \in Seq(Range(had)) /\ new \in Seq(Range(new))
    BY <1>1, SMTT(30) DEF NetOK, ConnOK, IsSeq
  <2>2. Answers(c)' = got \o longer
    BY <1>1, <1>3, <1>5 DEF Answers
  <2>3. longer = had \o new
    BY DEF longer
  <2> HIDE DEF got, had, new
  <2>4. got \in Seq(All) /\ had \in Seq(All) /\ new \in Seq(All)
    BY <2>1
  <2> HIDE DEF All
  <2>5. (got \o had) \o new = got \o (had \o new)
    BY <2>4, ConcatAssociative
  <2>6. Answers(c)' = (got \o had) \o new
    BY <2>2, <2>3, <2>5
  <2> QED  BY <1>1, <2>6 DEF got, had, new
<1>12. ~Losing(c)'
  <2>1. net'[c].st = net[c].st /\ conn'[c].closing = conn[c].closing /\ DOMAIN conn' = DOMAIN conn
    BY <1>1, <1>3, <1>5
  <2> QED  BY Zenon, <1>1, <2>1 DEF Losing
<1>13. TypeInv'
  BY <1>2, <1>3 DEF Inv, TypeInv
<1>14. PlaceInv'
  <2>1. \A d \in DOMAIN conn : conn'[d].closing = conn[d].closing /\ conn'[d].events = conn[d].events
    BY <1>3, <1>5
  <2> QED  BY <1>3, <2>1 DEF Inv, PlaceInv, Pending
<1> QED  BY <1>10, <1>11, <1>12, <1>13, <1>14

\* One pass of the dispatching loop: the first line of the input leaves it, its request is
\* executed and the reply joins the output.
LEMMA DispatchFrameStep ==
  ASSUME Inv, DispatchFrame, Parses, pc # "exited" => \A q \in Asked : C!Execute(q) => Executed(q)
  PROVE  Inv' /\ ServiceStep
<1>0. PICK c : c = cur
  OBVIOUS
<1> DEFINE r == resp_parse_request(conn[c].in)
           q == Request(r.args)
<1>1. /\ pc = "dispatch" /\ r.st = "OK" /\ C!Execute(q)
      /\ done' = [done EXCEPT ![c] = @ + 1]
      /\ UNCHANGED <<step, fds, asked>>
      /\ \/ /\ rc' = 0
            /\ conn' = [conn EXCEPT ![c].in = SubSeq(@, r.next, Len(@)), ![c].out = @ \o out']
            /\ UNCHANGED <<pc, loop, net>>
         \/ rc' # 0 /\ Close(c, <<>>)
  BY <1>0 DEF DispatchFrame
<1>2. /\ c \in DOMAIN conn /\ c \in Clients /\ ClientInv(c) /\ ~Losing(c)
      /\ ConnOK(conn[c]) /\ NetOK(net[c])
      /\ Answers(c) = net[c].got \o conn[c].out
      /\ q \in Asked /\ q # <<>>
      /\ Service!HasNext(c) /\ Service!NextOf(c) = q
  BY <1>0, <1>1, Dispatched
<1> HIDE DEF q, r
<1>4. Executed(q)
  BY <1>1, <1>2
<1>5. c \notin Over /\ Over = {d \in Clients : Losing(d)}
  BY <1>1, <1>2, OverIs DEF Ended
<1>6. ASSUME rc' = 0,
             conn' = [conn EXCEPT ![c].in = SubSeq(@, r.next, Len(@)), ![c].out = @ \o out'],
             UNCHANGED <<pc, loop, net>>
      PROVE  Inv' /\ ServiceStep
  <2>1. IsSeq(out')
    BY <1>4, <1>6 DEF Executed
  <2>2. /\ TypeInv' /\ ClientsInv' /\ PlaceInv'
        /\ \A d \in Clients \ {c} : Answers(d)' = Answers(d) /\ (Losing(d)' <=> Losing(d))
        /\ Answers(c)' = Answers(c) \o out' /\ ~Losing(c)'
    BY <1>0, <1>1, <1>6, <2>1, FrameEffect DEF r, loop
  <2>4. Over' = Over
    <3>1. ASSUME NEW d \in Clients PROVE Losing(d)' <=> Losing(d)
      <4>1. CASE d = c
        BY Zenon, <1>2, <2>2, <4>1
      <4>2. CASE d # c
        BY <2>2, <4>2
      <4> QED  BY <4>1, <4>2
    <3> QED  BY <1>1, <1>5, <1>6, <3>1, OverIs DEF Ended
  <2>5. [d \in Clients |-> Answers(d)]'
          = [[d \in Clients |-> Answers(d)] EXCEPT ![c] = @ \o out']
    BY <1>2, <2>2
  <2>6. (pc \notin {"hash", "tests"}) /\ (pc \notin {"hash", "tests"})' = (pc \notin {"hash", "tests"})
    BY <1>1, <1>6
  <2>7. Service!Serve(c)
    BY <1>1, <1>2, <1>4, <1>5, <1>6, <2>4, <2>5, <2>6 DEF Service!Serve, Executed
  <2> QED  BY <1>2, <2>2, <2>7 DEF Inv, ServiceStep, Service!Next
<1>7. ASSUME rc' # 0, Close(c, <<>>)
      PROVE  Inv' /\ ServiceStep
  <2>1. IsSeq(<<>>) /\ pc \in Serving
    BY <1>1 DEF IsSeq, Serving
  <2>2. /\ done' \in [Clients -> Nat] /\ \A d \in Clients \ {c} : done'[d] = done[d]
    <3>1. done \in [Clients -> Nat] /\ c \in Clients
      BY <1>2 DEF Inv, TypeInv
    <3> DEFINE m == done[c] + 1
    <3>2. m \in Nat /\ done' = [done EXCEPT ![c] = m]
      BY <1>1, <3>1
    <3> HIDE DEF m
    <3> QED  BY <3>1, <3>2
  <2>3. /\ ClientsInv' /\ PlaceInv'
        /\ \A d \in Clients \ {c} : Answers(d)' = Answers(d) /\ (Losing(d)' <=> Losing(d))
        /\ Answers(c)' = net[c].got \o <<>> /\ Losing(c)'
        /\ pc' = "events" /\ readErr' = "none"
        /\ net' = [d \in Clients |-> net'[d]]
        /\ DOMAIN conn' \subseteq Clients /\ conn' = [d \in DOMAIN conn' |-> conn'[d]]
    BY <1>1, <1>2, <1>7, <2>1, <2>2, CloseEffect DEF Inv
  <2>4. TypeInv'
    BY <1>1, <2>2, <2>3 DEF Inv, TypeInv, Serving
  <2>6. Over' = Over \cup {c}
    BY <1>2, <1>5, <2>3, OverIs DEF Ended
  <2>7. Service!Beginning(Answers(c)', Answers(c))
    <3>1. IsSeq(net[c].got) /\ IsSeq(conn[c].out) /\ net[c].got \o <<>> = net[c].got
      BY <1>2, NothingBehind DEF NetOK, ConnOK
    <3> QED  BY <1>2, <2>3, <3>1, BeginningOf
  <2>8. Service!Lose({c})
    <3>1. {c} \in SUBSET Clients /\ \A d \in {c} : Service!Beginning(Answers(d)', Answers(d))
      BY <1>2, <2>7
    <3> QED  BY <2>3, <2>6, <3>1, Lost
  <2>9. (pc \notin {"hash", "tests"}) /\ (pc \notin {"hash", "tests"})' = (pc \notin {"hash", "tests"})
    BY <1>1, <2>3
  <2>10. Service!Serve(c)
    BY <1>1, <1>2, <1>4, <1>5, <1>7, <2>8, <2>9 DEF Service!Serve, Executed
  <2> QED  BY <1>2, <2>3, <2>4, <2>10 DEF Inv, ServiceStep, Service!Next
<1> QED  BY <1>1, <1>6, <1>7

(* The error replies that are due, or as much of them as there is room for. *)
LEMMA ErrorsAre ==
  /\ \A msg : IsSeq(C!Error(msg)) /\ PartsOf(msg) = Service!Beginnings(C!Error(msg))
  /\ C!Error("Protocol error") = Service!ProtocolError
  /\ C!Error("request too large") \in Service!ReadErrors
  /\ C!Error("out of memory") \in Service!ReadErrors
  /\ \A part : part \in Service!Beginnings(Service!ProtocolError)
                          \cup UNION {Service!Beginnings(m) : m \in Service!ReadErrors} => IsSeq(part)
  /\ <<>> \in Service!Beginnings(Service!ProtocolError)
  /\ <<>> \in UNION {Service!Beginnings(m) : m \in Service!ReadErrors}
<1>1. \A msg : C!Error(msg) = Service!K!Error(msg)
  BY DEF C!Error, Service!K!Error, C!Crlf, Service!K!Crlf
<1>2. \A msg : IsSeq(Service!K!Error(msg))
  BY PlainReplies
<1>3. Service!K!OutOfMemory = Service!K!Error("out of memory")
  BY DEF Service!K!OutOfMemory, Service!K!Error
<1>4. ASSUME NEW s, IsSeq(s)
      PROVE  <<>> \in Service!Beginnings(s) /\ \A part \in Service!Beginnings(s) : IsSeq(part)
  <2> DEFINE All == Range(s)
  <2>1. s \in Seq(All)
    BY <1>4 DEF IsSeq
  <2> HIDE DEF All
  <2>2. SubSeq(s, 1, 0) = <<>> /\ 0 \in 0 .. Len(s)
    BY <2>1
  <2>3. ASSUME NEW n \in 0 .. Len(s) PROVE IsSeq(SubSeq(s, 1, n))
    <3>1. SubSeq(s, 1, n) \in Seq(All)
      BY <2>1, SplitAt
    <3> QED  BY <3>1, SeqIs
  <2>4. <<>> \in Service!Beginnings(s)
    BY <2>2 DEF Service!Beginnings
  <2> QED  BY <2>3, <2>4 DEF Service!Beginnings
<1>5. \A msg : PartsOf(msg) = Service!Beginnings(C!Error(msg))
  BY DEF PartsOf, Service!Beginnings
<1>6. \A m \in Service!ReadErrors \cup {Service!ProtocolError} : IsSeq(m)
  BY <1>2, <1>3 DEF Service!ReadErrors, Service!ProtocolError
<1>7. Service!K!Error("request too large") \in Service!ReadErrors
  BY DEF Service!ReadErrors
<1> QED  BY <1>1, <1>2, <1>3, <1>4, <1>5, <1>6, <1>7 DEF Service!ReadErrors, Service!ProtocolError

\* What the end of a dispatch adds to the output: a beginning of each error it met, in this order.
LEMMA WithErrorsIs ==
  ASSUME NEW s, IsSeq(s), NEW malformed \in BOOLEAN, NEW o \in WithErrors(s, malformed),
         readErr \in {"none", "request too large", "out of memory"}
  PROVE  /\ ~malformed /\ readErr = "none" => o = s
         /\ \E e, f : /\ e \in IF malformed THEN Service!Beginnings(Service!ProtocolError) ELSE {<<>>}
                      /\ f \in UNION {Service!Beginnings(m) : m \in Service!ReadErrors}
                      /\ IsSeq(e) /\ IsSeq(f) /\ o = (s \o e) \o f
<1> DEFINE P == Service!Beginnings(Service!ProtocolError)
           F == UNION {Service!Beginnings(m) : m \in Service!ReadErrors}
           first == IF malformed THEN WithError(s, "Protocol error") ELSE {s}
           none == <<>>
<1>1. none \in P /\ none \in F /\ IsSeq(none) /\ \A part \in P \cup F : IsSeq(part)
  BY ErrorsAre DEF IsSeq
<1>2. \A p, msg : \A x \in WithError(p, msg) : \E part \in PartsOf(msg) : x = p \o part
  BY DEF WithError
<1>3. PartsOf("Protocol error") = P
  BY ErrorsAre
<1>4. readErr # "none" => PartsOf(readErr) \subseteq F
  BY ErrorsAre
<1> HIDE DEF P, F, none
<1>5. ASSUME NEW p \in first
      PROVE  \E e \in IF malformed THEN P ELSE {none} : IsSeq(e) /\ p = s \o e
  <2>1. CASE malformed
    BY <1>1, <1>2, <1>3, <2>1
  <2>2. CASE ~malformed
    BY <1>1, <2>2, NothingBehind DEF none
  <2> QED  BY <2>1, <2>2
<1>6. CASE readErr = "none"
  <2>1. o \in first
    BY <1>6 DEF WithErrors
  <2>2. PICK e \in IF malformed THEN P ELSE {none} : IsSeq(e) /\ o = s \o e
    BY <1>5, <2>1
  <2>3. IsSeq(s \o e)
    BY <2>2, IsSeqConcat
  <2>4. o = (s \o e) \o none
    BY <2>2, <2>3, NothingBehind DEF none
  <2>5. ~malformed => o = s
    BY <2>1
  <2> QED  BY <1>1, <2>2, <2>4, <2>5 DEF P, F, none
<1>7. CASE readErr # "none"
  <2>1. o \in UNION {WithError(p, readErr) : p \in first}
    BY <1>7 DEF WithErrors
  <2>2. PICK p \in first : o \in WithError(p, readErr)
    BY <2>1
  <2>3. PICK f \in F : o = p \o f
    <3>1. PICK f \in PartsOf(readErr) : o = p \o f
      BY <1>2, <2>2
    <3> QED  BY <1>4, <1>7, <3>1
  <2>4. PICK e \in IF malformed THEN P ELSE {none} : IsSeq(e) /\ p = s \o e
    BY <1>5, <2>2
  <2>5. IsSeq(f)
    BY <1>1, <2>3
  <2> QED  BY <1>7, <2>3, <2>4, <2>5 DEF P, F, none
<1> QED  BY <1>6, <1>7

(* The answers of one client, with something behind them. *)
LEMMA Behind ==
  ASSUME NEW g, NEW s, NEW e, NEW f, IsSeq(g), IsSeq(s), IsSeq(e), IsSeq(f),
         NEW o, o = (s \o e) \o f, NEW all, all = g \o s
  PROVE  (g \o <<>>) \o o = (all \o e) \o f
<1> DEFINE All == (Range(g) \cup Range(s)) \cup (Range(e) \cup Range(f))
<1>1. g \in Seq(Range(g)) /\ s \in Seq(Range(s)) /\ e \in Seq(Range(e)) /\ f \in Seq(Range(f))
  BY DEF IsSeq
<1>2. g \in Seq(All) /\ s \in Seq(All) /\ e \in Seq(All) /\ f \in Seq(All)
  BY <1>1
<1>3. g \o <<>> = g
  BY NothingBehind
<1> DEFINE se == s \o e
           gs == g \o s
<1> HIDE DEF All
<1>4. se \in Seq(All) /\ gs \in Seq(All)
  BY <1>2
<1>5. gs \o e = g \o se
  BY <1>2, ConcatAssociative
<1> HIDE DEF se, gs
<1>6. (g \o se) \o f = g \o (se \o f)
  <2>1. g \in Seq(All) /\ se \in Seq(All) /\ f \in Seq(All)
    BY <1>2, <1>4
  <2> QED  BY <2>1, ConcatAssociative, SMTT(30)
<1> QED  BY <1>3, <1>5, <1>6 DEF se, gs

\* What happens to the connection when the dispatching loop finds no further frame.
LEMMA EndingIs ==
  ASSUME DispatchEnd
  PROVE  LET r         == resp_parse_request(conn[cur].in)
             malformed == r.st = "PROTOCOL_ERR"
             closing   == malformed \/ readErr # "none"
         IN /\ pc = "dispatch" /\ r.st # "OK" /\ UNCHANGED <<step, fds, asked, done, table>>
            /\ \E o \in WithErrors(conn[cur].out, malformed) :
                 \/ Close(cur, <<>>)
                 \/ \E fault : Arm(cur, [conn[cur] EXCEPT !.out = o, !.closing = closing],
                                 Interest(closing, o), <<>>, batch, fault)
<1> DEFINE r == resp_parse_request(conn[cur].in)
           malformed == r.st = "PROTOCOL_ERR"
           closing == malformed \/ readErr # "none"
           outs == WithErrors(conn[cur].out, malformed)
<1>1. pc = "dispatch" /\ UNCHANGED <<step, fds, asked, done, table>>
  BY DEF DispatchEnd, history
<1>2. PICK st \in {r.st} \ {"OK"} :
        \E cl \in {st = "PROTOCOL_ERR" \/ readErr # "none"},
           os \in {WithErrors(conn[cur].out, st = "PROTOCOL_ERR")} :
        \E o \in os :
        \E want \in {Interest(cl, o)} :
          IF want = {} THEN Close(cur, <<>>) /\ FailsIf(o # Longest(os))
          ELSE Arm(cur, [conn[cur] EXCEPT !.out = o, !.closing = cl], want, <<>>, batch,
                   o # Longest(os))
  BY Zenon DEF DispatchEnd
<1>3. st = r.st /\ st # "OK"
  OBVIOUS
<1>4. \E cl \in {closing}, os \in {outs} :
        \E o \in os :
        \E want \in {Interest(cl, o)} :
          IF want = {} THEN Close(cur, <<>>) /\ FailsIf(o # Longest(os))
          ELSE Arm(cur, [conn[cur] EXCEPT !.out = o, !.closing = cl], want, <<>>, batch,
                   o # Longest(os))
  BY <1>2, <1>3
<1> HIDE DEF closing, outs
<1>5. \E o \in outs :
        \E want \in {Interest(closing, o)} :
          IF want = {} THEN Close(cur, <<>>) /\ FailsIf(o # Longest(outs))
          ELSE Arm(cur, [conn[cur] EXCEPT !.out = o, !.closing = closing], want, <<>>, batch,
                   o # Longest(outs))
  BY Zenon, <1>4
<1>6. PICK o \in outs :
          \/ Close(cur, <<>>)
          \/ \E fault : Arm(cur, [conn[cur] EXCEPT !.out = o, !.closing = closing],
                          Interest(closing, o), <<>>, batch, fault)
  BY Zenon, <1>5
<1> QED  BY Zenon, <1>1, <1>3, <1>6 DEF outs, closing

\* The dispatching loop is done with a connection: errors are reported, the events it waits for
\* are armed, and it may be closed.
LEMMA DispatchEndStep ==
  ASSUME Inv, DispatchEnd, Parses
  PROVE  Inv' /\ ServiceStep
<1>0. PICK c : c = cur
  OBVIOUS
<1> DEFINE r == resp_parse_request(conn[c].in)
           s == conn[c].out
           malformed == r.st = "PROTOCOL_ERR"
           closing == malformed \/ readErr # "none"
<1>1. /\ pc = "dispatch" /\ r.st # "OK" /\ UNCHANGED <<step, fds, asked, done, table>>
      /\ \E o \in WithErrors(s, malformed) :
           \/ Close(c, <<>>)
           \/ /\ batch' = batch
              /\ conn' = [conn EXCEPT ![c] = [[conn[c] EXCEPT !.out = o, !.closing = closing]
                                                EXCEPT !.events = Interest(closing, o)]]
              /\ net' = [net EXCEPT ![c].got = @ \o <<>>]
              /\ readErr' = "none" /\ pc' = "events"
  <2>1. PICK o \in WithErrors(s, malformed) :
             \/ Close(c, <<>>)
             \/ \E fault : Arm(c, [conn[c] EXCEPT !.out = o, !.closing = closing],
                             Interest(closing, o), <<>>, batch, fault)
    BY <1>0, EndingIs
  <2>2. pc = "dispatch" /\ r.st # "OK" /\ UNCHANGED <<step, fds, asked, done, table>>
    BY <1>0, EndingIs
  <2> HIDE DEF closing, malformed, s, r
  <2> QED  BY Zenon, <2>1, <2>2 DEF Arm
<1>2. /\ c \in DOMAIN conn /\ c \in Clients /\ ~Losing(c)
      /\ ConnOK(conn[c]) /\ NetOK(net[c]) /\ net[c].st = "open"
      /\ Answers(c) = net[c].got \o s
      /\ r = Refuse => Service!HasNext(c) /\ Service!NextOf(c) = <<>>
      /\ r = NeedMore \/ r = Refuse \/ r.st = "OK"
  BY <1>0, <1>1, Dispatched
<1>3. malformed <=> r = Refuse
  <2>1. NeedMore.st # "PROTOCOL_ERR" /\ Refuse.st = "PROTOCOL_ERR"
    BY DEF NeedMore, Refuse
  <2> QED  BY <1>1, <1>2, <2>1
<1>4. malformed \in BOOLEAN /\ closing \in BOOLEAN
  OBVIOUS
<1> HIDE DEF r
<1>5. IsSeq(s) /\ IsSeq(net[c].got) /\ IsSeq(<<>>)
  BY <1>2 DEF ConnOK, NetOK, IsSeq
<1>6. readErr \in {"none", "request too large", "out of memory"}
  BY DEF Inv, TypeInv
<1>7. ASSUME Close(c, <<>>) PROVE Inv' /\ ServiceStep
  BY <1>1, <1>2, <1>7, CloseUnsent DEF Serving
<1>8. ASSUME NEW o \in WithErrors(s, malformed), batch' = batch,
             conn' = [conn EXCEPT ![c] = [[conn[c] EXCEPT !.out = o, !.closing = closing]
                                            EXCEPT !.events = Interest(closing, o)]],
             net' = [net EXCEPT ![c].got = @ \o <<>>],
             readErr' = "none", pc' = "events"
      PROVE  Inv' /\ ServiceStep
  <2> HIDE DEF malformed
  <2> DEFINE k == [conn[c] EXCEPT !.out = o, !.closing = closing]
             want == Interest(closing, o)
  <2>1. ~malformed /\ readErr = "none" => o = s
    BY <1>4, <1>5, <1>6, <1>8, WithErrorsIs
  <2>2. PICK e, f :
          /\ e \in IF malformed THEN Service!Beginnings(Service!ProtocolError) ELSE {<<>>}
          /\ f \in UNION {Service!Beginnings(m) : m \in Service!ReadErrors}
          /\ IsSeq(e) /\ IsSeq(f) /\ o = (s \o e) \o f
    <3> HIDE DEF s, closing
    <3> QED  BY Zenon, <1>4, <1>5, <1>6, <1>8, WithErrorsIs
  <2>3. IsSeq(o)
    <3>1. IsSeq(s \o e)
      BY <1>5, <2>2, IsSeqConcat
    <3> QED  BY <2>2, <3>1, IsSeqConcat
  <2>4. /\ k.in = conn[c].in /\ k.out = o /\ k.closing = closing /\ k.events = conn[c].events
        /\ k = [in |-> k.in, out |-> k.out, events |-> k.events, closing |-> k.closing]
    <3>1. ASSUME NEW from, NEW g, NEW to,
                 from = [in |-> from.in, out |-> from.out, events |-> from.events,
                         closing |-> from.closing],
                 to = [from EXCEPT !.out = o, !.closing = g]
          PROVE  /\ to.in = from.in /\ to.out = o /\ to.closing = g /\ to.events = from.events
                 /\ to = [in |-> to.in, out |-> to.out, events |-> to.events,
                          closing |-> to.closing]
      <4>1. to = [in |-> from.in, out |-> o, events |-> from.events, closing |-> g]
        BY <3>1
      <4> QED  BY <4>1
    <3>2. conn[c] = [in |-> conn[c].in, out |-> conn[c].out, events |-> conn[c].events,
                     closing |-> conn[c].closing]
      BY <1>2 DEF ConnOK
    <3>3. k = [conn[c] EXCEPT !.out = o, !.closing = closing]
      OBVIOUS
    <3> HIDE DEF k, closing
    <3> QED  BY Zenon, <3>1, <3>2, <3>3
  <2>5. conn' = [conn EXCEPT ![c] = [k EXCEPT !.events = want]]
    BY <1>8
  <2> HIDE DEF k
  <2>6. ConnOK(k)
    <3>1. k.closing \in BOOLEAN
      BY Zenon, <1>4, <2>4
    <3>2. k.in \in Seq(Bytes) /\ IsSeq(k.out)
      BY <1>2, <2>3, <2>4 DEF ConnOK
    <3> QED  BY <2>4, <3>1, <3>2 DEF ConnOK
  <2>7. k.closing => "IN" \notin want /\ <<c, "IN">> \notin batch
    <3>1. <<c, "IN">> \notin batch
      BY <1>0, <1>1 DEF Inv, PlaceInv
    <3>2. closing => "IN" \notin want
      BY DEF Interest
    <3> HIDE DEF want, closing
    <3> QED  BY Zenon, <2>4, <3>1, <3>2
  <2> DEFINE none == <<>>
  <2>8. batch \subseteq batch /\ IsSeq(none) /\ k.in = conn[c].in /\ pc \in Serving
        /\ net' = [net EXCEPT ![c].got = @ \o none]
    BY <1>1, <1>5, <1>8, <2>4 DEF Serving
  <2> HIDE DEF want, none, closing
  <2>9. /\ Inv' /\ Contents' = Contents
        /\ \A d \in Clients \ {c} : Answers(d)' = Answers(d) /\ (Losing(d)' <=> Losing(d))
        /\ Answers(c)' = (net[c].got \o none) \o k.out /\ (Losing(c)' <=> k.closing)
    BY <1>1, <1>2, <1>8, <2>5, <2>6, <2>7, <2>8, Zenon, ArmEffect
  <2>10. Answers(c)' = ((net[c].got \o s) \o e) \o f
    <3> DEFINE g == net[c].got
               all == g \o s
    <3>1. IsSeq(g) /\ IsSeq(s) /\ IsSeq(e) /\ IsSeq(f) /\ o = (s \o e) \o f /\ all = g \o s
      BY <1>5, <2>2
    <3> HIDE DEF g, all, s
    <3>2. (g \o <<>>) \o o = (all \o e) \o f
      BY <3>1, Behind
    <3> QED  BY <2>4, <2>9, <3>2 DEF none, g, all
  <2>11. Losing(c)' <=> closing
    BY Zenon, <2>4, <2>9
  <2>12. CASE ~closing
    <3>1. o = s
      BY <2>1, <2>12 DEF closing
    <3>2. Answers(c)' = Answers(c)
      BY <1>2, <1>5, <2>4, <2>9, <3>1, NothingBehind DEF none
    <3>3. Losing(c)' <=> Losing(c)
      BY Zenon, <1>2, <2>11, <2>12
    <3>4. \A d \in Clients : Answers(d)' = Answers(d) /\ (Losing(d)' <=> Losing(d))
      <4> SUFFICES ASSUME NEW d \in Clients
                   PROVE  Answers(d)' = Answers(d) /\ (Losing(d)' <=> Losing(d))
        OBVIOUS
      <4>1. CASE d = c
        BY Zenon, <3>2, <3>3, <4>1
      <4>2. CASE d # c
        BY <2>9, <4>2
      <4> QED  BY <4>1, <4>2
    <3>5. ServiceStep
      BY <1>1, <1>8, <2>9, <3>4, NobodySees DEF Ended
    <3> QED  BY <2>9, <3>5
  <2>13. CASE closing
    <3>1. Over' = Over \cup {c} /\ c \notin Over
      <4>1. \A d \in Clients \ {c} : Losing(d)' <=> Losing(d)
        BY <2>9
      <4>2. Losing(c)' /\ ~Losing(c)
        BY Zenon, <1>2, <2>11, <2>13
      <4>3. pc \notin Ended /\ pc' \notin Ended
        BY <1>1, <1>8 DEF Ended
      <4> QED  BY <1>2, <4>1, <4>2, <4>3, OverIs
    <3>2. [d \in Clients |-> Answers(d)]'
            = [[d \in Clients |-> Answers(d)] EXCEPT ![c] = @ \o e \o f]
      BY <1>2, <2>9, <2>10
    <3>3. e \in IF Service!HasNext(c) /\ Service!NextOf(c) = <<>>
                  THEN Service!Beginnings(Service!ProtocolError) ELSE {<<>>}
      BY <1>2, <1>3, <2>2, ErrorsAre
    <3>4. (pc \notin {"hash", "tests"})' = (pc \notin {"hash", "tests"})
      BY <1>1, <1>8
    <3>5. Service!GiveUp(c)
      BY <1>1, <2>2, <2>9, <3>1, <3>2, <3>3, <3>4 DEF Service!GiveUp, Contents
    <3> QED  BY <1>2, <2>9, <3>5 DEF ServiceStep, Service!Next
  <2> QED  BY <2>12, <2>13
<1> QED  BY <1>1, <1>7, <1>8

-----------------------------------------------------------------------------
(* What the steps do to the store.                                         *)

(* Which calls the self tests of the table make. *)
LEMMA HashTestCalls ==
  ASSUME Inv, HashTest
  PROVE  LET call == HashCalls[step + 1]
         IN /\ pc = "hash" /\ pc' = "hash" /\ call[2] \in Keys
            /\ \/ /\ call[3] \in Seq(Bytes)
                  /\ \E s \in C!T!HtSet(table, call[2], call[3]) : table' = s.t
               \/ table' = C!T!HtDel(table, call[2])
<1> DEFINE call == HashCalls[step + 1]
<1>1. step \in Nat /\ step < Len(HashCalls) /\ Len(HashCalls) \in Nat
  BY DEF HashTest, Inv, TypeInv, HashCalls
<1>2. call[2] \in Keys /\ (call[1] = "ht_set" => call[3] \in Seq(Bytes))
  BY <1>1, ServerConstants
<1>3. pc = "hash" /\ pc' = "hash"
  BY DEF HashTest
<1>4. \/ /\ call[1] = "ht_set"
         /\ \E s \in C!T!HtSet(table, call[2], call[3]) : table' = s.t
      \/ table' = C!T!HtDel(table, call[2])
  BY DEF HashTest
<1> HIDE DEF call
<1>5. \/ /\ call[3] \in Seq(Bytes)
         /\ \E s \in C!T!HtSet(table, call[2], call[3]) : table' = s.t
      \/ table' = C!T!HtDel(table, call[2])
  BY <1>2, <1>4
<1> QED  BY <1>2, <1>3, <1>5 DEF call

(* The last self tests start from an empty store and use two keys. *)
LEMMA CommandTestKeys ==
  ASSUME Inv, CommandTest,
         \A q \in Asked : C!Execute(q) =>
            /\ Leaves(q)
            /\ q[1] = "FLUSHDB" /\ Len(q) = 1 => DOMAIN Contents' = {},
         step > Len(Early) => DOMAIN Contents \subseteq LateKeys
  PROVE  step' > Len(Early) => DOMAIN Contents' \subseteq LateKeys
<1> DEFINE r == Cases[step + 1].req
           n == Len(Early)
<1>1. step' = step + 1
  BY DEF CommandTest
<1>2. n \in Nat /\ step \in Nat /\ step < Len(Cases) /\ Len(Cases) = n + 8
  BY TestCases DEF CommandTest, Inv, TypeInv
<1>3. r \in Asked /\ C!Execute(r)
  BY <1>2, TestCases DEF CommandTest
<1>4. Leaves(r) /\ (r[1] = "FLUSHDB" /\ Len(r) = 1 => DOMAIN Contents' = {})
  BY <1>3
<1> SUFFICES ASSUME step' > n PROVE DOMAIN Contents' \subseteq LateKeys
  OBVIOUS
<1>5. CASE step = n
  <2>1. r = <<"FLUSHDB">>
    BY <1>5, TestCases
  <2>2. r[1] = "FLUSHDB" /\ Len(r) = 1
    BY <2>1
  <2> HIDE DEF r
  <2> QED  BY <1>4, <2>2
<1>6. CASE step = n + 1
  <2>1. r[1] = "DBSIZE"
    <3>1. r = <<"DBSIZE">>
      BY <1>2, <1>6, TestCases
    <3> QED  BY <3>1
  <2>2. DOMAIN Contents \subseteq LateKeys
    BY <1>2, <1>6
  <2> HIDE DEF r
  <2> QED  BY <1>4, <2>1, <2>2 DEF Leaves
<1>7. CASE step > n + 1
  <2>1. r[2] \in LateKeys
    <3>1. step + 1 \in n + 3 .. Len(Cases)
      BY <1>2, <1>7
    <3> QED  BY <3>1, TestCases
  <2>2. DOMAIN Contents \subseteq LateKeys
    BY <1>2, <1>7
  <2> HIDE DEF r
  <2> QED  BY <1>4, <2>1, <2>2 DEF Leaves
<1> QED  BY <1>1, <1>2, <1>5, <1>6, <1>7

(* Which request a step executes. *)
LEMMA ExecutesAsked ==
  ASSUME Inv, Parses, CommandTest \/ DispatchFrame
  PROVE  /\ \E q \in Asked : C!Execute(q)
         /\ CommandTest => pc = "tests" /\ pc' = "tests"
         /\ DispatchFrame => pc = "dispatch" /\ pc' \in {"dispatch", "events"}
<1>1. ASSUME CommandTest
      PROVE  (\E q \in Asked : C!Execute(q)) /\ pc = "tests" /\ pc' = "tests"
  <2>1. step + 1 \in 1 .. Len(Cases)
    <3> DEFINE n == Len(Cases)
    <3>1. n \in Nat
      <4> DEFINE m == Len(Early)
      <4>1. m \in Nat /\ n = m + 8
        BY TestCases
      <4> HIDE DEF m, n
      <4> QED  BY <4>1
    <3>2. step \in Nat /\ step < n
      BY <1>1 DEF CommandTest, Inv, TypeInv
    <3> HIDE DEF n
    <3>3. step + 1 \in 1 .. n
      BY <3>1, <3>2
    <3> QED  BY <3>3 DEF n
  <2>2. Cases[step + 1].req \in Asked /\ C!Execute(Cases[step + 1].req)
    BY <1>1, <2>1, TestCases DEF CommandTest
  <2> QED  BY <1>1, <2>2 DEF CommandTest
<1>2. ASSUME DispatchFrame
      PROVE  (\E q \in Asked : C!Execute(q)) /\ pc = "dispatch" /\ pc' \in {"dispatch", "events"}
  <2>1. PICK r : /\ r = resp_parse_request(conn[cur].in) /\ pc = "dispatch" /\ r.st = "OK"
                 /\ C!Execute(Request(r.args)) /\ (pc' = pc \/ Close(cur, <<>>))
    BY <1>2 DEF DispatchFrame
  <2>2. Request(r.args) \in Asked
    BY <2>1, Dispatched
  <2>3. pc' \in {"dispatch", "events"}
    BY <2>1 DEF Close
  <2> QED  BY <2>1, <2>2, <2>3
<1> QED  BY <1>1, <1>2

(* The other steps leave the store alone. *)
LEMMA StoreAlone ==
  ASSUME [Next]_vars
  PROVE  \/ HashTest \/ ParserTest \/ CommandTest \/ TestsDone \/ DispatchFrame \/ Exit
         \/ /\ table' = table
            /\ \/ pc' = pc /\ step' = step
               \/ pc # "exited" /\ pc' \notin {"tests", "listen", "exited"}
<1> DEFINE Left == /\ table' = table
                   /\ \/ pc' = pc /\ step' = step
                      \/ pc # "exited" /\ pc' \notin {"tests", "listen", "exited"}
<1>1. UNCHANGED vars => Left
  BY DEF vars, program, store
<1>2. ClientStep => Left
  BY DEF ClientStep, Connect, Send, Leave, program, store
<1>3. Signal => Left
  BY DEF Signal, store
<1>4. NetInit => Left
  BY DEF NetInit, InitFails, GoOn, store
<1>5. Test \/ EpollWait \/ BatchDone \/ ListenerFails => Left
  BY DEF Test, EpollWait, BatchDone, ListenerFails, store
<1>6. AcceptClients => Left
  BY DEF AcceptClients, program, store
<1>7. HandleRead => Left
  BY DEF HandleRead, Close, store
<1>8. DispatchEnd => Left
  <2> SUFFICES ASSUME DispatchEnd PROVE Left
    OBVIOUS
  <2>1. pc = "dispatch" /\ table' = table
    BY EndingIs
  <2>2. pc' = "events"
    BY SMTT(30) DEF DispatchEnd, Arm, Close
  <2> QED  BY <2>1, <2>2
<1>9. HandleWrite => Left
  BY DEF HandleWrite, Arm, Close, store
<1>10. Teardown => Left
  BY DEF Teardown, store
<1> HIDE DEF Left
<1>11. \/ HashTest \/ ParserTest \/ CommandTest \/ TestsDone \/ DispatchFrame \/ Exit \/ Left
  BY <1>1, <1>2, <1>3, <1>4, <1>5, <1>6, <1>7, <1>8, <1>9, <1>10 DEF Next, ProgramStep
<1> QED  BY <1>11 DEF Left

-----------------------------------------------------------------------------
(* The beginning, and every step.                                          *)

\* What a client of this instance sends is lines.
LEMMA SessionIs ==
  ASSUME NEW session \in UNION Range(Sessions)
  PROVE  session \in Seq(Lines)
<1>1. session \in Seq(Range(session))
  BY ServerConstants
<1>2. Range(session) \subseteq Lines
  BY DEF Lines
<1> QED  BY <1>1, <1>2

\* At the start the whole input of a client is unsent and none of its requests is executed.
LEMMA InitNet ==
  ASSUME NEW session \in UNION Range(Sessions),
         NEW a, a = [i \in DOMAIN session |-> Request(session[i])],
         NEW n, n = [st |-> "idle", rx |-> <<>>, gone |-> FALSE, got |-> <<>>,
                     unsent |-> FlattenSeq([i \in DOMAIN session |->
                                              LineFrame(session[i], <<LF>>)])]
  PROVE  IsSeq(a) /\ NetOK(n) /\ n.st = "idle" /\ n.got = <<>> /\ Waits(<<>>, n, a, 0)
<1> DEFINE u == FlattenSeq(FramesOf(session))
<1>1. session \in Seq(Lines)
  BY SessionIs
<1>2. u \in Seq(Bytes) /\ Spells(u, session)
  BY <1>1, FramesType DEF Spells
<1>3. n = [st |-> "idle", rx |-> <<>>, gone |-> FALSE, got |-> <<>>, unsent |-> u]
  BY Zenon DEF FramesOf, Frame
<1> HIDE DEF u
<1>4. /\ n.st = "idle" /\ n.rx = <<>> /\ n.got = <<>> /\ n.unsent = u
      /\ n = [st |-> n.st, rx |-> n.rx, gone |-> n.gone, got |-> n.got, unsent |-> n.unsent]
  <2>1. ASSUME NEW m, NEW no, NEW none,
               m = [st |-> "idle", rx |-> none, gone |-> no, got |-> none, unsent |-> u]
        PROVE  /\ m.st = "idle" /\ m.rx = none /\ m.got = none /\ m.unsent = u
               /\ m = [st |-> m.st, rx |-> m.rx, gone |-> m.gone, got |-> m.got,
                       unsent |-> m.unsent]
    BY <2>1
  <2> QED  BY Zenon, <1>3, <2>1
<1>5. NetOK(n)
  <2>1. IsSeq(<<>>) /\ <<>> \in Seq(Bytes)
    BY DEF IsSeq
  <2> QED  BY <1>2, <1>4, <2>1 DEF NetOK
<1>6. <<>> \o (n.rx \o n.unsent) = u
  BY <1>2, <1>4
<1>7. Len(a) = Len(session) /\ \A i \in 1 .. Len(session) : a[i] = Request(session[i])
  BY <1>1
<1>8. Owes(session, a, 0)
  <2> DEFINE m == Len(session)
  <2>1. m \in Nat /\ Len(a) = m
    BY <1>1, <1>7
  <2>2. \A i \in 1 .. m : 0 + i = i
    OBVIOUS
  <2>3. m = Len(a) - 0 /\ \A i \in 1 .. m : a[0 + i] = Request(session[i])
    BY <1>7, <2>1, <2>2
  <2> QED  BY <2>3 DEF Owes
<1>9. Waits(<<>>, n, a, 0)
  BY <1>2, <1>6, <1>8 DEF Waits
<1>10. IsSeq(a)
  BY <1>1 DEF IsSeq, Range
<1> QED  BY <1>4, <1>5, <1>9, <1>10

\* The initial states satisfy the invariant and are those of the service.
LEMMA Begins ==
  ASSUME Init, DOMAIN Contents = {}
  PROVE  Inv /\ Service!Init
<1>1. /\ pc = "hash" /\ step = 0 /\ fds = {} /\ batch = {} /\ readErr = "none" /\ conn = Nobody
      /\ C!Init /\ done = [c \in Clients |-> 0]
  BY DEF Init
<1>2. PICK session \in [Clients -> UNION Range(Sessions)] :
        /\ asked = [c \in Clients |-> [i \in DOMAIN session[c] |-> Request(session[c][i])]]
        /\ net = [c \in Clients |->
                    [st |-> "idle", rx |-> <<>>, gone |-> FALSE, got |-> <<>>,
                     unsent |-> FlattenSeq([i \in DOMAIN session[c] |->
                                              LineFrame(session[c][i], <<LF>>)])]]
  BY DEF Init
<1>3. DOMAIN conn = {} /\ conn = [d \in DOMAIN conn |-> conn[d]]
  BY <1>1 DEF Nobody
<1>4. ASSUME NEW c \in Clients
      PROVE  /\ IsSeq(asked[c]) /\ NetOK(net[c]) /\ net[c].st = "idle" /\ net[c].got = <<>>
             /\ Waits(<<>>, net[c], asked[c], 0)
  <2>1. session[c] \in UNION Range(Sessions)
    OBVIOUS
  <2>2. /\ asked[c] = [i \in DOMAIN session[c] |-> Request(session[c][i])]
        /\ net[c] = [st |-> "idle", rx |-> <<>>, gone |-> FALSE, got |-> <<>>,
                     unsent |-> FlattenSeq([i \in DOMAIN session[c] |->
                                              LineFrame(session[c][i], <<LF>>)])]
    BY Zenon, <1>2
  <2> QED  BY <2>1, <2>2, InitNet
<1>5. ClientsInv
  <2>1. \A c \in Clients : Input(c) = <<>> /\ done[c] = 0 /\ c \notin DOMAIN conn
    BY <1>1, <1>3 DEF Input
  <2> QED  BY <1>4, <2>1 DEF ClientsInv, ClientInv
<1>6. TypeInv
  <2>1. net = [c \in Clients |-> net[c]]
    BY <1>2
  <2> QED  BY <1>1, <1>3, <1>4, <2>1 DEF TypeInv, Before
<1>7. PlaceInv
  BY <1>1, <1>3 DEF PlaceInv, Ended
<1>10. Service!Init
  <2>1. Contents = [k \in {} |-> <<>>]
    BY DEF Contents, C!T!Contents
  <2>2. \A c \in Clients : Answers(c) = <<>>
    <3>1. <<>> \o <<>> = <<>>
      OBVIOUS
    <3> QED  BY <1>3, <1>4, <3>1 DEF Answers
  <2>3. Over = {}
    <3>1. \A c \in Clients : ~Losing(c)
      BY <1>3, <1>4 DEF Losing
    <3>2. pc \notin Ended
      BY <1>1 DEF Ended
    <3> QED  BY <3>1, <3>2, OverIs
  <2>4. req = <<>> /\ out = <<>> /\ rc = 0
    BY <1>1 DEF C!Init
  <2> QED  BY <1>1, <2>1, <2>2, <2>3, <2>4
           DEF Service!Init, Service!K!Init, Service!Idle, Contents
<1> QED  BY <1>5, <1>6, <1>7, <1>10 DEF Inv

\* Every step keeps the invariant and is a step of the service or a stutter, as long as the parser
\* reads lines and the dispatcher executes requests as the two component proofs say.
LEMMA Steps ==
  ASSUME Inv, OpenInv, [Next]_vars, Parses, pc # "exited" => \A q \in Asked : C!Execute(q) => Executed(q),
         Exit => DOMAIN Contents' = {}
  PROVE  Inv' /\ ServiceStep
<1>1. CASE UNCHANGED vars
  BY <1>1, SameStep DEF vars, program, loop, store, history
<1>2. CASE ClientStep
  BY <1>2, ConnectStep, SendStep, LeaveStep DEF ClientStep
<1>3. CASE Signal
  BY <1>3, SignalStep
<1>4. CASE ProgramStep
  BY <1>4, SelfTestStep, NetInitStep, TestStep, EpollWaitStep, BatchDoneStep, ListenerFailsStep,
     AcceptClientsStep, HandleReadStep, DispatchFrameStep, DispatchEndStep, HandleWriteStep,
     TeardownStep, ExitStep DEF ProgramStep
<1> QED  BY <1>1, <1>2, <1>3, <1>4 DEF Next

-----------------------------------------------------------------------------
(* What is proved of the store and of the parser, at the store and the       *)
(* parser of the program.                                                  *)
D == INSTANCE CommandsProofs WITH Requests <- Asked, Values <- Seq(Bytes)

L == INSTANCE RespProofs WITH
       Requests <- {}, MaxRequests <- 0, MaxInput <- 0,
       input <- <<>>, legal <- FALSE, sent <- <<>>, wire <- <<>>, log <- <<>>, dead <- FALSE

-----------------------------------------------------------------------------
(* The store of the program is the store of those proofs.                  *)

\* The hash table of the server and the one the dispatcher's proofs are about are the same
\* operations.
LEMMA SameTable ==
  ASSUME NEW t, NEW k, NEW v
  PROVE  /\ C!Hit(t, k) = D!Hit(t, k) /\ C!Value(t, k) = D!Value(t, k)
         /\ C!T!HtSet(t, k, v) = D!T!HtSet(t, k, v) /\ C!T!HtDel(t, k) = D!T!HtDel(t, k)
         /\ C!T!Fresh(t) = D!T!Fresh(t) /\ C!T!HtDestroy(t) = D!T!HtDestroy(t)
         /\ C!T!Contents(t) = D!T!Contents(t)
<1> USE DEF C!T!Load, D!T!Load, C!T!Free, D!T!Free, C!T!Dup, D!T!Dup, C!T!Hits, D!T!Hits,
            C!T!Found, D!T!Found, C!T!At, D!T!At, C!T!HtGet, D!T!HtGet, C!T!Revalue,
            D!T!Revalue, C!T!Overwrite, D!T!Overwrite, C!T!Unwind, D!T!Unwind, C!T!Link,
            D!T!Link, C!T!Insert, D!T!Insert, C!T!HtSet, D!T!HtSet, C!T!EntryBlocks,
            D!T!EntryBlocks, C!T!HtDel, D!T!HtDel, C!T!Fresh, D!T!Fresh, C!T!Buckets,
            D!T!Buckets, C!T!EntrySet, D!T!EntrySet, C!T!Owned, D!T!Owned, C!T!HtDestroy,
            D!T!HtDestroy, C!T!Entries, D!T!Entries, C!T!Range, D!T!Range, C!T!RemoveAt,
            D!T!RemoveAt, C!T!FlattenSeq, D!T!FlattenSeq, C!T!Contents, D!T!Contents
<1>1. C!Hit(t, k) = D!Hit(t, k) /\ C!Value(t, k) = D!Value(t, k)
  BY Zenon DEF C!Hit, D!Hit, C!Value, D!Value
<1>2. C!T!HtSet(t, k, v) = D!T!HtSet(t, k, v)
  BY Zenon
<1>3. C!T!HtDel(t, k) = D!T!HtDel(t, k)
  BY Zenon
<1>4. C!T!Fresh(t) = D!T!Fresh(t)
  BY Zenon
<1>5. C!T!HtDestroy(t) = D!T!HtDestroy(t) /\ C!T!Contents(t) = D!T!Contents(t)
  BY Zenon
<1> HIDE DEF C!T!Load, D!T!Load, C!T!Free, D!T!Free, C!T!Dup, D!T!Dup, C!T!Hits, D!T!Hits,
             C!T!Found, D!T!Found, C!T!At, D!T!At, C!T!HtGet, D!T!HtGet, C!T!Revalue,
             D!T!Revalue, C!T!Overwrite, D!T!Overwrite, C!T!Unwind, D!T!Unwind, C!T!Link,
             D!T!Link, C!T!Insert, D!T!Insert, C!T!HtSet, D!T!HtSet, C!T!EntryBlocks,
             D!T!EntryBlocks, C!T!HtDel, D!T!HtDel, C!T!Fresh, D!T!Fresh, C!T!Buckets,
             D!T!Buckets, C!T!EntrySet, D!T!EntrySet, C!T!Owned, D!T!Owned, C!T!HtDestroy,
             D!T!HtDestroy, C!T!Entries, D!T!Entries, C!T!Range, D!T!Range, C!T!RemoveAt,
             D!T!RemoveAt, C!T!FlattenSeq, D!T!FlattenSeq, C!T!Contents, D!T!Contents
<1> QED  BY <1>1, <1>2, <1>3, <1>4, <1>5

\* So are the conversions between numbers and bytes.
LEMMA SameNumbers ==
  ASSUME NEW s, NEW n
  PROVE  /\ C!ParseInt64(s) = D!ParseInt64(s) /\ C!Format(n) = D!Format(n)
         /\ C!INT_MIN = D!INT_MIN
BY Zenon DEF C!ParseInt64, D!ParseInt64, C!Magnitude, D!Magnitude, C!IsDigit, D!IsDigit,
             C!DigitOf, D!DigitOf, C!Format, D!Format, C!BASE, D!BASE, C!INT_MIN, D!INT_MIN

\* And the commands that count.
LEMMA SameSums ==
  ASSUME NEW t, NEW r
  PROVE  /\ C!cmd_incr(t, r) = D!cmd_incr(t, r) /\ C!cmd_decr(t, r) = D!cmd_decr(t, r)
         /\ C!cmd_incrby(t, r) = D!cmd_incrby(t, r) /\ C!cmd_decrby(t, r) = D!cmd_decrby(t, r)
<1>1. /\ \A n : C!Integer(n) = D!Integer(n)
      /\ \A reply : C!Answered(t, reply) = D!Answered(t, reply)
      /\ C!NotInteger = D!NotInteger /\ C!Overflows = D!Overflows
      /\ C!OutOfMemory = D!OutOfMemory
  BY Zenon DEF C!Integer, D!Integer, C!Answered, D!Answered, C!NotInteger, D!NotInteger, C!Overflows,
               D!Overflows, C!OutOfMemory, D!OutOfMemory, C!Error, D!Error, C!Crlf, D!Crlf,
               C!Format, D!Format, C!BASE, D!BASE
<1>2. \A k, v, reply : C!Stored(t, k, v, reply) = D!Stored(t, k, v, reply)
  BY SameTable, <1>1 DEF C!Stored, D!Stored, C!Answered, D!Answered
<1>3. \A k, d : C!incrby_op(t, k, d) = D!incrby_op(t, k, d)
  BY SameTable, SameNumbers, <1>1, <1>2 DEF C!incrby_op, D!incrby_op
<1>4. C!cmd_incr(t, r) = D!cmd_incr(t, r) /\ C!cmd_decr(t, r) = D!cmd_decr(t, r)
  BY <1>3 DEF C!cmd_incr, D!cmd_incr, C!cmd_decr, D!cmd_decr
<1>5. C!cmd_incrby(t, r) = D!cmd_incrby(t, r)
  BY SameNumbers, <1>1, <1>3 DEF C!cmd_incrby, D!cmd_incrby
<1>6. C!cmd_decrby(t, r) = D!cmd_decrby(t, r)
  BY SameNumbers, <1>1, <1>3 DEF C!cmd_decrby, D!cmd_decrby
<1> QED  BY <1>4, <1>5, <1>6

\* And every other handler of the command table.
LEMMA SameHandlers ==
  ASSUME NEW t, NEW r
  PROVE  /\ C!cmd_ping(t, r) = D!cmd_ping(t, r)
         /\ C!cmd_get(t, r) = D!cmd_get(t, r)
         /\ C!cmd_set(t, r) = D!cmd_set(t, r)
         /\ C!cmd_del(t, r) = D!cmd_del(t, r)
         /\ C!cmd_exists(t, r) = D!cmd_exists(t, r)
         /\ C!cmd_command(t, r) = D!cmd_command(t, r)
         /\ C!cmd_incr(t, r) = D!cmd_incr(t, r)
         /\ C!cmd_decr(t, r) = D!cmd_decr(t, r)
         /\ C!cmd_incrby(t, r) = D!cmd_incrby(t, r)
         /\ C!cmd_decrby(t, r) = D!cmd_decrby(t, r)
         /\ C!cmd_strlen(t, r) = D!cmd_strlen(t, r)
         /\ C!cmd_append(t, r) = D!cmd_append(t, r)
         /\ C!cmd_keys(t, r) = D!cmd_keys(t, r)
         /\ C!cmd_dbsize(t, r) = D!cmd_dbsize(t, r)
         /\ C!cmd_flushdb(t, r) = D!cmd_flushdb(t, r)
         /\ C!cmd_setnx(t, r) = D!cmd_setnx(t, r)
         /\ C!cmd_getset(t, r) = D!cmd_getset(t, r)
<1> USE DEF C!T!Load, D!T!Load, C!T!Free, D!T!Free, C!T!Dup, D!T!Dup, C!T!Hits, D!T!Hits,
            C!T!Found, D!T!Found, C!T!At, D!T!At, C!T!HtGet, D!T!HtGet, C!T!Revalue,
            D!T!Revalue, C!T!Overwrite, D!T!Overwrite, C!T!Unwind, D!T!Unwind, C!T!Link,
            D!T!Link, C!T!Insert, D!T!Insert, C!T!HtSet, D!T!HtSet, C!T!EntryBlocks,
            D!T!EntryBlocks, C!T!HtDel, D!T!HtDel, C!T!Fresh, D!T!Fresh, C!T!Buckets,
            D!T!Buckets, C!T!EntrySet, D!T!EntrySet, C!T!Owned, D!T!Owned, C!T!HtDestroy,
            D!T!HtDestroy, C!T!Entries, D!T!Entries, C!T!Range, D!T!Range, C!T!RemoveAt,
            D!T!RemoveAt, C!T!FlattenSeq, D!T!FlattenSeq, C!T!Contents, D!T!Contents,
            C!Answered, D!Answered, C!Stored, D!Stored, C!Hit, D!Hit, C!Value, D!Value,
            C!FreeBlock, D!FreeBlock, C!SimpleString, D!SimpleString, C!Error, D!Error,
            C!Integer, D!Integer, C!Bulk, D!Bulk, C!Nil, D!Nil, C!ArrayHeader, D!ArrayHeader,
            C!Bulks, D!Bulks, C!Ok, D!Ok, C!OutOfMemory, D!OutOfMemory, C!NotInteger,
            D!NotInteger, C!Overflows, D!Overflows, C!WrongArity, D!WrongArity, C!Unknown,
            D!Unknown, C!Crlf, D!Crlf
<1>1. C!cmd_ping(t, r) = D!cmd_ping(t, r)
  BY Zenon DEF C!cmd_ping, D!cmd_ping
<1>2. C!cmd_get(t, r) = D!cmd_get(t, r)
  BY Zenon DEF C!cmd_get, D!cmd_get
<1>3. C!cmd_set(t, r) = D!cmd_set(t, r)
  BY Zenon DEF C!cmd_set, D!cmd_set
<1>4. C!cmd_del(t, r) = D!cmd_del(t, r)
  BY Zenon DEF C!cmd_del, D!cmd_del
<1>5. C!cmd_exists(t, r) = D!cmd_exists(t, r)
  BY Zenon DEF C!cmd_exists, D!cmd_exists, C!Cardinality, D!Cardinality
<1>6. C!cmd_command(t, r) = D!cmd_command(t, r)
  BY Zenon DEF C!cmd_command, D!cmd_command
<1>7. C!cmd_incr(t, r) = D!cmd_incr(t, r)
  BY SameSums, Zenon
<1>8. C!cmd_decr(t, r) = D!cmd_decr(t, r)
  BY SameSums, Zenon
<1>9. C!cmd_incrby(t, r) = D!cmd_incrby(t, r)
  BY SameSums, Zenon
<1>10. C!cmd_decrby(t, r) = D!cmd_decrby(t, r)
  BY SameSums, Zenon
<1>11. C!cmd_strlen(t, r) = D!cmd_strlen(t, r)
  BY Zenon DEF C!cmd_strlen, D!cmd_strlen
<1>12. C!cmd_append(t, r) = D!cmd_append(t, r)
  BY Zenon DEF C!cmd_append, D!cmd_append
<1>13. C!cmd_keys(t, r) = D!cmd_keys(t, r)
  BY Zenon DEF C!cmd_keys, D!cmd_keys, C!scan_matches, D!scan_matches
<1>14. C!cmd_dbsize(t, r) = D!cmd_dbsize(t, r)
  BY Zenon DEF C!cmd_dbsize, D!cmd_dbsize
<1>15. C!cmd_flushdb(t, r) = D!cmd_flushdb(t, r)
  BY Zenon DEF C!cmd_flushdb, D!cmd_flushdb
<1>16. C!cmd_setnx(t, r) = D!cmd_setnx(t, r)
  BY Zenon DEF C!cmd_setnx, D!cmd_setnx
<1>17. C!cmd_getset(t, r) = D!cmd_getset(t, r)
  BY Zenon DEF C!cmd_getset, D!cmd_getset
<1> HIDE DEF C!T!Load, D!T!Load, C!T!Free, D!T!Free, C!T!Dup, D!T!Dup, C!T!Hits, D!T!Hits,
             C!T!Found, D!T!Found, C!T!At, D!T!At, C!T!HtGet, D!T!HtGet, C!T!Revalue,
             D!T!Revalue, C!T!Overwrite, D!T!Overwrite, C!T!Unwind, D!T!Unwind, C!T!Link,
             D!T!Link, C!T!Insert, D!T!Insert, C!T!HtSet, D!T!HtSet, C!T!EntryBlocks,
             D!T!EntryBlocks, C!T!HtDel, D!T!HtDel, C!T!Fresh, D!T!Fresh, C!T!Buckets,
             D!T!Buckets, C!T!EntrySet, D!T!EntrySet, C!T!Owned, D!T!Owned, C!T!HtDestroy,
             D!T!HtDestroy, C!T!Entries, D!T!Entries, C!T!Range, D!T!Range, C!T!RemoveAt,
             D!T!RemoveAt, C!T!FlattenSeq, D!T!FlattenSeq, C!T!Contents, D!T!Contents,
             C!Answered, D!Answered, C!Stored, D!Stored, C!Hit, D!Hit, C!Value, D!Value,
             C!FreeBlock, D!FreeBlock, C!SimpleString, D!SimpleString, C!Error, D!Error,
             C!Integer, D!Integer, C!Bulk, D!Bulk, C!Nil, D!Nil, C!ArrayHeader, D!ArrayHeader,
             C!Bulks, D!Bulks, C!Ok, D!Ok, C!OutOfMemory, D!OutOfMemory, C!NotInteger,
             D!NotInteger, C!Overflows, D!Overflows, C!WrongArity, D!WrongArity, C!Unknown,
             D!Unknown, C!Crlf, D!Crlf
<1> QED  BY <1>1, <1>2, <1>3, <1>4, <1>5, <1>6, <1>7, <1>8, <1>9, <1>10, <1>11, <1>12, <1>13, <1>14, <1>15, <1>16, <1>17

\* The assumptions of the dispatcher's proofs hold of the server's constants.
LEMMA StoreConstants == D!CommandConstants /\ D!RequestsTyped /\ D!NumberConstants
<1>1. D!NumberConstants
  BY NumberConstants DEF BASE, D!BASE
<1>2. D!T!TableConstants
  BY ServerConstants DEF C!T!TableConstants, D!T!TableConstants
<1>3. D!RequestsTyped
  BY ServerConstants DEF C!RequestsTyped, D!RequestsTyped, C!Takes, D!Takes, C!ArityOK, D!ArityOK,
                         C!commands, D!commands
<1>4. \A v \in Seq(Bytes) : v \in Seq(D!Range(v))
  BY DEF D!Range
<1>5. \A v, w \in Seq(Bytes) : v \o w \in Seq(Bytes)
  OBVIOUS
<1>6. \A n \in D!INT_MIN .. INT_MAX : D!Format(n) \in Seq(Bytes)
  <2> SUFFICES ASSUME NEW n \in D!INT_MIN .. INT_MAX PROVE D!Format(n) \in Seq(Bytes)
    OBVIOUS
  <2>1. n \in Int
    BY NumberConstants DEF D!INT_MIN
  <2>2. Format(n) \in Seq(AllDigits \cup {Minus})
    BY <2>1, FormatDenotes
  <2>3. AllDigits \cup {Minus} \subseteq Bytes
    <3>1. DOMAIN Digits = 1 .. BASE
      BY ServerConstants
    <3>2. AllDigits \subseteq Range(Digits)
      BY <3>1, NumberConstants DEF AllDigits, Digit, Range
    <3> QED  BY <3>2 DEF Bytes
  <2>4. D!Format(n) = Format(n)
    BY Zenon DEF D!Format, Format, D!BASE, BASE
  <2> QED  BY <2>2, <2>3, <2>4
<1> QED  BY <1>1, <1>2, <1>3, <1>4, <1>5, <1>6 DEF D!CommandConstants

\* The assumptions of the parser's proofs hold of the server's constants.
LEMMA ParserConstants == L!RespConstants /\ L!StreamConstants /\ L!NumberConstants
<1>1. L!NumberConstants
  BY NumberConstants DEF BASE, L!BASE
<1>2. L!RespConstants
  BY RespConstants DEF L!RespConstants, L!IsDigit, IsDigit, L!BASE, BASE, L!ReadLimit, ReadLimit
<1> QED  BY <1>1, <1>2 DEF L!StreamConstants

\* The parser of the program and that of its proofs read an input that is no array alike.
LEMMA SameParser ==
  ASSUME NEW in, NEW args
  PROVE  /\ in = <<>> \/ in[1] # Star => resp_parse_request(in) = L!resp_parse_request(in)
         /\ parse_inline(in) = L!parse_inline(in)
         /\ LineFrame(args, <<LF>>) = L!LineFrame(args, <<LF>>)
<1>1. parse_inline(in) = L!parse_inline(in)
  BY Zenon DEF parse_inline, L!parse_inline, Words, L!Words, NeedMore, L!NeedMore, Refuse, L!Refuse,
               Min, L!Min, L!Cardinality, Cardinality
<1>2. LineFrame(args, <<LF>>) = L!LineFrame(args, <<LF>>)
  BY Zenon DEF LineFrame, L!LineFrame, FlattenSeq, L!FlattenSeq
<1> QED  BY <1>1, <1>2 DEF resp_parse_request, L!resp_parse_request, NeedMore, L!NeedMore

\* Executing a request is the same step in both.
LEMMA SameExecute ==
  ASSUME NEW r, C!Execute(r)
  PROVE  D!Execute(r)
<1>1. \A outcomes : C!Finish(r, outcomes) => D!Finish(r, outcomes)
  BY DEF C!Finish, D!Finish, C!Deliver, D!Deliver
<1>2. \A name : C!Calls(r, name) => D!Calls(r, name)
  BY DEF C!Calls, D!Calls, C!ArityOK, D!ArityOK, C!commands, D!commands
<1>3. C!Short(r) => D!Short(r)
  BY SameTable DEF C!Short, D!Short
<1>4. C!Reject(r) => D!Reject(r)
  BY <1>1 DEF C!Reject, D!Reject, C!ArityOK, D!ArityOK, C!commands, D!commands, C!Answered, D!Answered,
              C!WrongArity, D!WrongArity, C!Unknown, D!Unknown, C!Error, D!Error, C!Crlf, D!Crlf
<1> QED  BY <1>1, <1>2, <1>3, <1>4, SameHandlers DEF C!Execute, D!Execute

(* What the abstract store of those proofs does is what Service says. *)
LEMMA SameService ==
  ASSUME NEW r
  PROVE  (D!S!Served(r) <=> Service!K!Served(r)) /\ (D!S!Refused(r) <=> Service!K!Refused(r))
<1> USE DEF D!S!Answer, Service!K!Answer, D!S!Whole, Service!K!Whole, D!S!CutShort,
            Service!K!CutShort, D!S!Takes, Service!K!Takes, D!S!Put, Service!K!Put, D!S!Without,
            Service!K!Without, D!S!Has, Service!K!Has, D!S!ReadsAs, Service!K!ReadsAs,
            D!S!Holds, Service!K!Holds, D!S!IsInt, Service!K!IsInt, D!S!Arguments,
            Service!K!Arguments, D!S!Denotes, Service!K!Denotes, D!S!PlaceValue,
            Service!K!PlaceValue, D!S!IsDigit, Service!K!IsDigit, D!S!DigitOf,
            Service!K!DigitOf, D!S!BASE, Service!K!BASE, D!S!ReadLimit, Service!K!ReadLimit,
            D!S!INT_MIN, Service!K!INT_MIN, D!S!Format, Service!K!Format, D!S!SimpleString,
            Service!K!SimpleString, D!S!Error, Service!K!Error, D!S!Integer, Service!K!Integer,
            D!S!Bulk, Service!K!Bulk, D!S!Nil, Service!K!Nil, D!S!ArrayHeader,
            Service!K!ArrayHeader, D!S!Bulks, Service!K!Bulks, D!S!BulkArray,
            Service!K!BulkArray, D!S!Ok, Service!K!Ok, D!S!OutOfMemory, Service!K!OutOfMemory,
            D!S!NotInteger, Service!K!NotInteger, D!S!Overflows, Service!K!Overflows,
            D!S!WrongArity, Service!K!WrongArity, D!S!Unknown, Service!K!Unknown, D!S!Crlf,
            Service!K!Crlf, D!S!Cardinality, Service!K!Cardinality, C!T!Contents, D!T!Contents, C!T!Found, D!T!Found,
            C!T!Hits, D!T!Hits, C!T!At, D!T!At, C!T!HtGet, D!T!HtGet, C!T!Load, D!T!Load
<1>1. D!S!Ping(r) <=> Service!K!Ping(r)
  BY Zenon DEF D!S!Ping, Service!K!Ping
<1>2. D!S!Command(r) <=> Service!K!Command(r)
  BY Zenon DEF D!S!Command, Service!K!Command
<1>3. D!S!Get(r) <=> Service!K!Get(r)
  BY Zenon DEF D!S!Get, Service!K!Get
<1>4. D!S!Strlen(r) <=> Service!K!Strlen(r)
  BY Zenon DEF D!S!Strlen, Service!K!Strlen
<1>5. D!S!Set(r) <=> Service!K!Set(r)
  BY Zenon DEF D!S!Set, Service!K!Set
<1>6. D!S!SetNx(r) <=> Service!K!SetNx(r)
  BY Zenon DEF D!S!SetNx, Service!K!SetNx
<1>7. D!S!GetSet(r) <=> Service!K!GetSet(r)
  BY Zenon DEF D!S!GetSet, Service!K!GetSet
<1>8. D!S!AppendTo(r) <=> Service!K!AppendTo(r)
  BY Zenon DEF D!S!AppendTo, Service!K!AppendTo
<1>9. D!S!Del(r) <=> Service!K!Del(r)
  BY Zenon DEF D!S!Del, Service!K!Del
<1>10. D!S!Exists(r) <=> Service!K!Exists(r)
  BY Zenon DEF D!S!Exists, Service!K!Exists
<1>11. D!S!DbSize(r) <=> Service!K!DbSize(r)
  BY Zenon DEF D!S!DbSize, Service!K!DbSize
<1>12. D!S!FlushDb(r) <=> Service!K!FlushDb(r)
  BY Zenon DEF D!S!FlushDb, Service!K!FlushDb
<1>13. D!S!KeysLike(r) <=> Service!K!KeysLike(r)
  BY Zenon DEF D!S!KeysLike, Service!K!KeysLike
<1>14. D!S!Add(r) <=> Service!K!Add(r)
  BY Zenon DEF D!S!Add, Service!K!Add, D!S!Adds, Service!K!Adds
<1>15. D!S!AddsNoNumber(r) <=> Service!K!AddsNoNumber(r)
  BY Zenon DEF D!S!AddsNoNumber, Service!K!AddsNoNumber
<1>16. D!S!NoMemory(r) <=> Service!K!NoMemory(r)
  BY Zenon DEF D!S!NoMemory, Service!K!NoMemory
<1>17. D!S!Refused(r) <=> Service!K!Refused(r)
  BY Zenon DEF D!S!Refused, Service!K!Refused
<1>18. D!S!Takes(r[1], Len(r)) <=> Service!K!Takes(r[1], Len(r))
  BY Zenon
<1> HIDE DEF D!S!Answer, Service!K!Answer, D!S!Whole, Service!K!Whole, D!S!CutShort,
             Service!K!CutShort, D!S!Takes, Service!K!Takes, D!S!Put, Service!K!Put,
             D!S!Without, Service!K!Without, D!S!Has, Service!K!Has, D!S!ReadsAs,
             Service!K!ReadsAs, D!S!Holds, Service!K!Holds, D!S!IsInt, Service!K!IsInt,
             D!S!Arguments, Service!K!Arguments, D!S!Denotes, Service!K!Denotes, D!S!PlaceValue,
             Service!K!PlaceValue, D!S!IsDigit, Service!K!IsDigit, D!S!DigitOf,
             Service!K!DigitOf, D!S!BASE, Service!K!BASE, D!S!ReadLimit, Service!K!ReadLimit,
             D!S!INT_MIN, Service!K!INT_MIN, D!S!Format, Service!K!Format, D!S!SimpleString,
             Service!K!SimpleString, D!S!Error, Service!K!Error, D!S!Integer, Service!K!Integer,
             D!S!Bulk, Service!K!Bulk, D!S!Nil, Service!K!Nil, D!S!ArrayHeader,
             Service!K!ArrayHeader, D!S!Bulks, Service!K!Bulks, D!S!BulkArray,
             Service!K!BulkArray, D!S!Ok, Service!K!Ok, D!S!OutOfMemory, Service!K!OutOfMemory,
             D!S!NotInteger, Service!K!NotInteger, D!S!Overflows, Service!K!Overflows,
             D!S!WrongArity, Service!K!WrongArity, D!S!Unknown, Service!K!Unknown, D!S!Crlf,
             Service!K!Crlf, D!S!Cardinality, Service!K!Cardinality, C!T!Contents, D!T!Contents, C!T!Found, D!T!Found,
            C!T!Hits, D!T!Hits, C!T!At, D!T!At, C!T!HtGet, D!T!HtGet, C!T!Load, D!T!Load
<1> QED  BY <1>1, <1>2, <1>3, <1>4, <1>5, <1>6, <1>7, <1>8, <1>9, <1>10, <1>11, <1>12, <1>13,
            <1>14, <1>15, <1>16, <1>17, <1>18 DEF D!S!Served, Service!K!Served

\* A request the server executes is served or refused, and the table stays sound.
LEMMA Executes ==
  ASSUME D!P!Sound(table), NEW r \in Asked, C!Execute(r)
  PROVE  /\ D!P!Sound(table') /\ req' = r
         /\ D!S!Served(r) \/ D!S!Refused(r)
<1>1. D!Execute(r)
  BY SameExecute
<1>2. D!P!Sound(table')
  BY <1>1, StoreConstants, D!ExecuteKeeps
<1>3. req' = r /\ (D!S!Served(r) \/ D!S!Refused(r))
  BY <1>1, StoreConstants, D!Serves
<1> QED  BY <1>2, <1>3

-----------------------------------------------------------------------------
(* The parser, at the lines of the clients.                                *)

\* The bytes of the server are characters of the parser's alphabet.
LEMMA BytesAlphabet == Seq(Bytes) \subseteq Seq(L!Alphabet)
<1>1. L!Bytes = Bytes
  BY DEF L!Bytes, Bytes, L!Range, Range
<1>2. Bytes \subseteq L!Alphabet
  BY <1>1, ParserConstants, L!AlphabetHas
<1> QED  BY <1>2

(* A line is read as it was typed. *)
LEMMA LineRead ==
  ASSUME NEW args \in Lines, args # <<>>, NEW more \in Seq(Bytes)
  PROVE  /\ resp_parse_request(Frame(args) \o more) = Read(args)
         /\ NoArray(Frame(args) \o more)
<1> DEFINE f == Frame(args)
           in == f \o more
<1>1. f \in Seq(Bytes) /\ Len(f) \in Nat \ {0} /\ more \in Seq(Bytes)
  BY LineType
<1>2. L!LineFrame(args, <<LF>>) = f
  BY SameParser DEF Frame
<1> HIDE DEF f
<1>3. in \in Seq(Bytes) /\ in # <<>> /\ Len(in) = Len(f) + Len(more)
      /\ \A i \in 1 .. Len(f) : in[i] = f[i]
  BY <1>1, ConcatProperties
<1> HIDE DEF in
<1>4. L!Holds(in, 1, f)
  BY <1>1, <1>3 DEF L!Holds
<1>5. /\ args \in Seq(Seq(Bytes)) /\ Len(args) \in 1 .. RESP_MAX_ARGC
      /\ \A i \in DOMAIN args : Typeable(args[i])
      /\ args[1][1] # Star /\ Len(f) <= RESP_MAX_INLINE_LEN
  <2>1. /\ args \in Seq(Seq(Bytes)) /\ Len(args) <= RESP_MAX_ARGC
        /\ \A i \in DOMAIN args : Typeable(args[i])
        /\ args[1][1] # Star /\ Len(f) <= RESP_MAX_INLINE_LEN
    BY ServerConstants DEF f, Frame
  <2> QED  BY <2>1
<1>6. args \in Seq(Seq(L!Alphabet)) /\ in \in Seq(L!Alphabet)
  BY <1>3, <1>5, BytesAlphabet
<1>7. \A i \in DOMAIN args : L!Typeable(args[i])
  BY <1>5 DEF Typeable, L!Typeable
<1>8. in[1] = args[1][1] /\ L!ArgsRead(L!parse_inline(in), args, Len(f) + 1)
  BY <1>2, <1>4, <1>5, <1>6, <1>7, ParserConstants, L!InlineReads
<1>9. NoArray(in) /\ resp_parse_request(in) = L!parse_inline(in)
  BY <1>3, <1>5, <1>8, SameParser DEF NoArray, resp_parse_request
<1> QED  BY <1>8, <1>9 DEF L!ArgsRead, Read, f, in

(* An empty line is refused. *)
LEMMA BlankRefused ==
  ASSUME NEW more \in Seq(Bytes)
  PROVE  /\ resp_parse_request(<<LF>> \o more) = Refuse /\ NoArray(<<LF>> \o more)
<1> DEFINE in == <<LF>> \o more
<1>1. in \in Seq(Bytes) /\ in # <<>> /\ in[1] = LF /\ Len(in) \in Nat \ {0}
  BY FrameBytes, ConcatProperties
<1> HIDE DEF in
<1>2. NoArray(in) /\ resp_parse_request(in) = parse_inline(in)
  BY <1>1, FrameBytes DEF NoArray, resp_parse_request
<1> DEFINE nls == L!Newlines(in)
<1>3. 1 \in nls /\ nls \subseteq Nat \ {0}
  BY <1>1, FrameBytes DEF L!Newlines, L!Scanned
<1>4. L!Min(nls) = 1
  <2>1. \A x, y \in nls : x \in Int /\ y \in Int
    BY <1>3
  <2> QED  BY <1>3 DEF L!Min
<1>5. L!LineEnd(in, 1) = 0 /\ SubSeq(in, 1, 0) = <<>>
  BY <1>1 DEF L!LineEnd
<1>6. L!Words(<<>>) = <<>>
  <2>1. L!Spans(<<>>) = {}
    BY DEF L!Spans
  <2>2. L!Cardinality({}) = 0
    BY FS_EmptySet DEF L!Cardinality, Cardinality
  <2>3. L!Words(<<>>) = [n \in 1 .. L!Cardinality(L!Spans(<<>>)) |->
                           SubSeq(<<>>, L!Nth(<<>>, n)[1], L!Nth(<<>>, n)[2])]
    BY L!WordsIs, ParserConstants, Zenon
  <2>4. L!Words(<<>>) = [n \in 1 .. 0 |-> SubSeq(<<>>, L!Nth(<<>>, n)[1], L!Nth(<<>>, n)[2])]
    BY <2>1, <2>2, <2>3, Zenon
  <2> QED  BY <2>4
<1>7. L!parse_inline(in) = L!LineResult(<<>>, 1)
  BY <1>3, <1>4, <1>5, <1>6, L!InlineIs, ParserConstants
<1> QED  BY <1>2, <1>7, SameParser DEF L!LineResult, L!Refuse, Refuse, in

(* What is found in the bytes at hand is found whatever comes behind. *)
LEMMA FoundAtOnce ==
  ASSUME NEW in \in Seq(Bytes), NEW more \in Seq(Bytes), NoArray(in)
  PROVE  LET r == resp_parse_request(in)
         IN \/ r = NeedMore
            \/ /\ r = resp_parse_request(in \o more) /\ in # <<>>
               /\ (r = Refuse \/ (r.st = "OK" /\ r.next \in 2 .. Len(in) + 1))
<1> DEFINE r == resp_parse_request(in)
           all == in \o more
<1>0. in \in Seq(L!Alphabet) /\ all \in Seq(L!Alphabet)
  BY BytesAlphabet
<1>1. Len(all) = Len(in) + Len(more) /\ \A i \in 1 .. Len(in) : all[i] = in[i]
  BY ConcatProperties
<1>2. L!NeedMore = NeedMore /\ L!Refuse = Refuse
  BY DEF L!NeedMore, NeedMore, L!Refuse, Refuse
<1>3. r = L!resp_parse_request(in)
  BY SameParser DEF NoArray
<1>4. r = NeedMore \/ r = Refuse \/ (in # <<>> /\ L!Within(in, r))
  BY <1>0, <1>2, <1>3, L!ParseOutcome, ParserConstants
<1>5. in = <<>> => r = NeedMore
  BY DEF resp_parse_request
<1>6. ASSUME r # NeedMore
      PROVE  /\ r = resp_parse_request(all) /\ in # <<>>
             /\ (r = Refuse \/ (r.st = "OK" /\ r.next \in 2 .. Len(in) + 1))
  <2>1. in # <<>> /\ all # <<>> /\ all[1] = in[1]
    <3>1. Len(in) \in Nat \ {0} /\ Len(more) \in Nat
      BY <1>5, <1>6
    <3> QED  BY <1>1, <1>5, <1>6, <3>1
  <2>2. L!Longer(in, all)
    BY <1>1 DEF L!Longer
  <2>3. L!resp_parse_request(all) = L!resp_parse_request(in)
    BY <1>0, <1>2, <1>3, <1>6, <2>2, L!ParseSettled, ParserConstants
  <2>4. resp_parse_request(all) = L!resp_parse_request(all)
    BY <2>1, SameParser DEF NoArray
  <2>5. L!Within(in, r) => (r.st = "OK" /\ r.next \in 2 .. Len(in) + 1)
    BY DEF L!Within
  <2>6. r = resp_parse_request(all)
    BY <1>3, <2>3, <2>4
  <2> HIDE DEF r, all
  <2>7. r = Refuse \/ (r.st = "OK" /\ r.next \in 2 .. Len(in) + 1)
    BY <1>4, <1>6, <2>5
  <2> QED  BY <2>1, <2>6, <2>7
<1>7. \/ r = NeedMore
      \/ /\ r = resp_parse_request(all) /\ in # <<>>
         /\ (r = Refuse \/ (r.st = "OK" /\ r.next \in 2 .. Len(in) + 1))
  BY <1>6
<1> QED  BY <1>7

\* The hypothesis of Steps about the parser.
LEMMA ParserParses == Parses
<1>1. ASSUME NEW args \in Lines \ {<<>>}, NEW more \in Seq(Bytes)
      PROVE  /\ resp_parse_request(Frame(args) \o more) = Read(args)
             /\ NoArray(Frame(args) \o more)
  BY LineRead
<1> QED  BY <1>1, BlankRefused, FoundAtOnce DEF Parses

-----------------------------------------------------------------------------
(* What a request leaves in the store.                                     *)

\* The keys and values of a table, seen from either side.
LEMMA StoreContents ==
  ASSUME NEW t
  PROVE  C!T!Contents(t) = D!P!Contents(t)
BY SameTable, StoreConstants, D!SameContents

\* A sound table holds finitely many keys.
LEMMA FiniteContents ==
  ASSUME D!P!Sound(table)
  PROVE  IsFiniteSet(DOMAIN Contents)
<1> DEFINE E == D!P!EntrySet(table)
           f == [e \in E |-> table.heap[e.key]]
           X == {f[e] : e \in E}
<1>1. IsFiniteSet(E)
  BY DEF D!P!Sound, D!P!IsFiniteSet, IsFiniteSet
<1>2. \A j : j \in DOMAIN Contents <=> \E e \in E : j = table.heap[e.key]
  BY StoreConstants, StoreContents, D!P!ContentsByEntry DEF Contents
<1> HIDE DEF E
<1>3. DOMAIN Contents \subseteq X
  BY <1>2
<1>4. f \in Surjection(E, X)
  BY DEF Surjection
<1>5. IsFiniteSet(X)
  BY <1>1, <1>4, FS_Surjection
<1> QED  BY <1>3, <1>5, FS_Subset

(* A request that is executed: the store stays sound, and is what the abstract
   one becomes. *)
LEMMA Applied ==
  ASSUME D!P!Sound(table), NEW r \in Asked, C!Execute(r)
  PROVE  /\ D!P!Sound(table') /\ Service!Apply(r) /\ Leaves(r)
         /\ r[1] = "FLUSHDB" /\ Len(r) = 1 => DOMAIN Contents' = {}
<1>1. D!P!Sound(table') /\ req' = r /\ (Service!K!Served(r) \/ Service!K!Refused(r))
  BY Executes, SameService
<1>2. Leaves(r)
  BY <1>1, FiniteContents, ServedLeaves
<1>3. r[1] = "FLUSHDB" /\ Len(r) = 1 => DOMAIN Contents' = {}
  BY <1>1, FlushLeaves
<1> QED  BY <1>1, <1>2, <1>3 DEF Service!Apply

-----------------------------------------------------------------------------
(* The store at every step.                                                *)

StoreInv ==
  /\ pc # "exited" => D!P!Sound(table)
  /\ pc = "exited" => DOMAIN table.heap = {}
  /\ pc = "tests" /\ step > Len(Early) => DOMAIN Contents \subseteq LateKeys
  /\ pc = "listen" => DOMAIN Contents \subseteq LateKeys

(* The store starts sound and empty. *)
LEMMA FreshStore ==
  ASSUME C!Init
  PROVE  D!P!Sound(table) /\ DOMAIN Contents = {}
<1> DEFINE h == D!P!Nothing
<1>1. DOMAIN h = {} /\ h = [p \in {} |-> h[p]]
  BY DEF D!P!Nothing
<1>2. table = D!P!Fresh(h)
  BY DEF C!Init, C!T!Fresh, D!P!Fresh, C!T!Nothing, D!P!Nothing, C!T!Buckets, D!P!Buckets
<1> HIDE DEF h
<1>3. D!P!Sound(D!P!Fresh(h)) /\ DOMAIN D!P!Contents(D!P!Fresh(h)) = {}
  BY <1>1, StoreConstants, D!P!FreshSound
<1> QED  BY <1>2, <1>3, StoreContents DEF Contents

(* Destroyed, it leaves nothing on the heap. *)
LEMMA DestroyedStore ==
  ASSUME D!P!Sound(table), table' = C!T!HtDestroy(table)
  PROVE  DOMAIN table'.heap = {} /\ DOMAIN Contents' = {}
<1>1. table' = D!P!HtDestroy(table)
  <2>1. table' = D!T!HtDestroy(table)
    BY SameTable
  <2> QED  BY <2>1 DEF D!T!HtDestroy, D!P!HtDestroy, D!T!Fresh, D!P!Fresh, D!T!Buckets, D!P!Buckets,
                      D!T!Free, D!P!Free, D!T!Owned, D!P!Owned, D!T!EntrySet, D!P!EntrySet,
                      D!T!Entries, D!P!Entries, D!T!EntryBlocks, D!P!EntryBlocks,
                      D!T!FlattenSeq, D!P!FlattenSeq, D!T!Range, D!P!Range
<1>2. DOMAIN D!P!HtDestroy(table).heap = {} /\ DOMAIN D!P!Contents(D!P!HtDestroy(table)) = {}
  BY StoreConstants, D!P!DestroyOutcome
<1> QED  BY <1>1, <1>2, StoreContents DEF Contents

\* The hash table's self test leaves a sound table.
LEMMA HashTestStore ==
  ASSUME Inv, StoreInv, HashTest
  PROVE  StoreInv'
<1> DEFINE call == HashCalls[step + 1]
<1>1. /\ pc = "hash" /\ pc' = "hash" /\ call[2] \in Keys
      /\ \/ /\ call[3] \in Seq(Bytes)
            /\ \E s \in C!T!HtSet(table, call[2], call[3]) : table' = s.t
         \/ table' = C!T!HtDel(table, call[2])
  BY HashTestCalls
<1> HIDE DEF call
<1>2. D!P!Sound(table)
  BY <1>1 DEF StoreInv
<1>3. D!P!Sound(table')
  <2>1. ASSUME NEW s \in C!T!HtSet(table, call[2], call[3]), call[3] \in Seq(Bytes), table' = s.t
        PROVE  D!P!Sound(table')
    <3>1. s \in D!P!HtSet(table, call[2], call[3])
      BY <2>1, SameTable, StoreConstants, D!SameSet
    <3> QED  BY <1>1, <1>2, <2>1, <3>1, StoreConstants, D!P!SetOutcome
  <2>2. ASSUME table' = C!T!HtDel(table, call[2])
        PROVE  D!P!Sound(table')
    <3>1. table' = D!P!HtDel(table, call[2])
      BY <2>2, SameTable, StoreConstants, D!SameDel, SMTT(30)
    <3> QED  BY <1>1, <1>2, <3>1, StoreConstants, D!P!DelOutcome
  <2> QED  BY <1>1, <2>1, <2>2
<1> QED  BY <1>1, <1>3 DEF StoreInv

\* A request that is executed, by main.c's tests or for a client, leaves a sound table.
LEMMA ExecuteStore ==
  ASSUME Inv, StoreInv, CommandTest \/ DispatchFrame
  PROVE  StoreInv'
<1>1. PICK q \in Asked : C!Execute(q)
  BY ParserParses, ExecutesAsked
<1>2. /\ CommandTest => pc = "tests" /\ pc' = "tests"
      /\ DispatchFrame => pc = "dispatch" /\ pc' \in {"dispatch", "events"}
  BY ParserParses, ExecutesAsked
<1>3. D!P!Sound(table)
  BY <1>2 DEF StoreInv
<1>4. \A r \in Asked : C!Execute(r) =>
        D!P!Sound(table') /\ Leaves(r) /\ (r[1] = "FLUSHDB" /\ Len(r) = 1 => DOMAIN Contents' = {})
  BY <1>3, Applied
<1>5. CommandTest => (step' > Len(Early) => DOMAIN Contents' \subseteq LateKeys)
  <2> SUFFICES ASSUME CommandTest PROVE step' > Len(Early) => DOMAIN Contents' \subseteq LateKeys
    OBVIOUS
  <2>1. step > Len(Early) => DOMAIN Contents \subseteq LateKeys
    BY <1>2 DEF StoreInv
  <2> QED  BY <1>4, <2>1, CommandTestKeys
<1> QED  BY <1>1, <1>2, <1>4, <1>5 DEF StoreInv

\* Every step leaves the table sound, and the process exits with its table emptied.
LEMMA StoreSteps ==
  ASSUME Inv, StoreInv, [Next]_vars
  PROVE  StoreInv' /\ (Exit => DOMAIN Contents' = {})
<1>1. ASSUME ParserTest PROVE StoreInv'
  <2>1. pc = "hash" /\ pc' = "tests" /\ step' = 0 /\ table' = table
    BY <1>1 DEF ParserTest, store
  <2>2. ~(step' > Len(Early))
    BY <2>1, TestCases
  <2> QED  BY <2>1, <2>2 DEF StoreInv
<1>2. ASSUME TestsDone PROVE StoreInv'
  <2>1. pc = "tests" /\ pc' = "listen" /\ table' = table
    BY <1>2 DEF TestsDone
  <2>2. step > Len(Early)
    BY <1>2, TestCases DEF TestsDone
  <2> QED  BY <2>1, <2>2 DEF StoreInv, Contents
<1>3. ASSUME Exit PROVE StoreInv' /\ DOMAIN Contents' = {}
  <2>1. pc \in {"failed", "down"} /\ pc' = "exited" /\ table' = C!T!HtDestroy(table)
    BY <1>3 DEF Exit
  <2>2. DOMAIN table'.heap = {} /\ DOMAIN Contents' = {}
    BY <2>1, DestroyedStore DEF StoreInv
  <2> QED  BY <2>1, <2>2 DEF StoreInv
<1>4. ASSUME table' = table,
             \/ pc' = pc /\ step' = step
             \/ pc # "exited" /\ pc' \notin {"tests", "listen", "exited"}
      PROVE  StoreInv'
  BY <1>4 DEF StoreInv, Contents
<1>5. StoreInv'
  BY <1>1, <1>2, <1>3, <1>4, HashTestStore, ExecuteStore, StoreAlone
<1> QED  BY <1>3, <1>5

\* Before there is a listener nobody waits for it, and each error path of net_init() finds open
\* what it closes.
LEMMA OpenStep ==
  ASSUME Inv, OpenInv, [Next]_vars
  PROVE  OpenInv'
<1> DEFINE Booting == {"hash", "tests", "listen"}
<1>1. CASE UNCHANGED vars
  BY <1>1 DEF vars, program, OpenInv, Pending
<1>2. CASE ClientStep
  <2>1. pc' = pc /\ fds' = fds
    BY <1>2, SMTT(30) DEF ClientStep, Connect, Send, Leave, program
  <2>2. ASSUME pc \in Booting, NEW d \in Clients PROVE net'[d].st = net[d].st
    <3>1. net = [c \in Clients |-> net[c]]
      BY DEF Inv, TypeInv
    <3>2. \A c \in Clients : NetOK(net[c])
      BY DEF Inv, ClientsInv, ClientInv
    <3>3. PICK c \in Clients : Connect(c) \/ Send(c) \/ Leave(c)
      BY <1>2 DEF ClientStep
    <3>4. ~Connect(c)
      BY <2>2 DEF Connect, OpenInv
    <3> QED  BY <3>1, <3>2, <3>3, <3>4, ZenonT(40) DEF Send, Leave, NetOK
  <2>3. pc \in Booting /\ Pending = {} => Pending' = {}
    BY <2>2 DEF Pending
  <2> QED  BY <2>1, <2>3 DEF OpenInv
<1>3. CASE Signal
  <2>1. \/ pc' \in {"killed", "loop", "wait", "events", "dispatch", "down"}
        \/ pc' = pc /\ UNCHANGED <<fds, net>>
    BY <1>3 DEF Signal
  <2> QED  BY <2>1 DEF OpenInv, Pending
<1>4. CASE HashTest \/ ParserTest \/ CommandTest \/ TestsDone
  <2>1. pc \in Booting /\ pc' \in Booting /\ UNCHANGED <<fds, net>>
    BY <1>4 DEF HashTest, ParserTest, CommandTest, TestsDone, program, history
  <2> QED  BY <2>1 DEF OpenInv, Pending
<1>5. CASE NetInit
  <2>1. \/ pc' = "epoll" /\ fds' = {"listener"}
        \/ pc = "epoll" /\ pc' = "register" /\ fds' = fds \cup {"epoll"}
        \/ pc' \in {"handlers", "loop", "failed"}
    BY <1>5 DEF NetInit, GoOn, InitFails
  <2> QED  BY <2>1 DEF OpenInv
<1>6. ASSUME ProgramStep, ~(HashTest \/ ParserTest \/ CommandTest \/ TestsDone \/ NetInit)
      PROVE  OpenInv'
  <2>1. pc' \in Serving \cup Ended
    <3>1. CASE Test \/ EpollWait \/ BatchDone \/ ListenerFails \/ Teardown \/ Exit
      BY <3>1 DEF Test, EpollWait, BatchDone, ListenerFails, Teardown, Exit, Serving, Ended
    <3>2. CASE AcceptClients
      BY <3>2, SMTT(30) DEF AcceptClients, program, Serving
    <3>3. CASE HandleRead \/ HandleWrite
      BY <3>3 DEF HandleRead, HandleWrite, Close, Arm, Serving
    <3>4. CASE DispatchFrame
      BY <3>4, ExecutesAsked, ParserParses DEF Serving
    <3>5. CASE DispatchEnd
      BY <3>5 DEF DispatchEnd, Close, Arm, Serving
    <3> QED  BY <1>6, <3>1, <3>2, <3>3, <3>4, <3>5 DEF ProgramStep
  <2> QED  BY <2>1 DEF OpenInv, Serving, Ended
<1> QED  BY <1>1, <1>2, <1>3, <1>4, <1>5, <1>6 DEF Next

(* Every step keeps the invariant, and is one of Service or none that the
   clients see. *)
LEMMA ProgramSteps ==
  ASSUME Inv, StoreInv, OpenInv, [Next]_vars
  PROVE  Inv' /\ StoreInv' /\ OpenInv' /\ ServiceStep
<1>1. StoreInv' /\ (Exit => DOMAIN Contents' = {})
  BY StoreSteps
<1>2. ASSUME NEW q \in Asked, C!Execute(q), pc # "exited" PROVE Executed(q)
  <2>1. Service!Apply(q) /\ Leaves(q)
    BY <1>2, Applied DEF StoreInv
  <2> QED  BY <2>1 DEF Executed, Leaves
<1>3. Inv' /\ ServiceStep
  BY <1>1, <1>2, ParserParses, Steps
<1> QED  BY <1>1, <1>3, OpenStep

\* The initial states satisfy the invariant and are those of the service.
LEMMA Beginning ==
  ASSUME Init
  PROVE  Inv /\ StoreInv /\ OpenInv /\ Service!Init
<1>1. pc = "hash" /\ D!P!Sound(table) /\ DOMAIN Contents = {}
  BY FreshStore DEF Init
<1>2. OpenInv
  <2>1. fds = {} /\ \A c \in Clients : net[c].st = "idle"
    BY DEF Init
  <2> QED  BY <1>1, <2>1 DEF OpenInv, Pending
<1> QED  BY <1>1, <1>2, Begins DEF StoreInv

-----------------------------------------------------------------------------
(* The theorems.                                                           *)

(* The invariant holds: in particular, of every client that is not given up,
   what the program holds of its bytes, what is on its way and what it has
   yet to write are together the lines of exactly the requests that have not
   been executed; and the store is sound. *)
THEOREM ServerInvariant == Spec => [](Inv /\ StoreInv /\ OpenInv)
<1>1. Init => Inv /\ StoreInv /\ OpenInv
  BY Beginning
<1>2. Inv /\ StoreInv /\ OpenInv /\ [Next]_vars => Inv' /\ StoreInv' /\ OpenInv'
  BY ProgramSteps
<1> QED  BY <1>1, <1>2, PTL DEF Spec

(* Whatever fails in the self tests, what they leave behind for the clients
   is at most the two keys of the last ones. *)
THEOREM LeftoversHold == Spec => []Leftovers
<1>1. StoreInv => Leftovers
  BY DEF StoreInv, Leftovers, Contents
<1> QED  BY <1>1, ServerInvariant, PTL

(* main() returns with every descriptor closed, every connection freed and
   the heap empty, on every path. *)
THEOREM NothingIsLeft == Spec => []NothingLeft
<1>1. Inv /\ StoreInv => NothingLeft
  <2> SUFFICES ASSUME Inv, StoreInv, pc = "exited"
               PROVE  /\ fds = {} /\ DOMAIN conn = {} /\ Pending \cup Open = {}
                      /\ DOMAIN table.heap = {}
    BY DEF NothingLeft
  <2>1. /\ fds = {} /\ DOMAIN conn = {} /\ Pending = {} /\ DOMAIN table.heap = {}
    BY DEF Inv, PlaceInv, StoreInv, Serving, Ended
  <2>2. Open = {}
    BY <2>1 DEF Inv, ClientsInv, ClientInv, Open
  <2> QED  BY <2>1, <2>2
<1> QED  BY <1>1, ServerInvariant, PTL

(* However the bytes of the clients are cut, their requests interleaved and
   whatever fails: the program is one store that executes what each of them
   asked once and in its order, and answers it in that order, until it gives
   the client up. *)
THEOREM ServiceImplemented == Spec => ImplementsService
<1>1. Init => Service!Init
  BY Beginning
<1>2. Inv /\ StoreInv /\ OpenInv /\ [Next]_vars => ServiceStep
  BY ProgramSteps
<1>3. ServiceStep => [Service!Next]_<<C!T!Contents(table), asked, done,
                                      [c \in Clients |-> Answers(c)], Over,
                                      pc \notin {"hash", "tests"}>>
  BY DEF ServiceStep, Contents
<1> QED  BY <1>1, <1>2, <1>3, ServerInvariant, PTL DEF Spec, ImplementsService, Service!Spec
==============================================================================
