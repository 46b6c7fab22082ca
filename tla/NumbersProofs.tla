---------------------------- MODULE NumbersProofs ----------------------------
(***************************************************************************)
(* First what the proofs of the other modules share: induction over the      *)
(* natural numbers for a set of numbers, functions defined by recursion, and *)
(* what FlattenSeq() makes of a sequence of sequences; nothing of that needs *)
(* the constants of Numbers.  Then proofs about the numbers, for every width *)
(* and base: what parse_int64() reads is what the digits denote, and it      *)
(* refuses exactly what is no numeral or denotes more than ReadLimit.        *)
(***************************************************************************)
EXTENDS Numbers, SequencesExt, SequenceTheorems, WellFoundedInduction, TLAPS

-----------------------------------------------------------------------------
(* A set of natural numbers that is not empty has a least element. *)
LEMMA LeastNumber ==
  ASSUME NEW T \in SUBSET Nat, T # {}
  PROVE  \E n \in T : \A m \in T : n <= m
<1> DEFINE R == OpToRel(<, Nat)
<1>1. IsWellFoundedOn(R, Nat)
  BY NatLessThanWellFounded
<1>2. \E n \in T : \A m \in T : ~(<<m, n>> \in R)
  <2> HIDE DEF R
  <2> QED  BY <1>1, WFMin
<1>3. \E n \in T : \A m \in T : ~(m < n)
  BY <1>2 DEF OpToRel
<1> QED  BY <1>3

LEMMA NumberInduction ==
  ASSUME NEW T, 0 \in T, \A n \in Nat : n \in T => n + 1 \in T
  PROVE  Nat \subseteq T
<1> DEFINE U == Nat \ T
<1> SUFFICES ASSUME U # {} PROVE FALSE
  OBVIOUS
<1>1. PICK n \in U : \A m \in U : n <= m
  <2>1. U \in SUBSET Nat
    OBVIOUS
  <2> HIDE DEF U
  <2> QED  BY <2>1, LeastNumber
<1>2. n # 0 /\ n - 1 \in Nat
  BY <1>1
<1>3. n - 1 \in T
  BY <1>1, <1>2
<1> QED  BY <1>1, <1>2, <1>3

(* f is defined by recursion: from a, by the steps in g. *)
Recursive(f, n, V, a, g) ==
  /\ f \in [0 .. n -> V]
  /\ f[0] = a
  /\ \A i \in 1 .. n : f[i] = g[i][f[i - 1]]

LEMMA Recursion ==
  ASSUME NEW n \in Nat, NEW V, NEW a \in V, NEW g \in [1 .. n -> [V -> V]]
  PROVE  \E f : Recursive(f, n, V, a, g)
<1> DEFINE U == {m \in Nat : m <= n =>
                   \E f \in [0 .. m -> V] :
                     f[0] = a /\ \A i \in 1 .. m : f[i] = g[i][f[i - 1]]}
<1>1. 0 \in U
  <2> DEFINE f == [i \in 0 .. 0 |-> a]
  <2>1. f \in [0 .. 0 -> V] /\ f[0] = a /\ \A i \in 1 .. 0 : f[i] = g[i][f[i - 1]]
    OBVIOUS
  <2> QED  BY <2>1
<1>2. ASSUME NEW m \in Nat, m \in U PROVE m + 1 \in U
  <2> SUFFICES ASSUME m + 1 <= n
               PROVE  \E f \in [0 .. m + 1 -> V] :
                        f[0] = a /\ \A i \in 1 .. m + 1 : f[i] = g[i][f[i - 1]]
    OBVIOUS
  <2>1. PICK f \in [0 .. m -> V] : f[0] = a /\ \A i \in 1 .. m : f[i] = g[i][f[i - 1]]
    BY <1>2
  <2> DEFINE next == g[m + 1][f[m]]
             h    == [i \in 0 .. m + 1 |-> IF i = m + 1 THEN next ELSE f[i]]
  <2>2. next \in V
    <3>1. m \in 0 .. m /\ m + 1 \in 1 .. n
      OBVIOUS
    <3>2. f[m] \in V /\ g[m + 1] \in [V -> V]
      BY <3>1
    <3> QED  BY <3>2
  <2> HIDE DEF next
  <2>3. h \in [0 .. m + 1 -> V] /\ h[0] = a
    BY <2>1, <2>2
  <2>4. ASSUME NEW i \in 1 .. m + 1 PROVE h[i] = g[i][h[i - 1]]
    <3>1. CASE i = m + 1
      <4>1. h[i] = next /\ h[i - 1] = f[m]
        BY <3>1
      <4> QED  BY <3>1, <4>1 DEF next
    <3>2. CASE i # m + 1
      <4>1. i \in 1 .. m /\ h[i] = f[i] /\ h[i - 1] = f[i - 1]
        BY <3>2
      <4> QED  BY <2>1, <4>1
    <3> QED  BY <3>1, <3>2
  <2> HIDE DEF h
  <2> QED  BY <2>3, <2>4
<1>3. n \in U
  <2> HIDE DEF U
  <2> QED  BY <1>1, <1>2, NumberInduction
<1> QED  BY <1>3 DEF Recursive

-----------------------------------------------------------------------------
(* FlattenSeq().                                                           *)

(* The concatenations of the first sequences of ss, as FlattenSeq() makes
   them, one after the other. *)
Joined(s, t)       == s \o t
Step(f, ss, i)     == IF i = 1 THEN ss[i] ELSE Joined(f[i - 1], ss[i])
Concats(f, ss, n)  == f = [i \in 1 .. n |-> Step(f, ss, i)]

LEMMA ConcatsAt ==
  ASSUME NEW f, NEW ss, NEW n, Concats(f, ss, n), NEW i \in 1 .. n
  PROVE  f[i] = IF i = 1 THEN ss[i] ELSE Joined(f[i - 1], ss[i])
<1>1. f[i] = Step(f, ss, i)
  BY DEF Concats
<1> QED  BY <1>1 DEF Step

LEMMA ConcatsExist ==
  ASSUME NEW ss
  PROVE  \A n \in Nat : \E f : Concats(f, ss, n)
<1> DEFINE T == {n \in Nat : \E f : Concats(f, ss, n)}
<1>1. 0 \in T
  <2> DEFINE f == [i \in 1 .. 0 |-> 0]
  <2>1. Concats(f, ss, 0)
    BY DEF Concats
  <2> QED  BY <2>1
<1>2. ASSUME NEW n \in Nat, n \in T PROVE n + 1 \in T
  <2>1. PICK f : Concats(f, ss, n)
    BY <1>2
  <2> DEFINE g == [i \in 1 .. n + 1 |-> IF i = n + 1 THEN Step(f, ss, i) ELSE f[i]]
  <2>2. ASSUME NEW i \in 1 .. n + 1 PROVE g[i] = Step(g, ss, i)
    <3>1. g[i] = Step(f, ss, i)
      BY <2>1, ConcatsAt DEF Step
    <3>2. i # 1 => g[i - 1] = f[i - 1]
      OBVIOUS
    <3> HIDE DEF g
    <3> QED  BY <3>1, <3>2 DEF Step
  <2>3. g = [i \in 1 .. n + 1 |-> g[i]]
    OBVIOUS
  <2> HIDE DEF g
  <2>4. Concats(g, ss, n + 1)
    BY <2>2, <2>3 DEF Concats
  <2> QED  BY <2>4
<1> HIDE DEF T
<1>3. Nat \subseteq T
  BY <1>1, <1>2, NumberInduction
<1> QED  BY <1>3 DEF T

(* What they are, however many of them. *)
LEMMA ConcatsType ==
  ASSUME NEW S, NEW ss \in Seq(Seq(S)), NEW f, Concats(f, ss, Len(ss))
  PROVE  \A i \in 1 .. Len(ss) : f[i] \in Seq(S)
<1> DEFINE T == {n \in Nat : n \in 1 .. Len(ss) => f[n] \in Seq(S)}
<1>1. 0 \in T
  OBVIOUS
<1>2. ASSUME NEW n \in Nat, n \in T PROVE n + 1 \in T
  <2> SUFFICES ASSUME n + 1 \in 1 .. Len(ss) PROVE f[n + 1] \in Seq(S)
    OBVIOUS
  <2>1. ss[n + 1] \in Seq(S)
    OBVIOUS
  <2>2. f[n + 1] = IF n = 0 THEN ss[n + 1] ELSE Joined(f[n], ss[n + 1])
    <3>1. (n + 1 = 1) = (n = 0) /\ (n + 1) - 1 = n
      OBVIOUS
    <3>2. f[n + 1] = IF n + 1 = 1 THEN ss[n + 1] ELSE Joined(f[(n + 1) - 1], ss[n + 1])
      BY ConcatsAt
    <3> QED  BY <3>1, <3>2
  <2>3. n # 0 => f[n] \in Seq(S)
    BY <1>2
  <2> QED  BY <2>1, <2>2, <2>3 DEF Joined
<1> HIDE DEF T
<1>3. Nat \subseteq T
  BY <1>1, <1>2, NumberInduction
<1> QED  BY <1>3 DEF T

LEMMA ConcatsAgree ==
  ASSUME NEW ss, NEW tt, NEW m \in Nat, NEW n \in Nat, m <= n,
         \A i \in 1 .. m : tt[i] = ss[i],
         NEW f, Concats(f, ss, m), NEW g, Concats(g, tt, n)
  PROVE  \A i \in 1 .. m : g[i] = f[i]
<1> DEFINE T == {j \in Nat : j \in 1 .. m => g[j] = f[j]}
<1>1. 0 \in T
  OBVIOUS
<1>2. ASSUME NEW j \in Nat, j \in T PROVE j + 1 \in T
  <2> SUFFICES ASSUME j + 1 \in 1 .. m PROVE g[j + 1] = f[j + 1]
    OBVIOUS
  <2>1. f[j + 1] = IF j = 0 THEN ss[j + 1] ELSE Joined(f[j], ss[j + 1])
    <3>1. (j + 1 = 1) = (j = 0) /\ (j + 1) - 1 = j
      OBVIOUS
    <3>2. f[j + 1] = IF j + 1 = 1 THEN ss[j + 1] ELSE Joined(f[(j + 1) - 1], ss[j + 1])
      BY ConcatsAt
    <3> QED  BY <3>1, <3>2
  <2>2. g[j + 1] = IF j = 0 THEN tt[j + 1] ELSE Joined(g[j], tt[j + 1])
    <3>1. (j + 1 = 1) = (j = 0) /\ (j + 1) - 1 = j
      OBVIOUS
    <3>2. g[j + 1] = IF j + 1 = 1 THEN tt[j + 1] ELSE Joined(g[(j + 1) - 1], tt[j + 1])
      BY ConcatsAt
    <3> QED  BY <3>1, <3>2
  <2>3. j # 0 => g[j] = f[j]
    BY <1>2
  <2> QED  BY <2>1, <2>2, <2>3
<1> HIDE DEF T
<1>3. Nat \subseteq T
  BY <1>1, <1>2, NumberInduction
<1> QED  BY <1>3 DEF T

(* One more sequence is concatenated to what there was. *)
LEMMA ConcatsNext ==
  ASSUME NEW ss, NEW tt, NEW m \in Nat \ {0}, NEW n, n = m + 1,
         \A i \in 1 .. m : tt[i] = ss[i],
         NEW f, Concats(f, ss, m), NEW g, Concats(g, tt, n)
  PROVE  g[n] = Joined(f[m], tt[n])
<1>1. n \in Nat /\ m \in Nat /\ m <= n /\ m \in 1 .. m
  OBVIOUS
<1>2. \A i \in 1 .. m : g[i] = f[i]
  BY <1>1, ConcatsAgree
<1>3. n \in 1 .. n /\ n # 1 /\ n - 1 = m
  OBVIOUS
<1>4. \A i \in 1 .. n : g[i] = IF i = 1 THEN tt[i] ELSE Joined(g[i - 1], tt[i])
  BY ConcatsAt
<1> QED  BY <1>1, <1>2, <1>3, <1>4

LEMMA FlattenIsConcats ==
  ASSUME NEW ss, Len(ss) \in Nat \ {0}
  PROVE  \E f : Concats(f, ss, Len(ss)) /\ FlattenSeq(ss) = f[Len(ss)]
<1> DEFINE f == CHOOSE x : Concats(x, ss, Len(ss))
<1>1. Concats(f, ss, Len(ss))
  BY ConcatsExist
<1>2. FlattenSeq(ss) = f[Len(ss)]
  BY DEF FlattenSeq, Concats, Step, Joined
<1> QED  BY <1>1, <1>2

(* Nothing flattened is nothing. *)
LEMMA FlattenEmpty == FlattenSeq(<<>>) = <<>>
BY DEF FlattenSeq

(* Flattening concatenates one sequence after the other. *)
LEMMA FlattenAppend ==
  ASSUME NEW S, NEW ss \in Seq(Seq(S)), NEW s \in Seq(S)
  PROVE  /\ FlattenSeq(ss) \in Seq(S)
         /\ FlattenSeq(Append(ss, s)) = FlattenSeq(ss) \o s
<1>1. ASSUME NEW tt, tt = Append(ss, s), NEW m, m = Len(ss), NEW n, n = Len(tt)
      PROVE  FlattenSeq(ss) \in Seq(S) /\ FlattenSeq(tt) = FlattenSeq(ss) \o s
  <2>1. /\ m \in Nat /\ n = m + 1 /\ n \in Nat \ {0} /\ n \in 1 .. n /\ tt[n] = s
        /\ \A i \in 1 .. m : tt[i] = ss[i]
    BY <1>1
  <2>2. PICK g : Concats(g, tt, n) /\ FlattenSeq(tt) = g[n]
    BY <1>1, <2>1, FlattenIsConcats
  <2>3. CASE m = 0
    <3>1. ss = <<>> /\ FlattenSeq(ss) = <<>>
      <4>1. ss = <<>>
        BY <1>1, <2>3, EmptySeq
      <4> QED  BY <4>1, FlattenEmpty
    <3>2. n = 1 /\ g[n] = s
      BY <2>1, <2>2, <2>3, ConcatsAt
    <3>3. <<>> \in Seq(S) /\ <<>> \o s = s
      OBVIOUS
    <3> QED  BY <2>2, <3>1, <3>2, <3>3, Zenon
  <2>4. CASE m # 0
    <3>1. m \in Nat \ {0}
      BY <2>1, <2>4
    <3>2. PICK f : Concats(f, ss, m) /\ FlattenSeq(ss) = f[m]
      BY <1>1, <3>1, FlattenIsConcats
    <3>3. f[m] \in Seq(S)
      BY <1>1, <3>1, <3>2, ConcatsType
    <3>4. g[n] = Joined(f[m], tt[n])
      BY <2>1, <2>2, <3>1, <3>2, ConcatsNext
    <3> QED  BY <2>1, <2>2, <3>2, <3>3, <3>4 DEF Joined
  <2> QED  BY <2>1, <2>3, <2>4
<1> QED  BY <1>1

(* What a function makes of each member of a sequence. *)
Maps(f, R, T) == f \in [R -> T]
Mapped(f, s)  == [i \in DOMAIN s |-> f[s[i]]]

LEMMA MapAppend ==
  ASSUME NEW R, NEW T, NEW f, Maps(f, R, T), NEW ex \in Seq(R), NEW r \in R
  PROVE  /\ Mapped(f, ex) \in Seq(T)
         /\ Mapped(f, Append(ex, r)) = Append(Mapped(f, ex), f[r])
<1> DEFINE longer == Append(ex, r)
           fex    == [i \in DOMAIN ex |-> f[ex[i]]]
           flonger == [i \in DOMAIN longer |-> f[longer[i]]]
<1>0. f \in [R -> T]
  BY DEF Maps
<1>1. /\ longer \in Seq(R) /\ Len(longer) = Len(ex) + 1 /\ Len(ex) \in Nat
      /\ longer[Len(ex) + 1] = r
      /\ \A i \in 1 .. Len(ex) : longer[i] = ex[i]
      /\ DOMAIN longer = 1 .. Len(ex) + 1 /\ DOMAIN ex = 1 .. Len(ex)
  OBVIOUS
<1> HIDE DEF longer
<1>2. fex \in Seq(T) /\ Len(fex) = Len(ex)
      /\ \A i \in 1 .. Len(ex) : fex[i] = f[ex[i]]
  BY <1>0, <1>1
<1>3. flonger \in Seq(T) /\ Len(flonger) = Len(ex) + 1
      /\ \A i \in 1 .. Len(ex) + 1 : flonger[i] = f[longer[i]]
  BY <1>0, <1>1
<1> HIDE DEF fex, flonger
<1>4. f[r] \in T
  BY <1>0
<1>5. /\ Append(fex, f[r]) \in Seq(T) /\ Len(Append(fex, f[r])) = Len(ex) + 1
      /\ \A i \in 1 .. Len(ex) + 1 : Append(fex, f[r])[i] = flonger[i]
  BY <1>1, <1>2, <1>3, <1>4
<1>6. flonger = Append(fex, f[r])
  BY <1>1, <1>3, <1>5, SeqEqual
<1> QED  BY <1>2, <1>6 DEF fex, flonger, longer, Mapped

(* and one sequence before the others. *)
LEMMA FlattenFirst ==
  ASSUME NEW S
  PROVE  \A ss \in Seq(Seq(S)) : ss # <<>> =>
           /\ Tail(ss) \in Seq(Seq(S)) /\ FlattenSeq(Tail(ss)) \in Seq(S)
           /\ FlattenSeq(ss) = Head(ss) \o FlattenSeq(Tail(ss))
<1> DEFINE Good(ss) == FlattenSeq(ss) = Head(ss) \o FlattenSeq(Tail(ss))
           U == {n \in Nat : \A ss \in Seq(Seq(S)) : Len(ss) = n + 1 => Good(ss)}
<1>1. 0 \in U
  <2> SUFFICES ASSUME NEW ss \in Seq(Seq(S)), Len(ss) = 1 PROVE Good(ss)
    OBVIOUS
  <2> DEFINE R == Seq(S)
  <2>0. ss \in Seq(R) /\ ss[1] \in R /\ Head(ss) = ss[1]
    OBVIOUS
  <2>1. ss = Append(<<>>, Head(ss)) /\ Head(ss) \in Seq(S) /\ Tail(ss) = <<>>
    <3>1. Head(ss) \in Seq(S)
      BY <2>0
    <3> HIDE DEF R
    <3>2. ss = Append(<<>>, ss[1])
      <4>1. /\ Append(<<>>, ss[1]) \in Seq(R) /\ Len(Append(<<>>, ss[1])) = 1
            /\ Append(<<>>, ss[1])[1] = ss[1]
        BY <2>0
      <4> QED  BY <2>0, <4>1, SeqEqual
    <3>3. Tail(ss) = <<>>
      <4>1. ss # <<>> /\ Len(ss) - 1 = 0
        BY <2>0
      <4> DEFINE t == Tail(ss)
      <4>2. t \in Seq(R) /\ Len(t) = 0
        BY <2>0, <4>1, HeadTailProperties
      <4> HIDE DEF t
      <4>3. t = <<>>
        BY <4>2
      <4> QED  BY <4>3 DEF t
    <3> QED  BY <2>0, <3>1, <3>2, <3>3
  <2>2. <<>> \in Seq(Seq(S))
    OBVIOUS
  <2>3. FlattenSeq(ss) = FlattenSeq(<<>>) \o Head(ss)
    BY <2>1, <2>2, FlattenAppend
  <2>4. FlattenSeq(ss) = <<>> \o Head(ss) /\ FlattenSeq(Tail(ss)) = <<>>
    BY <2>1, <2>3, FlattenEmpty
  <2>5. <<>> \o Head(ss) = Head(ss) \o <<>>
    BY <2>1
  <2> QED  BY <2>4, <2>5
<1>2. ASSUME NEW n \in Nat, n \in U PROVE n + 1 \in U
  <2> SUFFICES ASSUME NEW ss \in Seq(Seq(S)), Len(ss) = (n + 1) + 1 PROVE Good(ss)
    OBVIOUS
  <2> DEFINE R  == Seq(S)
             tt == SubSeq(ss, 1, n + 1)
             s  == ss[n + 2]
  <2>1. n + 2 \in 1 .. n + 2 /\ 1 \in 1 .. n + 1 /\ \A i \in 1 .. n + 1 : i \in 1 .. n + 2
    OBVIOUS
  <2>2. /\ ss \in Seq(R) /\ s \in R /\ tt \in Seq(R) /\ Len(tt) = n + 1
        /\ \A i \in 1 .. n + 1 : tt[i] = ss[i]
    BY <2>1, SubSeqProperties
  <2> HIDE DEF R, tt, s
  <2>3. ss = Append(tt, s)
    <3>1. /\ Append(tt, s) \in Seq(R) /\ Len(Append(tt, s)) = n + 2
          /\ \A i \in 1 .. n + 1 : Append(tt, s)[i] = tt[i]
          /\ Append(tt, s)[n + 2] = s
      BY <2>2, AppendProperties
    <3>2. \A i \in 1 .. n + 2 : Append(tt, s)[i] = ss[i]
      BY <2>1, <2>2, <3>1 DEF s
    <3> QED  BY <2>2, <3>1, <3>2, SeqEqual
  <2>4. /\ tt # <<>> /\ Tail(tt) \in Seq(R) /\ Head(ss) = Head(tt) /\ Head(tt) \in R
        /\ Tail(ss) = Append(Tail(tt), s)
    BY <2>2, <2>3
  <2>5. Good(tt)
    <3> HIDE DEF Good
    <3> QED  BY <1>2, <2>2 DEF R
  <2>6. FlattenSeq(ss) = FlattenSeq(tt) \o s
    BY <2>2, <2>3, FlattenAppend DEF R
  <2>7. /\ FlattenSeq(Tail(tt)) \in R
        /\ FlattenSeq(Tail(ss)) = FlattenSeq(Tail(tt)) \o s
    BY <2>2, <2>4, FlattenAppend DEF R
  <2> DEFINE x == FlattenSeq(Tail(tt))
  <2>8. (Head(tt) \o x) \o s = Head(tt) \o (x \o s)
    <3> DEFINE h == Head(tt)
    <3>1. h \in Seq(S) /\ x \in Seq(S) /\ s \in Seq(S)
      BY <2>2, <2>4, <2>7 DEF R
    <3> HIDE DEF x, h, R, Good, U
    <3>2. (h \o x) \o s = h \o (x \o s)
      BY <3>1, ConcatAssociative, SMTT(20)
    <3> QED  BY <3>2 DEF h
  <2> QED  BY <2>4, <2>5, <2>6, <2>7, <2>8
<1>3. ASSUME NEW ss \in Seq(Seq(S)), ss # <<>>
      PROVE  Tail(ss) \in Seq(Seq(S)) /\ FlattenSeq(Tail(ss)) \in Seq(S) /\ Good(ss)
  <2>1. Len(ss) - 1 \in Nat /\ Len(ss) = (Len(ss) - 1) + 1
    BY <1>3
  <2>2. Len(ss) - 1 \in U
    <3> HIDE DEF U
    <3> QED  BY <1>1, <1>2, <2>1, NumberInduction
  <2>3. Tail(ss) \in Seq(Seq(S)) /\ <<>> \in Seq(S)
    BY <1>3
  <2>4. FlattenSeq(Tail(ss)) \in Seq(S)
    BY <2>3, FlattenAppend
  <2> QED  BY <2>1, <2>2, <2>3, <2>4
<1> QED  BY <1>3

(* Where two concatenations are the same, so are parts of the same length. *)
LEMMA SameParts ==
  ASSUME NEW S, NEW s \in Seq(S), NEW t \in Seq(S), NEW u \in Seq(S), NEW v \in Seq(S),
         s \o t = u \o v, Len(s) = Len(u)
  PROVE  s = u /\ t = v
<1>1. \A i \in 1 .. Len(s) : s[i] = u[i]
  <2> SUFFICES ASSUME NEW i \in 1 .. Len(s) PROVE s[i] = u[i]
    OBVIOUS
  <2> DEFINE m == Len(s)
             n == Len(t)
             k == Len(v)
  <2>1. m \in Nat /\ n \in Nat /\ k \in Nat
    OBVIOUS
  <2>2. \A j \in 1 .. m + n : (s \o t)[j] = IF j <= m THEN s[j] ELSE t[j - m]
    BY ConcatProperties
  <2>3. \A j \in 1 .. m + k : (u \o v)[j] = IF j <= m THEN u[j] ELSE v[j - m]
    BY ConcatProperties
  <2> HIDE DEF m, n, k
  <2>4. i \in 1 .. m + n /\ i \in 1 .. m + k /\ i <= m
    BY <2>1 DEF m
  <2> QED  BY <2>2, <2>3, <2>4, Zenon
<1>2. s = u
  BY <1>1, SeqEqual
<1>3. s \o t = s \o v
  BY <1>2
<1> QED  BY <1>2, <1>3, ConcatSimplifications, Zenon

-----------------------------------------------------------------------------
(* Sequences in which nothing comes twice.                                 *)

Members(s)  == {s[i] : i \in DOMAIN s}
Distinct(s) == \A i, j \in DOMAIN s : s[i] = s[j] => i = j

LEMMA DistinctConcat ==
  ASSUME NEW S, NEW s \in Seq(S), NEW t \in Seq(S),
         Distinct(s), Distinct(t), Members(s) \cap Members(t) = {}
  PROVE  /\ s \o t \in Seq(S)
         /\ Distinct(s \o t) /\ Members(s \o t) = Members(s) \cup Members(t)
<1> DEFINE u == s \o t
           m == Len(s)
           n == Len(t)
<1>1. /\ m \in Nat /\ n \in Nat /\ DOMAIN s = 1 .. m /\ DOMAIN t = 1 .. n
      /\ u \in Seq(S) /\ DOMAIN u = 1 .. m + n
      /\ \A i \in 1 .. m + n : u[i] = IF i <= m THEN s[i] ELSE t[i - m]
  BY ConcatProperties
<1> HIDE DEF u, m, n
<1>2. ASSUME NEW i \in 1 .. m + n, ~(i <= m)
      PROVE  i - m \in 1 .. n /\ u[i] = t[i - m]
  BY <1>1, <1>2
<1>3. ASSUME NEW i \in 1 .. m PROVE i \in 1 .. m + n /\ u[i] = s[i]
  BY <1>1
<1>4. ASSUME NEW i \in 1 .. n PROVE i + m \in 1 .. m + n /\ u[i + m] = t[i]
  <2>1. i + m \in 1 .. m + n /\ ~(i + m <= m) /\ (i + m) - m = i
    BY <1>1
  <2> QED  BY <1>1, <2>1
<1>5. \A i \in 1 .. m : \A j \in 1 .. n : s[i] # t[j]
  BY <1>1 DEF Members
<1>6. Distinct(u)
  <2> SUFFICES ASSUME NEW i \in 1 .. m + n, NEW j \in 1 .. m + n, u[i] = u[j] PROVE i = j
    BY <1>1 DEF Distinct
  <2>1. CASE i <= m /\ j <= m
    <3>1. i \in 1 .. m /\ j \in 1 .. m
      BY <1>1, <2>1
    <3> QED  BY <1>1, <1>3, <3>1 DEF Distinct
  <2>2. CASE i <= m /\ ~(j <= m)
    <3>1. i \in 1 .. m
      BY <1>1, <2>2
    <3> QED  BY <1>2, <1>3, <1>5, <2>2, <3>1
  <2>3. CASE ~(i <= m) /\ j <= m
    <3>1. j \in 1 .. m
      BY <1>1, <2>3
    <3> QED  BY <1>2, <1>3, <1>5, <2>3, <3>1
  <2>4. CASE ~(i <= m) /\ ~(j <= m)
    <3>1. i - m \in 1 .. n /\ j - m \in 1 .. n /\ t[i - m] = t[j - m]
      BY <1>2, <2>4
    <3>2. i - m = j - m
      BY <1>1, <3>1 DEF Distinct
    <3> QED  BY <1>1, <3>2
  <2> QED  BY <2>1, <2>2, <2>3, <2>4
<1>7. Members(u) = Members(s) \cup Members(t)
  <2>1. ASSUME NEW i \in 1 .. m + n PROVE u[i] \in Members(s) \cup Members(t)
    <3>1. i <= m => i \in 1 .. m
      BY <1>1
    <3> QED  BY <1>1, <1>2, <1>3, <3>1 DEF Members
  <2>2. ASSUME NEW i \in 1 .. m PROVE s[i] \in Members(u)
    BY <1>1, <1>3 DEF Members
  <2>3. ASSUME NEW i \in 1 .. n PROVE t[i] \in Members(u)
    BY <1>1, <1>4 DEF Members
  <2>4. /\ Members(u) = {u[i] : i \in 1 .. m + n}
        /\ Members(s) = {s[i] : i \in 1 .. m} /\ Members(t) = {t[i] : i \in 1 .. n}
    BY <1>1 DEF Members
  <2> QED  BY <2>1, <2>2, <2>3, <2>4
<1> QED  BY <1>1, <1>6, <1>7 DEF u

LEMMA DistinctAppend ==
  ASSUME NEW S, NEW s \in Seq(S), NEW x \in S, Distinct(s), x \notin Members(s)
  PROVE  /\ Append(s, x) \in Seq(S)
         /\ Distinct(Append(s, x)) /\ Members(Append(s, x)) = Members(s) \cup {x}
<1> DEFINE t == <<x>>
<1>1. t \in Seq(S) /\ DOMAIN t = {1} /\ t[1] = x /\ Append(s, x) = s \o t
  OBVIOUS
<1> HIDE DEF t
<1>2. Distinct(t) /\ Members(t) = {x}
  BY <1>1 DEF Distinct, Members
<1> QED  BY <1>1, <1>2, DistinctConcat

(* Sequences of which no two share a member are flattened to such a one. *)
LEMMA FlattenDistinct ==
  ASSUME NEW S, NEW n \in Nat \ {0}, NEW ss \in [1 .. n -> Seq(S)],
         \A i \in 1 .. n : Distinct(ss[i]),
         \A i, j \in 1 .. n : i # j => Members(ss[i]) \cap Members(ss[j]) = {}
  PROVE  /\ FlattenSeq(ss) \in Seq(S) /\ Distinct(FlattenSeq(ss))
         /\ Members(FlattenSeq(ss)) = UNION {Members(ss[i]) : i \in 1 .. n}
<1>1. Len(ss) = n
  OBVIOUS
<1>2. PICK f : Concats(f, ss, n) /\ FlattenSeq(ss) = f[n]
  BY <1>1, FlattenIsConcats
<1>3. \A i \in 1 .. n : f[i] = IF i = 1 THEN ss[i] ELSE Joined(f[i - 1], ss[i])
  <2>1. \A i \in 1 .. n : f[i] = Step(f, ss, i)
    BY <1>2 DEF Concats
  <2> QED  BY <2>1 DEF Step
<1> DEFINE Upto(m) == UNION {Members(ss[i]) : i \in 1 .. m}
           U == {m \in Nat : m \in 1 .. n =>
                   f[m] \in Seq(S) /\ Distinct(f[m]) /\ Members(f[m]) = Upto(m)}
<1>4. 0 \in U
  OBVIOUS
<1>5. ASSUME NEW m \in Nat, m \in U PROVE m + 1 \in U
  <2> SUFFICES ASSUME m + 1 \in 1 .. n
               PROVE  /\ f[m + 1] \in Seq(S) /\ Distinct(f[m + 1])
                      /\ Members(f[m + 1]) = Upto(m + 1)
    OBVIOUS
  <2>1. CASE m = 0
    <3>1. 1 \in 1 .. n /\ 1 .. 1 = {1} /\ m + 1 = 1
      BY <2>1
    <3>2. f[1] = ss[1]
      BY <1>2, <3>1, ConcatsAt
    <3>3. Upto(1) = Members(ss[1])
      BY <3>1
    <3> QED  BY <3>1, <3>2, <3>3
  <2>2. CASE m # 0
    <3> DEFINE j == m + 1
    <3>1. j \in 1 .. n /\ j # 1 /\ j - 1 = m /\ m \in 1 .. n /\ 1 .. j = (1 .. m) \cup {j}
          /\ j \notin 1 .. m /\ 1 .. m \subseteq 1 .. n
      BY <2>2
    <3> HIDE DEF j
    <3>2. f[j] = Joined(f[m], ss[j])
      <4>1. f[j] = IF j = 1 THEN ss[j] ELSE Joined(f[j - 1], ss[j])
        BY <1>3, <3>1
      <4> QED  BY <3>1, <4>1
    <3>3. f[m] \in Seq(S) /\ Distinct(f[m]) /\ Members(f[m]) = Upto(m)
      BY <1>5, <3>1
    <3>4. ss[j] \in Seq(S) /\ Distinct(ss[j])
      BY <3>1
    <3>5. Upto(m) \cap Members(ss[j]) = {}
      BY <3>1
    <3>6. Upto(j) = Upto(m) \cup Members(ss[j])
      BY <3>1
    <3>7. /\ f[j] \in Seq(S) /\ Distinct(f[j])
          /\ Members(f[j]) = Members(f[m]) \cup Members(ss[j])
      BY <3>2, <3>3, <3>4, <3>5, DistinctConcat DEF Joined
    <3>8. f[j] \in Seq(S) /\ Distinct(f[j]) /\ Members(f[j]) = Upto(j)
      BY <3>3, <3>6, <3>7
    <3> QED  BY <3>8 DEF j
  <2> QED  BY <2>1, <2>2
<1>6. n \in U
  <2> HIDE DEF U
  <2> QED  BY <1>4, <1>5, NumberInduction
<1> QED  BY <1>2, <1>6

-----------------------------------------------------------------------------
(* Prefixes.                                                               *)

(* A sequence is what comes before a place and what comes after it. *)
LEMMA SplitAt ==
  ASSUME NEW S, NEW s \in Seq(S), NEW n \in 0 .. Len(s)
  PROVE  /\ SubSeq(s, 1, n) \in Seq(S) /\ Len(SubSeq(s, 1, n)) = n
         /\ SubSeq(s, n + 1, Len(s)) \in Seq(S)
         /\ SubSeq(s, 1, n) \o SubSeq(s, n + 1, Len(s)) = s
<1>1. Len(s) \in Nat /\ n \in Nat
  OBVIOUS
<1>2. /\ SubSeq(s, 1, n) \in Seq(S) /\ Len(SubSeq(s, 1, n)) = n
      /\ SubSeq(s, n + 1, Len(s)) \in Seq(S)
  OBVIOUS
<1>3. SubSeq(s, 1, n) \o SubSeq(s, n + 1, Len(s)) = SubSeq(s, 1, Len(s))
  <2>1. /\ 1 \in 1 .. Len(s) + 1 /\ n \in 1 - 1 .. Len(s)
        /\ Len(s) \in n .. Len(s)
    BY <1>1
  <2> QED  BY <2>1, ConcatAdjacentSubSeq, Zenon
<1> QED  BY <1>2, <1>3, SubSeqFull

LEMMA PrefixAt ==
  ASSUME NEW S, NEW s \in Seq(S), NEW t \in Seq(S), IsPrefix(s, t)
  PROVE  Len(s) <= Len(t) /\ \A i \in 1 .. Len(s) : t[i] = s[i]
<1>1. Len(s) <= Len(t) /\ SubSeq(s, 1, Len(s)) = SubSeq(t, 1, Len(s))
  BY DEF IsPrefix
<1>2. \A i \in 1 .. Len(s) : SubSeq(s, 1, Len(s))[i] = s[i] /\ SubSeq(t, 1, Len(s))[i] = t[i]
  BY <1>1
<1> QED  BY <1>1, <1>2

LEMMA PrefixRest ==
  ASSUME NEW S, NEW s \in Seq(S), NEW t \in Seq(S), IsPrefix(s, t)
  PROVE  \E u \in Seq(S) : t = s \o u
<1> DEFINE u == SubSeq(t, Len(s) + 1, Len(t))
<1>1. Len(s) \in 0 .. Len(t) /\ SubSeq(s, 1, Len(s)) = SubSeq(t, 1, Len(s))
  BY DEF IsPrefix
<1>2. u \in Seq(S) /\ SubSeq(t, 1, Len(s)) \o u = t
  BY <1>1, SplitAt
<1>3. SubSeq(s, 1, Len(s)) = s
  BY SubSeqFull
<1> HIDE DEF u
<1>4. t = s \o u
  BY <1>1, <1>2, <1>3
<1> QED  BY <1>2, <1>4

LEMMA PrefixWhen ==
  ASSUME NEW S, NEW s \in Seq(S), NEW u \in Seq(S), Len(s) <= Len(u),
         \A i \in 1 .. Len(s) : u[i] = s[i]
  PROVE  IsPrefix(s, u)
<1>1. /\ SubSeq(s, 1, Len(s)) \in Seq(S) /\ SubSeq(u, 1, Len(s)) \in Seq(S)
      /\ Len(SubSeq(s, 1, Len(s))) = Len(s) /\ Len(SubSeq(u, 1, Len(s))) = Len(s)
      /\ \A i \in 1 .. Len(s) : SubSeq(s, 1, Len(s))[i] = SubSeq(u, 1, Len(s))[i]
  OBVIOUS
<1>2. SubSeq(s, 1, Len(s)) = SubSeq(u, 1, Len(s))
  BY <1>1, SeqEqual
<1> QED  BY <1>2 DEF IsPrefix

LEMMA PrefixOfConcat ==
  ASSUME NEW S, NEW s \in Seq(S), NEW t \in Seq(S)
  PROVE  IsPrefix(s, s \o t)
<1> DEFINE u == s \o t
<1>1. /\ u \in Seq(S) /\ Len(s) <= Len(u)
      /\ \A i \in 1 .. Len(s) : u[i] = s[i]
  OBVIOUS
<1> HIDE DEF u
<1>2. IsPrefix(s, u)
  BY <1>1, PrefixWhen
<1> QED  BY <1>2 DEF u

LEMMA EqualPrefix ==
  ASSUME NEW S, NEW s \in Seq(S)
  PROVE  IsPrefix(s, s)
BY DEF IsPrefix

(* The beginning of a prefix is a prefix, and stays one of a longer whole. *)
LEMMA ShorterPrefix ==
  ASSUME NEW S, NEW s \in Seq(S), NEW u \in Seq(S), NEW t \in Seq(S),
         IsPrefix(s \o u, t)
  PROVE  IsPrefix(s, t)
<1> DEFINE w == s \o u
<1>1. w \in Seq(S) /\ IsPrefix(w, t)
  BY ConcatProperties
<1> HIDE DEF w
<1>2. PICK v \in Seq(S) : t = w \o v
  BY <1>1, PrefixRest
<1> USE DEF w
<1>3. t = s \o (u \o v) /\ u \o v \in Seq(S)
  BY <1>2, ConcatAssociative, ConcatProperties
<1> QED  BY <1>3, PrefixOfConcat

LEMMA LongerWhole ==
  ASSUME NEW S, NEW s \in Seq(S), NEW t \in Seq(S), NEW u \in Seq(S),
         IsPrefix(s, t)
  PROVE  IsPrefix(s, t \o u)
<1>1. PICK v \in Seq(S) : t = s \o v
  BY PrefixRest
<1>2. t \o u = s \o (v \o u) /\ v \o u \in Seq(S)
  BY <1>1, ConcatAssociative, ConcatProperties
<1> QED  BY <1>2, PrefixOfConcat

-----------------------------------------------------------------------------
(* The loop over the digits.                                               *)

LEMMA Quotient ==
  ASSUME NEW a \in Int, NEW b \in Nat \ {0}, NEW q \in Nat, q <= a \div b
  PROVE  q * b <= a
OBVIOUS

DigitSum(s, v) ==
  v = [i \in 0 .. Len(s) |->
        IF i = 0 THEN 0
        ELSE IF \/ v[i - 1] = Malformed
                \/ ~IsDigit(s[i])
                \/ v[i - 1] > (INT_MAX - (BASE - 1)) \div BASE
               THEN Malformed
               ELSE v[i - 1] * BASE + DigitOf(s[i])]

LEMMA MagnitudeIs ==
  ASSUME NEW s
  PROVE  Magnitude(s) = (CHOOSE v : DigitSum(s, v))[Len(s)]
BY DEF Magnitude, DigitSum

LEMMA DigitRange ==
  ASSUME NEW c, IsDigit(c)
  PROVE  DigitOf(c) \in 0 .. BASE - 1
<1>1. PICK i \in 1 .. BASE : Digits[i] = c
  BY DEF IsDigit
<1>2. BASE \in Nat
  BY NumberConstants
<1>3. \E j \in 1 .. BASE : Digits[j] = c
  BY <1>1
<1> DEFINE j == CHOOSE j \in 1 .. BASE : Digits[j] = c
<1>4. j \in 1 .. BASE
  BY <1>3
<1>5. DigitOf(c) = j - 1
  BY DEF DigitOf
<1> HIDE DEF j
<1> QED  BY <1>2, <1>4, <1>5

(* The recursion over the digits has a solution. *)
LEMMA DigitSumExists ==
  ASSUME NEW s, Len(s) \in Nat
  PROVE  \E v : DigitSum(s, v)
<1> DEFINE step(i, u) ==
             IF \/ u = Malformed
                \/ ~IsDigit(s[i])
                \/ u > (INT_MAX - (BASE - 1)) \div BASE
               THEN Malformed
               ELSE u * BASE + DigitOf(s[i])
           U == {m \in Nat : \E v : v = [i \in 0 .. m |-> IF i = 0 THEN 0 ELSE step(i, v[i - 1])]}
<1>0. \A v : DigitSum(s, v) <=>
        v = [i \in 0 .. Len(s) |-> IF i = 0 THEN 0 ELSE step(i, v[i - 1])]
  BY DEF DigitSum
<1> HIDE DEF step
<1>1. 0 \in U
  <2> DEFINE v == [i \in 0 .. 0 |-> 0]
  <2>1. v = [i \in 0 .. 0 |-> IF i = 0 THEN 0 ELSE step(i, v[i - 1])]
    OBVIOUS
  <2> QED  BY <2>1
<1>2. ASSUME NEW m \in Nat, m \in U PROVE m + 1 \in U
  <2>1. PICK v : v = [i \in 0 .. m |-> IF i = 0 THEN 0 ELSE step(i, v[i - 1])]
    BY <1>2
  <2> DEFINE w == [i \in 0 .. m + 1 |-> IF i = m + 1 THEN step(i, v[m]) ELSE v[i]]
  <2>2. ASSUME NEW i \in 0 .. m + 1
        PROVE  w[i] = IF i = 0 THEN 0 ELSE step(i, w[i - 1])
    <3>1. CASE i = m + 1
      <4>1. w[i] = step(i, v[m]) /\ w[i - 1] = v[m] /\ i # 0
        BY <3>1
      <4> QED  BY <3>1, <4>1
    <3>2. CASE i = 0
      BY <2>1, <3>2
    <3>3. CASE i # m + 1 /\ i # 0
      <4>1. i \in 0 .. m /\ i - 1 \in 0 .. m
        BY <3>3
      <4>2. v[i] = step(i, v[i - 1])
        BY <2>1, <3>3, <4>1
      <4>3. w[i] = v[i] /\ w[i - 1] = v[i - 1]
        BY <3>3, <4>1
      <4> QED  BY <3>3, <4>2, <4>3
    <3> QED  BY <3>1, <3>2, <3>3
  <2>3. w = [i \in 0 .. m + 1 |-> IF i = 0 THEN 0 ELSE step(i, w[i - 1])]
    <3>1. w = [i \in 0 .. m + 1 |-> w[i]]
      OBVIOUS
    <3> HIDE DEF w
    <3> QED  BY <2>2, <3>1
  <2> HIDE DEF w
  <2> QED  BY <2>3
<1>3. Len(s) \in U
  <2> HIDE DEF U
  <2> QED  BY <1>1, <1>2, NumberInduction
<1> QED  BY <1>0, <1>3

(* parse_int64() never leaves the width of its type. *)
LEMMA MagnitudeRange ==
  ASSUME NEW s, Len(s) \in Nat
  PROVE  Magnitude(s) \in 0 .. INT_MAX \cup {Malformed}
<1> DEFINE v == CHOOSE v : DigitSum(s, v)
           U == {i \in Nat : i <= Len(s) => v[i] \in 0 .. INT_MAX \cup {Malformed}}
<1>1. DigitSum(s, v)
  BY DigitSumExists
<1>2. Magnitude(s) = v[Len(s)]
  BY MagnitudeIs
<1> HIDE DEF v
<1>3. 0 \in U
  BY <1>1, NumberConstants DEF DigitSum
<1>4. ASSUME NEW n \in Nat, n \in U PROVE n + 1 \in U
  <2> SUFFICES ASSUME n + 1 <= Len(s)
               PROVE  v[n + 1] \in 0 .. INT_MAX \cup {Malformed}
    OBVIOUS
  <2> DEFINE u == v[n]
  <2>1. u \in 0 .. INT_MAX \cup {Malformed}
    BY <1>4
  <2>2. v[n + 1] = IF \/ u = Malformed
                      \/ ~IsDigit(s[n + 1])
                      \/ u > (INT_MAX - (BASE - 1)) \div BASE
                     THEN Malformed
                     ELSE u * BASE + DigitOf(s[n + 1])
    <3>1. n + 1 \in 0 .. Len(s) /\ n + 1 # 0 /\ (n + 1) - 1 = n
      OBVIOUS
    <3> QED  BY <1>1, <3>1 DEF DigitSum
  <2> HIDE DEF u
  <2>3. CASE \/ u = Malformed
             \/ ~IsDigit(s[n + 1])
             \/ u > (INT_MAX - (BASE - 1)) \div BASE
    BY <2>2, <2>3
  <2>4. CASE ~(\/ u = Malformed
               \/ ~IsDigit(s[n + 1])
               \/ u > (INT_MAX - (BASE - 1)) \div BASE)
    <3> DEFINE d == DigitOf(s[n + 1])
               b == BASE
    <3>1. d \in 0 .. b - 1
      BY <2>4, DigitRange
    <3>2. b \in Nat \ {0} /\ INT_MAX \in Nat /\ u \in Nat /\ v[n + 1] = u * b + d
      BY <2>1, <2>2, <2>4, NumberConstants
    <3>3. INT_MAX - (b - 1) \in Int /\ (INT_MAX - (b - 1)) \div b \in Int
      BY <3>2
    <3>4. u <= (INT_MAX - (b - 1)) \div b
      BY <2>4, <3>2, <3>3
    <3> HIDE DEF b, d
    <3>5. u * b <= INT_MAX - (b - 1)
      BY <3>2, <3>3, <3>4, Quotient
    <3>6. u * b \in Nat
      BY <3>2
    <3> DEFINE p == u * b
    <3> HIDE DEF p
    <3>7. p \in Nat /\ p <= INT_MAX - (b - 1) /\ v[n + 1] = p + d
      BY <3>2, <3>5, <3>6 DEF p
    <3> QED  BY <3>1, <3>2, <3>7
  <2> QED  BY <2>3, <2>4
<1>5. Len(s) \in U
  <2> HIDE DEF U
  <2> QED  BY <1>3, <1>4, NumberInduction
<1> QED  BY <1>2, <1>5

-----------------------------------------------------------------------------
(* What digits denote.                                                     *)

Weights(m, w) == w = [k \in 0 .. m |-> IF k = 0 THEN 1 ELSE BASE * w[k - 1]]

PlaceSum(d, w, u) ==
  u = [i \in 0 .. Len(d) |->
        IF i = 0 THEN 0 ELSE u[i - 1] + DigitOf(d[i]) * w[Len(d) - i]]

LEMMA PlaceValueIs ==
  ASSUME NEW d
  PROVE  PlaceValue(d) = (CHOOSE u : PlaceSum(d, CHOOSE w : Weights(Len(d), w), u))[Len(d)]
BY DEF PlaceValue, PlaceSum, Weights

LEMMA WeightsExist ==
  ASSUME NEW m \in Nat
  PROVE  \E w : Weights(m, w)
<1> DEFINE b == BASE
           g == [k \in 1 .. m |-> [x \in Nat |-> b * x]]
<1>0. b \in Nat
  BY NumberConstants
<1> HIDE DEF b
<1>1. g \in [1 .. m -> [Nat -> Nat]]
  BY <1>0
<1>2. PICK w : Recursive(w, m, Nat, 1, g)
  <2> HIDE DEF g
  <2> QED  BY <1>1, Recursion
<1>3. \A k \in 0 .. m : w[k] = IF k = 0 THEN 1 ELSE b * w[k - 1]
  <2>1. ASSUME NEW k \in 1 .. m PROVE w[k] = b * w[k - 1]
    <3>1. k - 1 \in 0 .. m /\ w[k] = g[k][w[k - 1]]
      BY <1>2 DEF Recursive
    <3>2. w[k - 1] \in Nat
      BY <1>2, <3>1 DEF Recursive
    <3> QED  BY <3>1, <3>2
  <2> QED  BY <1>2, <2>1 DEF Recursive
<1>4. w = [k \in 0 .. m |-> IF k = 0 THEN 1 ELSE b * w[k - 1]]
  BY <1>2, <1>3 DEF Recursive
<1> QED  BY <1>4 DEF Weights, b

LEMMA WeightsType ==
  ASSUME NEW m \in Nat, NEW w, Weights(m, w)
  PROVE  /\ \A k \in 0 .. m : w[k] \in Nat \ {0}
         /\ \A k \in 1 .. m : w[k] = BASE * w[k - 1] /\ w[k] >= BASE
<1> DEFINE b == BASE
           U == {k \in Nat : k <= m => w[k] \in Nat \ {0}}
<1>0. b \in Nat \ {0}
  BY NumberConstants
<1>1. \A k \in 0 .. m : w[k] = IF k = 0 THEN 1 ELSE b * w[k - 1]
  BY DEF Weights
<1> HIDE DEF b
<1>2. 0 \in U
  BY <1>1
<1>3. ASSUME NEW k \in Nat, k \in U PROVE k + 1 \in U
  <2> SUFFICES ASSUME k + 1 <= m PROVE w[k + 1] \in Nat \ {0}
    OBVIOUS
  <2>1. k + 1 \in 0 .. m /\ (k + 1) - 1 = k /\ k + 1 # 0
    OBVIOUS
  <2>2. w[k + 1] = b * w[k]
    BY <1>1, <2>1
  <2>3. w[k] \in Nat \ {0}
    BY <1>3
  <2> HIDE DEF U
  <2> QED  BY <1>0, <2>2, <2>3
<1>4. \A k \in 0 .. m : w[k] \in Nat \ {0}
  <2>1. Nat \subseteq U
    <3> HIDE DEF U
    <3> QED  BY <1>2, <1>3, NumberInduction
  <2> QED  BY <2>1
<1>5. ASSUME NEW k \in 1 .. m PROVE w[k] = b * w[k - 1] /\ w[k] >= b
  <2>1. k \in 0 .. m /\ k - 1 \in 0 .. m /\ k # 0
    OBVIOUS
  <2>2. w[k] = b * w[k - 1]
    BY <1>1, <2>1
  <2>3. w[k - 1] \in Nat \ {0}
    BY <1>4, <2>1
  <2> QED  BY <1>0, <2>2, <2>3
<1> QED  BY <1>4, <1>5 DEF b

LEMMA PlaceSumExists ==
  ASSUME NEW d, Len(d) \in Nat, \A i \in 1 .. Len(d) : IsDigit(d[i]),
         NEW w, Weights(Len(d), w)
  PROVE  \E u : PlaceSum(d, w, u)
<1> DEFINE m == Len(d)
           add(i) == DigitOf(d[i]) * w[m - i]
           g == [i \in 1 .. m |-> [x \in Nat |-> x + add(i)]]
<1>1. ASSUME NEW i \in 1 .. m PROVE add(i) \in Nat
  <2>1. DigitOf(d[i]) \in Nat
    BY DigitRange, NumberConstants
  <2>2. m - i \in 0 .. m
    OBVIOUS
  <2>3. w[m - i] \in Nat
    BY <2>2, WeightsType
  <2> QED  BY <2>1, <2>3
<1> HIDE DEF add
<1>2. g \in [1 .. m -> [Nat -> Nat]]
  BY <1>1
<1>3. PICK u : Recursive(u, m, Nat, 0, g)
  <2> HIDE DEF g
  <2> QED  BY <1>2, Recursion
<1>4. \A i \in 0 .. m : u[i] = IF i = 0 THEN 0 ELSE u[i - 1] + add(i)
  <2>1. ASSUME NEW i \in 1 .. m PROVE u[i] = u[i - 1] + add(i)
    <3>1. i - 1 \in 0 .. m /\ u[i] = g[i][u[i - 1]]
      BY <1>3 DEF Recursive
    <3>2. u[i - 1] \in Nat
      BY <1>3, <3>1 DEF Recursive
    <3> QED  BY <3>1, <3>2
  <2> QED  BY <1>3, <2>1 DEF Recursive
<1>5. u = [i \in 0 .. m |-> IF i = 0 THEN 0 ELSE u[i - 1] + add(i)]
  BY <1>3, <1>4 DEF Recursive
<1> QED  BY <1>5 DEF PlaceSum, add

LEMMA PlaceSumStep ==
  ASSUME NEW d, Len(d) \in Nat, \A i \in 1 .. Len(d) : IsDigit(d[i]),
         NEW w, Weights(Len(d), w), NEW u, PlaceSum(d, w, u)
  PROVE  /\ u[0] = 0
         /\ \A i \in 1 .. Len(d) : u[i] = u[i - 1] + DigitOf(d[i]) * w[Len(d) - i]
         /\ \A i \in 0 .. Len(d) : u[i] \in Nat /\ u[i] <= u[Len(d)]
<1> DEFINE m == Len(d)
           add(i) == DigitOf(d[i]) * w[m - i]
<1>1. ASSUME NEW i \in 1 .. m PROVE add(i) \in Nat
  <2>1. DigitOf(d[i]) \in Nat
    BY DigitRange, NumberConstants
  <2>2. m - i \in 0 .. m
    OBVIOUS
  <2>3. w[m - i] \in Nat
    BY <2>2, WeightsType
  <2> QED  BY <2>1, <2>3
<1>2. u[0] = 0 /\ \A i \in 1 .. m : u[i] = u[i - 1] + add(i)
  <2>1. \A i \in 0 .. m : u[i] = IF i = 0 THEN 0 ELSE u[i - 1] + add(i)
    BY Zenon DEF PlaceSum
  <2> HIDE DEF add
  <2> QED  BY <2>1
<1> HIDE DEF add
<1>3. \A i \in 0 .. m : u[i] \in Nat
  <2> DEFINE U == {i \in Nat : i <= m => u[i] \in Nat}
  <2>1. 0 \in U
    BY <1>2
  <2>2. ASSUME NEW i \in Nat, i \in U PROVE i + 1 \in U
    <3> SUFFICES ASSUME i + 1 <= m PROVE u[i + 1] \in Nat
      OBVIOUS
    <3>1. i + 1 \in 1 .. m /\ (i + 1) - 1 = i /\ u[i] \in Nat
      BY <2>2
    <3>2. u[i + 1] = u[i] + add(i + 1) /\ add(i + 1) \in Nat
      BY <1>1, <1>2, <3>1
    <3> QED  BY <3>1, <3>2
  <2>3. Nat \subseteq U
    <3> HIDE DEF U
    <3> QED  BY <2>1, <2>2, NumberInduction
  <2> QED  BY <2>3
<1>4. ASSUME NEW i \in 0 .. m PROVE u[i] <= u[m]
  <2> DEFINE U == {k \in Nat : i + k <= m => u[i] <= u[i + k]}
  <2>1. 0 \in U
    BY <1>3
  <2>2. ASSUME NEW k \in Nat, k \in U PROVE k + 1 \in U
    <3> SUFFICES ASSUME i + (k + 1) <= m PROVE u[i] <= u[i + (k + 1)]
      OBVIOUS
    <3> DEFINE j == i + (k + 1)
    <3>1. j \in 1 .. m /\ j - 1 = i + k /\ j - 1 \in 0 .. m /\ u[i] <= u[i + k]
      BY <2>2
    <3>2. u[j] = u[j - 1] + add(j) /\ add(j) \in Nat
      BY <1>1, <1>2, <3>1
    <3>3. u[i] \in Nat /\ u[j - 1] \in Nat
      BY <1>3, <3>1
    <3> HIDE DEF j
    <3>4. u[i] <= u[j]
      BY <3>1, <3>2, <3>3
    <3> QED  BY <3>4 DEF j
  <2>3. m - i \in U
    <3> HIDE DEF U
    <3>1. m - i \in Nat
      OBVIOUS
    <3> QED  BY <2>1, <2>2, <3>1, NumberInduction
  <2>4. i + (m - i) = m /\ m - i \in Nat
    OBVIOUS
  <2> QED  BY <2>3, <2>4
<1> QED  BY <1>2, <1>3, <1>4 DEF add

LEMMA Shift ==
  ASSUME NEW v \in Nat, NEW b \in Nat, NEW x \in Nat, NEW y \in Nat
  PROVE  v * (b * y) + x * y = (v * b + x) * y
OBVIOUS

-----------------------------------------------------------------------------
(* The loop and what the digits denote.                                    *)

QUOTIENT == (INT_MAX - (BASE - 1)) \div BASE

LEMMA Limits ==
  /\ BASE \in Nat \ {0, 1} /\ QUOTIENT \in Nat
  /\ ReadLimit = QUOTIENT * BASE + (BASE - 1)
  /\ ReadLimit \in BASE - 1 .. INT_MAX
<1> DEFINE b == BASE
           n == INT_MAX - (b - 1)
           q == n \div b
<1>1. b \in Nat \ {0, 1} /\ n \in Nat /\ INT_MAX \in Nat
  BY NumberConstants
<1>2. ReadLimit = q * b + b - 1 /\ QUOTIENT = q
  BY DEF ReadLimit, QUOTIENT
<1>3. INT_MAX = n + (b - 1)
  BY NumberConstants
<1> HIDE DEF b, n
<1>4. q \in Nat
  BY <1>1
<1>5. q * b <= n
  BY <1>1, <1>4, Quotient
<1>6. q * b \in Nat
  BY <1>1, <1>4
<1> HIDE DEF q
<1> DEFINE p == q * b
<1>7. p \in Nat /\ p <= n /\ ReadLimit = p + b - 1
  BY <1>2, <1>5, <1>6
<1> HIDE DEF p
<1>8. ReadLimit = p + (b - 1) /\ ReadLimit \in b - 1 .. INT_MAX
  BY <1>1, <1>3, <1>7
<1> QED  BY <1>1, <1>2, <1>4, <1>8 DEF b, p

LEMMA DigitStep ==
  ASSUME NEW d, Len(d) \in Nat, NEW v, DigitSum(d, v), NEW i \in 1 .. Len(d)
  PROVE  v[i] = IF \/ v[i - 1] = Malformed
                   \/ ~IsDigit(d[i])
                   \/ v[i - 1] > QUOTIENT
                  THEN Malformed
                  ELSE v[i - 1] * BASE + DigitOf(d[i])
<1>1. i \in 0 .. Len(d) /\ i # 0
  OBVIOUS
<1> QED  BY <1>1 DEF DigitSum, QUOTIENT

(* One digit further, both have grown alike. *)
LEMMA StepAgrees ==
  ASSUME NEW d, Len(d) \in Nat, NEW w, Weights(Len(d), w)
  PROVE  \A i \in 1 .. Len(d), v \in Nat : IsDigit(d[i]) =>
           v * w[Len(d) - (i - 1)] + DigitOf(d[i]) * w[Len(d) - i]
             = (v * BASE + DigitOf(d[i])) * w[Len(d) - i]
<1> SUFFICES ASSUME NEW i \in 1 .. Len(d), NEW v \in Nat, IsDigit(d[i])
             PROVE  v * w[Len(d) - (i - 1)] + DigitOf(d[i]) * w[Len(d) - i]
                      = (v * BASE + DigitOf(d[i])) * w[Len(d) - i]
  OBVIOUS
<1> DEFINE x == DigitOf(d[i])
           y == w[Len(d) - i]
           b == BASE
<1>1. x \in Nat /\ b \in Nat
  BY DigitRange, NumberConstants
<1>2. Len(d) - (i - 1) \in 1 .. Len(d) /\ Len(d) - i \in 0 .. Len(d)
      /\ (Len(d) - (i - 1)) - 1 = Len(d) - i
  OBVIOUS
<1>3. y \in Nat /\ w[Len(d) - (i - 1)] = b * y
  BY <1>2, WeightsType
<1> HIDE DEF x, y, b
<1>4. v * (b * y) + x * y = (v * b + x) * y
  BY <1>1, <1>3, Shift
<1> QED  BY <1>3, <1>4 DEF x, y, b

(* Whatever the loop accepts is digits, and it has read what they denote. *)
LEMMA MagnitudeDenotes ==
  ASSUME NEW d, Len(d) \in Nat, Magnitude(d) # Malformed
  PROVE  /\ \A i \in 1 .. Len(d) : IsDigit(d[i])
         /\ Magnitude(d) = PlaceValue(d)
         /\ Magnitude(d) \in 0 .. ReadLimit
<1> DEFINE m == Len(d)
           v == CHOOSE v : DigitSum(d, v)
           w == CHOOSE w : Weights(m, w)
           u == CHOOSE u : PlaceSum(d, w, u)
<1>1. DigitSum(d, v) /\ Weights(m, w)
  BY DigitSumExists, WeightsExist
<1>2. Magnitude(d) = v[m] /\ PlaceValue(d) = u[m]
  BY MagnitudeIs, PlaceValueIs
<1> HIDE DEF v, w
<1>3. v[0] = 0
  BY <1>1 DEF DigitSum
<1>4. \A i \in 1 .. m : v[i] # Malformed =>
        v[i - 1] # Malformed /\ IsDigit(d[i]) /\ ~(v[i - 1] > QUOTIENT)
  BY <1>1, DigitStep
<1>5. \A k \in Nat : k <= m => v[m - k] # Malformed
  <2> DEFINE U == {k \in Nat : k <= m => v[m - k] # Malformed}
  <2>1. 0 \in U
    BY <1>2
  <2>2. ASSUME NEW k \in Nat, k \in U PROVE k + 1 \in U
    <3> SUFFICES ASSUME k + 1 <= m PROVE v[m - (k + 1)] # Malformed
      OBVIOUS
    <3>1. m - k \in 1 .. m /\ (m - k) - 1 = m - (k + 1) /\ v[m - k] # Malformed
      BY <2>2
    <3> QED  BY <1>4, <3>1
  <2>3. Nat \subseteq U
    <3> HIDE DEF U
    <3> QED  BY <2>1, <2>2, NumberInduction
  <2> QED  BY <2>3
<1>6. \A i \in 0 .. m : v[i] # Malformed
  <2> TAKE i \in 0 .. m
  <2>1. m - i \in Nat /\ m - i <= m /\ m - (m - i) = i
    OBVIOUS
  <2> QED  BY <1>5, <2>1
<1>7. \A i \in 1 .. m : /\ IsDigit(d[i]) /\ ~(v[i - 1] > QUOTIENT)
                        /\ v[i] = v[i - 1] * BASE + DigitOf(d[i])
  BY <1>1, <1>4, <1>6, DigitStep
<1>8. PlaceSum(d, w, u)
  BY <1>1, <1>7, PlaceSumExists
<1> HIDE DEF u
<1>9. \A i \in 0 .. m : v[i] \in 0 .. ReadLimit /\ u[i] = v[i] * w[m - i]
  <2> DEFINE U == {i \in Nat : i <= m => v[i] \in 0 .. ReadLimit /\ u[i] = v[i] * w[m - i]}
  <2>1. 0 \in U
    <3>1. u[0] = 0
      BY <1>1, <1>7, <1>8, PlaceSumStep
    <3>2. w[m] \in Nat
      BY <1>1, WeightsType
    <3>3. ReadLimit \in Nat
      BY Limits
    <3> QED  BY <1>3, <3>1, <3>2, <3>3
  <2>2. ASSUME NEW n \in Nat, n \in U PROVE n + 1 \in U
    <3> SUFFICES ASSUME n + 1 <= m
                 PROVE  v[n + 1] \in 0 .. ReadLimit /\ u[n + 1] = v[n + 1] * w[m - (n + 1)]
      OBVIOUS
    <3> DEFINE i == n + 1
    <3>1. i \in 1 .. m /\ i - 1 = n
      OBVIOUS
    <3>2. v[n] \in 0 .. ReadLimit /\ u[n] = v[n] * w[m - (i - 1)]
      BY <2>2
    <3>3. /\ IsDigit(d[i]) /\ ~(v[n] > QUOTIENT) /\ v[i] = v[n] * BASE + DigitOf(d[i])
      BY <1>7, <3>1
    <3>4. u[i] = u[n] + DigitOf(d[i]) * w[m - i]
      BY <1>1, <1>7, <1>8, <3>1, PlaceSumStep
    <3>5. v[n] \in Nat
      BY <3>2, Limits
    <3>6. u[i] = v[i] * w[m - i]
      <4>1. u[n] + DigitOf(d[i]) * w[m - i] = (v[n] * BASE + DigitOf(d[i])) * w[m - i]
        <5>1. \A j \in 1 .. m, a \in Nat : IsDigit(d[j]) =>
                a * w[m - (j - 1)] + DigitOf(d[j]) * w[m - j]
                  = (a * BASE + DigitOf(d[j])) * w[m - j]
          BY <1>1, StepAgrees
        <5> HIDE DEF i
        <5> QED  BY <3>1, <3>2, <3>3, <3>5, <5>1
      <4> QED  BY <3>3, <3>4, <4>1
    <3>7. v[i] \in 0 .. ReadLimit
      <4> DEFINE x == DigitOf(d[i])
                 b == BASE
                 q == QUOTIENT
                 a == v[n]
      <4>1. /\ x \in 0 .. b - 1 /\ b \in Nat \ {0} /\ q \in Nat /\ a \in Nat /\ a <= q
            /\ ReadLimit = q * b + (b - 1) /\ v[i] = a * b + x
        BY <3>3, <3>5, Limits, DigitRange
      <4> HIDE DEF x, b, q, a
      <4>2. a * b <= q * b /\ a * b \in Nat /\ q * b \in Nat
        BY <4>1
      <4> DEFINE ab == a * b
                 qb == q * b
      <4>3. ab <= qb /\ ab \in Nat /\ qb \in Nat /\ ReadLimit = qb + (b - 1) /\ v[i] = ab + x
        BY <4>1, <4>2
      <4> HIDE DEF ab, qb
      <4> QED  BY <4>1, <4>3
    <3> QED  BY <3>6, <3>7
  <2>3. Nat \subseteq U
    <3> HIDE DEF U
    <3> QED  BY <2>1, <2>2, NumberInduction
  <2> QED  BY <2>3
<1>10. u[m] = v[m] /\ v[m] \in 0 .. ReadLimit
  <2>1. m \in 0 .. m /\ m - m = 0
    OBVIOUS
  <2>2. u[m] = v[m] * w[0] /\ v[m] \in 0 .. ReadLimit
    BY <1>9, <2>1
  <2>3. w[0] = 1
    BY <1>1 DEF Weights
  <2> QED  BY <2>2, <2>3
<1> QED  BY <1>2, <1>7, <1>10

(* And it accepts all digits that denote no more than its limit. *)
LEMMA DenotesMagnitude ==
  ASSUME NEW d, Len(d) \in Nat, \A i \in 1 .. Len(d) : IsDigit(d[i]),
         PlaceValue(d) <= ReadLimit
  PROVE  Magnitude(d) # Malformed
<1> DEFINE m == Len(d)
           v == CHOOSE v : DigitSum(d, v)
           w == CHOOSE w : Weights(m, w)
           u == CHOOSE u : PlaceSum(d, w, u)
<1>1. DigitSum(d, v) /\ Weights(m, w)
  BY DigitSumExists, WeightsExist
<1>2. PlaceSum(d, w, u)
  BY <1>1, PlaceSumExists
<1>3. Magnitude(d) = v[m] /\ PlaceValue(d) = u[m]
  BY MagnitudeIs, PlaceValueIs
<1> HIDE DEF v, w, u
<1>4. \A i \in 0 .. m : v[i] \in Nat /\ u[i] = v[i] * w[m - i]
  <2> DEFINE U == {i \in Nat : i <= m => v[i] \in Nat /\ u[i] = v[i] * w[m - i]}
  <2>1. 0 \in U
    <3>1. u[0] = 0
      BY <1>1, <1>2, PlaceSumStep
    <3>2. w[m] \in Nat
      BY <1>1, WeightsType
    <3>3. v[0] = 0
      BY <1>1 DEF DigitSum
    <3> QED  BY <3>1, <3>2, <3>3
  <2>2. ASSUME NEW n \in Nat, n \in U PROVE n + 1 \in U
    <3> SUFFICES ASSUME n + 1 <= m
                 PROVE  v[n + 1] \in Nat /\ u[n + 1] = v[n + 1] * w[m - (n + 1)]
      OBVIOUS
    <3> DEFINE i == n + 1
    <3>1. i \in 1 .. m /\ i - 1 = n /\ n \in 0 .. m /\ m - n \in 1 .. m
      OBVIOUS
    <3>2. v[n] \in Nat /\ u[n] = v[n] * w[m - (i - 1)] /\ u[n] = v[n] * w[m - n]
      BY <2>2
    <3>3. v[n] <= QUOTIENT
      <4> DEFINE b == BASE
                 q == QUOTIENT
                 y == w[m - n]
                 a == v[n]
      <4>1. u[n] <= u[m] /\ u[n] \in Nat /\ u[m] \in Nat
        BY <1>1, <1>2, <3>1, PlaceSumStep
      <4>2. y \in Nat /\ y >= b
        BY <1>1, <3>1, WeightsType
      <4>3. b \in Nat \ {0} /\ q \in Nat /\ ReadLimit = q * b + (b - 1) /\ ReadLimit \in Nat
        BY Limits
      <4>4. a * y <= q * b + (b - 1) /\ a \in Nat
        BY <1>3, <3>2, <4>1, <4>3
      <4> HIDE DEF a, b, q, y
      <4>5. a * b <= a * y
        BY <4>2, <4>3, <4>4
      <4>6. a * b <= q * b + (b - 1)
        <5>1. a * b \in Nat /\ a * y \in Nat /\ q * b \in Nat
          BY <4>2, <4>3, <4>4
        <5> QED  BY <4>3, <4>4, <4>5, <5>1
      <4>7. a <= q
        <5> SUFFICES ASSUME a >= q + 1 PROVE FALSE
          BY <4>3, <4>4
        <5>1. a * b >= (q + 1) * b
          BY <4>3, <4>4
        <5>2. (q + 1) * b = q * b + b
          BY <4>3
        <5>3. q * b \in Nat /\ a * b \in Nat
          BY <4>3, <4>4
        <5> QED  BY <4>3, <4>6, <5>1, <5>2, <5>3
      <4> QED  BY <4>7 DEF a, q
    <3>4. v[i] = v[n] * BASE + DigitOf(d[i])
      <4>1. v[n] # Malformed /\ ~(v[n] > QUOTIENT)
        BY <3>2, <3>3, Limits, NumberConstants
      <4> QED  BY <1>1, <3>1, <4>1, DigitStep
    <3>5. u[i] = u[n] + DigitOf(d[i]) * w[m - i]
      BY <1>1, <1>2, <3>1, PlaceSumStep
    <3>6. u[i] = v[i] * w[m - i]
      <4>1. u[n] + DigitOf(d[i]) * w[m - i] = (v[n] * BASE + DigitOf(d[i])) * w[m - i]
        <5>1. \A j \in 1 .. m, a \in Nat : IsDigit(d[j]) =>
                a * w[m - (j - 1)] + DigitOf(d[j]) * w[m - j]
                  = (a * BASE + DigitOf(d[j])) * w[m - j]
          BY <1>1, StepAgrees
        <5> HIDE DEF i
        <5> QED  BY <3>1, <3>2, <5>1
      <4> QED  BY <3>4, <3>5, <4>1
    <3>7. v[i] \in Nat
      <4>1. DigitOf(d[i]) \in Nat /\ BASE \in Nat
        BY <3>1, DigitRange, NumberConstants
      <4> QED  BY <3>2, <3>4, <4>1
    <3> QED  BY <3>6, <3>7
  <2>3. Nat \subseteq U
    <3> HIDE DEF U
    <3> QED  BY <2>1, <2>2, NumberInduction
  <2> QED  BY <2>3
<1>5. v[m] \in Nat
  BY <1>4
<1> QED  BY <1>3, <1>5, NumberConstants

-----------------------------------------------------------------------------
(* parse_int64().                                                          *)

LEMMA ParseType ==
  ASSUME NEW R, NEW s \in Seq(R)
  PROVE  ParseInt64(s) \in Int \cup {Malformed}
<1>1. Magnitude(s) \in 0 .. INT_MAX \cup {Malformed}
  BY MagnitudeRange
<1>2. Magnitude(Tail(s)) \in 0 .. INT_MAX \cup {Malformed} \/ s = <<>>
  <2>1. s # <<>> => Len(Tail(s)) \in Nat
    OBVIOUS
  <2> QED  BY <2>1, MagnitudeRange
<1> QED  BY <1>1, <1>2, NumberConstants DEF ParseInt64

(* parse_int64() reads exactly the numerals that denote a number up to
   ReadLimit, with or without a sign, and reads what they denote. *)
THEOREM ParseDenotes ==
  ASSUME NEW R, NEW s \in Seq(R), NEW n \in Int
  PROVE  ParseInt64(s) = n <=> Denotes(s, n) /\ n \in -ReadLimit .. ReadLimit
<1> DEFINE neg == s # <<>> /\ s[1] = Minus
           d   == IF neg THEN Tail(s) ELSE s
           v   == Magnitude(d)
<1>1. d \in Seq(R) /\ Len(d) \in Nat /\ DOMAIN d = 1 .. Len(d)
  OBVIOUS
<1>2. d = <<>> => s = <<>> \/ s = <<Minus>>
  <2> SUFFICES ASSUME neg, Tail(s) = <<>> PROVE s = <<Minus>>
    OBVIOUS
  <2>1. Tail(s) \in Seq(R) /\ Len(Tail(s)) = Len(s) - 1 /\ Len(s) \in Nat
    BY HeadTailProperties
  <2>2. Len(Tail(s)) = 0
    BY <2>1, EmptySeq
  <2>3. Len(s) = 1
    BY <2>1, <2>2
  <2> QED  BY <2>3
<1>3. s = <<>> \/ s = <<Minus>> => d = <<>>
  <2> SUFFICES ASSUME s = <<Minus>> PROVE Tail(s) = <<>>
    OBVIOUS
  <2>1. Len(Tail(s)) = 0 /\ Tail(s) \in Seq(R)
    OBVIOUS
  <2> QED  BY <2>1, EmptySeq
<1>4. ParseInt64(s) = IF d = <<>> \/ v = Malformed THEN Malformed
                      ELSE IF neg THEN -v ELSE v
  BY <1>2, <1>3 DEF ParseInt64
<1>5. Denotes(s, n) <=>
        /\ d # <<>>
        /\ \A i \in 1 .. Len(d) : IsDigit(d[i])
        /\ n = IF neg THEN -PlaceValue(d) ELSE PlaceValue(d)
  BY <1>1 DEF Denotes
<1> HIDE DEF neg, d
<1>6. ASSUME ParseInt64(s) = n
      PROVE  Denotes(s, n) /\ n \in -ReadLimit .. ReadLimit
  <2>1. d # <<>> /\ v # Malformed /\ n = IF neg THEN -v ELSE v
    BY <1>4, <1>6, NumberConstants
  <2>2. /\ \A i \in 1 .. Len(d) : IsDigit(d[i])
        /\ v = PlaceValue(d) /\ v \in 0 .. ReadLimit
    BY <1>1, <2>1, MagnitudeDenotes
  <2> HIDE DEF v
  <2>3. n \in -ReadLimit .. ReadLimit
    <3>1. ReadLimit \in Nat
      BY Limits
    <3> QED  BY <2>1, <2>2, <3>1
  <2> QED  BY <1>5, <2>1, <2>2, <2>3
<1>7. ASSUME Denotes(s, n), n \in -ReadLimit .. ReadLimit
      PROVE  ParseInt64(s) = n
  <2>1. /\ d # <<>>
        /\ \A i \in 1 .. Len(d) : IsDigit(d[i])
        /\ n = IF neg THEN -PlaceValue(d) ELSE PlaceValue(d)
    BY <1>5, <1>7
  <2>2. PlaceValue(d) \in Nat
    <3> DEFINE w == CHOOSE w : Weights(Len(d), w)
               u == CHOOSE u : PlaceSum(d, w, u)
    <3>1. Weights(Len(d), w)
      BY <1>1, WeightsExist
    <3> HIDE DEF w
    <3>2. PlaceSum(d, w, u)
      BY <1>1, <2>1, <3>1, PlaceSumExists
    <3>3. PlaceValue(d) = u[Len(d)]
      BY PlaceValueIs DEF w
    <3> HIDE DEF u
    <3>4. u[Len(d)] \in Nat
      BY <1>1, <2>1, <3>1, <3>2, PlaceSumStep
    <3> QED  BY <3>3, <3>4
  <2>3. PlaceValue(d) <= ReadLimit
    <3>1. ReadLimit \in Nat
      BY Limits
    <3> QED  BY <1>7, <2>1, <2>2, <3>1
  <2>4. v # Malformed
    BY <1>1, <2>1, <2>3, DenotesMagnitude
  <2>5. v = PlaceValue(d)
    BY <1>1, <2>4, MagnitudeDenotes
  <2> QED  BY <1>4, <2>1, <2>4, <2>5
<1> QED  BY <1>6, <1>7

-----------------------------------------------------------------------------
(* Writing a number and reading it back.                                   *)

LEMMA QuotientRest ==
  ASSUME NEW k \in Nat, NEW b \in Nat \ {0, 1}
  PROVE  /\ k \div b \in Nat /\ k % b \in 0 .. b - 1
         /\ k = (k \div b) * b + (k % b)
         /\ k >= b => k \div b < k
<1>1. k \div b \in Nat /\ k % b \in 0 .. b - 1 /\ k = (k \div b) * b + (k % b)
  OBVIOUS
<1> DEFINE q == k \div b
           r == k % b
<1>2. q \in Nat /\ r \in Nat /\ k = q * b + r
  BY <1>1
<1> HIDE DEF q, r
<1>3. ASSUME k >= b PROVE q < k
  <2>1. CASE q = 0
    BY <1>3, <2>1
  <2>2. CASE q # 0
    <3>1. q * b >= q + q
      BY <1>2, <2>2
    <3> QED  BY <1>2, <2>2, <3>1
  <2> QED  BY <2>1, <2>2
<1> QED  BY <1>1, <1>3 DEF q

LEMMA Shorter ==
  ASSUME NEW k \in Nat, ~(k < BASE)
  PROVE  k \div BASE \in 0 .. k - 1
<1> DEFINE b == BASE
<1>1. b \in Nat \ {0, 1} /\ k >= b
  BY NumberConstants
<1> HIDE DEF b
<1>2. k \div b \in Nat /\ k \div b < k
  BY <1>1, QuotientRest
<1>3. k \div b \in 0 .. k - 1
  BY <1>2
<1> QED  BY <1>3 DEF b

Digit(i) == Digits[i + 1]

Numeral(f, k) == IF k < BASE THEN <<Digit(k)>>
                 ELSE Append(f[k \div BASE], Digit(k % BASE))

Numerals(f, N) == f = [k \in N |-> Numeral(f, k)]

LEMMA FormatIs ==
  ASSUME NEW n
  PROVE  Format(n) = LET f == CHOOSE f : Numerals(f, Nat)
                     IN IF n < 0 THEN <<Minus>> \o f[-n] ELSE f[n]
BY DEF Format, Numerals, Numeral, Digit

LEMMA NumeralsAgree ==
  ASSUME NEW m \in Nat, NEW n \in Nat, m <= n,
         NEW f, Numerals(f, 0 .. m), NEW g, Numerals(g, 0 .. n)
  PROVE  \A k \in 0 .. m : f[k] = g[k]
<1> DEFINE U == {i \in Nat : \A k \in 0 .. i : k <= m => f[k] = g[k]}
<1>1. ASSUME NEW k \in 0 .. m, \A j \in 0 .. k - 1 : f[j] = g[j]
      PROVE  f[k] = g[k]
  <2>1. f[k] = Numeral(f, k) /\ g[k] = Numeral(g, k)
    <3>1. k \in 0 .. m /\ k \in 0 .. n
      OBVIOUS
    <3> QED  BY <3>1, Zenon DEF Numerals
  <2>2. CASE k < BASE
    BY <2>1, <2>2 DEF Numeral
  <2>3. CASE ~(k < BASE)
    <3>1. k \div BASE \in 0 .. k - 1
      BY <2>3, Shorter
    <3>2. f[k \div BASE] = g[k \div BASE]
      BY <1>1, <3>1
    <3> QED  BY <2>1, <3>2 DEF Numeral
  <2> QED  BY <2>2, <2>3
<1>2. 0 \in U
  <2>1. 0 \in 0 .. m /\ \A j \in 0 .. 0 - 1 : f[j] = g[j]
    OBVIOUS
  <2>2. f[0] = g[0]
    BY <1>1, <2>1
  <2> QED  BY <2>2
<1>3. ASSUME NEW i \in Nat, i \in U PROVE i + 1 \in U
  <2> SUFFICES ASSUME i + 1 <= m PROVE f[i + 1] = g[i + 1]
    BY <1>3
  <2>1. i + 1 \in 0 .. m /\ \A j \in 0 .. (i + 1) - 1 : f[j] = g[j]
    BY <1>3
  <2> QED  BY <1>1, <2>1
<1>4. m \in U
  <2> HIDE DEF U
  <2> QED  BY <1>2, <1>3, NumberInduction
<1> QED  BY <1>4

LEMMA FewNumerals ==
  ASSUME NEW n \in Nat
  PROVE  \E f : Numerals(f, 0 .. n)
<1> DEFINE U == {m \in Nat : \E f : Numerals(f, 0 .. m)}
<1>1. 0 \in U
  <2> DEFINE f == [k \in 0 .. 0 |-> <<Digit(k)>>]
  <2>1. f = [k \in 0 .. 0 |-> Numeral(f, k)]
    <3> HIDE DEF f
    <3>1. \A k \in 0 .. 0 : Numeral(f, k) = <<Digit(k)>>
      BY NumberConstants DEF Numeral
    <3> QED  BY <3>1 DEF f
  <2> HIDE DEF f
  <2> QED  BY <2>1 DEF Numerals
<1>2. ASSUME NEW m \in Nat, m \in U PROVE m + 1 \in U
  <2>1. PICK f : Numerals(f, 0 .. m)
    BY <1>2
  <2> DEFINE next == Numeral(f, m + 1)
             h    == [k \in 0 .. m + 1 |-> IF k = m + 1 THEN next ELSE f[k]]
  <2> HIDE DEF next
  <2>2. ASSUME NEW k \in 0 .. m + 1 PROVE Numeral(h, k) = Numeral(f, k)
    <3>1. CASE k < BASE
      BY <3>1 DEF Numeral
    <3>2. CASE ~(k < BASE)
      <4>1. k \div BASE \in 0 .. m
        BY <3>2, Shorter
      <4>2. h[k \div BASE] = f[k \div BASE]
        BY <4>1
      <4> QED  BY <4>2 DEF Numeral
    <3> QED  BY <3>1, <3>2
  <2>3. \A k \in 0 .. m + 1 : h[k] = Numeral(f, k)
    <3>1. \A k \in 0 .. m : f[k] = Numeral(f, k)
      BY <2>1 DEF Numerals
    <3>2. \A k \in 0 .. m + 1 : k = m + 1 \/ k \in 0 .. m
      OBVIOUS
    <3> QED  BY <3>1, <3>2 DEF next
  <2>4. h = [k \in 0 .. m + 1 |-> h[k]]
    OBVIOUS
  <2> HIDE DEF h
  <2>5. Numerals(h, 0 .. m + 1)
    BY <2>2, <2>3, <2>4 DEF Numerals
  <2> QED  BY <2>5
<1>3. n \in U
  <2> HIDE DEF U
  <2> QED  BY <1>1, <1>2, NumberInduction
<1> QED  BY <1>3

LEMMA AllNumerals == \E f : Numerals(f, Nat)
<1> DEFINE few(n) == CHOOSE f : Numerals(f, 0 .. n)
           f == [k \in Nat |-> few(k)[k]]
<1>1. \A n \in Nat : Numerals(few(n), 0 .. n)
  BY FewNumerals
<1> HIDE DEF few
<1>2. ASSUME NEW k \in Nat PROVE f[k] = Numeral(f, k)
  <2>1. f[k] = Numeral(few(k), k)
    BY <1>1 DEF Numerals
  <2>2. CASE k < BASE
    BY <2>1, <2>2 DEF Numeral
  <2>3. CASE ~(k < BASE)
    <3> DEFINE q == k \div BASE
    <3>1. q \in Nat /\ q <= k
      BY <2>3, Shorter
    <3> HIDE DEF q
    <3>2. \A i \in 0 .. q : few(q)[i] = few(k)[i]
      BY <1>1, <3>1, NumeralsAgree
    <3>3. f[q] = few(k)[q]
      BY <3>1, <3>2
    <3> QED  BY <2>1, <3>3 DEF Numeral, q
  <2> QED  BY <2>2, <2>3
<1>3. f = [k \in Nat |-> f[k]]
  OBVIOUS
<1> HIDE DEF f
<1>4. Numerals(f, Nat)
  BY <1>2, <1>3 DEF Numerals
<1> QED  BY <1>4

LEMMA DigitIs ==
  ASSUME NEW i \in 0 .. BASE - 1
  PROVE  IsDigit(Digit(i)) /\ DigitOf(Digit(i)) = i /\ Digit(i) # Minus
<1>1. BASE \in Nat /\ i + 1 \in 1 .. BASE
  BY NumberConstants
<1>2. IsDigit(Digit(i)) /\ Digit(i) # Minus
  BY <1>1, NumberConstants DEF IsDigit, Digit
<1> DEFINE j == CHOOSE j \in 1 .. BASE : Digits[j] = Digit(i)
<1>3. j \in 1 .. BASE /\ Digits[j] = Digit(i)
  BY <1>2 DEF IsDigit
<1>4. DigitOf(Digit(i)) = j - 1
  BY DEF DigitOf
<1> HIDE DEF j
<1>5. j = i + 1
  BY <1>1, <1>3, NumberConstants DEF Digit
<1> QED  BY <1>2, <1>4, <1>5

(* A digit more makes every other one count BASE times as much. *)
LEMMA PlaceValueAppend ==
  ASSUME NEW R, NEW d \in Seq(R), NEW c \in R, IsDigit(c),
         \A i \in 1 .. Len(d) : IsDigit(d[i])
  PROVE  PlaceValue(Append(d, c)) = PlaceValue(d) * BASE + DigitOf(c)
<1> DEFINE m  == Len(d)
           e  == Append(d, c)
           w  == CHOOSE w : Weights(m, w)
           u  == CHOOSE u : PlaceSum(d, w, u)
           we == CHOOSE x : Weights(Len(e), x)
           ue == CHOOSE x : PlaceSum(e, we, x)
           b  == BASE
<1>1. /\ m \in Nat /\ Len(e) = m + 1 /\ e[m + 1] = c
      /\ \A i \in 1 .. m : e[i] = d[i]
  OBVIOUS
<1>2. Weights(m, w) /\ Weights(m + 1, we)
  BY <1>1, WeightsExist
<1>3. PlaceValue(d) = u[m] /\ PlaceValue(e) = ue[m + 1]
  BY <1>1, PlaceValueIs
<1> HIDE DEF e, w, we
<1>4. \A i \in 1 .. m + 1 : IsDigit(e[i])
  BY <1>1
<1>5. PlaceSum(d, w, u) /\ PlaceSum(e, we, ue)
  BY <1>1, <1>2, <1>4, PlaceSumExists
<1> HIDE DEF u, ue
<1>12. \A i \in 1 .. m + 1 : ue[i] = ue[i - 1] + DigitOf(e[i]) * we[(m + 1) - i]
  <2> DEFINE n == m + 1
  <2>1. Len(e) = n /\ n \in Nat /\ Weights(n, we) /\ \A i \in 1 .. n : IsDigit(e[i])
    BY <1>1, <1>2, <1>4
  <2> HIDE DEF n
  <2>2. \A i \in 1 .. n : ue[i] = ue[i - 1] + DigitOf(e[i]) * we[n - i]
    BY <1>5, <2>1, PlaceSumStep
  <2> QED  BY <2>2 DEF n
<1>6. /\ \A k \in 0 .. m : w[k] = IF k = 0 THEN 1 ELSE b * w[k - 1]
      /\ \A k \in 0 .. m + 1 : we[k] = IF k = 0 THEN 1 ELSE b * we[k - 1]
  BY <1>2 DEF Weights
<1>7. \A k \in 0 .. m : we[k] = w[k]
  <2> DEFINE U == {k \in Nat : k <= m => we[k] = w[k]}
  <2>1. 0 \in U
    BY <1>1, <1>6
  <2>2. ASSUME NEW k \in Nat, k \in U PROVE k + 1 \in U
    <3> SUFFICES ASSUME k + 1 <= m PROVE we[k + 1] = w[k + 1]
      OBVIOUS
    <3>1. k + 1 \in 0 .. m /\ k + 1 \in 0 .. m + 1 /\ (k + 1) - 1 = k /\ we[k] = w[k] /\ k + 1 # 0
      BY <2>2
    <3>2. w[k + 1] = b * w[k] /\ we[k + 1] = b * we[k]
      BY <1>6, <3>1
    <3> QED  BY <3>1, <3>2
  <2>3. Nat \subseteq U
    <3> HIDE DEF U
    <3> QED  BY <2>1, <2>2, NumberInduction
  <2> QED  BY <2>3
<1>8. \A i \in 0 .. m : ue[i] = u[i] * b
  <2> DEFINE U == {i \in Nat : i <= m => ue[i] = u[i] * b}
  <2>1. 0 \in U
    <3>1. u[0] = 0 /\ ue[0] = 0
      BY <1>1, <1>2, <1>4, <1>5, PlaceSumStep
    <3> QED  BY <3>1, NumberConstants
  <2>2. ASSUME NEW n \in Nat, n \in U PROVE n + 1 \in U
    <3> SUFFICES ASSUME n + 1 <= m PROVE ue[n + 1] = u[n + 1] * b
      OBVIOUS
    <3> DEFINE i == n + 1
    <3>1. i \in 1 .. m /\ i \in 1 .. m + 1 /\ i - 1 = n /\ n \in 0 .. m /\ ue[n] = u[n] * b
      BY <2>2
    <3>2. u[i] = u[n] + DigitOf(d[i]) * w[m - i] /\ u[n] \in Nat
      BY <1>1, <1>2, <1>5, <3>1, PlaceSumStep
    <3>3. ue[i] = ue[n] + DigitOf(e[i]) * we[(m + 1) - i]
      BY <1>12, <3>1
    <3>4. we[(m + 1) - i] = b * w[m - i] /\ w[m - i] \in Nat
      <4>1. /\ (m + 1) - i \in 0 .. m + 1 /\ (m + 1) - i # 0
            /\ ((m + 1) - i) - 1 = m - i /\ m - i \in 0 .. m
        BY <3>1
      <4>2. we[(m + 1) - i] = b * we[m - i]
        BY <1>6, <4>1
      <4>3. w[m - i] \in Nat
        BY <1>1, <1>2, <4>1, WeightsType
      <4> QED  BY <1>7, <4>1, <4>2, <4>3
    <3>5. DigitOf(d[i]) \in Nat /\ e[i] = d[i] /\ b \in Nat
      BY <1>1, <3>1, DigitRange, NumberConstants
    <3> DEFINE x == DigitOf(d[i])
               y == w[m - i]
               a == u[n]
    <3>6. ue[i] = a * b + x * (b * y) /\ u[i] = a + x * y
      BY <3>1, <3>2, <3>3, <3>4, <3>5
    <3>7. x \in Nat /\ y \in Nat /\ a \in Nat /\ b \in Nat
      BY <3>2, <3>4, <3>5
    <3> HIDE DEF x, y, a, b, i
    <3>8. a * b + x * (b * y) = (a + x * y) * b
      BY <3>7
    <3>9. ue[i] = u[i] * b
      BY <3>6, <3>8
    <3> QED  BY <3>9 DEF i
  <2>3. Nat \subseteq U
    <3> HIDE DEF U
    <3> QED  BY <2>1, <2>2, NumberInduction
  <2> QED  BY <2>3
<1>9. ue[m + 1] = ue[m] + DigitOf(c) * we[0]
  <2>1. m + 1 \in 1 .. m + 1 /\ (m + 1) - 1 = m /\ (m + 1) - (m + 1) = 0
    BY <1>1
  <2> QED  BY <1>1, <1>12, <2>1
<1>10. ue[m] = u[m] * b /\ we[0] = 1 /\ DigitOf(c) \in Nat
  BY <1>1, <1>6, <1>8, DigitRange, NumberConstants
<1>11. ue[m + 1] = u[m] * b + DigitOf(c)
  BY <1>9, <1>10
<1> QED  BY <1>3, <1>11 DEF e, b

LEMMA NoDigits == PlaceValue(<<>>) = 0
<1> DEFINE w == CHOOSE w : Weights(0, w)
           u == CHOOSE u : PlaceSum(<<>>, w, u)
<1>1. Len(<<>>) = 0 /\ PlaceValue(<<>>) = u[0]
  BY PlaceValueIs
<1>2. Weights(0, w)
  BY WeightsExist
<1> HIDE DEF w
<1>3. PlaceSum(<<>>, w, u)
  BY <1>1, <1>2, PlaceSumExists
<1> HIDE DEF u
<1>4. u[0] = 0
  BY <1>1, <1>3 DEF PlaceSum
<1> QED  BY <1>1, <1>4

AllDigits == {Digit(i) : i \in 0 .. BASE - 1}

(* The numeral of a natural number denotes it. *)
LEMMA NumeralDenotes ==
  ASSUME NEW f, Numerals(f, Nat), NEW n \in Nat
  PROVE  /\ f[n] \in Seq(AllDigits) /\ f[n] # <<>>
         /\ \A i \in 1 .. Len(f[n]) : IsDigit(f[n][i])
         /\ PlaceValue(f[n]) = n
<1> DEFINE Good(k) == /\ f[k] \in Seq(AllDigits) /\ f[k] # <<>>
                      /\ PlaceValue(f[k]) = k
           U == {k \in Nat : \A j \in 0 .. k : Good(j)}
<1>0. \A d \in Seq(AllDigits) : \A i \in 1 .. Len(d) : IsDigit(d[i])
  <2> TAKE d \in Seq(AllDigits)
  <2> TAKE i \in 1 .. Len(d)
  <2>1. d[i] \in AllDigits
    OBVIOUS
  <2> QED  BY <2>1, DigitIs DEF AllDigits
<1>1. ASSUME NEW k \in Nat, \A j \in 0 .. k - 1 : Good(j) PROVE Good(k)
  <2>1. f[k] = Numeral(f, k)
    BY DEF Numerals
  <2>2. BASE \in Nat \ {0, 1}
    BY NumberConstants
  <2>3. CASE k < BASE
    <3>1. f[k] = <<Digit(k)>> /\ k \in 0 .. BASE - 1
      BY <2>1, <2>2, <2>3 DEF Numeral
    <3>2. Digit(k) \in AllDigits /\ IsDigit(Digit(k)) /\ DigitOf(Digit(k)) = k
      BY <3>1, DigitIs DEF AllDigits
    <3> DEFINE c == Digit(k)
               R == AllDigits
               z == <<>>
    <3> HIDE DEF c, R
    <3>3. c \in R /\ IsDigit(c) /\ DigitOf(c) = k
      BY <3>2 DEF c, R
    <3>4. /\ <<c>> \in Seq(R) /\ <<c>> # <<>> /\ Append(z, c) = <<c>>
          /\ z \in Seq(R) /\ \A i \in 1 .. Len(z) : IsDigit(z[i])
      BY <3>3
    <3>5. PlaceValue(z) = 0
      BY NoDigits
    <3> HIDE DEF z
    <3>6. PlaceValue(Append(z, c)) = PlaceValue(z) * BASE + DigitOf(c)
      BY <3>3, <3>4, PlaceValueAppend
    <3>7. PlaceValue(<<c>>) = k
      BY <2>2, <3>3, <3>4, <3>5, <3>6
    <3> QED  BY <3>1, <3>4, <3>7 DEF c, R
  <2>4. CASE ~(k < BASE)
    <3> DEFINE q == k \div BASE
               r == k % BASE
               R == AllDigits
    <3>1. /\ q \in 0 .. k - 1 /\ r \in 0 .. BASE - 1 /\ k = q * BASE + r
      BY <2>2, <2>4, Shorter, QuotientRest
    <3>2. f[k] = Append(f[q], Digit(r))
      BY <2>1, <2>4 DEF Numeral
    <3> HIDE DEF q, r
    <3>3. f[q] \in Seq(R) /\ f[q] # <<>> /\ PlaceValue(f[q]) = q
      BY <1>1, <3>1
    <3>4. Digit(r) \in R /\ IsDigit(Digit(r)) /\ DigitOf(Digit(r)) = r
      BY <3>1, DigitIs DEF AllDigits
    <3>5. \A i \in 1 .. Len(f[q]) : IsDigit(f[q][i])
      BY <1>0, <3>3
    <3> HIDE DEF R
    <3>6. f[k] \in Seq(R) /\ f[k] # <<>>
      BY <3>2, <3>3, <3>4
    <3>7. PlaceValue(f[k]) = q * BASE + r
      BY <3>2, <3>3, <3>4, <3>5, PlaceValueAppend
    <3> QED  BY <3>1, <3>6, <3>7 DEF R
  <2> QED  BY <2>3, <2>4
<1> HIDE DEF Good
<1>2. 0 \in U
  <2>1. \A j \in 0 .. 0 - 1 : Good(j)
    OBVIOUS
  <2>2. Good(0)
    BY <1>1, <2>1
  <2> QED  BY <2>2
<1>3. ASSUME NEW k \in Nat, k \in U PROVE k + 1 \in U
  <2>1. \A j \in 0 .. (k + 1) - 1 : Good(j)
    BY <1>3
  <2>2. Good(k + 1)
    BY <1>1, <2>1
  <2> QED  BY <1>3, <2>2
<1>4. Nat \subseteq U
  <2> HIDE DEF U
  <2> QED  BY <1>2, <1>3, NumberInduction
<1>5. Good(n)
  BY <1>4
<1> QED  BY <1>0, <1>5 DEF Good

(* What snprintf() makes of an integer denotes it. *)
LEMMA FormatDenotes ==
  ASSUME NEW n \in Int
  PROVE  Denotes(Format(n), n) /\ Format(n) \in Seq(AllDigits \cup {Minus})
<1> DEFINE f == CHOOSE f : Numerals(f, Nat)
           m == IF n < 0 THEN -n ELSE n
           d == f[m]
           R == AllDigits \cup {Minus}
<1>1. Numerals(f, Nat)
  BY AllNumerals
<1>2. Format(n) = IF n < 0 THEN <<Minus>> \o d ELSE d
  BY FormatIs
<1> HIDE DEF f
<1>3. /\ d \in Seq(AllDigits) /\ d # <<>>
      /\ \A i \in 1 .. Len(d) : IsDigit(d[i])
      /\ PlaceValue(d) = m
  <2>1. m \in Nat
    OBVIOUS
  <2> HIDE DEF m
  <2> QED  BY <1>1, <2>1, NumeralDenotes
<1> HIDE DEF m, d
<1>4. d \in Seq(R) /\ Minus \in R /\ DOMAIN d = 1 .. Len(d)
  BY <1>3
<1>5. d[1] # Minus
  <2>1. d[1] \in AllDigits
    BY <1>3
  <2> QED  BY <2>1, DigitIs DEF AllDigits
<1> HIDE DEF R
<1> DEFINE s == <<Minus>> \o d
<1>6. s \in Seq(R) /\ s # <<>> /\ s[1] = Minus /\ Tail(s) = d
  BY <1>4
<1> HIDE DEF s
<1>7. CASE n < 0
  <2>1. Format(n) = s /\ n = -m /\ m \in Nat
    BY <1>2, <1>7 DEF s, m
  <2>2. Denotes(s, n)
    BY <1>3, <1>4, <1>6, <2>1 DEF Denotes
  <2> QED  BY <1>6, <2>1, <2>2 DEF R
<1>8. CASE ~(n < 0)
  <2>1. Format(n) = d /\ n = m
    BY <1>2, <1>8 DEF m
  <2>2. Denotes(d, n)
    BY <1>3, <1>4, <1>5, <2>1 DEF Denotes
  <2> QED  BY <1>4, <2>1, <2>2 DEF R
<1> QED  BY <1>7, <1>8

(* What the program wrote it reads back, within ReadLimit of zero; beyond it
   the guard of parse_int64() refuses a number that was written. *)
THEOREM FormatReadBack ==
  ASSUME NEW n \in Int
  PROVE  ParseInt64(Format(n)) = n <=> n \in -ReadLimit .. ReadLimit
<1> DEFINE R == AllDigits \cup {Minus}
           s == Format(n)
<1>1. Denotes(s, n) /\ s \in Seq(R)
  BY FormatDenotes
<1> HIDE DEF R, s
<1>2. ParseInt64(s) = n <=> Denotes(s, n) /\ n \in -ReadLimit .. ReadLimit
  BY <1>1, ParseDenotes
<1> QED  BY <1>1, <1>2 DEF s
==============================================================================
