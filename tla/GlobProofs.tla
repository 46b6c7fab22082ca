----------------------------- MODULE GlobProofs ------------------------------
(***************************************************************************)
(* Proofs about Glob, for every pattern and every key over every alphabet:  *)
(* the matcher finds a way to cut the key exactly when there is one.        *)
(***************************************************************************)
EXTENDS Glob, SequenceTheorems, WellFoundedInduction, TLAPS

(* Induction from the end of a pattern to its beginning: a set that holds a
   position whenever it holds all later ones holds them all. *)
LEMMA Backwards ==
  ASSUME NEW n \in Nat, NEW T,
         \A i \in 1 .. n : (\A j \in i + 1 .. n : j \in T) => i \in T
  PROVE  \A i \in 1 .. n : i \in T
<1> DEFINE U == {m \in Nat : m < n /\ n - m \notin T}
           R == OpToRel(<, Nat)
<1> SUFFICES ASSUME NEW i \in 1 .. n, i \notin T PROVE FALSE
  OBVIOUS
<1>1. n - i \in U /\ U \subseteq Nat /\ U # {}
  <2>1. n - i \in Nat /\ n - i < n /\ n - (n - i) = i
    OBVIOUS
  <2> QED  BY <2>1
<1>2. IsWellFoundedOn(R, Nat)
  BY NatLessThanWellFounded
<1>3. \E m \in U : \A k \in U : ~(<<k, m>> \in R)
  <2> HIDE DEF U, R
  <2> QED  BY <1>1, <1>2, WFMin
<1>4. PICK m \in U : \A k \in U : ~(k < m)
  BY <1>1, <1>3 DEF OpToRel
<1>5. n - m \in 1 .. n /\ n - m \notin T
  BY <1>4
<1>6. PICK j \in n - m + 1 .. n : j \notin T
  BY <1>5
<1>7. n - j \in Nat /\ n - j < n /\ n - (n - j) = j /\ n - j < m
  BY <1>4, <1>5, <1>6
<1>8. n - j \in U
  BY <1>6, <1>7
<1> QED  BY <1>4, <1>7, <1>8

-----------------------------------------------------------------------------
(* Classes.  What is escaped does not depend on where the counting of        *)
(* escapes starts, as long as it does not start behind one that escapes.    *)

(* An escape counted from behind a byte that is no escape is counted the same
   from in front of it. *)
LEMMA EscapedBehind ==
  ASSUME NEW pt, Len(pt) \in Nat, NEW i \in 1 .. Len(pt), pt[i] # Escape,
         NEW j \in i + 1 .. Len(pt) + 1
  PROVE  Escaped(pt, i, j) <=> Escaped(pt, i + 1, j)
<1>1. ASSUME Escaped(pt, i, j) PROVE Escaped(pt, i + 1, j)
  <2>1. PICK n \in 0 .. j - i : /\ n % 2 = 1
                                /\ \A k \in j - n .. j - 1 : pt[k] = Escape
                                /\ j - n = i \/ pt[j - n - 1] # Escape
    BY <1>1 DEF Escaped
  <2>2. n >= 1
    BY <2>1
  <2>3. j - n # i
    BY <2>1, <2>2
  <2>4. n \in 0 .. j - (i + 1) /\ pt[j - n - 1] # Escape
    BY <2>1, <2>3
  <2> QED  BY <2>1, <2>4 DEF Escaped
<1>2. ASSUME Escaped(pt, i + 1, j) PROVE Escaped(pt, i, j)
  <2>1. PICK n \in 0 .. j - (i + 1) : /\ n % 2 = 1
                                      /\ \A k \in j - n .. j - 1 : pt[k] = Escape
                                      /\ j - n = i + 1 \/ pt[j - n - 1] # Escape
    BY <1>2 DEF Escaped
  <2>2. n \in 0 .. j - i /\ pt[j - n - 1] # Escape
    BY <2>1
  <2> QED  BY <2>1, <2>2 DEF Escaped
<1> QED  BY <1>1, <1>2

(* So it is from behind an escape and the byte that it escapes. *)
LEMMA EscapedBehindPair ==
  ASSUME NEW pt, Len(pt) \in Nat, NEW i \in 1 .. Len(pt), pt[i] = Escape,
         NEW j \in i + 2 .. Len(pt) + 1
  PROVE  Escaped(pt, i, j) <=> Escaped(pt, i + 2, j)
<1>1. ASSUME Escaped(pt, i, j) PROVE Escaped(pt, i + 2, j)
  <2>1. PICK n \in 0 .. j - i : /\ n % 2 = 1
                                /\ \A k \in j - n .. j - 1 : pt[k] = Escape
                                /\ j - n = i \/ pt[j - n - 1] # Escape
    BY <1>1 DEF Escaped
  <2>2. CASE j - n = i
    <3>1. n >= 2 /\ n - 2 \in 0 .. j - (i + 2) /\ (n - 2) % 2 = 1 /\ j - (n - 2) = i + 2
      BY <2>1, <2>2
    <3>2. \A k \in j - (n - 2) .. j - 1 : pt[k] = Escape
      BY <2>1, <3>1
    <3> QED  BY <3>1, <3>2 DEF Escaped
  <2>3. CASE j - n # i
    <3>1. j - n # i + 1
      BY <2>1, <2>3
    <3>2. n \in 0 .. j - (i + 2) /\ pt[j - n - 1] # Escape
      BY <2>1, <2>3, <3>1
    <3> QED  BY <2>1, <3>2 DEF Escaped
  <2> QED  BY <2>2, <2>3
<1>2. ASSUME Escaped(pt, i + 2, j) PROVE Escaped(pt, i, j)
  <2>1. PICK n \in 0 .. j - (i + 2) : /\ n % 2 = 1
                                      /\ \A k \in j - n .. j - 1 : pt[k] = Escape
                                      /\ j - n = i + 2 \/ pt[j - n - 1] # Escape
    BY <1>2 DEF Escaped
  <2>2. CASE pt[j - n - 1] # Escape
    <3>1. n \in 0 .. j - i
      BY <2>1
    <3> QED  BY <2>1, <2>2, <3>1 DEF Escaped
  <2>3. CASE pt[j - n - 1] = Escape
    <3>1. j - n = i + 2 /\ pt[i + 1] = Escape
      BY <2>1, <2>3
    <3>2. n + 2 \in 0 .. j - i /\ (n + 2) % 2 = 1 /\ j - (n + 2) = i
      BY <2>1, <3>1
    <3>3. \A k \in j - (n + 2) .. j - 1 : pt[k] = Escape
      BY <2>1, <3>1, <3>2
    <3> QED  BY <3>2, <3>3 DEF Escaped
  <2> QED  BY <2>2, <2>3
<1> QED  BY <1>1, <1>2

(* The first byte is not escaped, and the second is if the first escapes. *)
LEMMA EscapedFirst ==
  ASSUME NEW pt, Len(pt) \in Nat, NEW i \in 1 .. Len(pt)
  PROVE  ~Escaped(pt, i, i) /\ (pt[i] = Escape => Escaped(pt, i, i + 1))
<1>1. ~Escaped(pt, i, i)
  BY DEF Escaped
<1>2. ASSUME pt[i] = Escape PROVE Escaped(pt, i, i + 1)
  <2>1. 1 \in 0 .. (i + 1) - i /\ 1 % 2 = 1 /\ (i + 1) - 1 = i
    OBVIOUS
  <2>2. \A k \in (i + 1) - 1 .. (i + 1) - 1 : pt[k] = Escape
    BY <1>2
  <2> QED  BY <2>1, <2>2 DEF Escaped
<1> QED  BY <1>1, <1>2

(* Where the walk through a class goes on after the byte at i. *)
After(pt, i) == IF Escapes(pt, i) THEN i + 2 ELSE i + 1

(* The ends of a class are those of what follows its first byte, with the
   byte that it may escape. *)
LEMMA EndsAfter ==
  ASSUME NEW pt, Len(pt) \in Nat, NEW i \in 1 .. Len(pt), pt[i] # Close
  PROVE  /\ After(pt, i) \in i + 1 .. Len(pt) + 1
         /\ Ends(pt, i) = Ends(pt, After(pt, i))
<1>1. CASE Escapes(pt, i)
  <2>1. After(pt, i) = i + 2 /\ pt[i] = Escape /\ i + 2 \in i + 1 .. Len(pt) + 1
    BY <1>1 DEF After, Escapes
  <2>2. i \notin Ends(pt, i) /\ i + 1 \notin Ends(pt, i)
    BY <2>1, EscapedFirst DEF Ends
  <2>3. \A j \in i + 2 .. Len(pt) : Escaped(pt, i, j) <=> Escaped(pt, i + 2, j)
    BY <2>1, EscapedBehindPair
  <2>4. \A j \in i .. Len(pt) : j = i \/ j = i + 1 \/ j \in i + 2 .. Len(pt)
    OBVIOUS
  <2>5. ASSUME NEW j PROVE j \in Ends(pt, i) <=> j \in Ends(pt, i + 2)
    BY <2>2, <2>3, <2>4 DEF Ends
  <2> QED  BY <2>1, <2>5
<1>2. CASE ~Escapes(pt, i) /\ pt[i] # Escape
  <2>1. After(pt, i) = i + 1
    BY <1>2 DEF After
  <2>2. \A j \in i + 1 .. Len(pt) : Escaped(pt, i, j) <=> Escaped(pt, i + 1, j)
    BY <1>2, EscapedBehind
  <2>3. ASSUME NEW j PROVE j \in Ends(pt, i) <=> j \in Ends(pt, i + 1)
    BY <2>2 DEF Ends
  <2> QED  BY <2>1, <2>3
<1>3. CASE ~Escapes(pt, i) /\ pt[i] = Escape
  <2>1. After(pt, i) = i + 1 /\ i = Len(pt)
    BY <1>3 DEF After, Escapes
  <2>2. Ends(pt, i) = {} /\ Ends(pt, i + 1) = {}
    BY <2>1 DEF Ends
  <2> QED  BY <2>1, <2>2
<1> QED  BY <1>1, <1>2, <1>3

(* The first end, or the position behind the pattern. *)
IsEnd(pt, from, e) ==
  /\ e \in from .. Len(pt) + 1
  /\ e <= Len(pt) => e \in Ends(pt, from)
  /\ \A j \in Ends(pt, from) : e <= j

FirstEnd(pt, from) == CHOOSE e : IsEnd(pt, from, e)

(* The first end of a class is one position. *)
LEMMA EndUnique ==
  ASSUME NEW pt, Len(pt) \in Nat, NEW from \in 1 .. Len(pt) + 1,
         NEW e, IsEnd(pt, from, e), NEW f, IsEnd(pt, from, f)
  PROVE  e = f
<1>1. e \in Nat /\ f \in Nat /\ e <= Len(pt) + 1 /\ f <= Len(pt) + 1
  BY DEF IsEnd
<1>2. Ends(pt, from) \subseteq 1 .. Len(pt)
  BY DEF Ends
<1> QED  BY <1>1, <1>2 DEF IsEnd

(* One step of the walk to the end of a class. *)
LEMMA EndStep ==
  ASSUME NEW pt, Len(pt) \in Nat, NEW i \in 1 .. Len(pt) + 1
  PROVE  /\ i > Len(pt) \/ pt[i] = Close => IsEnd(pt, i, i)
         /\ ~(i > Len(pt) \/ pt[i] = Close) =>
              /\ After(pt, i) \in i + 1 .. Len(pt) + 1
              /\ \A e : IsEnd(pt, After(pt, i), e) => IsEnd(pt, i, e)
<1>1. ASSUME i > Len(pt) PROVE IsEnd(pt, i, i)
  BY <1>1 DEF IsEnd, Ends
<1>2. ASSUME i <= Len(pt), pt[i] = Close PROVE IsEnd(pt, i, i)
  <2>1. i \in Ends(pt, i)
    BY <1>2, EscapedFirst DEF Ends
  <2> QED  BY <2>1, <1>2 DEF IsEnd, Ends
<1>3. ASSUME i <= Len(pt), pt[i] # Close
      PROVE  /\ After(pt, i) \in i + 1 .. Len(pt) + 1
             /\ \A e : IsEnd(pt, After(pt, i), e) => IsEnd(pt, i, e)
  <2>1. After(pt, i) \in i + 1 .. Len(pt) + 1 /\ Ends(pt, i) = Ends(pt, After(pt, i))
    BY <1>3, EndsAfter
  <2> QED  BY <2>1 DEF IsEnd
<1> QED  BY <1>1, <1>2, <1>3

(* And it always has one, which may be the position behind the pattern. *)
LEMMA EndExists ==
  ASSUME NEW pt, Len(pt) \in Nat
  PROVE  \A i \in 1 .. Len(pt) + 1 : IsEnd(pt, i, FirstEnd(pt, i))
<1> DEFINE n == Len(pt) + 1
           T == {i \in 1 .. n : \E e : IsEnd(pt, i, e)}
<1>1. ASSUME NEW i \in 1 .. n, \A j \in i + 1 .. n : j \in T PROVE i \in T
  BY <1>1, EndStep
<1>2. \A i \in 1 .. n : i \in T
  <2>1. n \in Nat
    OBVIOUS
  <2> HIDE DEF T, n
  <2> QED  BY <1>1, <2>1, Backwards
<1> QED  BY <1>2 DEF FirstEnd

(* The loop that looks for the end of a class finds the first one. *)
EndWalk(end, pt, from) ==
  end = [i \in from .. Len(pt) + 1 |->
           IF i > Len(pt) \/ pt[i] = Close THEN i
           ELSE IF Escapes(pt, i) THEN end[i + 2]
           ELSE end[i + 1]]

(* The walk to the end of a class stops at the first ] that is not escaped, or
   behind the pattern. *)
LEMMA ClassEndIs ==
  ASSUME NEW pt, Len(pt) \in Nat, NEW from \in 1 .. Len(pt) + 1
  PROVE  IsEnd(pt, from, ClassEnd(pt, from))
<1> DEFINE n == Len(pt) + 1
           E == [i \in from .. n |-> FirstEnd(pt, i)]
<1>1. EndWalk(E, pt, from)
  <2>1. ASSUME NEW i \in from .. n
        PROVE  E[i] = IF i > Len(pt) \/ pt[i] = Close THEN i
                      ELSE IF Escapes(pt, i) THEN E[i + 2]
                      ELSE E[i + 1]
    <3>1. IsEnd(pt, i, E[i]) /\ i \in 1 .. n
      BY EndExists
    <3>2. CASE i > Len(pt) \/ pt[i] = Close
      BY <3>1, <3>2, EndStep, EndUnique
    <3>3. CASE ~(i > Len(pt) \/ pt[i] = Close)
      <4>1. After(pt, i) \in i + 1 .. n /\ After(pt, i) \in from .. n /\ After(pt, i) \in 1 .. n
        BY <3>1, <3>3, EndStep
      <4>2. IsEnd(pt, After(pt, i), E[After(pt, i)])
        BY <4>1, EndExists
      <4>3. E[i] = E[After(pt, i)]
        BY <3>1, <3>3, <4>2, EndStep, EndUnique
      <4> QED  BY <3>3, <4>3 DEF After
    <3> QED  BY <3>2, <3>3
  <2> QED  BY <2>1 DEF EndWalk
<1> DEFINE e == CHOOSE x : EndWalk(x, pt, from)
<1>2. EndWalk(e, pt, from)
  BY <1>1
<1>3. ClassEnd(pt, from) = e[from]
  BY DEF ClassEnd, EndWalk
<1> HIDE DEF e
<1> DEFINE T == {i \in 1 .. n : i >= from => IsEnd(pt, i, e[i])}
<1>4. ASSUME NEW i \in 1 .. n, \A j \in i + 1 .. n : j \in T PROVE i \in T
  <2> SUFFICES ASSUME i >= from PROVE IsEnd(pt, i, e[i])
    OBVIOUS
  <2>1. e[i] = IF i > Len(pt) \/ pt[i] = Close THEN i
               ELSE IF Escapes(pt, i) THEN e[i + 2]
               ELSE e[i + 1]
    BY <1>2 DEF EndWalk
  <2>2. CASE i > Len(pt) \/ pt[i] = Close
    BY <2>1, <2>2, EndStep
  <2>3. CASE ~(i > Len(pt) \/ pt[i] = Close)
    <3>1. After(pt, i) \in i + 1 .. n /\ \A x : IsEnd(pt, After(pt, i), x) => IsEnd(pt, i, x)
      BY <2>3, EndStep
    <3>2. e[i] = e[After(pt, i)]
      BY <2>1, <2>3 DEF After
    <3>3. IsEnd(pt, After(pt, i), e[After(pt, i)])
      BY <1>4, <3>1
    <3> QED  BY <3>1, <3>2, <3>3
  <2> QED  BY <2>2, <2>3
<1>5. \A i \in 1 .. n : i \in T
  <2>1. n \in Nat
    OBVIOUS
  <2> HIDE DEF T, n
  <2> QED  BY <1>4, <2>1, Backwards
<1> QED  BY <1>3, <1>5

(* The byte c is met before the end: escaped, or not one that escapes. *)
MetAt(pt, from, c, j) ==
  pt[j] = c /\ (pt[j] # Escape \/ Escaped(pt, from, j) \/ j = Len(pt))

Met(pt, from, c) == \E j \in from .. FirstEnd(pt, from) - 1 : MetAt(pt, from, c, j)

(* One step of the walk that looks for c. *)
LEMMA MetStep ==
  ASSUME NEW pt, Len(pt) \in Nat, NEW i \in 1 .. Len(pt) + 1, NEW c
  PROVE  /\ i > Len(pt) \/ pt[i] = Close => ~Met(pt, i, c)
         /\ i <= Len(pt) /\ pt[i] # Close /\ Escapes(pt, i) =>
              (Met(pt, i, c) <=> pt[i + 1] = c \/ Met(pt, i + 2, c))
         /\ i <= Len(pt) /\ pt[i] # Close /\ ~Escapes(pt, i) =>
              (Met(pt, i, c) <=> pt[i] = c \/ Met(pt, i + 1, c))
<1> DEFINE e == FirstEnd(pt, i)
           k == After(pt, i)
<1>1. IsEnd(pt, i, e) /\ e \in Int /\ Len(pt) \in Int
  BY EndExists DEF IsEnd
<1>2. ASSUME i > Len(pt) \/ pt[i] = Close PROVE ~Met(pt, i, c)
  <2>1. e = i
    BY <1>1, <1>2, EndStep, EndUnique
  <2> QED  BY <2>1 DEF Met
<1>3. ASSUME i <= Len(pt), pt[i] # Close
      PROVE  k \in i + 1 .. Len(pt) + 1 /\ e = FirstEnd(pt, k) /\ e \in k .. Len(pt) + 1
  <2>1. k \in i + 1 .. Len(pt) + 1 /\ k \in 1 .. Len(pt) + 1
        /\ \A x : IsEnd(pt, k, x) => IsEnd(pt, i, x)
    BY <1>3, EndStep
  <2>2. IsEnd(pt, k, FirstEnd(pt, k))
    BY <2>1, EndExists
  <2>3. e = FirstEnd(pt, k)
    BY <1>1, <2>1, <2>2, EndUnique
  <2> QED  BY <2>1, <2>2, <2>3 DEF IsEnd
<1> HIDE DEF e, k
<1>4. Met(pt, i, c) <=> \E j \in i .. e - 1 : MetAt(pt, i, c, j)
  BY DEF Met, e
<1>5. ASSUME i <= Len(pt), pt[i] # Close, Escapes(pt, i)
      PROVE  Met(pt, i, c) <=> pt[i + 1] = c \/ Met(pt, i + 2, c)
  <2>1. k = i + 2 /\ pt[i] = Escape /\ i < Len(pt)
    BY <1>5 DEF k, After, Escapes
  <2>2. Met(pt, i + 2, c) <=> \E j \in i + 2 .. e - 1 : MetAt(pt, i + 2, c, j)
    BY <1>3, <1>5, <2>1 DEF Met
  <2>3. ~MetAt(pt, i, c, i) /\ (MetAt(pt, i, c, i + 1) <=> pt[i + 1] = c)
    BY <2>1, EscapedFirst DEF MetAt
  <2>4. \A j \in i + 2 .. e - 1 : MetAt(pt, i, c, j) <=> MetAt(pt, i + 2, c, j)
    <3>1. \A j \in i + 2 .. e - 1 : j \in i + 2 .. Len(pt) + 1
      BY <1>1, <1>3, <1>5
    <3> QED  BY <2>1, <3>1, EscapedBehindPair DEF MetAt
  <2>5. i + 1 \in i .. e - 1
    BY <1>3, <1>5, <2>1, <1>1
  <2>6. \A j \in i .. e - 1 : j = i \/ j = i + 1 \/ j \in i + 2 .. e - 1
    BY <1>1
  <2>7. \A j \in i + 2 .. e - 1 : j \in i .. e - 1
    BY <1>1
  <2> QED  BY <1>4, <2>2, <2>3, <2>4, <2>5, <2>6, <2>7
<1>6. ASSUME i <= Len(pt), pt[i] # Close, ~Escapes(pt, i)
      PROVE  Met(pt, i, c) <=> pt[i] = c \/ Met(pt, i + 1, c)
  <2>1. k = i + 1 /\ (pt[i] = Escape => i = Len(pt))
    BY <1>6 DEF k, After, Escapes
  <2>2. Met(pt, i + 1, c) <=> \E j \in i + 1 .. e - 1 : MetAt(pt, i + 1, c, j)
    BY <1>3, <1>6, <2>1 DEF Met
  <2>3. MetAt(pt, i, c, i) <=> pt[i] = c
    BY <2>1 DEF MetAt
  <2>4. \A j \in i + 1 .. e - 1 : MetAt(pt, i, c, j) <=> MetAt(pt, i + 1, c, j)
    <3>1. \A j \in i + 1 .. e - 1 : j \in i + 1 .. Len(pt) + 1 /\ pt[i] # Escape
      BY <1>1, <1>3, <1>6, <2>1
    <3> QED  BY <1>6, <3>1, EscapedBehind DEF MetAt
  <2>5. i \in i .. e - 1
    BY <1>3, <1>6, <2>1, <1>1
  <2>6. \A j \in i .. e - 1 : j = i \/ j \in i + 1 .. e - 1
    BY <1>1
  <2>7. \A j \in i + 1 .. e - 1 : j \in i .. e - 1
    BY <1>1
  <2> QED  BY <1>4, <2>2, <2>3, <2>4, <2>5, <2>6, <2>7
<1> QED  BY <1>2, <1>5, <1>6

(* The loop that looks for a byte in a class finds it if it is met. *)
MemberStep(has, pt, c, i) ==
  IF i > Len(pt) \/ pt[i] = Close THEN FALSE
  ELSE IF Escapes(pt, i) THEN pt[i + 1] = c \/ has[i + 2]
  ELSE pt[i] = c \/ has[i + 1]

MemberWalk(has, pt, from, c) ==
  has = [i \in from .. Len(pt) + 1 |-> MemberStep(has, pt, c, i)]

(* The walk that looks for c finds it exactly when it is one of the bytes
   met on the way. *)
LEMMA ClassHasIs ==
  ASSUME NEW pt, Len(pt) \in Nat, NEW from \in 1 .. Len(pt) + 1, NEW c
  PROVE  ClassHas(pt, from, c) = Met(pt, from, c)
<1> DEFINE n == Len(pt) + 1
           H == [i \in from .. n |-> Met(pt, i, c)]
<1>1. MemberWalk(H, pt, from, c)
  <2>1. ASSUME NEW i \in from .. n
        PROVE  H[i] = MemberStep(H, pt, c, i)
    <3>1. H[i] = Met(pt, i, c) /\ i \in 1 .. n
      OBVIOUS
    <3>2. CASE i > Len(pt) \/ pt[i] = Close
      BY <3>1, <3>2, MetStep DEF Met, MemberStep
    <3>3. CASE ~(i > Len(pt) \/ pt[i] = Close) /\ Escapes(pt, i)
      <4>1. i + 2 \in from .. n /\ i <= Len(pt)
        BY <3>1, <3>3 DEF Escapes
      <4>2. H[i + 2] = Met(pt, i + 2, c)
        BY <4>1
      <4>3. Met(pt, i, c) <=> pt[i + 1] = c \/ Met(pt, i + 2, c)
        BY <3>1, <3>3, <4>1, MetStep
      <4> QED  BY <3>1, <3>3, <4>2, <4>3 DEF Met, MemberStep
    <3>4. CASE ~(i > Len(pt) \/ pt[i] = Close) /\ ~Escapes(pt, i)
      <4>1. i + 1 \in from .. n /\ i <= Len(pt)
        BY <3>1, <3>4
      <4>2. H[i + 1] = Met(pt, i + 1, c)
        BY <4>1
      <4>3. Met(pt, i, c) <=> pt[i] = c \/ Met(pt, i + 1, c)
        BY <3>1, <3>4, <4>1, MetStep
      <4> QED  BY <3>1, <3>4, <4>2, <4>3 DEF Met, MemberStep
    <3> QED  BY <3>2, <3>3, <3>4
  <2> QED  BY <2>1 DEF MemberWalk
<1> DEFINE h == CHOOSE x : MemberWalk(x, pt, from, c)
<1>2. MemberWalk(h, pt, from, c)
  BY <1>1
<1>3. ClassHas(pt, from, c) = h[from]
  BY DEF ClassHas, MemberWalk, MemberStep
<1> HIDE DEF h
<1> DEFINE T == {i \in 1 .. n : i >= from => h[i] = Met(pt, i, c)}
<1>4. ASSUME NEW i \in 1 .. n, \A j \in i + 1 .. n : j \in T PROVE i \in T
  <2> SUFFICES ASSUME i >= from PROVE h[i] = Met(pt, i, c)
    OBVIOUS
  <2>1. h[i] = MemberStep(h, pt, c, i)
    BY <1>2 DEF MemberWalk
  <2>2. CASE i > Len(pt) \/ pt[i] = Close
    BY <2>1, <2>2, MetStep DEF Met, MemberStep
  <2>3. CASE ~(i > Len(pt) \/ pt[i] = Close) /\ Escapes(pt, i)
    <3>1. i + 2 \in i + 1 .. n /\ i <= Len(pt)
      BY <2>3 DEF Escapes
    <3>2. h[i + 2] = Met(pt, i + 2, c)
      BY <1>4, <3>1
    <3>3. Met(pt, i, c) <=> pt[i + 1] = c \/ Met(pt, i + 2, c)
      BY <2>3, <3>1, MetStep
    <3> QED  BY <2>1, <2>3, <3>2, <3>3 DEF Met, MemberStep
  <2>4. CASE ~(i > Len(pt) \/ pt[i] = Close) /\ ~Escapes(pt, i)
    <3>1. i + 1 \in i + 1 .. n /\ i <= Len(pt)
      BY <2>4
    <3>2. h[i + 1] = Met(pt, i + 1, c)
      BY <1>4, <3>1
    <3>3. Met(pt, i, c) <=> pt[i] = c \/ Met(pt, i + 1, c)
      BY <2>4, <3>1, MetStep
    <3> QED  BY <2>1, <2>4, <3>2, <3>3 DEF Met, MemberStep
  <2> QED  BY <2>2, <2>3, <2>4
<1>5. \A i \in 1 .. n : i \in T
  <2>1. n \in Nat
    OBVIOUS
  <2> HIDE DEF T, n
  <2> QED  BY <1>4, <2>1, Backwards
<1> QED  BY <1>3, <1>5

(* A class that ends has the members that its meaning gives it. *)
LEMMA ClassMeans ==
  ASSUME NEW pt, Len(pt) \in Nat, NEW from \in 1 .. Len(pt) + 1,
         NEW end, end = ClassEnd(pt, from)
  PROVE  /\ end \in from .. Len(pt) + 1
         /\ end <= Len(pt) <=> Ends(pt, from) # {}
         /\ end <= Len(pt) =>
              /\ end = CHOOSE e \in Ends(pt, from) :
                         \A f \in Ends(pt, from) : e <= f
              /\ \A c : ClassHas(pt, from, c) = (c \in Members(pt, from, end))
<1> DEFINE First(e) == e \in Ends(pt, from) /\ \A f \in Ends(pt, from) : e <= f
<1>1. IsEnd(pt, from, end) /\ IsEnd(pt, from, FirstEnd(pt, from))
  BY ClassEndIs, EndExists
<1>2. end = FirstEnd(pt, from)
  BY <1>1, EndUnique
<1>3. \A c : ClassHas(pt, from, c) = Met(pt, from, c)
  BY ClassHasIs
<1>4. end \in from .. Len(pt) + 1 /\ (end <= Len(pt) <=> Ends(pt, from) # {})
  BY <1>1 DEF IsEnd, Ends
<1>5. ASSUME end <= Len(pt)
      PROVE  /\ end = CHOOSE e \in Ends(pt, from) : \A f \in Ends(pt, from) : e <= f
             /\ \A c : ClassHas(pt, from, c) = (c \in Members(pt, from, end))
  <2>1. First(end)
    BY <1>1, <1>5 DEF IsEnd
  <2>2. \A e : First(e) => e = end
    BY <2>1 DEF Ends
  <2>3. \A j \in from .. end - 1 : j # Len(pt)
    BY <1>4, <1>5
  <2>4. ASSUME NEW c PROVE Met(pt, from, c) <=> c \in Members(pt, from, end)
    BY <1>2, <2>3 DEF Met, MetAt, Members
  <2>5. ASSUME NEW c PROVE ClassHas(pt, from, c) = (c \in Members(pt, from, end))
    <3>1. Met(pt, from, c) \in BOOLEAN
      BY DEF Met
    <3>2. Met(pt, from, c) = (c \in Members(pt, from, end))
      BY <2>4, <3>1
    <3> QED  BY <1>3, <3>2
  <2> QED  BY <2>1, <2>2, <2>5
<1> QED  BY <1>4, <1>5
-----------------------------------------------------------------------------
(* Tokens.                                                                 *)

Token == [run : BOOLEAN, set : SUBSET Bytes]

(* What the part of the pattern at p is a token for, where the next one
   starts, and whether it is a class that does not end. *)
From(pt, p) == IF p < Len(pt) /\ pt[p + 1] = Not THEN p + 2 ELSE p + 1
Quoted(pt, p) == IF Escapes(pt, p) THEN p + 1 ELSE p
ClassEndAt(pt, p) == ClassEnd(pt, From(pt, p))
Class(pt, p) == Members(pt, From(pt, p), ClassEndAt(pt, p))

TokenAt(pt, p) ==
  IF pt[p] = Star THEN Run
  ELSE IF pt[p] = Any THEN OneOf(Bytes)
  ELSE IF pt[p] = Open
    THEN OneOf(IF From(pt, p) = p + 2 THEN Bytes \ Class(pt, p) ELSE Class(pt, p))
  ELSE OneOf({pt[Quoted(pt, p)]})

NextAt(pt, p) ==
  IF pt[p] = Star \/ pt[p] = Any THEN p + 1
  ELSE IF pt[p] = Open THEN ClassEndAt(pt, p) + 1
  ELSE Quoted(pt, p) + 1

Unended(pt, p) ==
  pt[p] # Star /\ pt[p] # Any /\ pt[p] = Open /\ ClassEndAt(pt, p) > Len(pt)

(* The members of a class start behind the [ or behind its negation. *)
LEMMA FromIs ==
  ASSUME NEW pt, Len(pt) \in Nat, NEW p \in 1 .. Len(pt)
  PROVE  From(pt, p) \in p + 1 .. Len(pt) + 1
BY DEF From

(* What stands at a position is a token, and what is behind it comes later. *)
LEMMA TokenType ==
  ASSUME NEW pt \in Seq(Bytes), NEW p \in 1 .. Len(pt)
  PROVE  /\ TokenAt(pt, p) \in Token
         /\ ~Unended(pt, p) => NextAt(pt, p) \in p + 1 .. Len(pt) + 1
<1>1. Quoted(pt, p) \in p .. Len(pt)
  BY DEF Quoted, Escapes
<1>2. ClassEndAt(pt, p) \in p + 1 .. Len(pt) + 1
  BY FromIs, ClassMeans DEF ClassEndAt
<1>3. Class(pt, p) \subseteq Bytes
  <2>1. \A j \in From(pt, p) .. ClassEndAt(pt, p) - 1 : j \in 1 .. Len(pt)
    BY <1>2, FromIs
  <2>2. \A j \in 1 .. Len(pt) : pt[j] \in Bytes
    OBVIOUS
  <2> QED  BY <2>1, <2>2 DEF Class, Members
<1>4. \A S \in SUBSET Bytes : OneOf(S) \in Token
  BY DEF OneOf, Token
<1>5. Run \in Token /\ pt[Quoted(pt, p)] \in Bytes
  BY <1>1 DEF Run, Token
<1>6. TokenAt(pt, p) \in Token
  BY <1>3, <1>4, <1>5 DEF TokenAt
<1>7. ~Unended(pt, p) => NextAt(pt, p) \in p + 1 .. Len(pt) + 1
  BY <1>1, <1>2 DEF NextAt, Unended
<1> QED  BY <1>6, <1>7

TokenStep(tokens, pt, p) ==
  IF p > Len(pt) THEN <<>>
  ELSE IF pt[p] = Star THEN <<Run>> \o tokens[p + 1]
  ELSE IF pt[p] = Any  THEN <<OneOf(Bytes)>> \o tokens[p + 1]
  ELSE IF pt[p] = Open
    THEN IF Ends(pt, From(pt, p)) = {} THEN <<OneOf({})>>
         ELSE LET end == CHOOSE e \in Ends(pt, From(pt, p)) :
                           \A f \in Ends(pt, From(pt, p)) : e <= f
                  set == Members(pt, From(pt, p), end)
              IN <<OneOf(IF From(pt, p) = p + 2 THEN Bytes \ set ELSE set)>>
                 \o tokens[end + 1]
  ELSE IF pt[p] = Escape /\ p < Len(pt)
    THEN <<OneOf({pt[p + 1]})>> \o tokens[p + 2]
  ELSE <<OneOf({pt[p]})>> \o tokens[p + 1]

Tokenizes(tokens, pt) == tokens = [p \in 1 .. Len(pt) + 1 |-> TokenStep(tokens, pt, p)]

(* The tokens of a pattern are those from its first position on. *)
LEMMA TokensAre ==
  ASSUME NEW pt
  PROVE  Tokens(pt) = (CHOOSE t : Tokenizes(t, pt))[1]
BY DEF Tokens, Tokenizes, TokenStep, From

(* The tokens from p on are the one at p and those from the next one on. *)
LEMMA TokenStepIs ==
  ASSUME NEW pt \in Seq(Bytes), NEW p \in 1 .. Len(pt), NEW ts
  PROVE  TokenStep(ts, pt, p) =
           IF Unended(pt, p) THEN <<OneOf({})>>
           ELSE <<TokenAt(pt, p)>> \o ts[NextAt(pt, p)]
<1>1. ~(p > Len(pt)) /\ From(pt, p) \in 1 .. Len(pt) + 1
  BY FromIs
<1>2. CASE pt[p] = Star
  BY <1>1, <1>2 DEF TokenStep, Unended, TokenAt, NextAt
<1>3. CASE pt[p] # Star /\ pt[p] = Any
  BY <1>1, <1>3 DEF TokenStep, Unended, TokenAt, NextAt
<1>4. CASE pt[p] # Star /\ pt[p] # Any /\ pt[p] = Open
  <2> DEFINE end == ClassEndAt(pt, p)
             first == CHOOSE e \in Ends(pt, From(pt, p)) :
                               \A f \in Ends(pt, From(pt, p)) : e <= f
  <2>1. /\ end \in Nat /\ (end <= Len(pt) <=> Ends(pt, From(pt, p)) # {})
        /\ end <= Len(pt) => end = first
    BY <1>1, ClassMeans DEF ClassEndAt
  <2>2. Unended(pt, p) <=> Ends(pt, From(pt, p)) = {}
    BY <1>4, <2>1 DEF Unended
  <2>3. TokenStep(ts, pt, p) =
          IF Ends(pt, From(pt, p)) = {} THEN <<OneOf({})>>
          ELSE <<OneOf(IF From(pt, p) = p + 2
                              THEN Bytes \ Members(pt, From(pt, p), first)
                              ELSE Members(pt, From(pt, p), first))>>
               \o ts[first + 1]
    BY <1>1, <1>4 DEF TokenStep
  <2>4. ~Unended(pt, p) => end = first
    BY <2>1, <2>2
  <2> HIDE DEF first
  <2>5. TokenAt(pt, p) = OneOf(IF From(pt, p) = p + 2
                              THEN Bytes \ Members(pt, From(pt, p), end)
                              ELSE Members(pt, From(pt, p), end))
        /\ NextAt(pt, p) = end + 1
    BY <1>4 DEF TokenAt, NextAt, Class
  <2> HIDE DEF end
  <2> QED  BY <2>2, <2>3, <2>4, <2>5
<1>5. CASE pt[p] # Star /\ pt[p] # Any /\ pt[p] # Open
  <2>1. Escapes(pt, p) <=> pt[p] = Escape /\ p < Len(pt)
    BY DEF Escapes
  <2>2. (p + 1) + 1 = p + 2
    OBVIOUS
  <2> QED  BY <1>1, <1>5, <2>1, <2>2 DEF TokenStep, Unended, TokenAt, NextAt, Quoted
<1> QED  BY <1>2, <1>3, <1>4, <1>5

(* The tokens from each position on are well defined. *)
LEMMA TokensExist ==
  ASSUME NEW pt \in Seq(Bytes)
  PROVE  \E t : Tokenizes(t, pt)
<1> DEFINE n == Len(pt) + 1
           Part(t, p) == t = [q \in p .. n |-> TokenStep(t, pt, q)]
           T == {p \in 1 .. n : \E t : Part(t, p)}
<1>1. ASSUME NEW p \in 1 .. n, \A q \in p + 1 .. n : q \in T PROVE p \in T
  <2>1. \E t : t = [q \in p + 1 .. n |-> TokenStep(t, pt, q)]
    <3>1. CASE p = n
      <4>1. p + 1 .. n = {}
        BY <3>1
      <4> DEFINE t == [q \in {} |-> <<>>]
      <4>2. t = [q \in p + 1 .. n |-> TokenStep(t, pt, q)]
        BY <4>1
      <4> QED  BY <4>2
    <3>2. CASE p # n
      <4>1. p + 1 \in T
        BY <1>1, <3>2
      <4> QED  BY <4>1
    <3> QED  BY <3>1, <3>2
  <2>2. PICK t : t = [q \in p + 1 .. n |-> TokenStep(t, pt, q)]
    BY <2>1
  <2> DEFINE u == [q \in p .. n |-> IF q = p THEN TokenStep(t, pt, p) ELSE t[q]]
  <2>3. \A q \in p + 1 .. n : u[q] = t[q]
    OBVIOUS
  <2> HIDE DEF u
  <2>4. ASSUME NEW q \in p .. n PROVE TokenStep(u, pt, q) = TokenStep(t, pt, q)
    <3>1. CASE q = n
      BY <3>1 DEF TokenStep
    <3>2. CASE q # n
      <4>1. q \in 1 .. Len(pt)
        BY <3>2
      <4>2. ~Unended(pt, q) => u[NextAt(pt, q)] = t[NextAt(pt, q)]
        BY <2>3, <4>1, TokenType
      <4> QED  BY <4>1, <4>2, TokenStepIs
    <3> QED  BY <3>1, <3>2
  <2>5. ASSUME NEW q \in p .. n PROVE u[q] = TokenStep(t, pt, q)
    <3>1. q # p => q \in p + 1 .. n /\ t[q] = TokenStep(t, pt, q)
      BY <2>2
    <3> QED  BY <3>1 DEF u
  <2>6. Part(u, p)
    BY <2>4, <2>5 DEF u
  <2> QED  BY <2>6
<1>2. \A p \in 1 .. n : p \in T
  <2>1. n \in Nat
    OBVIOUS
  <2> HIDE DEF T, n
  <2> QED  BY <1>1, <2>1, Backwards
<1>3. 1 \in 1 .. n
  OBVIOUS
<1> QED  BY <1>2, <1>3 DEF Tokenizes

(* So they can be unfolded at every position. *)
LEMMA TokensStep ==
  ASSUME NEW pt \in Seq(Bytes), NEW ts, Tokenizes(ts, pt)
  PROVE  /\ ts[Len(pt) + 1] = <<>>
         /\ \A p \in 1 .. Len(pt) :
              ts[p] = IF Unended(pt, p) THEN <<OneOf({})>>
                      ELSE <<TokenAt(pt, p)>> \o ts[NextAt(pt, p)]
         /\ \A p \in 1 .. Len(pt) + 1 : ts[p] \in Seq(Token)
<1> DEFINE n == Len(pt) + 1
           T == {p \in 1 .. n : ts[p] \in Seq(Token)}
<1>1. \A p \in 1 .. n : ts[p] = TokenStep(ts, pt, p)
  BY DEF Tokenizes
<1>2. ts[n] = <<>>
  <2>1. n > Len(pt) /\ n \in 1 .. n
    OBVIOUS
  <2>2. \A p : p > Len(pt) => TokenStep(ts, pt, p) = <<>>
    BY DEF TokenStep
  <2> HIDE DEF n
  <2> QED  BY <1>1, <2>1, <2>2
<1>3. \A p \in 1 .. Len(pt) :
        ts[p] = IF Unended(pt, p) THEN <<OneOf({})>>
                ELSE <<TokenAt(pt, p)>> \o ts[NextAt(pt, p)]
  <2> SUFFICES ASSUME NEW p \in 1 .. Len(pt)
               PROVE  ts[p] = IF Unended(pt, p) THEN <<OneOf({})>>
                              ELSE <<TokenAt(pt, p)>> \o ts[NextAt(pt, p)]
    OBVIOUS
  <2>1. ts[p] = TokenStep(ts, pt, p)
    BY <1>1
  <2> QED  BY <2>1, TokenStepIs
<1>4. ASSUME NEW p \in 1 .. n, \A q \in p + 1 .. n : q \in T PROVE p \in T
  <2>1. CASE p = n
    <3>1. <<>> \in Seq(Token)
      OBVIOUS
    <3>2. ts[p] = <<>>
      BY <1>2, <2>1
    <3> QED  BY <3>1, <3>2
  <2>2. CASE p # n
    <3>1. p \in 1 .. Len(pt)
      BY <2>2
    <3>2. TokenAt(pt, p) \in Token /\ (~Unended(pt, p) => ts[NextAt(pt, p)] \in Seq(Token))
      BY <1>4, <3>1, TokenType
    <3>3. OneOf({}) \in Token
      BY DEF OneOf, Token
    <3>4. \A t \in Token, us \in Seq(Token) : <<t>> \in Seq(Token) /\ <<t>> \o us \in Seq(Token)
      <4> HIDE DEF Token
      <4> QED  OBVIOUS
    <3>5. ts[p] \in Seq(Token)
      <4>1. ts[p] = IF Unended(pt, p) THEN <<OneOf({})>>
                    ELSE <<TokenAt(pt, p)>> \o ts[NextAt(pt, p)]
        BY <1>3, <3>1
      <4>2. CASE Unended(pt, p)
        BY <3>3, <3>4, <4>1, <4>2
      <4>3. CASE ~Unended(pt, p)
        BY <3>2, <3>4, <4>1, <4>3
      <4> QED  BY <4>2, <4>3
    <3> QED  BY <3>5
  <2> QED  BY <2>1, <2>2
<1>5. \A p \in 1 .. n : p \in T
  <2>1. n \in Nat
    OBVIOUS
  <2> HIDE DEF T, n
  <2> QED  BY <1>4, <2>1, Backwards
<1> QED  BY <1>2, <1>3, <1>5

-----------------------------------------------------------------------------
(* What tokens take.                                                       *)

(* The tokens take the string from s on. *)
Cuts(cut, ts, st, s) ==
  /\ cut \in [0 .. Len(ts) -> 0 .. Len(st)]
  /\ cut[0] = s - 1 /\ cut[Len(ts)] = Len(st)
  /\ \A i \in DOMAIN ts :
       /\ cut[i - 1] <= cut[i]
       /\ ~ts[i].run => cut[i] = cut[i - 1] + 1 /\ st[cut[i]] \in ts[i].set

Takes(ts, st, s) == \E cut : Cuts(cut, ts, st, s)

(* A pattern means the strings that its tokens take from the first byte on. *)
LEMMA MeansTakes ==
  ASSUME NEW pt, NEW st
  PROVE  Means(pt, st) = Takes(Tokens(pt), st, 1)
<1>1. Means(pt, st) <=> Takes(Tokens(pt), st, 1)
  BY DEF Means, Takes, Cuts
<1>2. Means(pt, st) \in BOOLEAN /\ Takes(Tokens(pt), st, 1) \in BOOLEAN
  BY DEF Means, Takes
<1> QED  BY <1>1, <1>2

(* No tokens take no bytes. *)
LEMMA NoneTake ==
  ASSUME NEW st, Len(st) \in Nat, NEW s \in 1 .. Len(st) + 1
  PROVE  Takes(<<>>, st, s) <=> s > Len(st)
<1>1. ASSUME s > Len(st) PROVE Takes(<<>>, st, s)
  <2> DEFINE cut == [i \in 0 .. 0 |-> s - 1]
  <2>1. Cuts(cut, <<>>, st, s)
    BY <1>1 DEF Cuts
  <2> QED  BY <2>1 DEF Takes
<1>2. ASSUME Takes(<<>>, st, s) PROVE s > Len(st)
  BY <1>2 DEF Takes, Cuts
<1> QED  BY <1>1, <1>2

(* The first token takes what it can, the others the rest. *)
LEMMA FirstTakes ==
  ASSUME NEW st, Len(st) \in Nat, NEW s \in 1 .. Len(st) + 1,
         NEW t \in Token, NEW ts \in Seq(Token)
  PROVE  Takes(<<t>> \o ts, st, s) <=>
           \E k \in s .. Len(st) + 1 :
             Takes(ts, st, k) /\ (t.run \/ (k = s + 1 /\ st[s] \in t.set))
<1> DEFINE us == <<t>> \o ts
           n == Len(ts)
<1>1. /\ n \in Nat /\ Len(us) = n + 1 /\ DOMAIN us = 1 .. n + 1 /\ DOMAIN ts = 1 .. n
      /\ us[1] = t /\ \A i \in 1 .. n : us[i + 1] = ts[i]
  <2> HIDE DEF Token
  <2> QED  OBVIOUS
<1> HIDE DEF us, n
<1>2. ASSUME Takes(us, st, s)
      PROVE  \E k \in s .. Len(st) + 1 :
               Takes(ts, st, k) /\ (t.run \/ (k = s + 1 /\ st[s] \in t.set))
  <2>1. PICK cut : Cuts(cut, us, st, s)
    BY <1>2 DEF Takes
  <2>2. /\ cut \in [0 .. n + 1 -> 0 .. Len(st)] /\ cut[0] = s - 1 /\ cut[n + 1] = Len(st)
        /\ \A i \in 1 .. n + 1 :
             /\ cut[i - 1] <= cut[i]
             /\ ~us[i].run => cut[i] = cut[i - 1] + 1 /\ st[cut[i]] \in us[i].set
    BY <1>1, <2>1 DEF Cuts
  <2> DEFINE rest == [i \in 0 .. n |-> cut[i + 1]]
             k == cut[1] + 1
  <2>3. 1 \in 1 .. n + 1 /\ cut[1] \in 0 .. Len(st) /\ cut[0] <= cut[1]
        /\ (~t.run => cut[1] = s /\ st[s] \in t.set)
    <3>1. 1 \in 1 .. n + 1 /\ 1 \in 0 .. n + 1 /\ 1 - 1 = 0
      BY <1>1
    <3>2. cut[0] <= cut[1] /\ (~us[1].run => cut[1] = cut[0] + 1 /\ st[cut[1]] \in us[1].set)
      BY <2>2, <3>1
    <3> QED  BY <1>1, <2>2, <3>1, <3>2
  <2>4. k \in s .. Len(st) + 1 /\ (t.run \/ (k = s + 1 /\ st[s] \in t.set))
    BY <2>2, <2>3
  <2>5. rest \in [0 .. n -> 0 .. Len(st)] /\ rest[0] = k - 1 /\ rest[n] = Len(st)
    BY <1>1, <2>2, <2>3
  <2>6. ASSUME NEW i \in 1 .. n
        PROVE  /\ rest[i - 1] <= rest[i]
               /\ ~ts[i].run => rest[i] = rest[i - 1] + 1 /\ st[rest[i]] \in ts[i].set
    <3>1. i + 1 \in 1 .. n + 1 /\ (i + 1) - 1 = i /\ i - 1 \in 0 .. n /\ (i - 1) + 1 = i
          /\ i \in 0 .. n
      BY <1>1
    <3>2. rest[i] = cut[i + 1] /\ rest[i - 1] = cut[i]
      BY <3>1
    <3> QED  BY <1>1, <2>2, <3>1, <3>2
  <2>7. Cuts(rest, ts, st, k)
    BY <1>1, <2>5, <2>6 DEF Cuts, n
  <2> QED  BY <2>4, <2>7 DEF Takes
<1>3. ASSUME NEW k \in s .. Len(st) + 1, Takes(ts, st, k),
             t.run \/ (k = s + 1 /\ st[s] \in t.set)
      PROVE  Takes(us, st, s)
  <2>1. PICK rest : Cuts(rest, ts, st, k)
    BY <1>3 DEF Takes
  <2>2. /\ rest \in [0 .. n -> 0 .. Len(st)] /\ rest[0] = k - 1 /\ rest[n] = Len(st)
        /\ \A i \in 1 .. n :
             /\ rest[i - 1] <= rest[i]
             /\ ~ts[i].run => rest[i] = rest[i - 1] + 1 /\ st[rest[i]] \in ts[i].set
    BY <1>1, <2>1 DEF Cuts, n
  <2> DEFINE cut == [i \in 0 .. n + 1 |-> IF i = 0 THEN s - 1 ELSE rest[i - 1]]
  <2>3. cut \in [0 .. n + 1 -> 0 .. Len(st)] /\ cut[0] = s - 1 /\ cut[n + 1] = Len(st)
    <3>1. \A i \in 1 .. n + 1 : i - 1 \in 0 .. n
      BY <1>1
    <3>2. n + 1 \in 0 .. n + 1 /\ 0 \in 0 .. n + 1 /\ (n + 1) - 1 = n /\ n + 1 # 0
      BY <1>1
    <3>3. \A i \in 0 .. n + 1 : i = 0 \/ i \in 1 .. n + 1
      BY <1>1
    <3>4. s - 1 \in 0 .. Len(st)
      OBVIOUS
    <3> QED  BY <2>2, <3>1, <3>2, <3>3, <3>4
  <2>4. ASSUME NEW i \in 1 .. n + 1
        PROVE  /\ cut[i - 1] <= cut[i]
               /\ ~us[i].run => cut[i] = cut[i - 1] + 1 /\ st[cut[i]] \in us[i].set
    <3>1. CASE i = 1
      <4>1. cut[i - 1] = s - 1 /\ cut[i] = k - 1
        BY <1>1, <2>2, <3>1
      <4> QED  BY <1>1, <1>3, <3>1, <4>1
    <3>2. CASE i # 1
      <4>1. i - 1 \in 1 .. n /\ i \in 0 .. n + 1 /\ i - 1 \in 0 .. n + 1 /\ i # 0 /\ i - 1 # 0
            /\ (i - 1) + 1 = i
        BY <1>1, <3>2
      <4>2. cut[i] = rest[i - 1] /\ cut[i - 1] = rest[(i - 1) - 1] /\ us[i] = ts[i - 1]
        BY <1>1, <4>1
      <4> QED  BY <2>2, <4>1, <4>2
    <3> QED  BY <3>1, <3>2
  <2>5. Cuts(cut, us, st, s)
    BY <1>1, <2>3, <2>4 DEF Cuts
  <2> QED  BY <2>5 DEF Takes
<1> QED  BY <1>2, <1>3 DEF us
-----------------------------------------------------------------------------
(* The matcher.                                                            *)

MatchStep(match, pt, st, p, s) ==
  IF p > Len(pt) THEN s > Len(st)
  ELSE IF pt[p] = Star
    THEN p = Len(pt) \/ \E k \in s .. Len(st) + 1 : match[p + 1][k]
  ELSE IF s > Len(st) THEN FALSE
  ELSE IF pt[p] = Any THEN match[p + 1][s + 1]
  ELSE IF pt[p] = Open
    THEN LET neg  == p < Len(pt) /\ pt[p + 1] = Not
             from == IF neg THEN p + 2 ELSE p + 1
             end  == ClassEnd(pt, from)
         IN end <= Len(pt) /\ ClassHas(pt, from, st[s]) # neg /\ match[end + 1][s + 1]
  ELSE LET q == IF Escapes(pt, p) THEN p + 1 ELSE p
       IN pt[q] = st[s] /\ match[q + 1][s + 1]

Matches(match, pt, st) ==
  match = [p \in 1 .. Len(pt) + 1 |->
             [s \in 1 .. Len(st) + 1 |-> MatchStep(match, pt, st, p, s)]]

(* The matcher answers for the first position of the pattern and the string. *)
LEMMA MatchIs ==
  ASSUME NEW pt, NEW st
  PROVE  glob_match(pt, st) = (CHOOSE m : Matches(m, pt, st))[1][1]
BY DEF glob_match, Matches, MatchStep

(* In the class at p is what is a member, or is not if the class is negated. *)
LEMMA InClass ==
  ASSUME NEW pt \in Seq(Bytes), NEW p \in 1 .. Len(pt),
         pt[p] # Star, pt[p] # Any, pt[p] = Open, ~Unended(pt, p), NEW c \in Bytes
  PROVE  ClassHas(pt, From(pt, p), c) # (p < Len(pt) /\ pt[p + 1] = Not)
           <=> c \in TokenAt(pt, p).set
<1>1. From(pt, p) \in 1 .. Len(pt) + 1
  BY FromIs
<1>2. ClassEndAt(pt, p) <= Len(pt)
  <2>1. ClassEndAt(pt, p) \in Nat
    BY <1>1, ClassMeans DEF ClassEndAt
  <2> QED  BY <2>1 DEF Unended
<1>3. ClassHas(pt, From(pt, p), c) = (c \in Class(pt, p))
  BY <1>1, <1>2, ClassMeans DEF ClassEndAt, Class
<1>4. From(pt, p) = p + 2 <=> p < Len(pt) /\ pt[p + 1] = Not
  BY DEF From
<1>5. TokenAt(pt, p).set = IF From(pt, p) = p + 2 THEN Bytes \ Class(pt, p) ELSE Class(pt, p)
  BY DEF TokenAt, OneOf
<1> QED  BY <1>3, <1>4, <1>5

(* One step of the matcher finds what the tokens from p on take, if the
   later steps do. *)
LEMMA MatchStepMeans ==
  ASSUME NEW pt \in Seq(Bytes), NEW st \in Seq(Bytes), NEW ts, Tokenizes(ts, pt),
         NEW p \in 1 .. Len(pt) + 1, NEW s \in 1 .. Len(st) + 1, NEW m,
         \A q \in p + 1 .. Len(pt) + 1, k \in 1 .. Len(st) + 1 :
           m[q][k] = Takes(ts[q], st, k)
  PROVE  MatchStep(m, pt, st, p, s) = Takes(ts[p], st, s)
<1>1. \A us, k : Takes(us, st, k) \in BOOLEAN
  BY DEF Takes
<1>2. CASE p > Len(pt)
  <2>1. ts[p] = <<>>
    <3>1. p = Len(pt) + 1
      BY <1>2
    <3> QED  BY <3>1, TokensStep
  <2>2. MatchStep(m, pt, st, p, s) = (s > Len(st))
    BY <1>2 DEF MatchStep
  <2>3. Takes(ts[p], st, s) <=> s > Len(st)
    BY <2>1, NoneTake
  <2> QED  BY <1>1, <2>2, <2>3
<1>3. CASE p <= Len(pt)
  <2>1. p \in 1 .. Len(pt) /\ p + 1 \in p + 1 .. Len(pt) + 1 /\ ~(p > Len(pt))
    BY <1>3
  <2>2. /\ TokenAt(pt, p) \in Token
        /\ ~Unended(pt, p) => NextAt(pt, p) \in p + 1 .. Len(pt) + 1
    BY <2>1, TokenType
  <2>3. /\ ts[p] = IF Unended(pt, p) THEN <<OneOf({})>>
                   ELSE <<TokenAt(pt, p)>> \o ts[NextAt(pt, p)]
        /\ \A q \in 1 .. Len(pt) + 1 : ts[q] \in Seq(Token)
    BY <2>1, TokensStep
  <2>4. ASSUME ~Unended(pt, p)
        PROVE  Takes(ts[p], st, s) <=>
                 \E k \in s .. Len(st) + 1 :
                   /\ m[NextAt(pt, p)][k]
                   /\ TokenAt(pt, p).run \/ (k = s + 1 /\ st[s] \in TokenAt(pt, p).set)
    <3>1. ts[NextAt(pt, p)] \in Seq(Token)
      BY <2>2, <2>3, <2>4
    <3>2. Takes(<<TokenAt(pt, p)>> \o ts[NextAt(pt, p)], st, s) <=>
            \E k \in s .. Len(st) + 1 :
              /\ Takes(ts[NextAt(pt, p)], st, k)
              /\ TokenAt(pt, p).run \/ (k = s + 1 /\ st[s] \in TokenAt(pt, p).set)
      BY <2>2, <3>1, FirstTakes
    <3>3. \A k \in s .. Len(st) + 1 : m[NextAt(pt, p)][k] = Takes(ts[NextAt(pt, p)], st, k)
      BY <2>2, <2>4
    <3> QED  BY <2>3, <2>4, <3>2, <3>3
  <2>5. ASSUME ~Unended(pt, p), ~TokenAt(pt, p).run
        PROVE  Takes(ts[p], st, s) <=>
                 s <= Len(st) /\ st[s] \in TokenAt(pt, p).set /\ m[NextAt(pt, p)][s + 1]
    BY <2>4, <2>5
  <2>6. CASE pt[p] = Star
    <3>1. ~Unended(pt, p) /\ NextAt(pt, p) = p + 1 /\ TokenAt(pt, p).run
      BY <2>6 DEF Unended, NextAt, TokenAt, Run
    <3>2. Takes(ts[p], st, s) <=> \E k \in s .. Len(st) + 1 : m[p + 1][k]
      BY <2>4, <3>1
    <3>3. MatchStep(m, pt, st, p, s) =
            (p = Len(pt) \/ \E k \in s .. Len(st) + 1 : m[p + 1][k])
      BY <2>1, <2>6 DEF MatchStep
    <3>4. ASSUME p = Len(pt) PROVE \E k \in s .. Len(st) + 1 : m[p + 1][k]
      <4>1. ts[p + 1] = <<>>
        BY <3>4, TokensStep
      <4>2. Len(st) + 1 \in s .. Len(st) + 1 /\ Len(st) + 1 \in 1 .. Len(st) + 1
            /\ Len(st) + 1 > Len(st)
        OBVIOUS
      <4>3. Takes(ts[p + 1], st, Len(st) + 1)
        BY <4>1, <4>2, NoneTake
      <4>4. m[p + 1][Len(st) + 1] = Takes(ts[p + 1], st, Len(st) + 1)
        BY <2>1, <4>2
      <4> QED  BY <4>2, <4>3, <4>4
    <3>5. (p = Len(pt) \/ \E k \in s .. Len(st) + 1 : m[p + 1][k]) <=> Takes(ts[p], st, s)
      BY <3>2, <3>4
    <3> QED  BY <1>1, <3>3, <3>5
  <2>7. CASE pt[p] # Star /\ s > Len(st)
    <3>1. MatchStep(m, pt, st, p, s) = FALSE
      BY <2>1, <2>7 DEF MatchStep
    <3>2. ~Unended(pt, p) => ~Takes(ts[p], st, s)
      <4>1. ~TokenAt(pt, p).run
        BY <2>7 DEF TokenAt, OneOf
      <4> QED  BY <2>5, <2>7, <4>1
    <3>3. Unended(pt, p) => ~Takes(ts[p], st, s)
      BY <2>3 DEF Takes, Cuts, OneOf
    <3> QED  BY <1>1, <3>1, <3>2, <3>3
  <2>8. CASE pt[p] # Star /\ s <= Len(st)
    <3>0. ~TokenAt(pt, p).run /\ s + 1 \in 1 .. Len(st) + 1 /\ st[s] \in Bytes
          /\ s \in 1 .. Len(st) /\ ~(s > Len(st))
      BY <2>8 DEF TokenAt, OneOf
    <3>1. ~Unended(pt, p) => m[NextAt(pt, p)][s + 1] = Takes(ts[NextAt(pt, p)], st, s + 1)
      BY <2>2, <3>0
    <3>2. CASE pt[p] = Any
      <4>1. ~Unended(pt, p) /\ NextAt(pt, p) = p + 1 /\ TokenAt(pt, p).set = Bytes
        BY <2>8, <3>2 DEF Unended, NextAt, TokenAt, OneOf
      <4>2. MatchStep(m, pt, st, p, s) = m[p + 1][s + 1]
        BY <2>1, <2>8, <3>0, <3>2 DEF MatchStep
      <4>3. Takes(ts[p], st, s) <=> m[p + 1][s + 1]
        BY <2>5, <2>8, <3>0, <4>1
      <4> QED  BY <1>1, <3>1, <4>1, <4>2, <4>3
    <3>3. CASE pt[p] # Any /\ pt[p] = Open
      <4>1. MatchStep(m, pt, st, p, s) =
              (/\ ClassEndAt(pt, p) <= Len(pt)
               /\ ClassHas(pt, From(pt, p), st[s]) # (p < Len(pt) /\ pt[p + 1] = Not)
               /\ m[ClassEndAt(pt, p) + 1][s + 1])
        BY <2>1, <2>8, <3>0, <3>3 DEF MatchStep, ClassEndAt, From
      <4>2. ClassEndAt(pt, p) \in Nat /\ (Unended(pt, p) <=> ~(ClassEndAt(pt, p) <= Len(pt)))
        <5>1. ClassEndAt(pt, p) \in Nat
          BY <2>1, FromIs, ClassMeans DEF ClassEndAt
        <5> QED  BY <2>8, <3>3, <5>1 DEF Unended
      <4>3. CASE Unended(pt, p)
        <5>1. ts[p] = <<OneOf({})>>
          BY <2>3, <4>3
        <5>2. ~Takes(ts[p], st, s)
          BY <5>1 DEF Takes, Cuts, OneOf
        <5> QED  BY <1>1, <4>1, <4>2, <4>3, <5>2
      <4>4. CASE ~Unended(pt, p)
        <5>1. NextAt(pt, p) = ClassEndAt(pt, p) + 1
          BY <2>8, <3>3 DEF NextAt
        <5>2. ClassHas(pt, From(pt, p), st[s]) # (p < Len(pt) /\ pt[p + 1] = Not)
                <=> st[s] \in TokenAt(pt, p).set
          BY <2>1, <2>8, <3>0, <3>3, <4>4, InClass
        <5>3. MatchStep(m, pt, st, p, s) <=> Takes(ts[p], st, s)
          BY <2>5, <2>8, <3>0, <4>1, <4>2, <4>4, <5>1, <5>2
        <5>4. MatchStep(m, pt, st, p, s) \in BOOLEAN
          BY <4>1
        <5> QED  BY <1>1, <5>3, <5>4
      <4> QED  BY <4>3, <4>4
    <3>4. CASE pt[p] # Any /\ pt[p] # Open
      <4>1. ~Unended(pt, p) /\ NextAt(pt, p) = Quoted(pt, p) + 1
            /\ TokenAt(pt, p).set = {pt[Quoted(pt, p)]}
        BY <2>8, <3>4 DEF Unended, NextAt, TokenAt, OneOf
      <4>2. MatchStep(m, pt, st, p, s) =
              (pt[Quoted(pt, p)] = st[s] /\ m[Quoted(pt, p) + 1][s + 1])
        BY <2>1, <2>8, <3>0, <3>4 DEF MatchStep, Quoted
      <4>3. MatchStep(m, pt, st, p, s) <=> Takes(ts[p], st, s)
        BY <2>5, <2>8, <3>0, <4>1, <4>2
      <4>4. MatchStep(m, pt, st, p, s) \in BOOLEAN
        BY <4>2
      <4> QED  BY <1>1, <4>3, <4>4
    <3> QED  BY <3>2, <3>3, <3>4
  <2> QED  BY <2>6, <2>7, <2>8
<1> QED  BY <1>2, <1>3

(* glob_match() returns for every pattern and every string whether the
   string is one that the pattern means. *)
THEOREM MatcherMeans ==
  ASSUME NEW pt \in Seq(Bytes), NEW st \in Seq(Bytes)
  PROVE  glob_match(pt, st) = Means(pt, st)
<1> DEFINE n == Len(pt) + 1
           l == Len(st) + 1
           ts == CHOOSE t : Tokenizes(t, pt)
<1>1. Tokenizes(ts, pt) /\ Tokens(pt) = ts[1]
  BY TokensExist, TokensAre
<1> HIDE DEF ts
<1>2. \E m : Matches(m, pt, st)
  <2> DEFINE m == [p \in 1 .. n |-> [s \in 1 .. l |-> Takes(ts[p], st, s)]]
  <2>1. \A p \in 1 .. n, s \in 1 .. l : m[p][s] = Takes(ts[p], st, s)
    OBVIOUS
  <2>2. m = [p \in 1 .. n |-> [s \in 1 .. l |-> m[p][s]]]
    OBVIOUS
  <2> HIDE DEF m
  <2>3. ASSUME NEW p \in 1 .. n, NEW s \in 1 .. l
        PROVE  MatchStep(m, pt, st, p, s) = m[p][s]
    <3>1. \A q \in p + 1 .. n : q \in 1 .. n
      OBVIOUS
    <3>2. \A q \in p + 1 .. n, k \in 1 .. l : m[q][k] = Takes(ts[q], st, k)
      BY <2>1, <3>1
    <3> QED  BY <1>1, <2>1, <3>2, MatchStepMeans
  <2>4. Matches(m, pt, st)
    BY <2>2, <2>3 DEF Matches
  <2> QED  BY <2>4
<1> DEFINE m == CHOOSE x : Matches(x, pt, st)
<1>3. Matches(m, pt, st) /\ glob_match(pt, st) = m[1][1]
  BY <1>2, MatchIs
<1> HIDE DEF m
<1>4. \A p \in 1 .. n, s \in 1 .. l : m[p][s] = MatchStep(m, pt, st, p, s)
  <2>1. ASSUME NEW p \in 1 .. n PROVE m[p] = [s \in 1 .. l |-> MatchStep(m, pt, st, p, s)]
    BY <1>3 DEF Matches
  <2> QED  BY <2>1
<1> DEFINE T == {p \in 1 .. n : \A s \in 1 .. l : m[p][s] = Takes(ts[p], st, s)}
<1>5. ASSUME NEW p \in 1 .. n, \A q \in p + 1 .. n : q \in T PROVE p \in T
  <2>1. \A q \in p + 1 .. n, k \in 1 .. l : m[q][k] = Takes(ts[q], st, k)
    BY <1>5
  <2>2. ASSUME NEW s \in 1 .. l PROVE m[p][s] = Takes(ts[p], st, s)
    <3>1. MatchStep(m, pt, st, p, s) = Takes(ts[p], st, s)
      BY <1>1, <2>1, MatchStepMeans
    <3> QED  BY <1>4, <3>1
  <2> QED  BY <2>2
<1>6. \A p \in 1 .. n : p \in T
  <2>1. n \in Nat
    OBVIOUS
  <2> HIDE DEF T, n
  <2> QED  BY <1>5, <2>1, Backwards
<1>7. 1 \in 1 .. n /\ 1 \in 1 .. l
  OBVIOUS
<1>8. m[1][1] = Takes(ts[1], st, 1)
  BY <1>6, <1>7
<1> QED  BY <1>1, <1>3, <1>8, MeansTakes

(* KEYS returns the keys its pattern means, whatever the two are: the
   backtracking of glob_match() finds a way to cut the key among the parts of
   the pattern exactly when there is one. *)
THEOREM MatcherRight == Spec => []MatchesMeaning
<1> DEFINE Typed == pat \in Seq(Bytes) /\ str \in Seq(Bytes)
<1>1. Init => Typed
  BY DEF Init
<1>2. Typed /\ [Next]_vars => Typed'
  BY DEF Next, vars
<1>3. Typed => MatchesMeaning
  BY MatcherMeans DEF MatchesMeaning
<1> QED  BY <1>1, <1>2, <1>3, PTL DEF Spec
==============================================================================
