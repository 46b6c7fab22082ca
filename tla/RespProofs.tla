----------------------------- MODULE RespProofs ------------------------------
(***************************************************************************)
(* Proofs about the request parser, for every alphabet, all limits and any  *)
(* requests: what it says of the bytes received so far it says whatever     *)
(* comes behind them, and it finds in the stream of a client the requests   *)
(* that the client wrote.                                                  *)
(***************************************************************************)
EXTENDS RespStream, NumbersProofs, FiniteSetTheorems

-----------------------------------------------------------------------------
(* Sequences that others begin with or hold.                               *)

(* more is what in becomes when bytes arrive behind it. *)
Longer(in, more) == Len(in) <= Len(more) /\ \A i \in 1 .. Len(in) : more[i] = in[i]

(* s stands in the sequence at position from. *)
Holds(in, from, s) ==
  from + Len(s) - 1 <= Len(in) /\ \A i \in 1 .. Len(s) : in[from + i - 1] = s[i]

LEMMA SamePart ==
  ASSUME NEW S, NEW in \in Seq(S), NEW more \in Seq(S), Longer(in, more),
         NEW i \in Nat \ {0}, NEW j \in Int, j <= Len(in)
  PROVE  SubSeq(more, i, j) = SubSeq(in, i, j)
<1> DEFINE m == Len(in)
           n == Len(more)
<1>1. m \in Nat /\ n \in Nat /\ m <= n /\ \A k \in 1 .. m : more[k] = in[k]
  BY DEF Longer
<1>2. \A k \in 1 .. j - i + 1 : i + k - 1 \in 1 .. m /\ i + k - 1 \in 1 .. n
  BY <1>1
<1> QED  BY <1>1, <1>2, SubSeqProperties

LEMMA HeldPart ==
  ASSUME NEW S, NEW in \in Seq(S), NEW s \in Seq(S), NEW from \in Nat \ {0}, Holds(in, from, s)
  PROVE  SubSeq(in, from, from + Len(s) - 1) = s
<1> DEFINE m == Len(in)
           n == Len(s)
           to == from + n - 1
<1>1. m \in Nat /\ n \in Nat /\ to <= m /\ \A k \in 1 .. n : in[from + k - 1] = s[k]
  BY DEF Holds
<1>2. \A k \in 1 .. n : from + k - 1 \in 1 .. m
  BY <1>1
<1>3. to - from + 1 = n
  BY <1>1
<1> QED  BY <1>1, <1>2, <1>3, SubSeqProperties

LEMMA ConcatLength ==
  ASSUME NEW S, NEW s \in Seq(S), NEW t \in Seq(S)
  PROVE  s \o t \in Seq(S) /\ Len(s \o t) = Len(s) + Len(t)
OBVIOUS

LEMMA HoldsConcat ==
  ASSUME NEW S, NEW in \in Seq(S), NEW s \in Seq(S), NEW t \in Seq(S), NEW from \in Nat \ {0}
  PROVE  Holds(in, from, s \o t) <=> Holds(in, from, s) /\ Holds(in, from + Len(s), t)
<1> DEFINE k == Len(in)
           m == Len(s)
           n == Len(t)
           u == s \o t
<1>1. /\ k \in Nat /\ m \in Nat /\ n \in Nat /\ Len(u) = m + n
      /\ \A i \in 1 .. m : u[i] = s[i]
      /\ \A i \in 1 .. n : u[m + i] = t[i]
  OBVIOUS
<1> HIDE DEF k, m, n, u
<1>2. ASSUME from + (m + n) - 1 <= k /\ \A i \in 1 .. m + n : in[from + i - 1] = u[i]
      PROVE  /\ from + m - 1 <= k /\ \A i \in 1 .. m : in[from + i - 1] = s[i]
             /\ (from + m) + n - 1 <= k /\ \A i \in 1 .. n : in[(from + m) + i - 1] = t[i]
  <2>1. ASSUME NEW i \in 1 .. n PROVE in[(from + m) + i - 1] = t[i]
    <3>1. m + i \in 1 .. m + n /\ (from + m) + i - 1 = from + (m + i) - 1
      BY <1>1
    <3> QED  BY <1>1, <1>2, <3>1
  <2>2. ASSUME NEW i \in 1 .. m PROVE in[from + i - 1] = s[i]
    <3>1. i \in 1 .. m + n
      BY <1>1
    <3> QED  BY <1>1, <1>2, <3>1
  <2> QED  BY <1>1, <1>2, <2>1, <2>2
<1>3. ASSUME /\ from + m - 1 <= k /\ \A i \in 1 .. m : in[from + i - 1] = s[i]
             /\ (from + m) + n - 1 <= k /\ \A i \in 1 .. n : in[(from + m) + i - 1] = t[i]
      PROVE  from + (m + n) - 1 <= k /\ \A i \in 1 .. m + n : in[from + i - 1] = u[i]
  <2>1. ASSUME NEW i \in 1 .. m + n PROVE in[from + i - 1] = u[i]
    <3>1. CASE i <= m
      BY <1>1, <1>3, <3>1
    <3>2. CASE i > m
      <4>1. i - m \in 1 .. n /\ (from + m) + (i - m) - 1 = from + i - 1 /\ m + (i - m) = i
        BY <1>1, <3>2
      <4> QED  BY <1>1, <1>3, <4>1
    <3> QED  BY <1>1, <3>1, <3>2
  <2> QED  BY <1>1, <1>3, <2>1
<1> QED  BY <1>1, <1>2, <1>3 DEF Holds, k, m, n, u

LEMMA MinIs ==
  ASSUME NEW N \in SUBSET Nat, N # {}
  PROVE  Min(N) \in N /\ \A m \in N : Min(N) <= m
<1>1. PICK n \in N : \A m \in N : n <= m
  BY LeastNumber
<1> QED  BY <1>1 DEF Min

LEMMA MinWhen ==
  ASSUME NEW N \in SUBSET Nat, NEW n \in N, \A m \in N : n <= m
  PROVE  Min(N) = n
<1>1. Min(N) \in N /\ \A m \in N : Min(N) <= m
  BY MinIs
<1>2. Min(N) <= n /\ n <= Min(N) /\ n \in Nat /\ Min(N) \in Nat
  BY <1>1
<1> QED  BY <1>2

-----------------------------------------------------------------------------
(* Magnitude() of a sequence that goes on.                                 *)

LEMMA MagnitudeOfNothing == Magnitude(<<>>) = 0
<1> DEFINE v == CHOOSE v : DigitSum(<<>>, v)
<1>1. Len(<<>>) = 0
  OBVIOUS
<1>2. DigitSum(<<>>, v) /\ Magnitude(<<>>) = v[0]
  BY <1>1, DigitSumExists, MagnitudeIs
<1> HIDE DEF v
<1>3. v[0] = 0
  BY <1>1, <1>2 DEF DigitSum
<1> QED  BY <1>2, <1>3

(* What does not fit does not fit with more digits. *)
LEMMA MagnitudePrefix ==
  ASSUME NEW S, NEW s \in Seq(S), NEW t \in Seq(S), Longer(s, t), Magnitude(s) = Malformed
  PROVE  Magnitude(t) = Malformed
<1> DEFINE m == Len(s)
           n == Len(t)
           v == CHOOSE v : DigitSum(s, v)
           w == CHOOSE w : DigitSum(t, w)
<1>1. m \in Nat /\ n \in Nat /\ m <= n /\ \A i \in 1 .. m : t[i] = s[i]
  BY DEF Longer
<1>2. DigitSum(s, v) /\ Magnitude(s) = v[m]
  BY <1>1, DigitSumExists, MagnitudeIs
<1>3. DigitSum(t, w) /\ Magnitude(t) = w[n]
  BY <1>1, DigitSumExists, MagnitudeIs
<1> HIDE DEF v, w
<1>4. v[0] = 0 /\ w[0] = 0
  <2>1. 0 \in 0 .. m /\ 0 \in 0 .. n
    BY <1>1
  <2>2. v[0] = 0
    BY <1>2, <2>1 DEF DigitSum
  <2>3. w[0] = 0
    BY <1>3, <2>1 DEF DigitSum
  <2> QED  BY <2>2, <2>3
<1>5. \A i \in 1 .. m : v[i] = IF \/ v[i - 1] = Malformed
                                  \/ ~IsDigit(s[i])
                                  \/ v[i - 1] > QUOTIENT
                                 THEN Malformed
                                 ELSE v[i - 1] * BASE + DigitOf(s[i])
  BY <1>1, <1>2, DigitStep
<1>6. \A i \in 1 .. n : w[i] = IF \/ w[i - 1] = Malformed
                                  \/ ~IsDigit(t[i])
                                  \/ w[i - 1] > QUOTIENT
                                 THEN Malformed
                                 ELSE w[i - 1] * BASE + DigitOf(t[i])
  BY <1>1, <1>3, DigitStep
<1> HIDE DEF m, n
<1> DEFINE U == {i \in Nat : i <= n => (i <= m /\ w[i] = v[i]) \/ (i > m /\ w[i] = Malformed)}
<1>7. 0 \in U
  BY <1>1, <1>4
<1>8. ASSUME NEW i \in Nat, i \in U PROVE i + 1 \in U
  <2>1. SUFFICES ASSUME i + 1 <= n
                 PROVE  (i + 1 <= m /\ w[i + 1] = v[i + 1]) \/ (i + 1 > m /\ w[i + 1] = Malformed)
    OBVIOUS
  <2>2. i + 1 \in 1 .. n /\ (i + 1) - 1 = i /\ i <= n
    BY <1>1, <2>1
  <2>3. (i <= m /\ w[i] = v[i]) \/ (i > m /\ w[i] = Malformed)
    BY <1>8, <2>2
  <2>4. CASE i + 1 <= m
    <3>1. i + 1 \in 1 .. m /\ w[i] = v[i] /\ t[i + 1] = s[i + 1]
      BY <1>1, <2>3, <2>4
    <3>2. w[i + 1] = v[i + 1]
      BY <1>5, <1>6, <2>2, <3>1, Zenon
    <3> QED  BY <2>4, <3>2
  <2>5. CASE i + 1 > m
    <3>1. w[i] = Malformed
      BY <1>1, <1>2, <2>3, <2>5
    <3>2. w[i + 1] = Malformed
      BY <1>6, <2>2, <3>1, Zenon
    <3> QED  BY <2>5, <3>2
  <2> QED  BY <1>1, <2>4, <2>5
<1>9. n \in U
  <2> HIDE DEF U
  <2> QED  BY <1>1, <1>7, <1>8, NumberInduction
<1> QED  BY <1>1, <1>2, <1>3, <1>9

-----------------------------------------------------------------------------
(* parse_int_until_crlf(): the sign, the digits behind it and the first     *)
(* byte that is none.                                                      *)

IntFirst(in, from) == IF At(in, from, Minus) THEN from + 1 ELSE from

Others(in, first) == {i \in first .. Len(in) : ~IsDigit(in[i])}

IntEnd(in, first) ==
  IF Others(in, first) = {} THEN Len(in) + 1 ELSE Min(Others(in, first))

IntResult(in, first, end, v, neg) ==
  IF v = Malformed THEN Refuse
  ELSE IF end > Len(in) THEN NeedMore
  ELSE IF in[end] # CR THEN Refuse
  ELSE IF end = Len(in) THEN NeedMore
  ELSE IF in[end + 1] # LF \/ end = first THEN Refuse
  ELSE [st |-> "OK", value |-> IF neg THEN -v ELSE v, next |-> end + 2]

LEMMA IntIs ==
  ASSUME NEW in, NEW from
  PROVE  LET first == IntFirst(in, from)
             end   == IntEnd(in, first)
         IN parse_int_until_crlf(in, from)
              = IntResult(in, first, end, Magnitude(SubSeq(in, first, end - 1)),
                          At(in, from, Minus))
BY DEF parse_int_until_crlf, IntResult, IntEnd, Others, IntFirst

LEMMA EndOfDigits ==
  ASSUME NEW S, NEW in \in Seq(S), NEW first \in Nat \ {0}, first <= Len(in) + 1
  PROVE  /\ IntEnd(in, first) \in first .. Len(in) + 1
         /\ \A i \in first .. IntEnd(in, first) - 1 : IsDigit(in[i])
         /\ IntEnd(in, first) <= Len(in) => ~IsDigit(in[IntEnd(in, first)])
<1> DEFINE n == Len(in)
           O == Others(in, first)
<1>1. n \in Nat /\ O = {i \in first .. n : ~IsDigit(in[i])}
  BY DEF Others
<1>2. CASE O = {}
  <2>1. IntEnd(in, first) = n + 1
    BY <1>2 DEF IntEnd
  <2> HIDE DEF n, O
  <2>2. \A i \in first .. n : IsDigit(in[i])
    BY <1>1, <1>2
  <2> QED  BY <1>1, <2>1, <2>2 DEF n
<1>3. CASE O # {}
  <2>1. IntEnd(in, first) = Min(O)
    BY <1>3 DEF IntEnd
  <2> HIDE DEF n, O
  <2>2. O \in SUBSET Nat
    BY <1>1
  <2>3. Min(O) \in O /\ \A i \in O : Min(O) <= i
    BY <1>3, <2>2, MinIs
  <2> DEFINE e == Min(O)
  <2> HIDE DEF e
  <2>4. e \in first .. n /\ ~IsDigit(in[e])
    BY <1>1, <2>3 DEF e
  <2>5. ASSUME NEW i \in first .. e - 1 PROVE IsDigit(in[i])
    BY <1>1, <2>3, <2>4 DEF e
  <2> QED  BY <1>1, <2>1, <2>4, <2>5 DEF e, n
<1> QED  BY <1>2, <1>3

LEMMA EndWhen ==
  ASSUME NEW S, NEW in \in Seq(S), NEW first \in Nat \ {0}, NEW e \in first .. Len(in),
         \A i \in first .. e - 1 : IsDigit(in[i]), ~IsDigit(in[e])
  PROVE  IntEnd(in, first) = e
<1>1. first <= Len(in) + 1 /\ Len(in) \in Nat
  OBVIOUS
<1> DEFINE x == IntEnd(in, first)
<1>2. /\ x \in first .. Len(in) + 1
      /\ \A i \in first .. x - 1 : IsDigit(in[i])
      /\ x <= Len(in) => ~IsDigit(in[x])
  BY <1>1, EndOfDigits
<1> HIDE DEF x
<1>3. ~(x < e)
  <2>1. SUFFICES ASSUME x < e PROVE FALSE
    OBVIOUS
  <2>2. x \in first .. e - 1 /\ x <= Len(in)
    BY <1>1, <1>2, <2>1
  <2> QED  BY <1>2, <2>2
<1>4. ~(x > e)
  <2>1. SUFFICES ASSUME x > e PROVE FALSE
    OBVIOUS
  <2>2. e \in first .. x - 1
    BY <1>1, <1>2, <2>1
  <2> QED  BY <1>2, <2>2
<1> QED  BY <1>1, <1>2, <1>3, <1>4 DEF x

(* The bytes the framing gives a meaning to. *)
LEMMA Framing ==
  /\ ~IsDigit(CR) /\ ~IsDigit(Minus) /\ CR # LF /\ Blank # CR /\ Blank # LF
  /\ RESP_MAX_ARGC \in 1 .. ReadLimit /\ RESP_MAX_BULK_LEN \in 0 .. ReadLimit
  /\ RESP_MAX_INLINE_LEN \in Nat \ {0}
<1> DEFINE framing == <<Star, Dollar, CR, LF, Blank, Minus>>
<1>1. /\ \A i, j \in 1 .. 6 : framing[i] = framing[j] => i = j
      /\ \A i \in 1 .. 6 : ~IsDigit(framing[i])
  BY RespConstants
<1>2. /\ framing[3] = CR /\ framing[4] = LF /\ framing[5] = Blank /\ framing[6] = Minus
      /\ 3 \in 1 .. 6 /\ 4 \in 1 .. 6 /\ 5 \in 1 .. 6 /\ 6 \in 1 .. 6
      /\ 3 # 4 /\ 5 # 3 /\ 5 # 4
  OBVIOUS
<1> HIDE DEF framing
<1>3. ~IsDigit(CR) /\ ~IsDigit(Minus) /\ CR # LF /\ Blank # CR /\ Blank # LF
  BY <1>1, <1>2, Zenon
<1> QED  BY <1>3, RespConstants

IsInt(in, from, h) ==
  /\ h.st = "OK" /\ h.value \in Int /\ h.next \in from + 3 .. Len(in) + 1
  /\ h = [st |-> "OK", value |-> h.value, next |-> h.next]

LEMMA IntOutcome ==
  ASSUME NEW S, NEW in \in Seq(S), NEW from \in 1 .. Len(in) + 1
  PROVE  LET h == parse_int_until_crlf(in, from)
         IN h = NeedMore \/ h = Refuse \/ IsInt(in, from, h)
<1> DEFINE n     == Len(in)
           first == IntFirst(in, from)
           end   == IntEnd(in, first)
           neg   == At(in, from, Minus)
           v     == Magnitude(SubSeq(in, first, end - 1))
           h     == parse_int_until_crlf(in, from)
           ok    == [st |-> "OK", value |-> IF neg THEN -v ELSE v, next |-> end + 2]
<1>1. n \in Nat /\ first \in Nat \ {0} /\ first \in from .. n + 1
  BY DEF IntFirst, At
<1>2. end \in first .. n + 1
  BY <1>1, EndOfDigits
<1>3. SubSeq(in, first, end - 1) \in Seq(S)
  BY <1>1, <1>2, SubSeqProperties
<1>4. v \in 0 .. INT_MAX \cup {Malformed} /\ Len(SubSeq(in, first, end - 1)) \in Nat
  BY <1>3, MagnitudeRange
<1>5. h = IntResult(in, first, end, v, neg)
  BY IntIs
<1> HIDE DEF first, end, neg, v, h
<1>6. \/ h = NeedMore \/ h = Refuse
      \/ v # Malformed /\ end + 1 <= n /\ end # first /\ h = ok
  BY <1>1, <1>2, <1>5 DEF IntResult
<1>7. ASSUME v # Malformed, end + 1 <= n, end # first, h = ok PROVE IsInt(in, from, h)
  <2>1. v \in Int
    BY <1>4, <1>7, NumberConstants
  <2>2. (IF neg THEN -v ELSE v) \in Int
    BY <2>1
  <2>3. end + 2 \in from + 3 .. n + 1
    BY <1>1, <1>2, <1>7
  <2> QED  BY <1>7, <2>2, <2>3 DEF IsInt
<1> QED  BY <1>6, <1>7 DEF h

(* What it finds does not depend on the bytes behind. *)
LEMMA IntSettled ==
  ASSUME NEW S, NEW in \in Seq(S), NEW more \in Seq(S), Longer(in, more),
         NEW from \in 1 .. Len(in) + 1, parse_int_until_crlf(in, from) # NeedMore
  PROVE  parse_int_until_crlf(more, from) = parse_int_until_crlf(in, from)
<1> DEFINE m      == Len(in)
           n      == Len(more)
           first  == IntFirst(in, from)
           end    == IntEnd(in, first)
           neg    == At(in, from, Minus)
           part   == SubSeq(in, first, end - 1)
           first2 == IntFirst(more, from)
           end2   == IntEnd(more, first2)
           neg2   == At(more, from, Minus)
           part2  == SubSeq(more, first2, end2 - 1)
<1>1. m \in Nat /\ n \in Nat /\ m <= n /\ \A i \in 1 .. m : more[i] = in[i]
  BY DEF Longer
<1>2. first \in Nat \ {0} /\ first \in from .. m + 1
  BY DEF IntFirst, At
<1>3. /\ end \in first .. m + 1
      /\ \A i \in first .. end - 1 : IsDigit(in[i])
      /\ end <= m => ~IsDigit(in[end])
  BY <1>2, EndOfDigits
<1>4. parse_int_until_crlf(in, from) = IntResult(in, first, end, Magnitude(part), neg)
  BY IntIs
<1>5. parse_int_until_crlf(more, from) = IntResult(more, first2, end2, Magnitude(part2), neg2)
  BY IntIs
<1>6. part \in Seq(S) /\ Len(part) = end - first
      /\ \A i \in 1 .. end - first : part[i] = in[first + i - 1]
  <2>1. \A i \in 1 .. (end - 1) - first + 1 : first + i - 1 \in 1 .. m
    BY <1>1, <1>2, <1>3
  <2> HIDE DEF first, end
  <2> QED  BY <1>1, <1>2, <1>3, <2>1, SubSeqProperties
<1>7. from <= m
  <2>1. SUFFICES ASSUME from = m + 1 PROVE FALSE
    BY <1>1
  <2>2. ~neg /\ first = m + 1
    BY <1>1, <2>1 DEF At, IntFirst
  <2>3. end = m + 1
    BY <1>1, <1>3, <2>2
  <2>4. part = <<>>
    BY <1>6, <2>2, <2>3
  <2>5. Magnitude(part) # Malformed
    <3> HIDE DEF part
    <3> QED  BY <2>4, MagnitudeOfNothing, NumberConstants
  <2> HIDE DEF first, end, part, neg
  <2>6. IntResult(in, first, end, Magnitude(part), neg) = NeedMore
    BY <1>1, <2>3, <2>5 DEF IntResult
  <2> QED  BY <1>4, <2>6
<1>8. neg2 = neg /\ first2 = first
  BY <1>1, <1>7 DEF At, IntFirst
<1> HIDE DEF first, end, part, neg, neg2, first2
<1>9. CASE end <= m
  <2>1. \A i \in first .. end - 1 : IsDigit(more[i])
    BY <1>1, <1>2, <1>3, <1>9
  <2>2. ~IsDigit(more[end]) /\ end \in first .. n /\ more[end] = in[end]
    BY <1>1, <1>2, <1>3, <1>9
  <2>3. IntEnd(more, first) = end
    BY <1>2, <2>1, <2>2, EndWhen
  <2>4. end2 = end
    BY <1>8, <2>3
  <2>5. part2 = part
    <3>1. end - 1 \in Int /\ end - 1 <= Len(in)
      BY <1>1, <1>2, <1>3, <1>9
    <3>2. SubSeq(more, first, end - 1) = SubSeq(in, first, end - 1)
      BY <1>2, <3>1, SamePart
    <3> QED  BY <1>8, <2>4, <3>2 DEF part
  <2>6. CASE Magnitude(part) = Malformed
    BY <1>4, <1>5, <2>5, <2>6 DEF IntResult
  <2>7. CASE Magnitude(part) # Malformed /\ in[end] # CR
    <3> HIDE DEF end2, part2
    <3>1. ~(end > m) /\ ~(end > n)
      BY <1>1, <1>2, <1>3, <1>9
    <3> QED  BY <1>4, <1>5, <2>2, <2>4, <2>5, <2>7, <3>1 DEF IntResult
  <2>8. CASE Magnitude(part) # Malformed /\ in[end] = CR
    <3> HIDE DEF end2, part2
    <3>1. ~(end > m) /\ ~(end > n)
      BY <1>1, <1>2, <1>3, <1>9
    <3>2. end # m
      BY <1>4, <2>8, <3>1 DEF IntResult
    <3>3. end # n /\ more[end + 1] = in[end + 1]
      <4>1. end \in Nat /\ end < m
        BY <1>1, <1>2, <1>3, <1>9, <3>2
      <4> HIDE DEF m, n
      <4>2. end # n /\ end + 1 \in 1 .. m
        BY <1>1, <4>1
      <4> QED  BY <1>1, <4>2
    <3> QED  BY <1>4, <1>5, <1>8, <2>2, <2>4, <2>5, <2>8, <3>1, <3>2, <3>3 DEF IntResult
  <2> QED  BY <2>6, <2>7, <2>8
<1>10. CASE end > m
  <2>1. end = m + 1
    BY <1>1, <1>2, <1>3, <1>10
  <2>2. Magnitude(part) = Malformed
    BY <1>1, <1>4, <2>1 DEF IntResult
  <2>3. end2 \in first .. n + 1
    BY <1>1, <1>2, <1>8, EndOfDigits
  <2>4. end2 >= end
    <3>1. SUFFICES ASSUME end2 < end PROVE FALSE
      BY <1>1, <1>2, <1>3, <2>3
    <3>2. end2 <= n /\ end2 \in first .. end - 1 /\ end2 \in 1 .. m
      BY <1>1, <1>2, <2>1, <2>3, <3>1
    <3>3. ~IsDigit(more[end2])
      BY <1>1, <1>2, <1>8, <3>2, EndOfDigits
    <3> HIDE DEF end2
    <3> QED  BY <1>1, <1>3, <3>2, <3>3
  <2> HIDE DEF end2
  <2>5. part2 \in Seq(S) /\ Len(part2) = end2 - first
        /\ \A i \in 1 .. end2 - first : part2[i] = more[first + i - 1]
    <3>1. \A i \in 1 .. (end2 - 1) - first + 1 : first + i - 1 \in 1 .. n
      BY <1>1, <1>2, <2>3
    <3> QED  BY <1>1, <1>2, <1>8, <2>3, <3>1, SubSeqProperties
  <2>6. Longer(part, part2)
    <3>1. end - first <= end2 - first
      BY <1>1, <1>2, <2>1, <2>3, <2>4
    <3>2. ASSUME NEW i \in 1 .. end - first PROVE part2[i] = part[i]
      <4>1. i \in 1 .. end2 - first /\ first + i - 1 \in 1 .. m
        BY <1>1, <1>2, <2>1, <2>3, <2>4
      <4> QED  BY <1>1, <1>6, <2>5, <4>1
    <3> HIDE DEF part2
    <3> QED  BY <1>6, <2>5, <3>1, <3>2 DEF Longer
  <2>7. Magnitude(part2) = Malformed
    <3> HIDE DEF part2
    <3> QED  BY <1>6, <2>2, <2>5, <2>6, MagnitudePrefix
  <2> QED  BY <1>4, <1>5, <2>2, <2>7 DEF IntResult
<1> QED  BY <1>1, <1>2, <1>3, <1>9, <1>10

(* A length is written in digits only. *)
LEMMA FormatDigits ==
  ASSUME NEW k \in Nat
  PROVE  /\ Format(k) \in Seq(AllDigits) /\ Format(k) # <<>>
         /\ \A i \in 1 .. Len(Format(k)) : IsDigit(Format(k)[i])
<1> DEFINE f == CHOOSE f : Numerals(f, Nat)
<1>1. Numerals(f, Nat)
  BY AllNumerals
<1>2. Format(k) = IF k < 0 THEN <<Minus>> \o f[-k] ELSE f[k]
  BY FormatIs
<1> HIDE DEF f
<1>3. Format(k) = f[k]
  BY <1>2
<1> QED  BY <1>1, <1>3, NumeralDenotes

(* A length in a header is read as it was written. *)
LEMMA IntReads ==
  ASSUME NEW S, NEW in \in Seq(S), NEW from \in Nat \ {0}, NEW k \in 0 .. ReadLimit,
         Holds(in, from, Format(k) \o Crlf)
  PROVE  /\ Format(k) \in Seq(AllDigits)
         /\ parse_int_until_crlf(in, from)
              = [st |-> "OK", value |-> k, next |-> from + Len(Format(k)) + 2]
<1> DEFINE s == Format(k)
           n == Len(in)
           m == Len(s)
<1>1. k \in Nat /\ k \in Int /\ k \in -ReadLimit .. ReadLimit /\ ~(k < 0)
  <2>1. ReadLimit \in Int
    BY Limits
  <2> QED  BY <2>1
<1>3. s \in Seq(AllDigits) /\ s # <<>> /\ \A i \in 1 .. m : IsDigit(s[i])
  BY FormatDigits
<1>4. ParseInt64(s) = k
  BY <1>1, FormatReadBack
<1> HIDE DEF s
<1>5. m \in Nat \ {0} /\ n \in Nat
  BY <1>3
<1>6. s[1] # Minus /\ s # <<Minus>>
  <2>1. IsDigit(s[1])
    BY <1>3, <1>5
  <2> QED  BY <2>1, Framing
<1>7. Magnitude(s) = k
  BY <1>3, <1>4, <1>6 DEF ParseInt64
<1>8. /\ Holds(in, from, s) /\ Holds(in, from + m, Crlf)
      /\ Len(Crlf) = 2 /\ Crlf[1] = CR /\ Crlf[2] = LF
  <2> DEFINE A == S \cup AllDigits \cup {CR, LF}
  <2>1. s \in Seq(A) /\ Crlf \in Seq(A) /\ in \in Seq(A)
    BY <1>3 DEF Crlf
  <2>2. Holds(in, from, s \o Crlf)
    BY DEF s
  <2> HIDE DEF A, m
  <2>3. Holds(in, from, s) /\ Holds(in, from + Len(s), Crlf)
    BY <2>1, <2>2, HoldsConcat
  <2> QED  BY <2>3 DEF Crlf, m
<1> HIDE DEF m, n
<1>9. /\ \A i \in 1 .. m : in[from + i - 1] = s[i]
      /\ from + m + 1 <= n /\ in[from + m] = CR /\ in[from + m + 1] = LF
  <2>1. \A i \in 1 .. m : in[from + i - 1] = s[i]
    BY <1>8 DEF Holds, m
  <2>2. /\ (from + m) + 2 - 1 <= n
        /\ \A i \in 1 .. 2 : in[(from + m) + i - 1] = Crlf[i]
    BY <1>8 DEF Holds, n
  <2>3. /\ 1 \in 1 .. 2 /\ 2 \in 1 .. 2 /\ (from + m) + 1 - 1 = from + m
        /\ (from + m) + 2 - 1 = from + m + 1
    BY <1>5
  <2> QED  BY <1>8, <2>1, <2>2, <2>3
<1>10. ~At(in, from, Minus)
  <2>1. in[from] = s[1]
    BY <1>5, <1>9
  <2> QED  BY <1>6, <2>1 DEF At
<1>11. IntFirst(in, from) = from
  BY <1>10 DEF IntFirst
<1>12. IntEnd(in, from) = from + m
  <2>1. ASSUME NEW i \in from .. (from + m) - 1 PROVE IsDigit(in[i])
    <3>1. i - from + 1 \in 1 .. m /\ from + (i - from + 1) - 1 = i
      BY <1>5
    <3> QED  BY <1>3, <1>9, <3>1 DEF m
  <2>2. from + m \in from .. n
    BY <1>5, <1>9
  <2> QED  BY <1>9, <2>1, <2>2, Framing, EndWhen DEF n
<1>13. SubSeq(in, from, (from + m) - 1) = s
  <2> DEFINE A == S \cup AllDigits
  <2>1. s \in Seq(A) /\ in \in Seq(A)
    BY <1>3
  <2> HIDE DEF A
  <2> QED  BY <1>8, <2>1, HeldPart DEF m
<1>14. parse_int_until_crlf(in, from) = IntResult(in, from, from + m, k, FALSE)
  <2>1. At(in, from, Minus) = FALSE
    BY <1>10 DEF At
  <2>2. parse_int_until_crlf(in, from)
          = IntResult(in, from, from + m, Magnitude(SubSeq(in, from, (from + m) - 1)), FALSE)
    BY <1>11, <1>12, <2>1, IntIs
  <2> QED  BY <1>7, <1>13, <2>2
<1>15. /\ k # Malformed /\ ~(from + m > n) /\ from + m # n /\ from + m # from
  BY <1>1, <1>5, <1>9, NumberConstants
<1>16. IntResult(in, from, from + m, k, FALSE)
         = [st |-> "OK", value |-> k, next |-> (from + m) + 2]
  BY <1>9, <1>15 DEF IntResult, n
<1> QED  BY <1>3, <1>14, <1>16 DEF s, m

-----------------------------------------------------------------------------
(* parse_bulk(): the header, and the body it announces.                     *)

BulkBody(in, h) ==
  IF h.value < 0 \/ h.value > RESP_MAX_BULK_LEN THEN Refuse
  ELSE IF Len(in) < (h.next + h.value) + 1 THEN NeedMore
  ELSE IF in[h.next + h.value] # CR \/ in[(h.next + h.value) + 1] # LF THEN Refuse
  ELSE [st |-> "OK", arg |-> SubSeq(in, h.next, (h.next + h.value) - 1),
        next |-> (h.next + h.value) + 2]

LEMMA BulkIs ==
  ASSUME NEW in, NEW from
  PROVE  parse_bulk(in, from)
           = IF from > Len(in) THEN NeedMore
             ELSE IF in[from] # Dollar THEN Refuse
             ELSE LET h == parse_int_until_crlf(in, from + 1)
                  IN IF h.st # "OK" THEN h ELSE BulkBody(in, h)
BY DEF parse_bulk, BulkBody

IsBulk(S, in, from, b) ==
  /\ b.st = "OK" /\ b.arg \in Seq(S) /\ b.next \in from + 1 .. Len(in) + 1
  /\ b = [st |-> "OK", arg |-> b.arg, next |-> b.next]

(* The body of a header that was read. *)
LEMMA BodyOutcome ==
  ASSUME NEW S, NEW in \in Seq(S), NEW from \in 1 .. Len(in), NEW h, IsInt(in, from + 1, h)
  PROVE  \/ BulkBody(in, h) = NeedMore \/ BulkBody(in, h) = Refuse
         \/ IsBulk(S, in, from, BulkBody(in, h))
<1> DEFINE n    == Len(in)
           crlf == h.next + h.value
           ok   == [st |-> "OK", arg |-> SubSeq(in, h.next, crlf - 1), next |-> crlf + 2]
<1>1. n \in Nat /\ h.value \in Int /\ h.next \in (from + 1) + 3 .. n + 1
  BY DEF IsInt
<1>2. RESP_MAX_BULK_LEN \in Nat
  BY Framing, Limits
<1>3. \/ BulkBody(in, h) = NeedMore \/ BulkBody(in, h) = Refuse
      \/ h.value >= 0 /\ crlf + 1 <= n /\ BulkBody(in, h) = ok
  BY <1>1, <1>2 DEF BulkBody
<1>4. ASSUME h.value >= 0, crlf + 1 <= n PROVE IsBulk(S, in, from, ok)
  <2> DEFINE i == h.next
             v == h.value
  <2>1. i \in Nat \ {0} /\ v \in Nat /\ crlf = i + v /\ crlf + 1 <= n
    BY <1>1, <1>4
  <2> HIDE DEF i, v
  <2>2. SubSeq(in, i, crlf - 1) \in Seq(S)
    <3>1. \A k \in i .. crlf - 1 : k \in 1 .. n
      BY <1>1, <2>1
    <3> QED  BY <1>1, <2>1, <3>1, SubSeqProperties
  <2>3. crlf + 2 \in from + 1 .. n + 1
    BY <1>1, <2>1 DEF i
  <2> QED  BY <2>2, <2>3 DEF IsBulk, i
<1> QED  BY <1>3, <1>4

LEMMA BulkOutcome ==
  ASSUME NEW S, NEW in \in Seq(S), NEW from \in Nat \ {0}
  PROVE  LET b == parse_bulk(in, from)
         IN b = NeedMore \/ b = Refuse \/ IsBulk(S, in, from, b)
<1> DEFINE b == parse_bulk(in, from)
           h == parse_int_until_crlf(in, from + 1)
<1>1. \/ b = NeedMore \/ b = Refuse
      \/ from <= Len(in) /\ h.st # "OK" /\ b = h
      \/ from <= Len(in) /\ h.st = "OK" /\ b = BulkBody(in, h)
  <2> HIDE DEF h
  <2>1. b = IF from > Len(in) THEN NeedMore
            ELSE IF in[from] # Dollar THEN Refuse
            ELSE IF h.st # "OK" THEN h ELSE BulkBody(in, h)
    BY BulkIs DEF h
  <2> HIDE DEF b
  <2> QED  BY <2>1
<1>2. ASSUME from <= Len(in) PROVE h = NeedMore \/ h = Refuse \/ IsInt(in, from + 1, h)
  <2>1. from + 1 \in 1 .. Len(in) + 1
    BY <1>2
  <2> QED  BY <2>1, IntOutcome
<1> HIDE DEF b, h
<1>3. CASE from <= Len(in) /\ h.st # "OK" /\ b = h
  BY <1>2, <1>3 DEF IsInt, b
<1>4. CASE from <= Len(in) /\ h.st = "OK" /\ b = BulkBody(in, h)
  <2>1. IsInt(in, from + 1, h) /\ from \in 1 .. Len(in)
    BY <1>2, <1>4 DEF NeedMore, Refuse
  <2> QED  BY <1>4, <2>1, BodyOutcome DEF b
<1> QED  BY <1>1, <1>3, <1>4 DEF b

LEMMA BulkSettled ==
  ASSUME NEW S, NEW in \in Seq(S), NEW more \in Seq(S), Longer(in, more),
         NEW from \in Nat \ {0}, parse_bulk(in, from) # NeedMore
  PROVE  parse_bulk(more, from) = parse_bulk(in, from)
<1> DEFINE m  == Len(in)
           n  == Len(more)
           h  == parse_int_until_crlf(in, from + 1)
           h2 == parse_int_until_crlf(more, from + 1)
<1>1. m \in Nat /\ n \in Nat /\ m <= n /\ \A i \in 1 .. m : more[i] = in[i]
  BY DEF Longer
<1>2. parse_bulk(in, from) = IF from > m THEN NeedMore
                             ELSE IF in[from] # Dollar THEN Refuse
                             ELSE IF h.st # "OK" THEN h ELSE BulkBody(in, h)
  <2> HIDE DEF h
  <2> QED  BY BulkIs DEF h
<1>3. parse_bulk(more, from) = IF from > n THEN NeedMore
                               ELSE IF more[from] # Dollar THEN Refuse
                               ELSE IF h2.st # "OK" THEN h2 ELSE BulkBody(more, h2)
  <2> HIDE DEF h2
  <2> QED  BY BulkIs DEF h2
<1>4. ~(from > m)
  <2> HIDE DEF h
  <2> QED  BY <1>2
<1>5. ~(from > n) /\ more[from] = in[from] /\ from + 1 \in 1 .. m + 1
  BY <1>1, <1>4
<1>6. CASE in[from] # Dollar
  <2> HIDE DEF h, h2
  <2> QED  BY <1>2, <1>3, <1>4, <1>5, <1>6
<1>7. CASE in[from] = Dollar
  <2>1. h # NeedMore
    <3> HIDE DEF h
    <3> QED  BY <1>2, <1>4, <1>7 DEF NeedMore
  <2>2. h2 = h
    BY <1>5, <2>1, IntSettled
  <2>3. h = Refuse \/ IsInt(in, from + 1, h)
    BY <1>5, <2>1, IntOutcome
  <2> HIDE DEF h, h2
  <2>4. CASE h.st # "OK"
    BY <1>2, <1>3, <1>4, <1>5, <1>7, <2>2, <2>4
  <2>5. CASE h.st = "OK"
    <3>1. IsInt(in, from + 1, h)
      BY <2>3, <2>5 DEF Refuse
    <3>2. parse_bulk(in, from) = BulkBody(in, h) /\ parse_bulk(more, from) = BulkBody(more, h)
      BY <1>2, <1>3, <1>4, <1>5, <1>7, <2>2, <2>5
    <3>3. h.value \in Int /\ h.next \in Nat \ {0} /\ RESP_MAX_BULK_LEN \in Int
      <4>1. h.value \in Int /\ h.next \in from + 3 + 1 .. m + 1
        BY <3>1 DEF IsInt
      <4>2. RESP_MAX_BULK_LEN \in Int
        BY Framing, Limits
      <4> HIDE DEF m, n
      <4> QED  BY <1>1, <4>1, <4>2
    <3> DEFINE i == h.next
               v == h.value
               c == i + v
    <3>4. CASE v < 0 \/ v > RESP_MAX_BULK_LEN
      BY <3>2, <3>4 DEF BulkBody
    <3>5. CASE ~(v < 0 \/ v > RESP_MAX_BULK_LEN)
      <4>0. i \in Nat \ {0} /\ v \in Int /\ v >= 0 /\ c \in Nat \ {0}
        BY <3>3, <3>5
      <4>1. ~(m < c + 1)
        BY <3>2, <3>5 DEF BulkBody
      <4> HIDE DEF m, n, i, v
      <4>2. ~(n < c + 1) /\ c \in 1 .. m /\ c + 1 \in 1 .. m /\ c - 1 <= m /\ c - 1 \in Int
        BY <1>1, <4>0, <4>1
      <4>3. more[c] = in[c] /\ more[c + 1] = in[c + 1]
        BY <1>1, <4>2
      <4>4. SubSeq(more, i, c - 1) = SubSeq(in, i, c - 1)
        BY <4>0, <4>2, SamePart DEF m
      <4> HIDE DEF c
      <4>5. BulkBody(in, h) = IF in[c] # CR \/ in[c + 1] # LF THEN Refuse
              ELSE [st |-> "OK", arg |-> SubSeq(in, i, c - 1), next |-> c + 2]
        BY <3>5, <4>1 DEF BulkBody, c, i, v, m
      <4>6. BulkBody(more, h) = IF more[c] # CR \/ more[c + 1] # LF THEN Refuse
              ELSE [st |-> "OK", arg |-> SubSeq(more, i, c - 1), next |-> c + 2]
        BY <3>5, <4>2 DEF BulkBody, c, i, v, n
      <4> QED  BY <3>2, <4>3, <4>4, <4>5, <4>6
    <3> QED  BY <3>4, <3>5
  <2> QED  BY <2>4, <2>5
<1> QED  BY <1>6, <1>7

ArgRead(b, arg, next) == b = [st |-> "OK", arg |-> arg, next |-> next]

(* A bulk is read as it was written. *)
LEMMA BulkReads ==
  ASSUME NEW S, NEW in \in Seq(S), NEW from \in Nat \ {0},
         NEW arg \in Seq(S), Len(arg) <= RESP_MAX_BULK_LEN, Holds(in, from, BulkFrame(arg))
  PROVE  /\ BulkFrame(arg) \in Seq(S \cup AllDigits \cup {Dollar, CR, LF})
         /\ ArgRead(parse_bulk(in, from), arg, from + Len(BulkFrame(arg)))
<1> DEFINE A == S \cup AllDigits \cup {Dollar, CR, LF}
           k == Len(arg)
           s == Format(k)
           m == Len(s)
           n == Len(in)
<1>1. k \in Nat /\ k <= RESP_MAX_BULK_LEN /\ k \in 0 .. ReadLimit /\ n \in Nat
      /\ RESP_MAX_BULK_LEN \in Nat
  BY Framing, Limits
<1>2. s \in Seq(AllDigits)
  BY FormatDigits
<1>3. /\ s \in Seq(A) /\ m \in Nat /\ Crlf \in Seq(A) /\ Len(Crlf) = 2
      /\ <<Dollar>> \in Seq(A) /\ arg \in Seq(A) /\ in \in Seq(A) /\ Len(<<Dollar>>) = 1
      /\ Crlf[1] = CR /\ Crlf[2] = LF
  BY <1>2 DEF Crlf
<1> HIDE DEF A, k, s, m, n
<1> DEFINE sized == <<Dollar>> \o s
           head == sized \o Crlf
<1>4. /\ sized \in Seq(A) /\ head \in Seq(A) /\ head \o arg \in Seq(A) /\ s \o Crlf \in Seq(A)
      /\ BulkFrame(arg) = (head \o arg) \o Crlf
  BY <1>3 DEF BulkFrame, k, s
<1>5. Len(head) = m + 3 /\ Len(head \o arg) = m + 3 + k /\ Len(BulkFrame(arg)) = m + k + 5
  <2>1. Len(sized) = 1 + m
    BY <1>3, ConcatLength DEF m
  <2> HIDE DEF sized
  <2>2. Len(head) = (1 + m) + 2
    <3>1. sized \in Seq(A) /\ Crlf \in Seq(A)
      BY <1>3, <1>4
    <3>2. Len(sized \o Crlf) = Len(sized) + Len(Crlf)
      BY <3>1, ConcatLength
    <3> QED  BY <1>3, <2>1, <3>2
  <2> HIDE DEF head
  <2>3. Len(head \o arg) = ((1 + m) + 2) + k
    BY <1>3, <1>4, <2>2, ConcatLength DEF k
  <2>4. Len((head \o arg) \o Crlf) = (((1 + m) + 2) + k) + 2
    <3> DEFINE t == head \o arg
    <3>1. t \in Seq(A) /\ Crlf \in Seq(A)
      BY <1>3, <1>4
    <3> HIDE DEF t
    <3>2. Len(t \o Crlf) = Len(t) + Len(Crlf)
      BY <3>1, ConcatLength
    <3> QED  BY <1>3, <2>3, <3>2 DEF t
  <2> QED  BY <1>1, <1>3, <1>4, <2>2, <2>3, <2>4
<1> HIDE DEF sized, head
<1>6. Holds(in, from, head) /\ Holds(in, from + (m + 3), arg) /\ Holds(in, from + (m + 3 + k), Crlf)
  <2>1. Holds(in, from, head \o arg) /\ Holds(in, from + Len(head \o arg), Crlf)
    <3> DEFINE t == head \o arg
    <3>1. t \in Seq(A) /\ Crlf \in Seq(A) /\ in \in Seq(A)
      BY <1>3, <1>4
    <3>2. Holds(in, from, t \o Crlf)
      BY <1>4
    <3> HIDE DEF t
    <3>3. Holds(in, from, t) /\ Holds(in, from + Len(t), Crlf)
      BY <3>1, <3>2, HoldsConcat
    <3> QED  BY <3>3 DEF t
  <2>2. Holds(in, from, head) /\ Holds(in, from + Len(head), arg)
    BY <1>3, <1>4, <2>1, HoldsConcat
  <2> QED  BY <1>5, <2>1, <2>2
<1>7. Holds(in, from, <<Dollar>>) /\ Holds(in, from + 1, s \o Crlf)
  <2>1. head = <<Dollar>> \o (s \o Crlf)
    <3>1. <<Dollar>> \in Seq(A) /\ s \in Seq(A) /\ Crlf \in Seq(A)
      BY <1>3
    <3>2. (<<Dollar>> \o s) \o Crlf = <<Dollar>> \o (s \o Crlf)
      BY <3>1, ConcatAssociative
    <3> QED  BY <3>2 DEF head, sized
  <2>2. Holds(in, from, <<Dollar>>) /\ Holds(in, from + Len(<<Dollar>>), s \o Crlf)
    BY <1>3, <1>4, <1>6, <2>1, HoldsConcat
  <2> QED  BY <1>3, <2>2
<1>8. in[from] = Dollar /\ ~(from > n)
  BY <1>1, <1>3, <1>7 DEF Holds, n
<1> DEFINE h == parse_int_until_crlf(in, from + 1)
<1>9. h = [st |-> "OK", value |-> k, next |-> from + m + 3]
  <2>1. from + 1 \in Nat \ {0}
    OBVIOUS
  <2>2. h = [st |-> "OK", value |-> k, next |-> (from + 1) + m + 2]
    BY <1>1, <1>3, <1>7, <2>1, IntReads DEF s, m
  <2> QED  BY <1>3, <2>2
<1> HIDE DEF h
<1> DEFINE c == from + m + 3 + k
<1>10. /\ c \in Nat /\ c + 1 <= n /\ in[c] = CR /\ in[c + 1] = LF
       /\ c = (from + m + 3) + k /\ c = from + (m + 3 + k)
  <2>1. c \in Nat /\ c = from + (m + 3 + k)
    BY <1>1, <1>3
  <2> HIDE DEF c
  <2>2. c + 2 - 1 <= n /\ \A i \in 1 .. 2 : in[c + i - 1] = Crlf[i]
    BY <1>3, <1>6, <2>1 DEF Holds, n
  <2>3. c + 1 - 1 = c /\ c + 2 - 1 = c + 1 /\ 1 \in 1 .. 2 /\ 2 \in 1 .. 2
    BY <2>1
  <2>4. in[c] = CR /\ in[c + 1] = LF /\ c + 1 <= n
    BY <1>3, <2>2, <2>3
  <2> QED  BY <1>1, <1>3, <2>1, <2>4 DEF c
<1>11. SubSeq(in, from + m + 3, c - 1) = arg
  <2>1. from + (m + 3) \in Nat \ {0} /\ from + (m + 3) = from + m + 3
        /\ from + (m + 3) + k - 1 = c - 1
    BY <1>1, <1>3
  <2> HIDE DEF c
  <2>2. SubSeq(in, from + (m + 3), from + (m + 3) + Len(arg) - 1) = arg
    BY <1>6, <2>1, HeldPart
  <2> QED  BY <2>1, <2>2 DEF k
<1> HIDE DEF c
<1>12. BulkBody(in, h) = [st |-> "OK", arg |-> arg, next |-> c + 2]
  <2>1. h.value = k /\ h.next = from + m + 3 /\ h.next + h.value = c
    BY <1>9, <1>10
  <2>2. ~(k < 0 \/ k > RESP_MAX_BULK_LEN) /\ ~(n < c + 1)
    BY <1>1, <1>10
  <2> QED  BY <1>10, <1>11, <2>1, <2>2 DEF BulkBody, n
<1>13. parse_bulk(in, from) = BulkBody(in, h)
  BY <1>8, <1>9, BulkIs DEF h, n
<1>14. c + 2 = from + Len(BulkFrame(arg))
  BY <1>1, <1>3, <1>5 DEF c
<1>15. ArgRead(parse_bulk(in, from), arg, from + Len(BulkFrame(arg)))
  BY <1>12, <1>13, <1>14 DEF ArgRead
<1> QED  BY <1>3, <1>4, <1>15, ConcatProperties DEF A

-----------------------------------------------------------------------------
(* parse_multi_bulk(): the bulks one after the other.                       *)

BulkStep(in, done) ==
  IF done.st # "OK" THEN done
  ELSE LET b == parse_bulk(in, done.next) IN
    IF b.st # "OK" THEN b
    ELSE [st |-> "OK", args |-> Append(done.args, b.arg), next |-> b.next]

NoArgs(h) == [st |-> "OK", args |-> <<>>, next |-> h.next]

Bulks(in, h, f) ==
  f = [i \in 0 .. RESP_MAX_ARGC |-> IF i = 0 THEN NoArgs(h) ELSE BulkStep(in, f[i - 1])]

LEMMA MultiIs ==
  ASSUME NEW in
  PROVE  parse_multi_bulk(in)
           = LET h == parse_int_until_crlf(in, 2)
             IN IF h.st # "OK" THEN h
                ELSE IF h.value < 1 \/ h.value > RESP_MAX_ARGC THEN Refuse
                ELSE (CHOOSE f : Bulks(in, h, f))[h.value]
BY DEF parse_multi_bulk, Bulks, BulkStep, NoArgs

(* What n bulks may come to. *)
IsArgs(S, in, r) ==
  /\ r.st = "OK" /\ r.args \in Seq(Seq(S)) /\ r.next \in 2 .. Len(in) + 1
  /\ r = [st |-> "OK", args |-> r.args, next |-> r.next]

Results(S, in) ==
  {NeedMore, Refuse} \cup
  {[st |-> "OK", args |-> a, next |-> i] : a \in Seq(Seq(S)), i \in 2 .. Len(in) + 1}

LEMMA ResultIs ==
  ASSUME NEW S, NEW in, NEW r
  PROVE  r \in Results(S, in) <=> r = NeedMore \/ r = Refuse \/ IsArgs(S, in, r)
<1>1. ASSUME r \in Results(S, in) PROVE r = NeedMore \/ r = Refuse \/ IsArgs(S, in, r)
  BY <1>1 DEF Results, IsArgs
<1>2. ASSUME r = NeedMore \/ r = Refuse \/ IsArgs(S, in, r) PROVE r \in Results(S, in)
  BY <1>2 DEF Results, IsArgs
<1> QED  BY <1>1, <1>2

ArgsRead(r, args, next) == r = [st |-> "OK", args |-> args, next |-> next]

LEMMA BulkStepIs ==
  ASSUME NEW in, NEW a, NEW from, NEW x, NEW next,
         NEW done, ArgsRead(done, a, from), ArgRead(parse_bulk(in, from), x, next)
  PROVE  ArgsRead(BulkStep(in, done), Append(a, x), next)
BY DEF BulkStep, ArgRead, ArgsRead

LEMMA BulkStepType ==
  ASSUME NEW S, NEW in \in Seq(S), NEW done \in Results(S, in)
  PROVE  /\ BulkStep(in, done) \in Results(S, in)
         /\ BulkStep(in, done).st = "OK" =>
              done.st = "OK" /\ Len(BulkStep(in, done).args) = Len(done.args) + 1
<1> DEFINE b == parse_bulk(in, done.next)
           r == BulkStep(in, done)
<1>1. done = NeedMore \/ done = Refuse \/ IsArgs(S, in, done)
  BY ResultIs
<1>2. CASE done = NeedMore \/ done = Refuse
  BY <1>2 DEF BulkStep, Results, NeedMore, Refuse
<1>3. CASE IsArgs(S, in, done)
  <2>1. done.st = "OK" /\ done.args \in Seq(Seq(S)) /\ done.next \in 2 .. Len(in) + 1
    BY <1>3 DEF IsArgs
  <2>2. done.next \in Nat \ {0} /\ Len(in) \in Nat
    BY <2>1
  <2>3. b = NeedMore \/ b = Refuse \/ IsBulk(S, in, done.next, b)
    BY <2>2, BulkOutcome
  <2> HIDE DEF b
  <2>4. CASE b = NeedMore \/ b = Refuse
    <3>1. r = b
      BY <2>1, <2>4 DEF BulkStep, b, NeedMore, Refuse
    <3> QED  BY <2>4, <3>1 DEF Results, NeedMore, Refuse
  <2>5. CASE IsBulk(S, in, done.next, b)
    <3>1. b.st = "OK" /\ b.arg \in Seq(S) /\ b.next \in done.next + 1 .. Len(in) + 1
      BY <2>5 DEF IsBulk
    <3>2. r = [st |-> "OK", args |-> Append(done.args, b.arg), next |-> b.next]
      BY <2>1, <3>1 DEF BulkStep, b
    <3> HIDE DEF r
    <3>3. b.next \in 2 .. Len(in) + 1
      BY <2>1, <2>2, <3>1
    <3>4. Append(done.args, b.arg) \in Seq(Seq(S))
          /\ Len(Append(done.args, b.arg)) = Len(done.args) + 1
      BY <2>1, <3>1, AppendProperties
    <3>5. r \in Results(S, in)
      <4>1. IsArgs(S, in, r)
        BY <3>2, <3>3, <3>4 DEF IsArgs
      <4> QED  BY <4>1, ResultIs
    <3> QED  BY <2>1, <3>2, <3>4, <3>5 DEF r
  <2> QED  BY <2>3, <2>4, <2>5
<1> QED  BY <1>1, <1>2, <1>3

LEMMA NoArgsType ==
  ASSUME NEW S, NEW in \in Seq(S), NEW h, IsInt(in, 2, h)
  PROVE  NoArgs(h) \in Results(S, in) /\ Len(NoArgs(h).args) = 0
<1>1. h.next \in 2 .. Len(in) + 1
  BY DEF IsInt
<1>2. <<>> \in Seq(Seq(S)) /\ Len(<<>>) = 0
  OBVIOUS
<1>3. IsArgs(S, in, NoArgs(h)) /\ NoArgs(h).args = <<>>
  BY <1>1, <1>2 DEF NoArgs, IsArgs
<1> QED  BY <1>2, <1>3, ResultIs

LEMMA BulksExist ==
  ASSUME NEW S, NEW in \in Seq(S), NEW h, IsInt(in, 2, h)
  PROVE  \E f : Bulks(in, h, f)
<1> DEFINE V == Results(S, in)
           n == RESP_MAX_ARGC
           a == NoArgs(h)
           g == [i \in 1 .. n |-> [x \in V |-> BulkStep(in, x)]]
<1>1. n \in Nat
  BY Framing, Limits
<1>2. a \in V
  BY NoArgsType
<1>3. g \in [1 .. n -> [V -> V]]
  <2> HIDE DEF V
  <2>1. \A x \in V : BulkStep(in, x) \in V
    BY BulkStepType DEF V
  <2> QED  BY <2>1
<1> HIDE DEF V, n, a, g
<1>4. PICK f : Recursive(f, n, V, a, g)
  BY <1>1, <1>2, <1>3, Recursion
<1>5. /\ f \in [0 .. n -> V] /\ f[0] = a
      /\ \A i \in 1 .. n : f[i] = g[i][f[i - 1]]
  BY <1>4 DEF Recursive
<1>6. ASSUME NEW i \in 0 .. n PROVE f[i] = IF i = 0 THEN a ELSE BulkStep(in, f[i - 1])
  <2>1. CASE i = 0
    BY <1>5, <2>1
  <2>2. CASE i # 0
    <3>1. i \in 1 .. n /\ i - 1 \in 0 .. n
      BY <1>1, <2>2
    <3> QED  BY <1>5, <2>2, <3>1 DEF g
  <2> QED  BY <2>1, <2>2
<1>7. Bulks(in, h, f)
  BY <1>5, <1>6 DEF Bulks, n, a
<1> QED  BY <1>7

LEMMA BulksStep ==
  ASSUME NEW in, NEW h, NEW f, Bulks(in, h, f), NEW i \in 0 .. RESP_MAX_ARGC - 1
  PROVE  f[0] = NoArgs(h) /\ f[i + 1] = BulkStep(in, f[i])
<1>1. RESP_MAX_ARGC \in Nat
  BY Framing, Limits
<1>2. 0 \in 0 .. RESP_MAX_ARGC /\ i + 1 \in 0 .. RESP_MAX_ARGC /\ i + 1 # 0 /\ (i + 1) - 1 = i
  BY <1>1
<1>3. \A j \in 0 .. RESP_MAX_ARGC : f[j] = IF j = 0 THEN NoArgs(h) ELSE BulkStep(in, f[j - 1])
  BY DEF Bulks
<1> QED  BY <1>2, <1>3

LEMMA BulksType ==
  ASSUME NEW S, NEW in \in Seq(S), NEW h, IsInt(in, 2, h), NEW f, Bulks(in, h, f),
         NEW n \in 0 .. RESP_MAX_ARGC
  PROVE  f[n] \in Results(S, in) /\ (f[n].st = "OK" => Len(f[n].args) = n)
<1> DEFINE m == RESP_MAX_ARGC
           U == {i \in Nat : i <= m =>
                   f[i] \in Results(S, in) /\ (f[i].st = "OK" => Len(f[i].args) = i)}
<1>1. m \in Nat \ {0}
  <2>1. m \in 1 .. ReadLimit /\ ReadLimit \in Int
    BY Framing, Limits
  <2> QED  BY <2>1
<1>2. 0 \in U
  <2>1. 0 \in 0 .. m - 1
    BY <1>1
  <2>2. f[0] = NoArgs(h)
    BY <2>1, BulksStep
  <2> QED  BY <2>2, NoArgsType
<1>3. ASSUME NEW i \in Nat, i \in U PROVE i + 1 \in U
  <2>1. SUFFICES ASSUME i + 1 <= m
                 PROVE  /\ f[i + 1] \in Results(S, in)
                        /\ f[i + 1].st = "OK" => Len(f[i + 1].args) = i + 1
    OBVIOUS
  <2>2. i \in 0 .. m - 1 /\ i <= m
    BY <1>1, <2>1
  <2>3. f[i + 1] = BulkStep(in, f[i])
    BY <2>2, BulksStep
  <2>4. f[i] \in Results(S, in) /\ (f[i].st = "OK" => Len(f[i].args) = i)
    BY <1>3, <2>2
  <2> QED  BY <2>3, <2>4, BulkStepType
<1>4. n \in U
  <2> HIDE DEF U
  <2> QED  BY <1>1, <1>2, <1>3, NumberInduction
<1> QED  BY <1>1, <1>4

(* A request takes at least the header's bytes and none that is not there,
   and it has as many arguments as the header says. *)
IsRequest(S, in, r) ==
  IsArgs(S, in, r) /\ Len(r.args) \in 1 .. RESP_MAX_ARGC

LEMMA MultiOutcome ==
  ASSUME NEW S, NEW in \in Seq(S), in # <<>>
  PROVE  LET r == parse_multi_bulk(in)
         IN r = NeedMore \/ r = Refuse \/ IsRequest(S, in, r)
<1> DEFINE r == parse_multi_bulk(in)
           h == parse_int_until_crlf(in, 2)
           f == CHOOSE f : Bulks(in, h, f)
<1>1. r = IF h.st # "OK" THEN h
          ELSE IF h.value < 1 \/ h.value > RESP_MAX_ARGC THEN Refuse ELSE f[h.value]
  BY MultiIs
<1>2. h = NeedMore \/ h = Refuse \/ IsInt(in, 2, h)
  <2>1. 2 \in 1 .. Len(in) + 1
    OBVIOUS
  <2> QED  BY <2>1, IntOutcome
<1>3. ASSUME IsInt(in, 2, h) PROVE Bulks(in, h, f)
  <2> HIDE DEF h
  <2> QED  BY <1>3, BulksExist
<1> HIDE DEF r, h, f
<1>4. CASE h = NeedMore \/ h = Refuse
  BY <1>1, <1>4 DEF NeedMore, Refuse, r
<1>5. CASE IsInt(in, 2, h)
  <2> DEFINE n == h.value
  <2>1. h.st = "OK" /\ n \in Int /\ RESP_MAX_ARGC \in Nat
    BY <1>5, Framing, Limits DEF IsInt
  <2>2. CASE n < 1 \/ n > RESP_MAX_ARGC
    BY <1>1, <2>1, <2>2 DEF r
  <2>3. CASE ~(n < 1 \/ n > RESP_MAX_ARGC)
    <3>1. n \in 0 .. RESP_MAX_ARGC /\ n \in 1 .. RESP_MAX_ARGC
      BY <2>1, <2>3
    <3>2. r = f[n]
      BY <1>1, <2>1, <2>3
    <3> HIDE DEF n
    <3>3. f[n] \in Results(S, in) /\ (f[n].st = "OK" => Len(f[n].args) = n)
      BY <1>3, <1>5, <3>1, BulksType
    <3>4. r = NeedMore \/ r = Refuse \/ IsArgs(S, in, r)
      BY <3>2, <3>3, ResultIs
    <3>5. ASSUME IsArgs(S, in, r) PROVE Len(r.args) \in 1 .. RESP_MAX_ARGC
      BY <3>1, <3>2, <3>3, <3>5 DEF IsArgs
    <3> QED  BY <3>4, <3>5 DEF IsRequest, r
  <2> QED  BY <2>2, <2>3
<1> QED  BY <1>2, <1>4, <1>5

LEMMA MultiSettled ==
  ASSUME NEW S, NEW in \in Seq(S), NEW more \in Seq(S), Longer(in, more), in # <<>>,
         parse_multi_bulk(in) # NeedMore
  PROVE  parse_multi_bulk(more) = parse_multi_bulk(in)
<1> DEFINE h  == parse_int_until_crlf(in, 2)
           f  == CHOOSE f : Bulks(in, h, f)
           h2 == parse_int_until_crlf(more, 2)
           g  == CHOOSE g : Bulks(more, h2, g)
<1>0. 2 \in 1 .. Len(in) + 1 /\ 2 \in 1 .. Len(more) + 1
  BY DEF Longer
<1>1. parse_multi_bulk(in)
        = IF h.st # "OK" THEN h
          ELSE IF h.value < 1 \/ h.value > RESP_MAX_ARGC THEN Refuse ELSE f[h.value]
  BY MultiIs
<1>2. parse_multi_bulk(more)
        = IF h2.st # "OK" THEN h2
          ELSE IF h2.value < 1 \/ h2.value > RESP_MAX_ARGC THEN Refuse ELSE g[h2.value]
  BY MultiIs
<1>3. h # NeedMore
  <2> HIDE DEF h, f
  <2> QED  BY <1>1 DEF NeedMore
<1>4. h2 = h
  BY <1>0, <1>3, IntSettled
<1>5. h = Refuse \/ IsInt(in, 2, h)
  BY <1>0, <1>3, IntOutcome
<1>6. ASSUME IsInt(in, 2, h) PROVE Bulks(in, h, f) /\ Bulks(more, h2, g)
  <2>1. IsInt(more, 2, h2)
    BY <1>0, <1>4, <1>6, IntOutcome DEF IsInt, NeedMore, Refuse
  <2> HIDE DEF h, h2
  <2> QED  BY <1>6, <2>1, BulksExist
<1> HIDE DEF h, h2, f, g
<1>7. CASE h = Refuse
  BY <1>1, <1>2, <1>4, <1>7 DEF Refuse
<1>8. CASE IsInt(in, 2, h)
  <2> DEFINE n == h.value
             m == RESP_MAX_ARGC
  <2>1. h.st = "OK" /\ n \in Int /\ m \in Nat
    BY <1>8, Framing, Limits DEF IsInt
  <2>2. CASE n < 1 \/ n > m
    BY <1>1, <1>2, <1>4, <2>1, <2>2
  <2>3. CASE ~(n < 1 \/ n > m)
    <3>1. parse_multi_bulk(in) = f[n] /\ parse_multi_bulk(more) = g[n] /\ n \in 0 .. m
      BY <1>1, <1>2, <1>4, <2>1, <2>3
    <3>2. Bulks(in, h, f) /\ Bulks(more, h, g)
      BY <1>4, <1>6, <1>8
    <3> HIDE DEF n
    <3> DEFINE U == {i \in Nat : i <= m => (f[i] = NeedMore \/ g[i] = f[i])}
    <3>3. 0 \in U
      <4>1. m > 0 => 0 \in 0 .. m - 1
        BY <2>1
      <4>2. m > 0
        <5>1. m \in 1 .. ReadLimit /\ ReadLimit \in Int
          BY Framing, Limits
        <5> QED  BY <5>1
      <4>3. f[0] = NoArgs(h) /\ g[0] = NoArgs(h)
        BY <3>2, <4>1, <4>2, BulksStep
      <4> QED  BY <4>3
    <3>4. ASSUME NEW i \in Nat, i \in U PROVE i + 1 \in U
      <4>1. SUFFICES ASSUME i + 1 <= m, f[i + 1] # NeedMore PROVE g[i + 1] = f[i + 1]
        OBVIOUS
      <4>2. i \in 0 .. m - 1 /\ i \in 0 .. m /\ i <= m
        BY <2>1, <4>1
      <4>3. f[i + 1] = BulkStep(in, f[i]) /\ g[i + 1] = BulkStep(more, g[i])
        BY <3>2, <4>2, BulksStep
      <4>4. f[i] # NeedMore
        BY <4>1, <4>3 DEF BulkStep, NeedMore
      <4>5. g[i] = f[i]
        BY <3>4, <4>2, <4>4
      <4>6. f[i] \in Results(S, in)
        BY <1>8, <3>2, <4>2, BulksType
      <4>7. f[i] = Refuse \/ IsArgs(S, in, f[i])
        BY <4>4, <4>6, ResultIs
      <4> DEFINE d == f[i]
      <4> HIDE DEF d, U
      <4>8. CASE d = Refuse
        BY <4>3, <4>5, <4>8 DEF BulkStep, Refuse, d
      <4>9. CASE IsArgs(S, in, d)
        <5>1. d.st = "OK" /\ d.next \in 2 .. Len(in) + 1
          BY <4>9 DEF IsArgs
        <5>2. d.next \in Nat \ {0}
          BY <5>1
        <5>3. parse_bulk(in, d.next) # NeedMore
          BY <4>1, <4>3, <5>1 DEF BulkStep, NeedMore, d
        <5>4. parse_bulk(more, d.next) = parse_bulk(in, d.next)
          BY <5>2, <5>3, BulkSettled
        <5>5. BulkStep(more, d) = BulkStep(in, d)
          BY <5>4 DEF BulkStep
        <5> QED  BY <4>3, <4>5, <5>5 DEF d
      <4> QED  BY <4>7, <4>8, <4>9 DEF d
    <3>5. n \in U
      <4> HIDE DEF U
      <4>1. n \in Nat
        BY <3>1
      <4> QED  BY <3>3, <3>4, <4>1, NumberInduction
    <3> QED  BY <3>1, <3>5
  <2> QED  BY <2>2, <2>3
<1> QED  BY <1>5, <1>7, <1>8

-----------------------------------------------------------------------------
(* An array of bulks is read as it was written.                             *)

Alphabet == Bytes \cup AllDigits

LEMMA AlphabetHas ==
  /\ Bytes \subseteq Alphabet /\ AllDigits \subseteq Alphabet
  /\ {Star, Dollar, CR, LF, Blank} \subseteq Alphabet
  /\ <<Star>> \in Seq(Alphabet) /\ <<Dollar>> \in Seq(Alphabet) /\ <<Blank>> \in Seq(Alphabet)
  /\ <<LF>> \in Seq(Alphabet) /\ Crlf \in Seq(Alphabet)
<1>1. /\ Bytes \subseteq Alphabet /\ AllDigits \subseteq Alphabet
      /\ {Star, Dollar, CR, LF, Blank} \subseteq Alphabet
  BY DEF Alphabet, Bytes
<1> QED  BY <1>1 DEF Crlf

LEMMA BulkFrameType ==
  ASSUME NEW arg \in Seq(Alphabet)
  PROVE  BulkFrame(arg) \in Seq(Alphabet)
<1>1. Len(arg) \in Nat
  OBVIOUS
<1>2. Format(Len(arg)) \in Seq(Alphabet)
  BY <1>1, FormatDigits, AlphabetHas
<1> HIDE DEF Alphabet
<1> QED  BY <1>2, AlphabetHas DEF BulkFrame

(* Each of the sequences stands behind the ones before it. *)
LEMMA ConcatsHeld ==
  ASSUME NEW S, NEW in \in Seq(S), NEW from \in Nat \ {0},
         NEW ss \in Seq(Seq(S)), NEW f, Concats(f, ss, Len(ss)),
         ss # <<>>, Holds(in, from, f[Len(ss)]), NEW i \in 1 .. Len(ss)
  PROVE  /\ f[i] \in Seq(S) /\ ss[i] \in Seq(S)
         /\ Len(f[i]) = (IF i = 1 THEN 0 ELSE Len(f[i - 1])) + Len(ss[i])
         /\ Holds(in, from + (IF i = 1 THEN 0 ELSE Len(f[i - 1])), ss[i])
<1> DEFINE n == Len(ss)
<1>1. n \in Nat \ {0} /\ \A k \in 1 .. n : f[k] \in Seq(S) /\ ss[k] \in Seq(S)
  BY ConcatsType
<1>2. \A k \in 1 .. n : f[k] = Step(f, ss, k)
  BY DEF Concats
<1> HIDE DEF n
<1>3. f[1] = ss[1] /\ \A k \in 1 .. n : k # 1 => f[k] = f[k - 1] \o ss[k]
  <2>1. \A k \in 1 .. n : f[k] = IF k = 1 THEN ss[k] ELSE f[k - 1] \o ss[k]
    BY <1>2, Zenon DEF Step, Joined
  <2>2. 1 \in 1 .. n
    BY <1>1
  <2> QED  BY <2>1, <2>2, Zenon
<1> DEFINE U == {k \in Nat : k < n => Holds(in, from, f[n - k])}
<1>4. 0 \in U
  BY <1>1 DEF n
<1>5. ASSUME NEW k \in Nat, k \in U PROVE k + 1 \in U
  <2>1. SUFFICES ASSUME k + 1 < n PROVE Holds(in, from, f[n - (k + 1)])
    OBVIOUS
  <2> DEFINE j == n - k
  <2>2. j \in 1 .. n /\ j # 1 /\ j - 1 \in 1 .. n /\ n - (k + 1) = j - 1 /\ Holds(in, from, f[j])
    BY <1>1, <1>5, <2>1
  <2> HIDE DEF j
  <2>3. f[j] = f[j - 1] \o ss[j]
    BY <1>3, <2>2
  <2>4. Holds(in, from, f[j - 1])
    BY <1>1, <2>2, <2>3, HoldsConcat
  <2> QED  BY <2>2, <2>4
<1>6. ASSUME NEW j \in 1 .. n PROVE Holds(in, from, f[j])
  <2>1. n - j \in Nat /\ n - j < n /\ n - (n - j) = j
    BY <1>1
  <2>2. n - j \in U
    <3> HIDE DEF U
    <3> QED  BY <1>4, <1>5, <2>1, NumberInduction
  <2> QED  BY <2>1, <2>2
<1> HIDE DEF U
<1>7. i \in 1 .. n
  BY DEF n
<1>8. CASE i = 1
  <2>1. Len(ss[1]) \in Nat /\ from + 0 = from
    BY <1>1, <1>7, <1>8
  <2> QED  BY <1>1, <1>3, <1>6, <1>7, <1>8, <2>1
<1>9. CASE i # 1
  <2>1. i - 1 \in 1 .. n /\ f[i] = f[i - 1] \o ss[i]
    <3>1. i - 1 \in 1 .. n
      BY <1>1, <1>7, <1>9
    <3> QED  BY <1>3, <1>7, <1>9, <3>1
  <2>2. Holds(in, from + Len(f[i - 1]), ss[i])
    <3>1. Holds(in, from, f[i])
      BY <1>6, <1>7
    <3> DEFINE a == f[i - 1]
               b == ss[i]
    <3>2. a \in Seq(S) /\ b \in Seq(S) /\ Holds(in, from, a \o b)
      BY <1>1, <1>7, <2>1, <3>1
    <3> HIDE DEF a, b
    <3>3. Holds(in, from + Len(a), b)
      BY <3>2, HoldsConcat
    <3> QED  BY <3>3 DEF a, b
  <2>3. Len(f[i]) = Len(f[i - 1]) + Len(ss[i])
    BY <1>1, <1>7, <2>1, ConcatLength
  <2> QED  BY <1>1, <1>7, <1>9, <2>2, <2>3
<1> QED  BY <1>8, <1>9

LEMMA OneMore ==
  ASSUME NEW S, NEW s \in Seq(S), NEW i \in Nat, i + 1 <= Len(s)
  PROVE  SubSeq(s, 1, i + 1) = Append(SubSeq(s, 1, i), s[i + 1])
<1> DEFINE n == Len(s)
           t == SubSeq(s, 1, i)
           u == SubSeq(s, 1, i + 1)
<1>1. n \in Nat /\ \A k \in 1 .. i + 1 : k \in 1 .. n /\ 1 + k - 1 = k
  OBVIOUS
<1>2. /\ t \in Seq(S) /\ Len(t) = i /\ \A k \in 1 .. i : t[k] = s[k]
      /\ u \in Seq(S) /\ Len(u) = i + 1 /\ \A k \in 1 .. i + 1 : u[k] = s[k]
  BY <1>1, SubSeqProperties
<1> HIDE DEF t, u
<1>3. s[i + 1] \in S
  BY <1>1
<1>4. /\ Append(t, s[i + 1]) \in Seq(S) /\ Len(Append(t, s[i + 1])) = i + 1
      /\ \A k \in 1 .. i : Append(t, s[i + 1])[k] = t[k]
      /\ Append(t, s[i + 1])[i + 1] = s[i + 1]
  BY <1>2, <1>3, AppendProperties
<1>5. \A k \in 1 .. i + 1 : Append(t, s[i + 1])[k] = u[k]
  <2> SUFFICES ASSUME NEW k \in 1 .. i + 1 PROVE Append(t, s[i + 1])[k] = u[k]
    OBVIOUS
  <2>1. CASE k = i + 1
    BY <1>2, <1>4, <2>1
  <2>2. CASE k # i + 1
    BY <1>2, <1>4, <2>2
  <2> QED  BY <2>1, <2>2
<1>6. u = Append(t, s[i + 1])
  BY <1>2, <1>4, <1>5, SeqEqual
<1> QED  BY <1>6 DEF t, u

BulkFrames(args) == [i \in DOMAIN args |-> BulkFrame(args[i])]

LEMMA BulkFramesType ==
  ASSUME NEW args \in Seq(Seq(Alphabet))
  PROVE  /\ BulkFrames(args) \in Seq(Seq(Alphabet)) /\ Len(BulkFrames(args)) = Len(args)
         /\ \A i \in 1 .. Len(args) : BulkFrames(args)[i] = BulkFrame(args[i])
<1> DEFINE S == Seq(Alphabet)
           n == Len(args)
<1>1. n \in Nat /\ DOMAIN args = 1 .. n /\ \A i \in 1 .. n : args[i] \in S
  OBVIOUS
<1>2. \A i \in 1 .. n : BulkFrame(args[i]) \in S
  BY <1>1, BulkFrameType
<1> HIDE DEF S, n
<1>3. BulkFrames(args) \in [1 .. n -> S]
  BY <1>1, <1>2 DEF BulkFrames
<1> QED  BY <1>1, <1>3 DEF BulkFrames, S, n

ArrayHeader(args) == <<Star>> \o (Format(Len(args)) \o Crlf)

LEMMA ArrayFrameIs ==
  ASSUME NEW args \in Seq(Seq(Alphabet))
  PROVE  /\ ArrayHeader(args) \in Seq(Alphabet)
         /\ Len(ArrayHeader(args)) = Len(Format(Len(args))) + 3
         /\ Len(Format(Len(args))) \in Nat
         /\ FlattenSeq(BulkFrames(args)) \in Seq(Alphabet)
         /\ ArrayFrame(args) = ArrayHeader(args) \o FlattenSeq(BulkFrames(args))
         /\ ArrayFrame(args) \in Seq(Alphabet)
<1> DEFINE A == Alphabet
           s == Format(Len(args))
<1>1. Len(args) \in Nat
  OBVIOUS
<1>2. s \in Seq(A)
  BY <1>1, FormatDigits, AlphabetHas
<1>3. /\ <<Star>> \in Seq(A) /\ Len(<<Star>>) = 1
      /\ Crlf \in Seq(A) /\ Len(Crlf) = 2
  BY AlphabetHas DEF Crlf
<1>4. FlattenSeq(BulkFrames(args)) \in Seq(A)
  BY BulkFramesType, AlphabetHas, FlattenAppend
<1> HIDE DEF A, s
<1>5. s \o Crlf \in Seq(A) /\ Len(s \o Crlf) = Len(s) + 2 /\ Len(s) \in Nat
  <2>1. s \o Crlf \in Seq(A) /\ Len(s \o Crlf) = Len(s) + Len(Crlf)
    BY <1>2, <1>3, ConcatLength, Zenon
  <2> QED  BY <1>2, <1>3, <2>1
<1>6. ArrayHeader(args) \in Seq(A) /\ Len(ArrayHeader(args)) = 1 + (Len(s) + 2)
  BY <1>3, <1>5, ConcatLength DEF ArrayHeader, s
<1>7. ArrayFrame(args) = ArrayHeader(args) \o FlattenSeq(BulkFrames(args))
  <2>1. ArrayFrame(args) = ((<<Star>> \o s) \o Crlf) \o FlattenSeq(BulkFrames(args))
    BY DEF ArrayFrame, BulkFrames, s
  <2>2. (<<Star>> \o s) \o Crlf = <<Star>> \o (s \o Crlf)
    BY <1>2, <1>3
  <2> QED  BY <2>1, <2>2 DEF ArrayHeader, s
<1>8. ArrayFrame(args) \in Seq(A)
  BY <1>4, <1>6, <1>7, ConcatLength
<1> QED  BY <1>4, <1>5, <1>6, <1>7, <1>8 DEF A, s

LEMMA MultiReads ==
  ASSUME NEW in \in Seq(Alphabet), NEW args \in Seq(Seq(Alphabet)),
         Len(args) \in 1 .. RESP_MAX_ARGC,
         \A i \in 1 .. Len(args) : Len(args[i]) <= RESP_MAX_BULK_LEN,
         Holds(in, 1, ArrayFrame(args))
  PROVE  /\ in[1] = Star
         /\ ArgsRead(parse_multi_bulk(in), args, Len(ArrayFrame(args)) + 1)
<1> DEFINE A == Alphabet
           n == Len(args)
           s == Format(n)
           m == Len(s)
           ss == BulkFrames(args)
           h == parse_int_until_crlf(in, 2)
<1>1. /\ n \in 1 .. RESP_MAX_ARGC /\ n \in Nat \ {0} /\ n \in 0 .. ReadLimit
      /\ RESP_MAX_ARGC \in Nat
  BY Framing, Limits
<1>2. /\ ss \in Seq(Seq(A)) /\ Len(ss) = n /\ ss # <<>>
      /\ \A i \in 1 .. n : ss[i] = BulkFrame(args[i])
  BY <1>1, BulkFramesType
<1>3. /\ <<Star>> \in Seq(A) /\ Len(<<Star>>) = 1 /\ s \o Crlf \in Seq(A)
      /\ s \in Seq(A) /\ m \in Nat
  <2>1. s \in Seq(A) /\ Crlf \in Seq(A) /\ <<Star>> \in Seq(A)
    BY <1>1, FormatDigits, AlphabetHas
  <2> HIDE DEF A, s
  <2> QED  BY <2>1
<1>4. /\ ArrayHeader(args) \in Seq(A) /\ Len(ArrayHeader(args)) = m + 3
      /\ FlattenSeq(ss) \in Seq(A)
      /\ ArrayFrame(args) = ArrayHeader(args) \o FlattenSeq(ss)
  BY ArrayFrameIs
<1> HIDE DEF s
<1>5. Holds(in, 1, ArrayHeader(args)) /\ Holds(in, m + 4, FlattenSeq(ss))
  <2>1. Holds(in, 1, ArrayHeader(args)) /\ Holds(in, 1 + Len(ArrayHeader(args)), FlattenSeq(ss))
    BY <1>4, HoldsConcat
  <2>2. 1 + Len(ArrayHeader(args)) = m + 4
    BY <1>3, <1>4
  <2> QED  BY <2>1, <2>2
<1>6. in[1] = Star /\ Holds(in, 2, s \o Crlf)
  <2>0. Holds(in, 1, <<Star>> \o (s \o Crlf))
    BY <1>5 DEF ArrayHeader, s
  <2>1. Holds(in, 1, <<Star>>) /\ Holds(in, 1 + Len(<<Star>>), s \o Crlf)
    BY <1>3, <2>0, HoldsConcat, 1 \in Nat \ {0}, Zenon
  <2>2. in[1] = Star
    BY <1>3, <2>1 DEF Holds
  <2> QED  BY <1>3, <2>1, <2>2
<1>7. h = [st |-> "OK", value |-> n, next |-> m + 4]
  <2>1. h = [st |-> "OK", value |-> n, next |-> 2 + m + 2]
    BY <1>1, <1>6, IntReads DEF s
  <2> QED  BY <1>3, <2>1
<1>8. IsInt(in, 2, h)
  <2>1. 2 \in 1 .. Len(in) + 1
    BY <1>3, <1>6 DEF Holds
  <2>2. h = NeedMore \/ h = Refuse \/ IsInt(in, 2, h)
    BY <2>1, IntOutcome
  <2> HIDE DEF h
  <2> QED  BY <1>7, <2>2 DEF NeedMore, Refuse
<1> HIDE DEF h, ss
<1> DEFINE f == CHOOSE f : Bulks(in, h, f)
<1>9. Bulks(in, h, f)
  BY <1>8, BulksExist
<1>10. parse_multi_bulk(in) = f[n]
  <2>1. ~(h.st # "OK") /\ h.value = n /\ ~(n < 1 \/ n > RESP_MAX_ARGC)
    BY <1>1, <1>7
  <2> QED  BY <2>1, MultiIs DEF h
<1> HIDE DEF f
<1>11. PICK g : Concats(g, ss, Len(ss)) /\ FlattenSeq(ss) = g[Len(ss)]
  BY <1>1, <1>2, FlattenIsConcats
<1>12. \A i \in 1 .. n :
         /\ g[i] \in Seq(A) /\ ss[i] \in Seq(A)
         /\ Len(g[i]) = (IF i = 1 THEN 0 ELSE Len(g[i - 1])) + Len(ss[i])
         /\ Holds(in, (m + 4) + (IF i = 1 THEN 0 ELSE Len(g[i - 1])), ss[i])
  <2>1. m + 4 \in Nat \ {0} /\ Holds(in, m + 4, g[Len(ss)])
    BY <1>3, <1>5, <1>11
  <2> QED  BY <1>2, <1>11, <2>1, ConcatsHeld
<1> DEFINE done(i) == IF i = 0 THEN 0 ELSE Len(g[i])
           U == {i \in Nat : i <= n =>
                   ArgsRead(f[i], SubSeq(args, 1, i), (m + 4) + done(i))}
<1>13. 0 \in U
  <2>1. f[0] = NoArgs(h)
    <3>1. 0 \in 0 .. RESP_MAX_ARGC - 1
      BY <1>1
    <3> QED  BY <1>9, <3>1, BulksStep
  <2>2. SubSeq(args, 1, 0) = <<>> /\ (m + 4) + done(0) = m + 4
    BY <1>3
  <2> HIDE DEF done
  <2>3. ArgsRead(f[0], SubSeq(args, 1, 0), (m + 4) + done(0))
    BY <1>7, <2>1, <2>2 DEF NoArgs, ArgsRead
  <2> QED  BY <2>3
<1>14. ASSUME NEW i \in Nat, i \in U PROVE i + 1 \in U
  <2> DEFINE d == (m + 4) + done(i)
  <2>1. SUFFICES ASSUME i + 1 <= n
                 PROVE  ArgsRead(f[i + 1], SubSeq(args, 1, i + 1), (m + 4) + done(i + 1))
    <3> HIDE DEF m, n, done
    <3> QED  BY <1>14 DEF ArgsRead
  <2>2. i <= n /\ i \in 0 .. RESP_MAX_ARGC - 1 /\ i + 1 \in 1 .. n /\ (i + 1) - 1 = i
        /\ (i + 1 = 1 <=> i = 0)
    BY <1>1, <2>1
  <2>3. f[i + 1] = BulkStep(in, f[i])
    BY <1>9, <2>2, BulksStep
  <2>4. ArgsRead(f[i], SubSeq(args, 1, i), d)
    BY <1>14, <2>2
  <2>5. done(i) \in Nat /\ d \in Nat \ {0} /\ Len(ss[i + 1]) \in Nat
        /\ done(i + 1) = done(i) + Len(ss[i + 1])
        /\ Holds(in, d, ss[i + 1])
    <3>1. i = 0 \/ i \in 1 .. n
      BY <2>2
    <3>2. done(i) \in Nat
      BY <1>12, <3>1
    <3>3. Len(ss[i + 1]) \in Nat
      BY <1>12, <2>2
    <3>4. (IF i + 1 = 1 THEN 0 ELSE Len(g[(i + 1) - 1])) = done(i)
      BY <2>2
    <3>5. Len(g[i + 1]) = done(i) + Len(ss[i + 1]) /\ Holds(in, d, ss[i + 1])
      <4> HIDE DEF done
      <4> QED  BY <1>12, <2>2, <3>4
    <3>6. done(i + 1) = Len(g[i + 1])
      BY <2>2
    <3> HIDE DEF done
    <3> QED  BY <1>3, <3>2, <3>3, <3>5, <3>6
  <2> HIDE DEF done, d, U
  <2>6. args[i + 1] \in Seq(A) /\ Len(args[i + 1]) <= RESP_MAX_BULK_LEN
    BY <2>2
  <2>7. ArgRead(parse_bulk(in, d), args[i + 1], d + Len(ss[i + 1]))
    <3>1. ss[i + 1] = BulkFrame(args[i + 1])
      BY <1>2, <2>2
    <3>2. Holds(in, d, BulkFrame(args[i + 1])) /\ d \in Nat \ {0}
      BY <2>5, <3>1
    <3> HIDE DEF A, n, m
    <3>3. in \in Seq(A)
      BY DEF A
    <3>4. ArgRead(parse_bulk(in, d), args[i + 1], d + Len(BulkFrame(args[i + 1])))
      BY <2>6, <3>2, <3>3, BulkReads, Zenon
    <3> QED  BY <3>1, <3>4
  <2>8. SubSeq(args, 1, i + 1) = Append(SubSeq(args, 1, i), args[i + 1])
    BY <2>1, OneMore
  <2>9. d + Len(ss[i + 1]) = (m + 4) + done(i + 1)
    <3> DEFINE k == Len(ss[i + 1])
               e == done(i)
               e2 == done(i + 1)
    <3>1. k \in Nat /\ e \in Nat /\ e2 = e + k /\ m \in Nat /\ d = (m + 4) + e
      BY <1>3, <2>5 DEF d
    <3> HIDE DEF k, e, e2, m, n, A
    <3>2. d + k = (m + 4) + e2
      BY <3>1
    <3> QED  BY <3>2 DEF k, e2
  <2> HIDE DEF n, m
  <2>10. ArgsRead(BulkStep(in, f[i]), Append(SubSeq(args, 1, i), args[i + 1]),
                  d + Len(ss[i + 1]))
    BY <2>4, <2>7, BulkStepIs, Zenon
  <2> QED  BY <2>3, <2>8, <2>9, <2>10
<1>15. n \in U
  <2> HIDE DEF U
  <2> QED  BY <1>1, <1>13, <1>14, NumberInduction
<1>16. ArgsRead(f[n], args, (m + 4) + Len(g[n]))
  <2>1. SubSeq(args, 1, n) = args
    OBVIOUS
  <2>2. n # 0 /\ n <= n
    BY <1>1
  <2> HIDE DEF n
  <2> QED  BY <1>15, <2>1, <2>2
<1>17. Len(ArrayFrame(args)) = (m + 3) + Len(g[n])
  <2>1. FlattenSeq(ss) = g[n]
    BY <1>2, <1>11
  <2>2. Len(ArrayFrame(args)) = Len(ArrayHeader(args)) + Len(FlattenSeq(ss))
    BY <1>4, ConcatLength
  <2> HIDE DEF m, n
  <2> QED  BY <1>4, <2>1, <2>2
<1>18. (m + 4) + Len(g[n]) = Len(ArrayFrame(args)) + 1
  <2> DEFINE k == Len(g[n])
  <2>1. k \in Nat /\ m \in Nat /\ Len(ArrayFrame(args)) = (m + 3) + k
    BY <1>1, <1>3, <1>12, <1>17
  <2> HIDE DEF k, m
  <2>2. (m + 4) + k = ((m + 3) + k) + 1
    BY <2>1
  <2> QED  BY <2>1, <2>2 DEF k
<1> QED  BY <1>6, <1>10, <1>16, <1>18

-----------------------------------------------------------------------------
(* parse_inline(): the end of the line and its words.                       *)

Word(line, i, j) ==
  /\ \A m \in i .. j : line[m] # Blank
  /\ i = 1 \/ line[i - 1] = Blank
  /\ j = Len(line) \/ line[j + 1] = Blank

Spans(line) ==
  {x \in (1 .. Len(line)) \X (1 .. Len(line)) : x[1] <= x[2] /\ Word(line, x[1], x[2])}

Before(line, x) == {y \in Spans(line) : y[1] < x[1]}
Nth(line, n)    == CHOOSE x \in Spans(line) : Cardinality(Before(line, x)) = n - 1

LEMMA WordsIs ==
  ASSUME NEW line
  PROVE  Words(line) = [n \in 1 .. Cardinality(Spans(line)) |->
                          SubSeq(line, Nth(line, n)[1], Nth(line, n)[2])]
BY DEF Words, Spans, Word, Nth, Before

LEMMA SpansFinite ==
  ASSUME NEW S, NEW line \in Seq(S)
  PROVE  /\ IsFiniteSet(Spans(line)) /\ Cardinality(Spans(line)) \in Nat
         /\ \A x : IsFiniteSet(Before(line, x)) /\ Cardinality(Before(line, x)) \in Nat
<1> DEFINE n == Len(line)
           all == (1 .. n) \X (1 .. n)
<1>1. 1 \in Int /\ n \in Int
  OBVIOUS
<1>2. IsFiniteSet(1 .. n)
  BY <1>1, FS_Interval, Zenon
<1>3. IsFiniteSet(all)
  BY <1>2, FS_Product
<1>4. Spans(line) \subseteq all
  BY DEF Spans
<1> HIDE DEF all
<1>5. IsFiniteSet(Spans(line))
  BY <1>3, <1>4, FS_Subset
<1>6. \A x : Before(line, x) \subseteq Spans(line)
  BY DEF Before
<1>7. \A x : IsFiniteSet(Before(line, x))
  BY <1>5, <1>6, FS_Subset
<1> QED  BY <1>5, <1>7, FS_CardinalityType

LEMMA WordsLength ==
  ASSUME NEW S, NEW line \in Seq(S)
  PROVE  Len(Words(line)) \in Nat /\ (Words(line) # <<>> => Len(Words(line)) > 0)
<1> DEFINE k == Cardinality(Spans(line))
<1>1. k \in Nat
  BY SpansFinite
<1> HIDE DEF k
<1>2. Words(line) = [n \in 1 .. k |-> SubSeq(line, Nth(line, n)[1], Nth(line, n)[2])]
  BY WordsIs DEF k
<1>3. Len(Words(line)) = k
  BY <1>1, <1>2
<1>4. k = 0 => Words(line) = <<>>
  BY <1>2
<1> QED  BY <1>1, <1>3, <1>4

Scanned(in)     == IF Len(in) < RESP_MAX_INLINE_LEN THEN Len(in) ELSE RESP_MAX_INLINE_LEN
Newlines(in)    == {i \in 1 .. Scanned(in) : in[i] = LF}
LineEnd(in, nl) == IF nl > 1 /\ in[nl - 1] = CR THEN nl - 2 ELSE nl - 1

LineResult(words, nl) ==
  IF words = <<>> \/ Len(words) > RESP_MAX_ARGC THEN Refuse
  ELSE [st |-> "OK", args |-> words, next |-> nl + 1]

LEMMA InlineIs ==
  ASSUME NEW in
  PROVE  parse_inline(in)
           = IF Newlines(in) = {}
               THEN IF Len(in) >= RESP_MAX_INLINE_LEN THEN Refuse ELSE NeedMore
               ELSE LineResult(Words(SubSeq(in, 1, LineEnd(in, Min(Newlines(in))))),
                               Min(Newlines(in)))
BY DEF parse_inline, Scanned, Newlines, LineEnd, LineResult

Within(in, r) ==
  r.st = "OK" /\ r.next \in 2 .. Len(in) + 1 /\ Len(r.args) \in 1 .. RESP_MAX_ARGC

LEMMA LineEndRange ==
  ASSUME NEW S, NEW in \in Seq(S), NEW nl \in 1 .. Len(in)
  PROVE  LineEnd(in, nl) \in 0 .. nl - 1 /\ SubSeq(in, 1, LineEnd(in, nl)) \in Seq(S)
<1> DEFINE e == LineEnd(in, nl)
           n == Len(in)
<1>1. e \in 0 .. nl - 1 /\ n \in Nat /\ nl \in 1 .. n
  BY DEF LineEnd
<1> HIDE DEF e
<1>2. \A i \in 1 .. e : i \in 1 .. n
  BY <1>1
<1>3. SubSeq(in, 1, e) \in Seq(S)
  BY <1>1, <1>2, SubSeqProperties
<1> QED  BY <1>1, <1>3 DEF e

LEMMA InlineOutcome ==
  ASSUME NEW S, NEW in \in Seq(S)
  PROVE  LET r == parse_inline(in)
         IN r = NeedMore \/ r = Refuse \/ Within(in, r)
<1> DEFINE r == parse_inline(in)
           N == Newlines(in)
           nl == Min(N)
           w == Words(SubSeq(in, 1, LineEnd(in, nl)))
<1>1. r = IF N = {} THEN IF Len(in) >= RESP_MAX_INLINE_LEN THEN Refuse ELSE NeedMore
          ELSE LineResult(w, nl)
  BY InlineIs
<1>2. N \subseteq 1 .. Len(in) /\ Len(in) \in Nat
  BY Framing DEF Newlines, Scanned
<1> HIDE DEF N, r
<1>3. CASE N = {}
  BY <1>1, <1>3 DEF r
<1>4. CASE N # {}
  <2>1. nl \in 1 .. Len(in)
    <3>1. N \in SUBSET Nat
      BY <1>2
    <3>2. Min(N) \in N
      BY <1>4, <3>1, MinIs, Zenon
    <3> QED  BY <1>2, <3>2
  <2> HIDE DEF nl
  <2>2. SubSeq(in, 1, LineEnd(in, nl)) \in Seq(S)
    BY <2>1, LineEndRange
  <2>3. Len(w) \in Nat /\ (w # <<>> => Len(w) > 0)
    BY <2>2, WordsLength
  <2> HIDE DEF w
  <2>4. RESP_MAX_ARGC \in Nat
    BY Framing, Limits
  <2>5. r = LineResult(w, nl)
    BY <1>1, <1>4
  <2>6. nl + 1 \in 2 .. Len(in) + 1
    BY <1>2, <2>1
  <2>7. LineResult(w, nl) = Refuse \/ Within(in, LineResult(w, nl))
    BY <2>3, <2>4, <2>6 DEF LineResult, Within
  <2> QED  BY <2>5, <2>7 DEF r
<1> QED  BY <1>3, <1>4

LEMMA InlineSettled ==
  ASSUME NEW S, NEW in \in Seq(S), NEW more \in Seq(S), Longer(in, more),
         parse_inline(in) # NeedMore
  PROVE  parse_inline(more) = parse_inline(in)
<1> DEFINE m == Len(in)
           n == Len(more)
           max == RESP_MAX_INLINE_LEN
           N1 == Newlines(in)
           N2 == Newlines(more)
<1>1. m \in Nat /\ n \in Nat /\ m <= n /\ \A i \in 1 .. m : more[i] = in[i]
  BY DEF Longer
<1>2. max \in Nat \ {0}
  BY Framing
<1>3. /\ N1 = {i \in 1 .. (IF m < max THEN m ELSE max) : in[i] = LF}
      /\ N2 = {i \in 1 .. (IF n < max THEN n ELSE max) : more[i] = LF}
  BY DEF Newlines, Scanned
<1>4. parse_inline(in)
        = IF N1 = {} THEN IF m >= max THEN Refuse ELSE NeedMore
          ELSE LineResult(Words(SubSeq(in, 1, LineEnd(in, Min(N1)))), Min(N1))
  BY InlineIs
<1>5. parse_inline(more)
        = IF N2 = {} THEN IF n >= max THEN Refuse ELSE NeedMore
          ELSE LineResult(Words(SubSeq(more, 1, LineEnd(more, Min(N2)))), Min(N2))
  BY InlineIs
<1> HIDE DEF N1, N2, m, n, max
<1>6. CASE N1 = {}
  <2>1. m >= max
    BY <1>4, <1>6
  <2>2. n >= max /\ ~(m < max) /\ ~(n < max)
    BY <1>1, <1>2, <2>1
  <2>3. N2 = {}
    BY <1>1, <1>2, <1>3, <1>6, <2>1, <2>2
  <2> QED  BY <1>4, <1>5, <1>6, <2>1, <2>2, <2>3
<1>7. CASE N1 # {}
  <2>1. N1 \in SUBSET Nat /\ N2 \in SUBSET Nat
    BY <1>3
  <2> DEFINE nl == Min(N1)
  <2>2. nl \in N1 /\ \A i \in N1 : nl <= i
    BY <1>7, <2>1, MinIs
  <2> HIDE DEF nl
  <2>3. nl \in 1 .. m /\ nl <= max /\ in[nl] = LF
    BY <1>1, <1>2, <1>3, <2>2
  <2>4. nl \in N2
    BY <1>1, <1>2, <1>3, <2>3
  <2>5. ASSUME NEW i \in N2 PROVE nl <= i
    <3>1. SUFFICES ASSUME i < nl PROVE FALSE
      BY <2>1, <2>3, <2>5
    <3>2. i \in Nat /\ i >= 1 /\ i <= max /\ more[i] = LF
      BY <1>1, <1>2, <1>3, <2>5
    <3>3. i \in 1 .. m /\ i <= m
      BY <1>1, <2>3, <3>1, <3>2
    <3>4. i \in N1
      BY <1>1, <1>2, <1>3, <3>2, <3>3
    <3> QED  BY <2>2, <2>3, <3>1, <3>2, <3>4
  <2>6. Min(N2) = nl
    BY <2>1, <2>4, <2>5, MinWhen
  <2>7. LineEnd(more, nl) = LineEnd(in, nl)
    <3>1. nl > 1 => nl - 1 \in 1 .. m
      BY <1>1, <2>3
    <3> QED  BY <1>1, <3>1 DEF LineEnd
  <2>8. SubSeq(more, 1, LineEnd(in, nl)) = SubSeq(in, 1, LineEnd(in, nl))
    <3>1. LineEnd(in, nl) \in 0 .. nl - 1
      BY <2>3, LineEndRange DEF m
    <3>2. LineEnd(in, nl) \in Int /\ LineEnd(in, nl) <= Len(in) /\ 1 \in Nat \ {0}
      BY <1>1, <2>3, <3>1 DEF m
    <3> QED  BY <3>2, SamePart
  <2> QED  BY <1>4, <1>5, <1>7, <2>4, <2>6, <2>7, <2>8 DEF nl
<1> QED  BY <1>6, <1>7

-----------------------------------------------------------------------------
(* The words of a line that was put together from words.                    *)

(* The first k of args are the words of the line, in this order. *)
Ranked(line, args, k) ==
  /\ Cardinality(Spans(line)) = k
  /\ \A x \in Spans(line) :
       /\ Cardinality(Before(line, x)) \in 0 .. k - 1
       /\ SubSeq(line, x[1], x[2]) = args[Cardinality(Before(line, x)) + 1]
  /\ \A n \in 1 .. k : \E x \in Spans(line) : Cardinality(Before(line, x)) = n - 1

LEMMA RankedWords ==
  ASSUME NEW S, NEW line, NEW args \in Seq(S), Ranked(line, args, Len(args))
  PROVE  Words(line) = args
<1> DEFINE k == Len(args)
<1>1. k \in Nat
  OBVIOUS
<1>2. Words(line) = [n \in 1 .. k |-> SubSeq(line, Nth(line, n)[1], Nth(line, n)[2])]
  BY WordsIs DEF Ranked
<1>3. ASSUME NEW n \in 1 .. k
      PROVE  SubSeq(line, Nth(line, n)[1], Nth(line, n)[2]) = args[n]
  <2> DEFINE x == Nth(line, n)
  <2>1. \E y \in Spans(line) : Cardinality(Before(line, y)) = n - 1
    BY DEF Ranked
  <2>2. x \in Spans(line) /\ Cardinality(Before(line, x)) = n - 1
    BY <2>1 DEF Nth
  <2> HIDE DEF x
  <2>3. SubSeq(line, x[1], x[2]) = args[Cardinality(Before(line, x)) + 1]
    BY <2>2 DEF Ranked
  <2>4. (n - 1) + 1 = n
    BY <1>1
  <2> QED  BY <2>2, <2>3, <2>4 DEF x
<1>4. Words(line) = [n \in 1 .. k |-> args[n]]
  BY <1>2, <1>3
<1> QED  BY <1>4

LEMMA FirstWord ==
  ASSUME NEW S, NEW w \in Seq(S), w # <<>>, \A i \in 1 .. Len(w) : w[i] # Blank,
         NEW args, args[1] = w
  PROVE  Ranked(w, args, 1)
<1> DEFINE q == Len(w)
           z == <<1, q>>
<1>1. q \in Nat \ {0} /\ 1 \in 1 .. q /\ q \in 1 .. q
  OBVIOUS
<1>2. z[1] = 1 /\ z[2] = q /\ z \in (1 .. q) \X (1 .. q)
  BY <1>1
<1> HIDE DEF z
<1>3. z \in Spans(w)
  BY <1>1, <1>2 DEF Spans, Word
<1>4. ASSUME NEW x \in Spans(w) PROVE x = z
  <2>1. /\ x \in (1 .. q) \X (1 .. q) /\ x[1] <= x[2]
        /\ x[1] = 1 \/ w[x[1] - 1] = Blank
        /\ x[2] = q \/ w[x[2] + 1] = Blank
    BY <1>4 DEF Spans, Word
  <2> DEFINE i == x[1]
             j == x[2]
  <2>2. i \in 1 .. q /\ j \in 1 .. q /\ x = <<i, j>>
    BY <2>1
  <2>3. i = 1 \/ w[i - 1] = Blank
    BY <2>1
  <2>4. j = q \/ w[j + 1] = Blank
    BY <2>1
  <2> HIDE DEF i, j, q
  <2>5. i = 1
    <3>1. i # 1 => i - 1 \in 1 .. q
      BY <1>1, <2>2
    <3> QED  BY <2>3, <3>1 DEF q
  <2>6. j = q
    <3>1. j # q => j + 1 \in 1 .. q
      BY <1>1, <2>2
    <3> QED  BY <2>4, <3>1 DEF q
  <2> QED  BY <2>2, <2>5, <2>6 DEF z
<1>5. Spans(w) = {z}
  BY <1>3, <1>4
<1>6. Cardinality(Spans(w)) = 1
  BY <1>5, FS_Singleton
<1>7. Before(w, z) = {}
  BY <1>2, <1>5 DEF Before
<1>8. Cardinality(Before(w, z)) = 0
  BY <1>7, FS_EmptySet
<1>9. SubSeq(w, z[1], z[2]) = w
  BY <1>2
<1>10. \A x \in Spans(w) :
         /\ Cardinality(Before(w, x)) = 0
         /\ SubSeq(w, x[1], x[2]) = args[0 + 1]
  <2>1. 0 + 1 = 1
    OBVIOUS
  <2> QED  BY <1>4, <1>8, <1>9, <2>1, Zenon
<1>11. \A n \in 1 .. 1 : n - 1 = 0
  OBVIOUS
<1>12. 0 \in 0 .. 1 - 1
  OBVIOUS
<1> QED  BY <1>3, <1>6, <1>10, <1>11, <1>12, Zenon DEF Ranked

NextLine(line, w) == line \o (<<Blank>> \o w)
NextSpan(line, w) == <<Len(line) + 2, Len(line) + 1 + Len(w)>>

IsNextLine(S, line, w, u) ==
  /\ u \in Seq(S) /\ Len(u) = Len(line) + 1 + Len(w)
  /\ \A i \in 1 .. Len(line) : u[i] = line[i]
  /\ u[Len(line) + 1] = Blank
  /\ \A i \in 1 .. Len(w) : u[Len(line) + 1 + i] = w[i]

LEMMA NextLineIs ==
  ASSUME NEW S, NEW line \in Seq(S), NEW w \in Seq(S), Blank \in S
  PROVE  IsNextLine(S, line, w, NextLine(line, w))
<1> DEFINE m == Len(line)
           q == Len(w)
           t == <<Blank>> \o w
<1>1. t \in Seq(S) /\ Len(t) = 1 + q /\ t[1] = Blank /\ \A i \in 1 .. q : t[1 + i] = w[i]
  OBVIOUS
<1>2. m \in Nat /\ q \in Nat
  OBVIOUS
<1> HIDE DEF t, q
<1>3. /\ line \o t \in Seq(S) /\ Len(line \o t) = Len(line) + Len(t)
      /\ \A i \in 1 .. Len(line) : (line \o t)[i] = line[i]
      /\ \A i \in 1 .. Len(t) : (line \o t)[Len(line) + i] = t[i]
  BY <1>1
<1>4. /\ line \o t \in Seq(S) /\ Len(line \o t) = m + (1 + q)
      /\ \A i \in 1 .. m : (line \o t)[i] = line[i]
      /\ \A i \in 1 .. 1 + q : (line \o t)[m + i] = t[i]
  BY <1>1, <1>3
<1> HIDE DEF m
<1>5. /\ 1 \in 1 .. 1 + q /\ m + (1 + q) = m + 1 + q
      /\ \A i \in 1 .. q : 1 + i \in 1 .. 1 + q /\ m + (1 + i) = m + 1 + i
  BY <1>2
<1>6. \A i \in 1 .. q : (line \o t)[m + 1 + i] = w[i]
  BY <1>1, <1>4, <1>5
<1> QED  BY <1>1, <1>2, <1>4, <1>5, <1>6 DEF IsNextLine, NextLine, t, m, q

OneWordMore(line, w, u, z) ==
  /\ Spans(u) = Spans(line) \cup {z}
  /\ \A x \in Spans(line) : SubSeq(u, x[1], x[2]) = SubSeq(line, x[1], x[2])
  /\ SubSeq(u, z[1], z[2]) = w
  /\ \A x \in Spans(line) : x[1] \in 1 .. Len(line) /\ x # z

LEMMA NextSpans ==
  ASSUME NEW S, NEW line \in Seq(S), NEW w \in Seq(S), Blank \in S,
         w # <<>>, \A i \in 1 .. Len(w) : w[i] # Blank
  PROVE  OneWordMore(line, w, NextLine(line, w), NextSpan(line, w))
<1> DEFINE u == NextLine(line, w)
           m == Len(line)
           q == Len(w)
           n == m + 1 + q
           z == <<m + 2, n>>
<1>1. /\ m \in Nat /\ q \in Nat \ {0} /\ u \in Seq(S) /\ Len(u) = n
      /\ \A i \in 1 .. m : u[i] = line[i]
      /\ u[m + 1] = Blank
      /\ \A i \in 1 .. q : u[m + 1 + i] = w[i]
  <2>1. m \in Nat /\ q \in Nat \ {0}
    OBVIOUS
  <2>2. IsNextLine(S, line, w, u)
    BY NextLineIs, Zenon
  <2> HIDE DEF u
  <2> QED  BY <2>1, <2>2 DEF IsNextLine
<1> HIDE DEF u
<1>2. \A i \in m + 2 .. n : u[i] # Blank
  <2> SUFFICES ASSUME NEW i \in m + 2 .. n PROVE u[i] # Blank
    OBVIOUS
  <2> DEFINE j == i - (m + 1)
  <2>1. j \in 1 .. q /\ m + 1 + j = i
    BY <1>1
  <2> HIDE DEF j
  <2>2. u[m + 1 + j] = w[j] /\ w[j] # Blank
    BY <1>1, <2>1
  <2> QED  BY <2>1, <2>2
<1> HIDE DEF m, q
<1>3. ASSUME NEW x \in Spans(line) PROVE x \in Spans(u)
  <2> DEFINE i == x[1]
             j == x[2]
  <2>1. /\ x \in (1 .. m) \X (1 .. m) /\ i <= j
        /\ \A k \in i .. j : line[k] # Blank
        /\ i = 1 \/ line[i - 1] = Blank
        /\ j = m \/ line[j + 1] = Blank
    BY <1>3 DEF Spans, Word, m
  <2>2. i \in 1 .. m /\ j \in 1 .. m
    BY <2>1
  <2> HIDE DEF i, j
  <2>3. \A k \in i .. j : u[k] # Blank
    <3>1. \A k \in i .. j : k \in 1 .. m
      BY <1>1, <2>2
    <3> QED  BY <1>1, <2>1, <3>1
  <2>4. i = 1 \/ u[i - 1] = Blank
    <3>1. i = 1 \/ i - 1 \in 1 .. m
      BY <1>1, <2>2
    <3> QED  BY <1>1, <2>1, <3>1
  <2>5. u[j + 1] = Blank
    <3>1. j = m \/ j + 1 \in 1 .. m
      BY <1>1, <2>2
    <3> QED  BY <1>1, <2>1, <3>1
  <2>6. x \in (1 .. n) \X (1 .. n)
    <3>1. \A k \in 1 .. m : k \in 1 .. n
      BY <1>1
    <3> QED  BY <2>1, <3>1
  <2> HIDE DEF n
  <2> QED  BY <1>1, <2>1, <2>3, <2>4, <2>5, <2>6 DEF Spans, Word, i, j
<1>4. z \in Spans(u)
  <2>1. z[1] = m + 2 /\ z[2] = n
    OBVIOUS
  <2>2. z \in (1 .. n) \X (1 .. n) /\ m + 2 <= n /\ (m + 2) - 1 = m + 1
    BY <1>1
  <2> HIDE DEF z, n
  <2> QED  BY <1>1, <1>2, <2>1, <2>2 DEF Spans, Word
<1>5. ASSUME NEW x \in Spans(u) PROVE x \in Spans(line) \/ x = z
  <2> DEFINE i == x[1]
             j == x[2]
  <2>1. /\ x \in (1 .. n) \X (1 .. n) /\ i <= j
        /\ \A k \in i .. j : u[k] # Blank
        /\ i = 1 \/ u[i - 1] = Blank
        /\ j = n \/ u[j + 1] = Blank
    BY <1>1, <1>5 DEF Spans, Word
  <2>2. i \in 1 .. n /\ j \in 1 .. n /\ x = <<i, j>>
    BY <2>1
  <2> HIDE DEF i, j
  <2>3. ~(i <= m + 1 /\ m + 1 <= j)
    <3>1. i <= m + 1 /\ m + 1 <= j => m + 1 \in i .. j
      BY <1>1, <2>2
    <3> QED  BY <1>1, <2>1, <3>1
  <2>4. CASE j <= m
    <3>1. /\ i \in 1 .. m /\ j \in 1 .. m
          /\ \A k \in i .. j : k \in 1 .. m
          /\ i # 1 => i - 1 \in 1 .. m
          /\ j # m => j + 1 \in 1 .. m
          /\ j # n
      <4>1. m \in Nat /\ i \in Nat \ {0} /\ j \in Nat /\ i <= j /\ j <= m /\ m < n
        BY <1>1, <2>1, <2>2, <2>4
      <4> HIDE DEF n
      <4> QED  BY <4>1
    <3>2. /\ \A k \in i .. j : line[k] # Blank
          /\ i = 1 \/ line[i - 1] = Blank
          /\ j = m \/ line[j + 1] = Blank
      BY <1>1, <2>1, <3>1
    <3>3. x \in (1 .. m) \X (1 .. m)
      BY <2>2, <3>1
    <3> QED  BY <2>1, <3>2, <3>3 DEF Spans, Word, i, j, m
  <2>5. CASE j > m
    <3>1. i >= m + 2
      BY <1>1, <2>2, <2>3, <2>5
    <3>2. i = m + 2
      <4>1. i # m + 2 => i # 1 /\ i - 1 \in m + 2 .. n
        BY <1>1, <2>2, <3>1
      <4> QED  BY <1>2, <2>1, <4>1
    <3>3. j = n
      <4>1. j # n => j + 1 \in m + 2 .. n
        BY <1>1, <2>1, <2>2, <3>1
      <4> QED  BY <1>2, <2>1, <4>1
    <3> QED  BY <2>2, <3>2, <3>3
  <2> QED  BY <1>1, <2>2, <2>4, <2>5
<1>6. Spans(u) = Spans(line) \cup {z}
  <2> HIDE DEF z
  <2> QED  BY <1>3, <1>4, <1>5
<1>7. ASSUME NEW x \in Spans(line)
      PROVE  /\ x[1] \in 1 .. m /\ x # z
             /\ SubSeq(u, x[1], x[2]) = SubSeq(line, x[1], x[2])
  <2> DEFINE i == x[1]
             j == x[2]
  <2>1. x \in (1 .. m) \X (1 .. m)
    BY <1>7 DEF Spans, m
  <2>2. i \in 1 .. m /\ j \in 1 .. m
    BY <2>1
  <2>3. x # z
    <3>1. m + 2 \notin 1 .. m
      BY <1>1
    <3> QED  BY <2>2, <3>1
  <2> HIDE DEF i, j, z
  <2>4. Longer(line, u)
    <3>1. m <= n
      BY <1>1
    <3> QED  BY <1>1, <3>1 DEF Longer, m
  <2>5. i \in Nat \ {0} /\ j \in Int /\ j <= Len(line)
    BY <1>1, <2>2 DEF m
  <2>6. SubSeq(u, i, j) = SubSeq(line, i, j)
    <3>1. line \in Seq(S) /\ u \in Seq(S)
      BY <1>1
    <3>2. \A a \in Nat \ {0} : \A b \in Int :
             b <= Len(line) => SubSeq(u, a, b) = SubSeq(line, a, b)
      BY <2>4, <3>1, SamePart
    <3> QED  BY <2>5, <3>2
  <2> QED  BY <2>2, <2>3, <2>6 DEF i, j
<1>8. SubSeq(u, z[1], z[2]) = w
  <2>1. Holds(u, m + 2, w)
    <3>1. (m + 2) + q - 1 <= n
      BY <1>1
    <3>2. ASSUME NEW i \in 1 .. q PROVE u[(m + 2) + i - 1] = w[i]
      <4>1. (m + 2) + i - 1 = m + 1 + i
        BY <1>1
      <4> QED  BY <1>1, <4>1
    <3> QED  BY <1>1, <3>1, <3>2 DEF Holds, q
  <2>2. m + 2 \in Nat \ {0} /\ (m + 2) + q - 1 = n
    BY <1>1
  <2>3. SubSeq(u, m + 2, (m + 2) + Len(w) - 1) = w
    BY <1>1, <2>1, <2>2, HeldPart
  <2> QED  BY <2>2, <2>3 DEF q
<1> QED  BY <1>1, <1>6, <1>7, <1>8 DEF u, m, q, NextSpan, OneWordMore

LEMMA NextWord ==
  ASSUME NEW S, NEW line \in Seq(S), NEW w \in Seq(S), Blank \in S,
         w # <<>>, \A i \in 1 .. Len(w) : w[i] # Blank,
         NEW k \in Nat, NEW args, args[k + 1] = w, Ranked(line, args, k)
  PROVE  Ranked(NextLine(line, w), args, k + 1)
<1> DEFINE u == NextLine(line, w)
           m == Len(line)
           z == NextSpan(line, w)
<1>0. OneWordMore(line, w, u, z)
  BY NextSpans, Zenon
<1>1. /\ Spans(u) = Spans(line) \cup {z}
      /\ \A x \in Spans(line) : SubSeq(u, x[1], x[2]) = SubSeq(line, x[1], x[2])
      /\ SubSeq(u, z[1], z[2]) = w
      /\ \A x \in Spans(line) : x[1] \in 1 .. m /\ x # z
  BY <1>0 DEF OneWordMore
<1>2. m \in Nat /\ z[1] = m + 2
  BY DEF NextSpan
<1> HIDE DEF u, m, z
<1>3. IsFiniteSet(Spans(line)) /\ z \notin Spans(line)
  BY <1>1, SpansFinite
<1>4. Cardinality(Spans(line)) = k
  BY DEF Ranked
<1>5. Cardinality(Spans(u)) = k + 1
  BY <1>1, <1>3, <1>4, FS_AddElement
<1>6. ASSUME NEW x \in Spans(line) PROVE Before(u, x) = Before(line, x)
  <2>1. ~(z[1] < x[1])
    BY <1>1, <1>2
  <2> QED  BY <1>1, <2>1 DEF Before
<1>7. Before(u, z) = Spans(line)
  <2>1. ~(z[1] < z[1])
    BY <1>2
  <2>2. \A x \in Spans(line) : x[1] < z[1]
    BY <1>1, <1>2
  <2> QED  BY <1>1, <2>1, <2>2 DEF Before
<1> DEFINE c(x) == Cardinality(Before(u, x))
<1>8. \A x \in Spans(line) :
        c(x) \in 0 .. k - 1 /\ SubSeq(line, x[1], x[2]) = args[c(x) + 1]
  BY <1>6 DEF Ranked
<1>9. \A n \in 1 .. k : \E x \in Spans(line) : c(x) = n - 1
  BY <1>6 DEF Ranked
<1>10. c(z) = k
  BY <1>4, <1>7
<1> HIDE DEF c
<1>11. ASSUME NEW x \in Spans(u)
       PROVE  c(x) \in 0 .. (k + 1) - 1 /\ SubSeq(u, x[1], x[2]) = args[c(x) + 1]
  <2>1. CASE x \in Spans(line)
    <3>1. c(x) \in 0 .. (k + 1) - 1
      BY <1>8, <2>1
    <3> QED  BY <1>1, <1>8, <2>1, <3>1
  <2>2. CASE x = z
    <3>1. k \in 0 .. (k + 1) - 1
      OBVIOUS
    <3> QED  BY <1>1, <1>10, <2>2, <3>1
  <2> QED  BY <1>1, <2>1, <2>2
<1>12. ASSUME NEW n \in 1 .. k + 1 PROVE \E x \in Spans(u) : c(x) = n - 1
  <2>1. CASE n = k + 1
    <3>1. k = n - 1
      BY <2>1
    <3> QED  BY <1>1, <1>10, <3>1
  <2>2. CASE n # k + 1
    <3>1. n \in 1 .. k
      BY <2>2
    <3> QED  BY <1>1, <1>9, <3>1
  <2> QED  BY <2>1, <2>2
<1>13. Ranked(u, args, k + 1)
  BY <1>5, <1>11, <1>12, Zenon DEF Ranked, c
<1> QED  BY <1>13 DEF u

LineParts(args) ==
  [i \in DOMAIN args |-> IF i = 1 THEN args[i] ELSE <<Blank>> \o args[i]]

LEMMA LinePartsType ==
  ASSUME NEW args \in Seq(Seq(Alphabet))
  PROVE  /\ LineParts(args) \in Seq(Seq(Alphabet)) /\ Len(LineParts(args)) = Len(args)
         /\ \A i \in 1 .. Len(args) :
              LineParts(args)[i] = IF i = 1 THEN args[i] ELSE <<Blank>> \o args[i]
<1> DEFINE S == Seq(Alphabet)
           n == Len(args)
           part(i) == IF i = 1 THEN args[i] ELSE <<Blank>> \o args[i]
<1>1. n \in Nat /\ DOMAIN args = 1 .. n /\ \A i \in 1 .. n : args[i] \in S
  OBVIOUS
<1>2. \A i \in 1 .. n : part(i) \in S
  BY <1>1, AlphabetHas, ConcatLength
<1> HIDE DEF S, n, part
<1>3. LineParts(args) = [i \in 1 .. n |-> part(i)]
  BY <1>1 DEF LineParts, part
<1>4. LineParts(args) \in [1 .. n -> S]
  BY <1>2, <1>3
<1>5. \A i \in 1 .. n : LineParts(args)[i] = part(i)
  BY <1>3
<1>6. LineParts(args) \in Seq(S) /\ Len(LineParts(args)) = n
  <2> DEFINE p == LineParts(args)
  <2> HIDE DEF p
  <2> QED  BY <1>1, <1>4 DEF p
<1> QED  BY <1>5, <1>6 DEF S, n, part

(* A line that holds the first k of args and ends nowhere before its end. *)
IsLine(line, args, k) ==
  /\ line \in Seq(Alphabet) /\ line # <<>> /\ line[1] = args[1][1]
  /\ \A i \in 1 .. Len(line) : line[i] # CR /\ line[i] # LF
  /\ Ranked(line, args, k)

LEMMA LongerLine ==
  ASSUME NEW args, NEW line, NEW k \in Nat, IsLine(line, args, k),
         NEW w \in Seq(Alphabet), w = args[k + 1], Typeable(w)
  PROVE  IsLine(NextLine(line, w), args, k + 1)
<1> DEFINE A == Alphabet
           m == Len(line)
           q == Len(w)
           u == NextLine(line, w)
<1>1. line \in Seq(A) /\ line # <<>> /\ Blank \in A /\ w \in Seq(A) /\ w # <<>>
  BY AlphabetHas DEF IsLine, Typeable
<1> HIDE DEF A
<1>2. \A i \in 1 .. q : w[i] # Blank /\ w[i] # CR /\ w[i] # LF
  BY <1>1 DEF Typeable
<1>3. Ranked(u, args, k + 1)
  BY <1>1, <1>2, NextWord DEF IsLine
<1>4. /\ u \in Seq(A) /\ Len(u) = m + 1 + q /\ m \in Nat \ {0} /\ q \in Nat
      /\ \A i \in 1 .. m : u[i] = line[i]
      /\ u[m + 1] = Blank
      /\ \A i \in 1 .. q : u[m + 1 + i] = w[i]
  <2>1. m \in Nat \ {0} /\ q \in Nat
    BY <1>1
  <2>2. IsNextLine(A, line, w, u)
    BY <1>1, NextLineIs, Zenon
  <2> HIDE DEF u
  <2> QED  BY <2>1, <2>2 DEF IsNextLine
<1> HIDE DEF u, m, q
<1>5. ASSUME NEW i \in 1 .. m + 1 + q PROVE u[i] # CR /\ u[i] # LF
  <2>1. CASE i <= m
    <3>1. i \in 1 .. m
      BY <1>4, <2>1
    <3> QED  BY <1>4, <3>1 DEF IsLine, m
  <2>2. CASE i = m + 1
    BY <1>4, <2>2, Framing
  <2>3. CASE i > m + 1
    <3> DEFINE j == i - (m + 1)
    <3>1. j \in 1 .. q /\ m + 1 + j = i
      BY <1>4, <2>3
    <3> HIDE DEF j
    <3>2. u[m + 1 + j] = w[j] /\ w[j] # CR /\ w[j] # LF
      BY <1>2, <1>4, <3>1
    <3> QED  BY <3>1, <3>2
  <2> QED  BY <1>4, <2>1, <2>2, <2>3
<1>6. u[1] = args[1][1] /\ u # <<>>
  <2>1. 1 \in 1 .. m /\ m + 1 + q > 0
    BY <1>4
  <2>2. u # <<>>
    <3>1. Len(u) # 0
      BY <1>4, <2>1
    <3> QED  BY <3>1
  <2> QED  BY <1>4, <2>1, <2>2 DEF IsLine
<1>7. IsLine(u, args, k + 1)
  BY <1>3, <1>4, <1>5, <1>6 DEF IsLine, A
<1> QED  BY <1>7 DEF u

LEMMA LineIs ==
  ASSUME NEW args \in Seq(Seq(Alphabet)), args # <<>>,
         \A i \in DOMAIN args : Typeable(args[i])
  PROVE  IsLine(FlattenSeq(LineParts(args)), args, Len(args))
<1> DEFINE A == Alphabet
           n == Len(args)
           ss == LineParts(args)
<1>1. /\ n \in Nat \ {0} /\ DOMAIN args = 1 .. n
      /\ \A i \in 1 .. n : args[i] \in Seq(A) /\ Typeable(args[i])
  OBVIOUS
<1>2. /\ ss \in Seq(Seq(A)) /\ Len(ss) = n
      /\ \A i \in 1 .. n : ss[i] = IF i = 1 THEN args[i] ELSE <<Blank>> \o args[i]
  BY LinePartsType
<1> HIDE DEF A, n, ss
<1>3. PICK f : Concats(f, ss, n) /\ FlattenSeq(ss) = f[n]
  BY <1>1, <1>2, FlattenIsConcats
<1>4. \A i \in 1 .. n : f[i] = IF i = 1 THEN ss[i] ELSE f[i - 1] \o ss[i]
  <2>1. \A i \in 1 .. n : f[i] = Step(f, ss, i)
    BY <1>3 DEF Concats
  <2> QED  BY <2>1, Zenon DEF Step, Joined
<1> DEFINE U == {i \in Nat : i + 1 <= n => IsLine(f[i + 1], args, i + 1)}
<1>5. 0 \in U
  <2>1. 1 \in 1 .. n /\ 0 + 1 = 1
    BY <1>1
  <2> DEFINE w == args[1]
  <2>2. f[1] = w /\ w \in Seq(A) /\ Typeable(w)
    BY <1>1, <1>2, <1>4, <2>1, Zenon
  <2> HIDE DEF w
  <2>3. w # <<>> /\ \A i \in 1 .. Len(w) : w[i] # Blank /\ w[i] # CR /\ w[i] # LF
    BY <2>2 DEF Typeable
  <2>4. Ranked(w, args, 1)
    BY <2>2, <2>3, FirstWord DEF w
  <2>5. IsLine(w, args, 1)
    BY <2>2, <2>3, <2>4 DEF IsLine, A, w
  <2> QED  BY <2>1, <2>2, <2>5
<1>6. ASSUME NEW i \in Nat, i \in U PROVE i + 1 \in U
  <2> DEFINE k == i + 1
             w == args[k + 1]
  <2>1. k \in Nat \ {0}
    OBVIOUS
  <2>2. SUFFICES ASSUME k + 1 <= n PROVE IsLine(f[k + 1], args, k + 1)
    BY <2>1
  <2>3. k \in 1 .. n /\ k + 1 \in 1 .. n /\ k + 1 # 1 /\ (k + 1) - 1 = k /\ k <= n
    BY <1>1, <2>1, <2>2
  <2>4. IsLine(f[k], args, k)
    BY <1>6, <2>3
  <2> HIDE DEF k, w
  <2>5. f[k + 1] = NextLine(f[k], w)
    <3>1. f[k + 1] = f[k] \o ss[k + 1] /\ ss[k + 1] = <<Blank>> \o args[k + 1]
      BY <1>2, <1>4, <2>3, Zenon
    <3> QED  BY <3>1 DEF NextLine, w
  <2>6. w \in Seq(A) /\ Typeable(w)
    BY <1>1, <2>3 DEF w
  <2>7. IsLine(NextLine(f[k], w), args, k + 1)
    BY <2>1, <2>4, <2>6, LongerLine DEF A, w
  <2> QED  BY <2>5, <2>7
<1>7. n - 1 \in U
  <2> HIDE DEF U
  <2>1. n - 1 \in Nat
    BY <1>1
  <2> QED  BY <1>5, <1>6, <2>1, NumberInduction
<1>8. IsLine(f[n], args, n)
  <2>1. (n - 1) + 1 = n /\ n <= n /\ n - 1 \in Nat
    BY <1>1
  <2> QED  BY <1>7, <2>1
<1> QED  BY <1>3, <1>8 DEF n, ss

LEMMA LineFrameType ==
  ASSUME NEW args \in Seq(Seq(Alphabet)), NEW end \in {<<LF>>, Crlf}
  PROVE  /\ LineFrame(args, end) = FlattenSeq(LineParts(args)) \o end
         /\ LineFrame(args, end) \in Seq(Alphabet)
<1>1. LineFrame(args, end) = FlattenSeq(LineParts(args)) \o end
  BY DEF LineFrame, LineParts
<1>2. FlattenSeq(LineParts(args)) \in Seq(Alphabet)
  BY LinePartsType, AlphabetHas, FlattenAppend
<1>3. end \in Seq(Alphabet)
  BY AlphabetHas
<1> QED  BY <1>1, <1>2, <1>3, ConcatLength

(* A line within the limit is read as it was written. *)
LEMMA InlineReads ==
  ASSUME NEW in \in Seq(Alphabet), NEW args \in Seq(Seq(Alphabet)),
         Len(args) \in 1 .. RESP_MAX_ARGC, \A i \in DOMAIN args : Typeable(args[i]),
         NEW end \in {<<LF>>, Crlf}, Len(LineFrame(args, end)) <= RESP_MAX_INLINE_LEN,
         Holds(in, 1, LineFrame(args, end))
  PROVE  /\ in[1] = args[1][1] /\ Len(in) > 0
         /\ ArgsRead(parse_inline(in), args, Len(LineFrame(args, end)) + 1)
<1> DEFINE A == Alphabet
           line == FlattenSeq(LineParts(args))
           m == Len(line)
           e == Len(end)
           n == Len(in)
           max == RESP_MAX_INLINE_LEN
           N == Newlines(in)
<1>1. RESP_MAX_ARGC \in Nat /\ max \in Nat /\ CR # LF /\ args # <<>>
  BY Framing, Limits
<1>2. IsLine(line, args, Len(args))
  BY <1>1, LineIs
<1>3. LineFrame(args, end) = line \o end
  BY LineFrameType
<1> HIDE DEF line
<1>4. /\ line \in Seq(A) /\ line # <<>> /\ line[1] = args[1][1]
      /\ \A i \in 1 .. m : line[i] # CR /\ line[i] # LF
      /\ Ranked(line, args, Len(args))
  BY <1>2 DEF IsLine
<1>5. /\ end \in Seq(A) /\ e \in {1, 2} /\ end[e] = LF
      /\ e = 2 => end[1] = CR
  <2>0. end \in Seq(A)
    BY AlphabetHas
  <2> HIDE DEF A
  <2>1. CASE end = <<LF>>
    BY <2>0, <2>1
  <2>2. CASE end = Crlf
    BY <2>0, <2>2 DEF Crlf
  <2> QED  BY <2>1, <2>2
<1>6. m \in Nat \ {0} /\ n \in Nat
  BY <1>4
<1> HIDE DEF A
<1>7. Len(LineFrame(args, end)) = m + e
  BY <1>3, <1>4, <1>5, ConcatLength
<1>8. Holds(in, 1, line) /\ Holds(in, 1 + m, end)
  <2>1. in \in Seq(A)
    BY DEF A
  <2> QED  BY <1>3, <1>4, <1>5, <2>1, HoldsConcat
<1> HIDE DEF m, e, n, N, max
<1>9. /\ \A i \in 1 .. m : in[i] = line[i]
      /\ m + e <= n /\ \A i \in 1 .. e : in[m + i] = end[i]
  <2>1. \A i \in 1 .. m : in[1 + i - 1] = line[i]
    BY <1>8 DEF Holds, m
  <2>2. (1 + m) + e - 1 <= n /\ \A i \in 1 .. e : in[(1 + m) + i - 1] = end[i]
    BY <1>8 DEF Holds, e, n
  <2>3. \A i \in 1 .. m : 1 + i - 1 = i
    BY <1>6
  <2>4. \A i \in 1 .. e : (1 + m) + i - 1 = m + i
    BY <1>5, <1>6
  <2>5. (1 + m) + e - 1 = m + e
    BY <1>5, <1>6
  <2> QED  BY <2>1, <2>2, <2>3, <2>4, <2>5
<1> DEFINE nl == m + e
<1>10. nl \in 1 .. n /\ nl <= max /\ in[nl] = LF
  <2>1. e \in 1 .. e
    BY <1>5
  <2> QED  BY <1>5, <1>6, <1>7, <1>9, <2>1 DEF max
<1>11. \A i \in 1 .. nl - 1 : in[i] # LF
  <2> SUFFICES ASSUME NEW i \in 1 .. nl - 1 PROVE in[i] # LF
    OBVIOUS
  <2>1. CASE i <= m
    <3>1. i \in 1 .. m
      BY <1>6, <2>1
    <3> QED  BY <1>4, <1>9, <3>1
  <2>2. CASE i > m
    <3>1. e = 2 /\ i = m + 1 /\ 1 \in 1 .. e
      BY <1>5, <1>6, <2>2
    <3> QED  BY <1>1, <1>5, <1>9, <3>1
  <2> QED  BY <1>6, <2>1, <2>2
<1>12. LineEnd(in, nl) = m
  <2>1. CASE e = 1
    <3>1. nl > 1 /\ nl - 1 = m /\ m \in 1 .. m
      BY <1>6, <2>1
    <3>2. in[m] # CR
      BY <1>4, <1>9, <3>1
    <3> QED  BY <3>1, <3>2 DEF LineEnd
  <2>2. CASE e = 2
    <3>1. nl > 1 /\ nl - 1 = m + 1 /\ nl - 2 = m /\ 1 \in 1 .. e
      BY <1>6, <2>2
    <3>2. in[m + 1] = CR
      BY <1>5, <1>9, <2>2, <3>1
    <3> QED  BY <3>1, <3>2 DEF LineEnd
  <2> QED  BY <1>5, <2>1, <2>2
<1> HIDE DEF nl
<1>13. N = {i \in 1 .. (IF n < max THEN n ELSE max) : in[i] = LF}
  BY DEF N, Newlines, Scanned, n, max
<1>14. N \in SUBSET Nat /\ nl \in N /\ \A i \in N : nl <= i
  <2>1. N \in SUBSET Nat /\ nl \in N
    BY <1>1, <1>6, <1>10, <1>13
  <2>2. ASSUME NEW i \in N PROVE nl <= i
    <3>1. SUFFICES ASSUME i < nl PROVE FALSE
      BY <1>10, <2>1, <2>2
    <3>2. i \in 1 .. nl - 1 /\ in[i] = LF
      BY <1>10, <1>13, <2>1, <2>2, <3>1
    <3> QED  BY <1>11, <3>2
  <2> QED  BY <2>1, <2>2
<1>15. Min(N) = nl
  BY <1>14, MinWhen
<1>16. SubSeq(in, 1, m) = line
  <2>1. SubSeq(in, 1, 1 + Len(line) - 1) = line
    <3>1. in \in Seq(A) /\ 1 \in Nat \ {0}
      BY DEF A
    <3> QED  BY <1>4, <1>8, <3>1, HeldPart
  <2>2. 1 + m - 1 = m
    BY <1>6
  <2> QED  BY <2>1, <2>2 DEF m
<1>17. Words(line) = args
  BY <1>4, RankedWords
<1>18. parse_inline(in) = LineResult(args, nl)
  BY <1>12, <1>14, <1>15, <1>16, <1>17, InlineIs DEF N
<1>19. LineResult(args, nl) = [st |-> "OK", args |-> args, next |-> nl + 1]
  BY <1>1 DEF LineResult
<1>20. ArgsRead(parse_inline(in), args, nl + 1)
  BY <1>18, <1>19 DEF ArgsRead
<1>21. in[1] = args[1][1] /\ n > 0
  <2>1. 1 \in 1 .. m
    BY <1>6
  <2> QED  BY <1>4, <1>6, <1>9, <1>10, <2>1
<1> QED  BY <1>7, <1>20, <1>21 DEF nl, n

-----------------------------------------------------------------------------
(* resp_parse_request().                                                   *)

LEMMA ParseIs ==
  ASSUME NEW in
  PROVE  resp_parse_request(in) = IF in = <<>> THEN NeedMore
                                  ELSE IF in[1] = Star THEN parse_multi_bulk(in)
                                  ELSE parse_inline(in)
BY DEF resp_parse_request

LEMMA ParseOutcome ==
  ASSUME NEW S, NEW in \in Seq(S)
  PROVE  LET r == resp_parse_request(in)
         IN r = NeedMore \/ r = Refuse \/ (in # <<>> /\ Within(in, r))
<1> DEFINE r == resp_parse_request(in)
<1>1. CASE in = <<>>
  BY <1>1, ParseIs
<1>2. CASE in # <<>> /\ in[1] = Star
  <2>1. r = parse_multi_bulk(in)
    BY <1>2, ParseIs
  <2>2. r = NeedMore \/ r = Refuse \/ IsRequest(S, in, r)
    BY <1>2, <2>1, MultiOutcome
  <2> HIDE DEF r
  <2>3. IsRequest(S, in, r) => Within(in, r)
    BY DEF IsRequest, IsArgs, Within
  <2> QED  BY <1>2, <2>2, <2>3 DEF r
<1>3. CASE in # <<>> /\ in[1] # Star
  <2>1. r = parse_inline(in)
    BY <1>3, ParseIs
  <2> QED  BY <1>3, <2>1, InlineOutcome
<1> QED  BY <1>1, <1>2, <1>3

(* What the parser found it finds whatever bytes come behind. *)
THEOREM ParseSettled ==
  ASSUME NEW S, NEW in \in Seq(S), NEW more \in Seq(S), Longer(in, more),
         resp_parse_request(in) # NeedMore
  PROVE  resp_parse_request(more) = resp_parse_request(in)
<1>1. in # <<>>
  BY ParseIs
<1>2. more # <<>> /\ more[1] = in[1]
  <2>1. 1 \in 1 .. Len(in) /\ Len(in) \in Nat /\ Len(more) \in Nat
    BY <1>1
  <2>2. Len(more) # 0
    BY <2>1 DEF Longer
  <2> QED  BY <2>1, <2>2 DEF Longer
<1>3. CASE in[1] = Star
  <2>1. parse_multi_bulk(in) # NeedMore
    BY <1>1, <1>3, ParseIs
  <2>2. parse_multi_bulk(more) = parse_multi_bulk(in)
    BY <1>1, <2>1, MultiSettled
  <2> QED  BY <1>1, <1>2, <1>3, <2>2, ParseIs
<1>4. CASE in[1] # Star
  <2>1. parse_inline(in) # NeedMore
    BY <1>1, <1>4, ParseIs
  <2>2. parse_inline(more) = parse_inline(in)
    BY <2>1, InlineSettled
  <2> QED  BY <1>1, <1>2, <1>4, <2>2, ParseIs
<1> QED  BY <1>3, <1>4

(* A vector of arguments a client may send. *)
Sendable(args) ==
  /\ args \in Seq(Seq(Alphabet)) /\ Len(args) \in 1 .. RESP_MAX_ARGC
  /\ \A i \in 1 .. Len(args) : Len(args[i]) <= RESP_MAX_BULK_LEN

LEMMA FramesType ==
  ASSUME NEW args, Sendable(args), NEW f \in Frames(args)
  PROVE  f \in Seq(Alphabet) /\ f # <<>>
<1>1. args \in Seq(Seq(Alphabet)) /\ args # <<>>
  BY DEF Sendable
<1>2. CASE f = ArrayFrame(args)
  <2>1. /\ ArrayHeader(args) \in Seq(Alphabet) /\ FlattenSeq(BulkFrames(args)) \in Seq(Alphabet)
        /\ Len(ArrayHeader(args)) = Len(Format(Len(args))) + 3
        /\ Len(Format(Len(args))) \in Nat
        /\ f = ArrayHeader(args) \o FlattenSeq(BulkFrames(args)) /\ f \in Seq(Alphabet)
    BY <1>1, <1>2, ArrayFrameIs
  <2>2. Len(f) = Len(ArrayHeader(args)) + Len(FlattenSeq(BulkFrames(args)))
    BY <2>1, ConcatLength
  <2> DEFINE k == Len(FlattenSeq(BulkFrames(args)))
             h == Len(Format(Len(args)))
  <2>3. k \in Nat /\ h \in Nat /\ Len(f) = (h + 3) + k
    BY <2>1, <2>2
  <2> HIDE DEF k, h
  <2>4. Len(f) # 0
    BY <2>3
  <2> QED  BY <2>1, <2>4
<1>3. CASE f # ArrayFrame(args)
  <2>1. PICK end \in {<<LF>>, Crlf} : f = LineFrame(args, end)
    BY <1>3 DEF Frames
  <2>2. f = FlattenSeq(LineParts(args)) \o end /\ f \in Seq(Alphabet)
    BY <1>1, <2>1, LineFrameType
  <2>3. FlattenSeq(LineParts(args)) \in Seq(Alphabet)
    BY <1>1, LinePartsType, FlattenAppend, AlphabetHas
  <2>4. end \in Seq(Alphabet) /\ Len(end) > 0
    <3>1. CASE end = <<LF>>
      BY <3>1, AlphabetHas
    <3>2. CASE end = Crlf
      <4>1. Len(Crlf) = 2
        BY DEF Crlf
      <4> QED  BY <3>2, <4>1, AlphabetHas
    <3> QED  BY <3>1, <3>2
  <2>5. Len(f) = Len(FlattenSeq(LineParts(args))) + Len(end)
    BY <2>2, <2>3, <2>4, ConcatLength
  <2> DEFINE k == Len(FlattenSeq(LineParts(args)))
  <2>6. k \in Nat /\ Len(f) = k + Len(end)
    BY <2>3, <2>5
  <2> HIDE DEF k
  <2>7. Len(f) # 0
    BY <2>4, <2>6
  <2> QED  BY <2>2, <2>7
<1> QED  BY <1>2, <1>3

(* However a request is written, the parser finds it and takes its bytes and
   no more, whatever comes behind. *)
THEOREM RoundTrip ==
  ASSUME NEW args, Sendable(args), NEW f \in Frames(args),
         NEW in \in Seq(Alphabet), Holds(in, 1, f)
  PROVE  ArgsRead(resp_parse_request(in), args, Len(f) + 1)
<1>1. /\ args \in Seq(Seq(Alphabet)) /\ Len(args) \in 1 .. RESP_MAX_ARGC
      /\ \A i \in 1 .. Len(args) : Len(args[i]) <= RESP_MAX_BULK_LEN
  BY DEF Sendable
<1>2. f \in Seq(Alphabet) /\ f # <<>>
  BY FramesType
<1>3. in # <<>>
  <2>1. Len(f) \in Nat \ {0}
    BY <1>2
  <2>2. Len(in) # 0
    BY <2>1 DEF Holds
  <2> QED  BY <2>2
<1>4. CASE f = ArrayFrame(args)
  <2>1. in[1] = Star /\ ArgsRead(parse_multi_bulk(in), args, Len(f) + 1)
    BY <1>1, <1>4, MultiReads
  <2>2. resp_parse_request(in) = parse_multi_bulk(in)
    BY <1>3, <2>1, ParseIs
  <2> QED  BY <2>1, <2>2
<1>5. CASE f # ArrayFrame(args)
  <2>1. PICK end \in {<<LF>>, Crlf} :
          /\ f = LineFrame(args, end)
          /\ \A i \in DOMAIN args : Typeable(args[i])
          /\ args[1][1] # Star /\ Len(f) <= RESP_MAX_INLINE_LEN
    BY <1>5 DEF Frames
  <2>2. in[1] = args[1][1] /\ ArgsRead(parse_inline(in), args, Len(f) + 1)
    BY <1>1, <2>1, InlineReads
  <2>3. resp_parse_request(in) = parse_inline(in)
    BY <1>3, <2>1, <2>2, ParseIs
  <2> QED  BY <2>2, <2>3
<1> QED  BY <1>4, <1>5

-----------------------------------------------------------------------------
(* The connection.  Behind the requests dispatched so far stand, in the      *)
(* input buffer and on the wire, the others, each as it was written.         *)

Undispatched(fs) ==
  /\ fs \in Seq(Seq(Alphabet)) /\ Len(log) + Len(fs) = Len(sent)
  /\ \A i \in 1 .. Len(fs) : fs[i] \in Frames(sent[Len(log) + i])
  /\ FlattenSeq(fs) = input \o wire

TypeInv ==
  /\ input \in Seq(Alphabet) /\ wire \in Seq(Alphabet)
  /\ sent \in Seq(Requests) /\ legal \in BOOLEAN

LegalInv ==
  /\ dead = FALSE
  /\ Len(log) \in 0 .. Len(sent) /\ log = SubSeq(sent, 1, Len(log))
  /\ \E fs : Undispatched(fs)

IInv == TypeInv /\ (legal => LegalInv)

LEMMA RequestsSendable ==
  ASSUME NEW args \in Requests
  PROVE  Sendable(args)
<1>1. args \in Seq(Seq(Bytes)) /\ Len(args) \in 1 .. RESP_MAX_ARGC
      /\ \A i \in DOMAIN args : Len(args[i]) <= RESP_MAX_BULK_LEN
  BY StreamConstants
<1>2. Seq(Bytes) \subseteq Seq(Alphabet)
  BY AlphabetHas
<1>3. args \in Seq(Seq(Alphabet))
  BY <1>1, <1>2
<1> QED  BY <1>1, <1>3 DEF Sendable

LEMMA InitInv == Init => IInv
<1> SUFFICES ASSUME Init PROVE IInv
  OBVIOUS
<1>1. legal \in BOOLEAN /\ input = <<>> /\ sent = <<>> /\ wire = <<>> /\ log = <<>> /\ dead = FALSE
  BY DEF Init
<1>2. Undispatched(<<>>)
  <2>1. input \o wire = <<>> /\ Len(log) = 0 /\ Len(sent) = 0
    BY <1>1
  <2>2. <<>> \in Seq(Seq(Alphabet)) /\ Len(<<>>) = 0
    OBVIOUS
  <2> QED  BY <2>1, <2>2, FlattenEmpty DEF Undispatched
<1>3. log = SubSeq(sent, 1, Len(log)) /\ Len(log) \in 0 .. Len(sent)
  BY <1>1
<1>4. TypeInv
  BY <1>1 DEF TypeInv
<1> QED  BY <1>1, <1>2, <1>3, <1>4, Zenon DEF IInv, LegalInv

(* Send: one more is on its way. *)
LEMMA SendInv ==
  ASSUME IInv, Send
  PROVE  IInv'
<1>1. TypeInv /\ legal /\ LegalInv
  BY DEF IInv, Send
<1>2. PICK args \in Requests : \E g \in Frames(args) :
        sent' = Append(sent, args) /\ wire' = wire \o g
  BY DEF Send
<1>3. PICK f \in Frames(args) : sent' = Append(sent, args) /\ wire' = wire \o f
  BY <1>2
<1>4. UNCHANGED <<input, legal, log, dead>>
  BY DEF Send
<1>5. /\ input \in Seq(Alphabet) /\ wire \in Seq(Alphabet) /\ sent \in Seq(Requests)
      /\ legal \in BOOLEAN /\ f \in Seq(Alphabet)
  BY <1>1, RequestsSendable, FramesType DEF TypeInv
<1>6. TypeInv'
  BY <1>3, <1>4, <1>5, ConcatProperties DEF TypeInv
<1> DEFINE m == Len(sent)
           k == Len(log)
<1>7. /\ Len(sent') = m + 1 /\ sent' \in Seq(Requests) /\ sent'[m + 1] = args
      /\ \A i \in 1 .. m : sent'[i] = sent[i]
  BY <1>3, <1>5, AppendProperties
<1>8. m \in Nat /\ k \in 0 .. m /\ log = SubSeq(sent, 1, k) /\ dead = FALSE
  BY <1>1, <1>5 DEF LegalInv
<1>9. PICK fs : Undispatched(fs)
  BY <1>1 DEF LegalInv
<1> HIDE DEF m, k
<1>10. /\ fs \in Seq(Seq(Alphabet)) /\ k + Len(fs) = m
      /\ \A i \in 1 .. Len(fs) : fs[i] \in Frames(sent[k + i])
      /\ FlattenSeq(fs) = input \o wire
  BY <1>9 DEF Undispatched, m, k
<1>11. Undispatched(Append(fs, f))'
  <2> DEFINE gs == Append(fs, f)
             n == Len(fs)
             R == Seq(Alphabet)
  <2>1. n \in Nat /\ gs \in Seq(R) /\ Len(gs) = n + 1 /\ gs[n + 1] = f
        /\ \A i \in 1 .. n : gs[i] = fs[i]
    <3>1. fs \in Seq(R) /\ f \in R
      BY <1>5, <1>10
    <3> HIDE DEF R
    <3> QED  BY <3>1, AppendProperties
  <2>2. FlattenSeq(gs) = (input \o wire) \o f
    <3>1. f \in Seq(Alphabet) /\ fs \in Seq(Seq(Alphabet))
      BY <1>5, <1>10
    <3>2. FlattenSeq(Append(fs, f)) = FlattenSeq(fs) \o f
      BY <3>1, FlattenAppend
    <3>3. FlattenSeq(fs) = input \o wire
      BY <1>9, Zenon DEF Undispatched
    <3> HIDE DEF n, R
    <3> QED  BY <3>2, <3>3, Zenon DEF gs
  <2>3. (input \o wire) \o f = input \o (wire \o f)
    BY <1>5, ConcatAssociative
  <2>4. FlattenSeq(gs) = input' \o wire'
    BY <1>3, <1>4, <2>2, <2>3
  <2> DEFINE x == k + n
  <2>5. x = m
    BY <1>10
  <2> HIDE DEF gs, n, x
  <2>6. k \in Nat /\ m \in Nat /\ n \in Nat /\ k + n = m
    BY <1>8, <2>1, <2>5 DEF x
  <2>7. ASSUME NEW i \in 1 .. n + 1 PROVE gs[i] \in Frames(sent'[k + i])
    <3>1. CASE i = n + 1
      <4>1. k + i = m + 1
        BY <2>6, <3>1
      <4> QED  BY <1>7, <2>1, <3>1, <4>1
    <3>2. CASE i # n + 1
      <4>1. i \in 1 .. n /\ k + i \in 1 .. m
        BY <2>6, <3>2
      <4> QED  BY <1>7, <1>10, <2>1, <4>1 DEF n
    <3> QED  BY <3>1, <3>2
  <2>8. Len(log') = k /\ k + (n + 1) = m + 1
    BY <1>4, <2>6 DEF k
  <2> QED  BY <1>7, <2>1, <2>4, <2>7, <2>8 DEF Undispatched, gs
<1>12. log' = SubSeq(sent', 1, Len(log')) /\ Len(log') \in 0 .. Len(sent')
  <2>1. Longer(sent, sent')
    BY <1>7, <1>8 DEF Longer, m
  <2>2. 1 \in Nat \ {0} /\ k \in Int /\ k <= Len(sent)
    BY <1>8 DEF m
  <2>3. SubSeq(sent', 1, k) = SubSeq(sent, 1, k)
    BY <1>5, <1>7, <2>1, <2>2, SamePart
  <2>4. k \in 0 .. m + 1 /\ Len(log') = k
    BY <1>4, <1>8 DEF k
  <2> QED  BY <1>4, <1>7, <1>8, <2>3, <2>4
<1>13. LegalInv'
  BY <1>4, <1>8, <1>11, <1>12 DEF LegalInv
<1> QED  BY <1>6, <1>13 DEF IInv

(* Read: bytes move from the wire into the buffer. *)
LEMMA ReadInv ==
  ASSUME IInv, Read
  PROVE  IInv'
<1>1. PICK n \in 1 .. Len(wire) :
        input' = input \o SubSeq(wire, 1, n) /\ wire' = SubSeq(wire, n + 1, Len(wire))
  BY DEF Read
<1>2. UNCHANGED <<legal, sent, log, dead>>
  BY DEF Read
<1>3. /\ input \in Seq(Alphabet) /\ wire \in Seq(Alphabet) /\ sent \in Seq(Requests)
      /\ legal \in BOOLEAN
  BY DEF IInv, TypeInv
<1> DEFINE s == SubSeq(wire, 1, n)
           t == SubSeq(wire, n + 1, Len(wire))
<1>4. s \in Seq(Alphabet) /\ t \in Seq(Alphabet) /\ s \o t = wire
  <2>1. n \in 0 .. Len(wire)
    OBVIOUS
  <2> QED  BY <1>3, <2>1, SplitAt
<1> HIDE DEF s, t
<1>5. input' = input \o s /\ wire' = t
  BY <1>1 DEF s, t
<1>6. TypeInv'
  BY <1>2, <1>3, <1>4, <1>5, ConcatProperties DEF TypeInv
<1>7. input' \o wire' = input \o wire
  <2>1. input \in Seq(Alphabet) /\ s \in Seq(Alphabet) /\ t \in Seq(Alphabet)
    BY <1>3, <1>4
  <2>2. (input \o s) \o t = input \o (s \o t)
    BY <2>1, ConcatAssociative
  <2> QED  BY <1>4, <1>5, <2>2
<1>8. ASSUME legal PROVE LegalInv'
  <2>1. LegalInv
    BY <1>8 DEF IInv
  <2>2. ASSUME NEW fs, Undispatched(fs) PROVE Undispatched(fs)'
    BY <1>2, <1>7, <2>2 DEF Undispatched
  <2> QED  BY <1>2, <2>1, <2>2 DEF LegalInv
<1> QED  BY <1>2, <1>6, <1>8 DEF IInv

(* Noise: no client that writes requests. *)
LEMMA NoiseInv ==
  ASSUME IInv, Noise
  PROVE  IInv'
<1>1. ~legal /\ UNCHANGED <<legal, sent, wire>>
  BY DEF Noise
<1>2. PICK c \in Bytes : input' = Append(input, c)
  BY DEF Noise
<1>3. /\ input \in Seq(Alphabet) /\ wire \in Seq(Alphabet) /\ sent \in Seq(Requests)
      /\ legal \in BOOLEAN
  BY DEF IInv, TypeInv
<1>4. c \in Alphabet
  BY AlphabetHas
<1>5. input' \in Seq(Alphabet)
  BY <1>2, <1>3, <1>4, AppendProperties
<1> QED  BY <1>1, <1>3, <1>5 DEF IInv, TypeInv

(* What the buffer holds and what is on the wire begins with the first
   request not dispatched; a verdict on the buffer is the verdict on both, so
   it is that request. *)
LEMMA FirstIsRead ==
  ASSUME TypeInv, NEW fs, Undispatched(fs), fs # <<>>,
         Len(log) \in 0 .. Len(sent),
         NEW more \in Seq(Alphabet), more = input \o wire
  PROVE  /\ Len(log) + 1 \in 1 .. Len(sent)
         /\ Head(fs) \in Seq(Alphabet) /\ Head(fs) # <<>>
         /\ ArgsRead(resp_parse_request(more), sent[Len(log) + 1], Len(Head(fs)) + 1)
<1> DEFINE m == Len(sent)
           k == Len(log)
           n == Len(fs)
           f == Head(fs)
           rest == FlattenSeq(Tail(fs))
<1>1. sent \in Seq(Requests) /\ m \in Nat /\ k \in 0 .. m
  BY DEF TypeInv
<1>2. fs \in Seq(Seq(Alphabet)) /\ k + n = m /\ n \in Nat \ {0} /\ f = fs[1]
  BY DEF Undispatched
<1>3. \A i \in 1 .. n : fs[i] \in Frames(sent[k + i])
  BY DEF Undispatched
<1>4. more = f \o rest /\ rest \in Seq(Alphabet)
  <2>1. FlattenSeq(fs) = more
    BY Zenon DEF Undispatched
  <2>2. FlattenSeq(fs) = Head(fs) \o FlattenSeq(Tail(fs)) /\ FlattenSeq(Tail(fs)) \in Seq(Alphabet)
    BY <1>2, FlattenFirst
  <2> QED  BY <2>1, <2>2
<1> HIDE DEF m, k, n, f, rest
<1>5. k + 1 \in 1 .. m /\ 1 \in 1 .. n
  BY <1>1, <1>2
<1>6. sent[k + 1] \in Requests
  BY <1>1, <1>5 DEF m
<1>7. Sendable(sent[k + 1])
  BY <1>6, RequestsSendable
<1>8. f \in Frames(sent[k + 1])
  BY <1>2, <1>3, <1>5
<1>9. f \in Seq(Alphabet) /\ f # <<>>
  BY <1>7, <1>8, FramesType
<1>10. Holds(more, 1, f)
  BY <1>4, <1>9, ConcatProperties DEF Holds
<1>11. ArgsRead(resp_parse_request(more), sent[k + 1], Len(f) + 1)
  BY <1>7, <1>8, <1>10, RoundTrip
<1> QED  BY <1>5, <1>9, <1>11 DEF m, k, f

LEMMA VerdictIsFirst ==
  ASSUME TypeInv, NEW fs, Undispatched(fs), Len(log) \in 0 .. Len(sent),
         resp_parse_request(input) # NeedMore
  PROVE  /\ fs # <<>> /\ Len(log) + 1 \in 1 .. Len(sent)
         /\ Head(fs) \in Seq(Alphabet)
         /\ ArgsRead(resp_parse_request(input), sent[Len(log) + 1], Len(Head(fs)) + 1)
<1> DEFINE more == input \o wire
<1>1. input \in Seq(Alphabet) /\ wire \in Seq(Alphabet)
  BY DEF TypeInv
<1>2. more \in Seq(Alphabet) /\ Longer(input, more)
  BY <1>1, ConcatProperties DEF Longer
<1>3. FlattenSeq(fs) = more
  BY Zenon DEF Undispatched
<1> HIDE DEF more
<1>4. resp_parse_request(more) = resp_parse_request(input)
  BY <1>1, <1>2, ParseSettled
<1>5. more # <<>>
  BY <1>4, ParseIs
<1>6. fs # <<>>
  BY <1>3, <1>5, FlattenEmpty
<1>7. more = input \o wire
  BY DEF more
<1>8. /\ Len(log) + 1 \in 1 .. Len(sent)
      /\ Head(fs) \in Seq(Alphabet) /\ Head(fs) # <<>>
      /\ ArgsRead(resp_parse_request(more), sent[Len(log) + 1], Len(Head(fs)) + 1)
  BY <1>2, <1>6, <1>7, FirstIsRead
<1> QED  BY <1>4, <1>6, <1>8

(* Parse: a request leaves the buffer, and it is the first. *)
LEMMA ParseInv ==
  ASSUME IInv, Parse
  PROVE  IInv'
<1> DEFINE r == resp_parse_request(input)
<1>1. /\ input \in Seq(Alphabet) /\ wire \in Seq(Alphabet) /\ sent \in Seq(Requests)
      /\ legal \in BOOLEAN
  BY DEF IInv, TypeInv
<1>2. UNCHANGED <<legal, sent, wire>>
  BY DEF Parse
<1>3. \/ /\ r.st = "OK" /\ log' = Append(log, r.args)
         /\ input' = SubSeq(input, r.next, Len(input)) /\ dead' = dead
      \/ r.st = "PROTOCOL_ERR" /\ input' = input
  BY DEF Parse
<1>4. r = NeedMore \/ r = Refuse \/ (input # <<>> /\ Within(input, r))
  BY <1>1, ParseOutcome
<1>5. r # NeedMore
  BY <1>3 DEF NeedMore
<1> HIDE DEF r
<1>6. input' \in Seq(Alphabet)
  <2>1. CASE r.st = "PROTOCOL_ERR"
    BY <1>1, <1>3, <2>1
  <2>2. CASE r.st = "OK"
    <3>1. Within(input, r)
      BY <1>4, <2>2 DEF NeedMore, Refuse
    <3>2. r.next \in 1 .. Len(input) + 1
      BY <3>1 DEF Within
    <3>3. SubSeq(input, r.next, Len(input)) \in Seq(Alphabet)
      BY <1>1, <3>2, SubSeqProperties
    <3> QED  BY <1>3, <2>2, <3>3
  <2> QED  BY <1>3, <2>1, <2>2
<1>7. TypeInv'
  BY <1>1, <1>2, <1>6 DEF TypeInv
<1>8. ASSUME legal PROVE LegalInv'
  <2>1. dead = FALSE /\ Len(log) \in 0 .. Len(sent) /\ log = SubSeq(sent, 1, Len(log))
    BY <1>8 DEF IInv, LegalInv
  <2>2. PICK fs : Undispatched(fs)
    BY <1>8 DEF IInv, LegalInv
  <2> DEFINE m == Len(sent)
             k == Len(log)
             n == Len(fs)
             f == Head(fs)
             rest == Tail(fs)
  <2>3. /\ fs # <<>> /\ k + 1 \in 1 .. m /\ f \in Seq(Alphabet)
        /\ ArgsRead(r, sent[k + 1], Len(f) + 1)
    BY <1>5, <2>1, <2>2, VerdictIsFirst DEF IInv, r
  <2>4. r.st = "OK" /\ r.args = sent[k + 1] /\ r.next = Len(f) + 1
    BY <2>3 DEF ArgsRead
  <2>5. /\ log' = Append(log, sent[k + 1]) /\ dead' = FALSE
        /\ input' = SubSeq(input, Len(f) + 1, Len(input))
    BY <1>3, <2>1, <2>4
  <2>6. Len(f) \in 0 .. Len(input)
    <3>1. Within(input, r)
      BY <1>4, <2>4 DEF NeedMore, Refuse
    <3>2. Len(f) + 1 \in 2 .. Len(input) + 1
      BY <2>4, <3>1 DEF Within
    <3>3. Len(f) \in Nat /\ Len(input) \in Nat
      BY <1>1, <2>3
    <3> HIDE DEF f
    <3> QED  BY <3>2, <3>3
  <2>7. /\ fs \in Seq(Seq(Alphabet)) /\ k + n = m
        /\ \A i \in 1 .. n : fs[i] \in Frames(sent[k + i])
    BY <2>2 DEF Undispatched
  <2>8. FlattenSeq(fs) = input \o wire
    BY <2>2, Zenon DEF Undispatched
  <2>9. /\ rest \in Seq(Seq(Alphabet)) /\ FlattenSeq(rest) \in Seq(Alphabet)
        /\ FlattenSeq(fs) = f \o FlattenSeq(rest)
    BY <2>3, <2>7, FlattenFirst
  <2>10. Len(rest) = n - 1 /\ \A i \in 1 .. n - 1 : rest[i] = fs[i + 1]
    BY <2>3, <2>7, HeadTailProperties
  <2>11. m \in Nat /\ k \in 0 .. m /\ n \in Nat \ {0}
    BY <1>1, <2>1, <2>3, <2>7
  <2> HIDE DEF f, rest
  <2>12. input' \o wire' = FlattenSeq(rest)
    <3> DEFINE a == SubSeq(input, 1, Len(f))
               b == SubSeq(input, Len(f) + 1, Len(input))
               more == FlattenSeq(rest)
    <3>1. a \in Seq(Alphabet) /\ Len(a) = Len(f) /\ b \in Seq(Alphabet) /\ a \o b = input
      BY <1>1, <2>6, SplitAt
    <3> HIDE DEF a, b, more
    <3>2. a \in Seq(Alphabet) /\ b \in Seq(Alphabet) /\ wire \in Seq(Alphabet)
      BY <1>1, <3>1
    <3>3. (a \o b) \o wire = a \o (b \o wire)
      BY <3>2, ConcatAssociative
    <3>4. b \o wire \in Seq(Alphabet)
      BY <3>2, ConcatProperties
    <3>5. f \in Seq(Alphabet) /\ more \in Seq(Alphabet)
      BY <2>3, <2>9 DEF more
    <3>6. f \o more = input \o wire
      BY <2>8, <2>9, Zenon DEF more
    <3>7. f \o more = a \o (b \o wire)
      BY <3>1, <3>3, <3>6, Zenon
    <3> DEFINE u == b \o wire
    <3>8. u \in Seq(Alphabet) /\ f \o more = a \o u /\ Len(f) = Len(a)
      BY <3>1, <3>4, <3>7, Zenon
    <3> HIDE DEF u
    <3>9. more = u
      BY <3>2, <3>5, <3>8, SameParts
    <3>10. input' = b /\ wire' = wire
      BY <1>2, <2>5 DEF b
    <3> QED  BY <3>9, <3>10, Zenon DEF u, more
  <2>13. log' = SubSeq(sent', 1, Len(log')) /\ Len(log') \in 0 .. Len(sent') /\ Len(log') = k + 1
    <3>1. k \in Nat /\ k + 1 <= Len(sent)
      BY <2>3, <2>11
    <3>2. SubSeq(sent, 1, k + 1) = Append(SubSeq(sent, 1, k), sent[k + 1])
      BY <1>1, <3>1, OneMore
    <3>3. log' = SubSeq(sent, 1, k + 1)
      BY <2>1, <2>5, <3>2
    <3>4. Len(SubSeq(sent, 1, k + 1)) = k + 1
      BY <1>1, <3>1, SubSeqProperties
    <3> HIDE DEF k
    <3> QED  BY <1>2, <3>1, <3>3, <3>4
  <2>14. Undispatched(rest)'
    <3> HIDE DEF m, k, n
    <3>1. Len(log') + Len(rest) = Len(sent')
      <4>1. k + n = m
        BY <2>7
      <4>2. (k + 1) + (n - 1) = m
        BY <2>11, <4>1
      <4>3. Len(sent') = m
        BY <1>2 DEF m
      <4>4. Len(log') = k + 1 /\ Len(rest) = n - 1
        BY <2>10, <2>13
      <4> QED  BY <4>2, <4>3, <4>4
    <3>2. ASSUME NEW i \in 1 .. Len(rest) PROVE rest[i] \in Frames(sent'[Len(log') + i])
      <4>1. i \in 1 .. n - 1 /\ i + 1 \in 1 .. n
        BY <2>10, <2>11, <3>2
      <4>2. k + (i + 1) = (k + 1) + i
        BY <2>11, <4>1
      <4>3. fs[i + 1] \in Frames(sent[k + (i + 1)])
        BY <2>7, <4>1
      <4> QED  BY <1>2, <2>10, <2>13, <4>1, <4>2, <4>3
    <3>3. rest' = rest
      BY DEF rest
    <3> QED  BY <2>9, <2>12, <3>1, <3>2 DEF Undispatched
  <2> QED  BY <2>5, <2>13, <2>14 DEF LegalInv
<1> QED  BY <1>2, <1>7, <1>8 DEF IInv

LEMMA Invariance == Spec => []IInv
<1>1. Init => IInv
  BY InitInv
<1>2. IInv /\ [Next]_vars => IInv'
  <2> SUFFICES ASSUME IInv, [Next]_vars PROVE IInv'
    OBVIOUS
  <2>1. CASE Send
    BY <2>1, SendInv
  <2>2. CASE Noise
    BY <2>2, NoiseInv
  <2>3. CASE Read
    BY <2>3, ReadInv
  <2>4. CASE Parse
    BY <2>4, ParseInv
  <2>5. CASE UNCHANGED vars
    <3>1. UNCHANGED <<input, legal, sent, wire, log, dead>>
      BY <2>5 DEF vars
    <3>2. ASSUME NEW fs, Undispatched(fs) PROVE Undispatched(fs)'
      BY <3>1, <3>2 DEF Undispatched
    <3> QED  BY <3>1, <3>2 DEF IInv, TypeInv, LegalInv
  <2> QED  BY <2>1, <2>2, <2>3, <2>4, <2>5 DEF Next
<1> QED  BY <1>1, <1>2, PTL DEF Spec

-----------------------------------------------------------------------------
(* What the parser takes for a request has arrived, takes a byte at least,    *)
(* and has an argument and no more of them than the array of slices holds:   *)
(* the loop of handle_read() makes progress and bytebuf_consume() is asked    *)
(* for what is there, whatever the client writes.                          *)
THEOREM TakesWhatArrived == Spec => []WithinInput
<1>1. IInv => WithinInput
  <2> SUFFICES ASSUME TypeInv, resp_parse_request(input).st = "OK"
               PROVE  LET r == resp_parse_request(input)
                      IN r.next \in 2 .. Len(input) + 1 /\ Len(r.args) \in 1 .. RESP_MAX_ARGC
    BY DEF IInv, WithinInput
  <2> DEFINE r == resp_parse_request(input)
  <2>1. r = NeedMore \/ r = Refuse \/ Within(input, r)
    BY ParseOutcome DEF TypeInv
  <2>2. Within(input, r)
    BY <2>1 DEF NeedMore, Refuse
  <2> QED  BY <2>2 DEF Within
<1> QED  BY <1>1, Invariance, PTL

(* A verdict on the bytes received so far, be it a request or an error, is    *)
(* not changed by a byte that arrives later: what a client is answered does   *)
(* not depend on where its bytes were cut into reads.                       *)
THEOREM VerdictsSettled == Spec => Settled
<1>1. IInv /\ IInv' /\ [Next]_vars =>
        [resp_parse_request(input).st # "NEED_MORE" /\ IsPrefix(input, input')
           => resp_parse_request(input') = resp_parse_request(input)]_input
  <2> SUFFICES ASSUME IInv, IInv', resp_parse_request(input).st # "NEED_MORE",
                      IsPrefix(input, input')
               PROVE  resp_parse_request(input') = resp_parse_request(input)
    OBVIOUS
  <2>1. input \in Seq(Alphabet) /\ input' \in Seq(Alphabet)
    BY DEF IInv, TypeInv
  <2>2. Longer(input, input')
    BY <2>1, PrefixAt DEF Longer
  <2>3. resp_parse_request(input) # NeedMore
    BY DEF NeedMore
  <2> QED  BY <2>1, <2>2, <2>3, ParseSettled
<1> QED  BY <1>1, Invariance, PTL DEF Spec, Settled

(* What is dispatched is what the client wrote: the requests in their order,  *)
(* argument by argument, in either form, whatever bytes the arguments hold    *)
(* and wherever reads cut the stream; and no request is refused.            *)
THEOREM RequestsArrive == Spec => []RequestsIntact
<1>1. IInv => RequestsIntact
  BY DEF IInv, LegalInv, RequestsIntact
<1> QED  BY <1>1, Invariance, PTL

(* When everything written has been read and the parser asks for more, every  *)
(* request has been dispatched: none waits for a byte of the one behind it,   *)
(* and no byte of that one was consumed with it.                            *)
THEOREM NothingWaits == Spec => []NoneWaits
<1>1. IInv => NoneWaits
  <2> SUFFICES ASSUME IInv, legal, wire = <<>>, resp_parse_request(input).st = "NEED_MORE"
               PROVE  log = sent
    BY DEF NoneWaits
  <2>1. TypeInv /\ Len(log) \in 0 .. Len(sent) /\ log = SubSeq(sent, 1, Len(log))
    BY DEF IInv, LegalInv
  <2>2. PICK fs : Undispatched(fs)
    BY DEF IInv, LegalInv
  <2>3. input \in Seq(Alphabet) /\ input = input \o wire
    BY <2>1 DEF TypeInv
  <2>4. fs = <<>>
    <3> SUFFICES ASSUME fs # <<>> PROVE FALSE
      OBVIOUS
    <3>1. ArgsRead(resp_parse_request(input), sent[Len(log) + 1], Len(Head(fs)) + 1)
      BY <2>1, <2>2, <2>3, FirstIsRead
    <3>2. resp_parse_request(input).st = "OK"
      BY <3>1 DEF ArgsRead
    <3> QED  BY <3>2
  <2>5. Len(fs) = 0
    BY <2>4
  <2>6. Len(log) + Len(fs) = Len(sent)
    BY <2>2 DEF Undispatched
  <2>7. Len(log) = Len(sent)
    BY <2>1, <2>5, <2>6
  <2>8. sent \in Seq(Requests)
    BY <2>1 DEF TypeInv
  <2>9. SubSeq(sent, 1, Len(sent)) = sent
    BY <2>8
  <2> QED  BY <2>1, <2>7, <2>9
<1> QED  BY <1>1, Invariance, PTL

==============================================================================
