------------------------------- MODULE Numbers -------------------------------
(***************************************************************************)
(* Signed numbers as the program reads and writes them.  The width of an    *)
(* integer and the base are parameters: int64_t in decimal has              *)
(* INT_MAX = 2^63 - 1 and ten digits.                                       *)
(***************************************************************************)
EXTENDS Integers, Sequences

CONSTANTS
  Digits,     (* the bytes of the digits, in order                          *)
  Minus,      (* the byte '-'                                               *)
  INT_MAX,    (* INT64_MAX                                                  *)
  Malformed   (* the result of a number that is refused                     *)

BASE    == Len(Digits)
INT_MIN == -INT_MAX - 1

ASSUME NumberConstants ==
  /\ BASE \in Nat \ {0, 1}
  /\ \A i, j \in 1 .. BASE : Digits[i] = Digits[j] => i = j
  /\ \A i \in 1 .. BASE : Digits[i] # Minus
  /\ INT_MAX \in Nat /\ INT_MAX >= BASE - 1
  /\ Malformed \notin Int

IsDigit(c) == \E i \in 1 .. BASE : Digits[i] = c
DigitOf(c) == (CHOOSE i \in 1 .. BASE : Digits[i] = c) - 1

(* The loop over the digits, which stops when another digit might not fit. *)
Magnitude(s) ==
  LET v[i \in 0 .. Len(s)] ==
        IF i = 0 THEN 0
        ELSE LET u == v[i - 1] IN
          IF \/ u = Malformed
             \/ ~IsDigit(s[i])
             \/ u > (INT_MAX - (BASE - 1)) \div BASE
            THEN Malformed
            ELSE u * BASE + DigitOf(s[i])
  IN v[Len(s)]

(* parse_int64(). *)
ParseInt64(s) ==
  IF s = <<>> \/ s = <<Minus>> THEN Malformed
  ELSE IF s[1] # Minus THEN Magnitude(s)
  ELSE LET v == Magnitude(Tail(s)) IN IF v = Malformed THEN Malformed ELSE -v

(* snprintf() of an integer in decimal. *)
Format(n) ==
  LET digits[m \in Nat] == IF m < BASE THEN <<Digits[m + 1]>>
                           ELSE Append(digits[m \div BASE], Digits[(m % BASE) + 1])
  IN IF n < 0 THEN <<Minus>> \o digits[-n] ELSE digits[n]

-----------------------------------------------------------------------------
(* What digits denote, without regard to width: each one counts as often as
   the place it is in says, and one place further left is BASE times more. *)
PlaceValue(d) ==
  LET weight[k \in 0 .. Len(d)] == IF k = 0 THEN 1 ELSE BASE * weight[k - 1]
      sum[i \in 0 .. Len(d)] ==
        IF i = 0 THEN 0 ELSE sum[i - 1] + DigitOf(d[i]) * weight[Len(d) - i]
  IN sum[Len(d)]

Denotes(s, n) ==
  LET neg == s # <<>> /\ s[1] = Minus
      d   == IF neg THEN Tail(s) ELSE s
  IN /\ d # <<>>
     /\ \A i \in DOMAIN d : IsDigit(d[i])
     /\ n = IF neg THEN -PlaceValue(d) ELSE PlaceValue(d)

(* The largest magnitude that is read: the guard leaves out the last few
   values of the width. *)
ReadLimit == ((INT_MAX - (BASE - 1)) \div BASE) * BASE + BASE - 1
==============================================================================
