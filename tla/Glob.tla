-------------------------------- MODULE Glob ---------------------------------
(***************************************************************************)
(* glob_match() of src/command.c, which KEYS applies to every key, and what *)
(* its comment says a pattern means.                                        *)
(*                                                                         *)
(* A pattern and a key are sequences of bytes that grow one byte at a time  *)
(* up to a bound, so that TLC compares the two on all of them.              *)
(***************************************************************************)
EXTENDS Naturals, Sequences

CONSTANTS
  Star, Any, Open, Close, Not, Escape,   (* the bytes * ? [ ] ^ (or !) \       *)
  Letters,                               (* bytes with no meaning of their own *)
  MaxPat, MaxStr                         (* bounds: length of pattern and key  *)

Bytes == {Star, Any, Open, Close, Not, Escape} \cup Letters

VARIABLES pat, str

vars == <<pat, str>>

-----------------------------------------------------------------------------
(* The matcher.  p and s are the positions it has reached in the pattern    *)
(* and the string.                                                         *)

(* An escape that is not the last byte of the pattern. *)
Escapes(pt, p) == pt[p] = Escape /\ p < Len(pt)

(* The position of the ] that ends a class whose members start at p, or the
   one behind the pattern when there is none. *)
ClassEnd(pt, p) ==
  LET end[i \in p .. Len(pt) + 1] ==
        IF i > Len(pt) \/ pt[i] = Close THEN i
        ELSE IF Escapes(pt, i) THEN end[i + 2]
        ELSE end[i + 1]
  IN end[p]

(* The byte c is met on the way there. *)
ClassHas(pt, p, c) ==
  LET has[i \in p .. Len(pt) + 1] ==
        IF i > Len(pt) \/ pt[i] = Close THEN FALSE
        ELSE IF Escapes(pt, i) THEN pt[i + 1] = c \/ has[i + 2]
        ELSE pt[i] = c \/ has[i + 1]
  IN has[p]

(* Variant: a star in the middle leaves at least one byte for the rest. *)
glob_match_star_short(pt, st) ==
  LET match[p \in 1 .. Len(pt) + 1] == [s \in 1 .. Len(st) + 1 |->
        IF p > Len(pt) THEN s > Len(st)
        ELSE IF pt[p] = Star
          THEN p = Len(pt) \/ \E k \in s .. Len(st) : match[p + 1][k]
        ELSE IF s > Len(st) THEN FALSE
        ELSE IF pt[p] = Any THEN match[p + 1][s + 1]
        ELSE IF pt[p] = Open
          THEN LET neg  == p < Len(pt) /\ pt[p + 1] = Not
                   from == IF neg THEN p + 2 ELSE p + 1
                   end  == ClassEnd(pt, from)
               IN end <= Len(pt) /\ ClassHas(pt, from, st[s]) # neg /\ match[end + 1][s + 1]
        ELSE LET q == IF Escapes(pt, p) THEN p + 1 ELSE p
             IN pt[q] = st[s] /\ match[q + 1][s + 1]]
  IN match[1][1]

(* glob_match().  A trailing star eats the rest; any other one tries every
   suffix, the empty one included, and a run of stars is one.  A class that
   does not end matches nothing. *)
glob_match(pt, st) ==
  LET match[p \in 1 .. Len(pt) + 1] == [s \in 1 .. Len(st) + 1 |->
        IF p > Len(pt) THEN s > Len(st)
        ELSE IF pt[p] = Star
          THEN p = Len(pt) \/ \E k \in s .. Len(st) + 1 : match[p + 1][k]
        ELSE IF s > Len(st) THEN FALSE
        ELSE IF pt[p] = Any THEN match[p + 1][s + 1]
        ELSE IF pt[p] = Open
          THEN LET neg  == p < Len(pt) /\ pt[p + 1] = Not
                   from == IF neg THEN p + 2 ELSE p + 1
                   end  == ClassEnd(pt, from)
               IN end <= Len(pt) /\ ClassHas(pt, from, st[s]) # neg /\ match[end + 1][s + 1]
        ELSE LET q == IF Escapes(pt, p) THEN p + 1 ELSE p
             IN pt[q] = st[s] /\ match[q + 1][s + 1]]
  IN match[1][1]

-----------------------------------------------------------------------------
(* What a pattern means: a sequence of tokens, each of which takes one byte *)
(* of a set, except a star, which takes any run of bytes.                   *)

Run       == [run |-> TRUE,  set |-> Bytes]
OneOf(S)  == [run |-> FALSE, set |-> S]

(* Where the first unescaped ] of a class is: an odd number of escapes in
   front of a byte escapes it. *)
Escaped(pt, from, i) ==
  \E n \in 0 .. i - from :
    /\ n % 2 = 1
    /\ \A j \in i - n .. i - 1 : pt[j] = Escape
    /\ i - n = from \/ pt[i - n - 1] # Escape

Ends(pt, from) ==
  {i \in from .. Len(pt) : pt[i] = Close /\ ~Escaped(pt, from, i)}

(* The members of a class are its bytes, but for those that escape. *)
Members(pt, from, end) ==
  {pt[i] : i \in {j \in from .. end - 1 : pt[j] # Escape \/ Escaped(pt, from, j)}}

Tokens(pt) ==
  LET from(p) == IF p < Len(pt) /\ pt[p + 1] = Not THEN p + 2 ELSE p + 1
      tokens[p \in 1 .. Len(pt) + 1] ==
        IF p > Len(pt) THEN <<>>
        ELSE IF pt[p] = Star THEN <<Run>> \o tokens[p + 1]
        ELSE IF pt[p] = Any  THEN <<OneOf(Bytes)>> \o tokens[p + 1]
        ELSE IF pt[p] = Open
          THEN IF Ends(pt, from(p)) = {} THEN <<OneOf({})>>
               ELSE LET end == CHOOSE e \in Ends(pt, from(p)) :
                                 \A f \in Ends(pt, from(p)) : e <= f
                        set == Members(pt, from(p), end)
                    IN <<OneOf(IF from(p) = p + 2 THEN Bytes \ set ELSE set)>>
                       \o tokens[end + 1]
        ELSE IF pt[p] = Escape /\ p < Len(pt)
          THEN <<OneOf({pt[p + 1]})>> \o tokens[p + 2]
        ELSE <<OneOf({pt[p]})>> \o tokens[p + 1]
  IN tokens[1]

(* The string can be cut into as many pieces as there are tokens, so that
   each token takes its piece. *)
Means(pt, st) ==
  LET ts == Tokens(pt)
  IN \E cut \in [0 .. Len(ts) -> 0 .. Len(st)] :
       /\ cut[0] = 0 /\ cut[Len(ts)] = Len(st)
       /\ \A i \in DOMAIN ts :
            /\ cut[i - 1] <= cut[i]
            /\ ~ts[i].run => cut[i] = cut[i - 1] + 1 /\ st[cut[i]] \in ts[i].set

-----------------------------------------------------------------------------
Init == pat = <<>> /\ str = <<>>

Next ==
  \/ Len(pat) < MaxPat /\ \E c \in Bytes : pat' = Append(pat, c) /\ UNCHANGED str
  \/ Len(str) < MaxStr /\ \E c \in Bytes : str' = Append(str, c) /\ UNCHANGED pat

Spec == Init /\ [][Next]_vars

(* KEYS returns the keys its pattern means: backtracking over stars, classes
   and escapes find a way to cut the key exactly when there is one. *)
MatchesMeaning == glob_match(pat, str) = Means(pat, str)
==============================================================================
