-------------------------------- MODULE Resp ---------------------------------
(***************************************************************************)
(* The request parser of src/resp.c.  It keeps no state: every call looks   *)
(* at the bytes received so far from their first one, and says that they    *)
(* hold a request, that they do not yet, or that they never will.           *)
(*                                                                         *)
(* A result names the request's arguments, the bytes it took and the first  *)
(* byte behind them.                                                        *)
(***************************************************************************)
EXTENDS Numbers, FiniteSets, SequencesExt

CONSTANTS
  Star, Dollar, CR, LF, Blank, Letters,  (* bytes; Blank is a space or a tab  *)
  RESP_MAX_ARGC, RESP_MAX_BULK_LEN, RESP_MAX_INLINE_LEN

Bytes == {Star, Dollar, CR, LF, Blank, Minus} \cup Letters \cup Range(Digits)

(* The bytes the framing gives a meaning to are different from each other and
   from the digits, and the limits can be written in a header. *)
ASSUME RespConstants ==
  /\ LET framing == <<Star, Dollar, CR, LF, Blank, Minus>>
     IN /\ \A i, j \in 1 .. 6 : framing[i] = framing[j] => i = j
        /\ \A i \in 1 .. 6 : ~IsDigit(framing[i])
  /\ RESP_MAX_ARGC \in 1 .. ReadLimit
  /\ RESP_MAX_BULK_LEN \in 0 .. ReadLimit
  /\ RESP_MAX_INLINE_LEN \in Nat \ {0}

-----------------------------------------------------------------------------
(* Results.                                                                *)

NeedMore == [st |-> "NEED_MORE"]
Refuse   == [st |-> "PROTOCOL_ERR"]

At(bytes, i, c) == i <= Len(bytes) /\ bytes[i] = c

(* parse_int_until_crlf() from position from. *)
parse_int_until_crlf(in, from) ==
  LET neg    == At(in, from, Minus)
      first  == IF neg THEN from + 1 ELSE from
      others == {i \in first .. Len(in) : ~IsDigit(in[i])}
      end    == IF others = {} THEN Len(in) + 1 ELSE Min(others)
      v      == Magnitude(SubSeq(in, first, end - 1))
  IN IF v = Malformed THEN Refuse
     ELSE IF end > Len(in) THEN NeedMore
     ELSE IF in[end] # CR THEN Refuse
     ELSE IF end = Len(in) THEN NeedMore
     ELSE IF in[end + 1] # LF \/ end = first THEN Refuse
     ELSE [st |-> "OK", value |-> IF neg THEN -v ELSE v, next |-> end + 2]

(* Variant: the bytes of the body are there, the CRLF behind it may not be. *)
parse_bulk_early(in, from) ==
  IF from > Len(in) THEN NeedMore
  ELSE IF in[from] # Dollar THEN Refuse
  ELSE LET h == parse_int_until_crlf(in, from + 1) IN
    IF h.st # "OK" THEN h
    ELSE IF h.value < 0 \/ h.value > RESP_MAX_BULK_LEN THEN Refuse
    ELSE LET crlf == h.next + h.value IN
      IF Len(in) < crlf - 1 THEN NeedMore
      ELSE IF ~At(in, crlf, CR) \/ ~At(in, crlf + 1, LF) THEN Refuse
      ELSE [st |-> "OK", arg |-> SubSeq(in, h.next, crlf - 1), next |-> crlf + 2]

(* Variant: the CRLF behind the body is neither awaited nor looked at. *)
parse_bulk_unterminated(in, from) ==
  IF from > Len(in) THEN NeedMore
  ELSE IF in[from] # Dollar THEN Refuse
  ELSE LET h == parse_int_until_crlf(in, from + 1) IN
    IF h.st # "OK" THEN h
    ELSE IF h.value < 0 \/ h.value > RESP_MAX_BULK_LEN THEN Refuse
    ELSE LET crlf == h.next + h.value IN
      IF Len(in) < crlf - 1 THEN NeedMore
      ELSE [st |-> "OK", arg |-> SubSeq(in, h.next, crlf - 1), next |-> crlf + 2]

(* parse_bulk(): $, the length, the body and its CRLF. *)
parse_bulk(in, from) ==
  IF from > Len(in) THEN NeedMore
  ELSE IF in[from] # Dollar THEN Refuse
  ELSE LET h == parse_int_until_crlf(in, from + 1) IN
    IF h.st # "OK" THEN h
    ELSE IF h.value < 0 \/ h.value > RESP_MAX_BULK_LEN THEN Refuse
    ELSE LET crlf == h.next + h.value IN
      IF Len(in) < crlf + 1 THEN NeedMore
      ELSE IF in[crlf] # CR \/ in[crlf + 1] # LF THEN Refuse
      ELSE [st |-> "OK", arg |-> SubSeq(in, h.next, crlf - 1), next |-> crlf + 2]

(* parse_multi_bulk(): the bulks one after the other; the first that is not
   complete decides. *)
parse_multi_bulk(in) ==
  LET h == parse_int_until_crlf(in, 2)
      bulks[i \in 0 .. RESP_MAX_ARGC] ==
        IF i = 0 THEN [st |-> "OK", args |-> <<>>, next |-> h.next]
        ELSE LET done == bulks[i - 1] IN
          IF done.st # "OK" THEN done
          ELSE LET b == parse_bulk(in, done.next) IN
            IF b.st # "OK" THEN b
            ELSE [st |-> "OK", args |-> Append(done.args, b.arg), next |-> b.next]
  IN IF h.st # "OK" THEN h
     ELSE IF h.value < 1 \/ h.value > RESP_MAX_ARGC THEN Refuse
     ELSE bulks[h.value]

(* The tokens of a line: its maximal runs without a blank. *)
Words(line) ==
  LET word(i, j) == /\ \A m \in i .. j : line[m] # Blank
                    /\ i = 1 \/ line[i - 1] = Blank
                    /\ j = Len(line) \/ line[j + 1] = Blank
      spans == {x \in (1 .. Len(line)) \X (1 .. Len(line)) : x[1] <= x[2] /\ word(x[1], x[2])}
      nth(n) == CHOOSE x \in spans : Cardinality({y \in spans : y[1] < x[1]}) = n - 1
  IN [n \in 1 .. Cardinality(spans) |-> SubSeq(line, nth(n)[1], nth(n)[2])]

(* Variant: the last byte received is not looked at. *)
parse_inline_scans_short(in) ==
  LET scanned == IF Len(in) < RESP_MAX_INLINE_LEN THEN Len(in) ELSE RESP_MAX_INLINE_LEN
      nls     == {i \in 1 .. scanned - 1 : in[i] = LF}
  IN IF nls = {} THEN IF Len(in) >= RESP_MAX_INLINE_LEN THEN Refuse ELSE NeedMore
     ELSE LET nl    == Min(nls)
              line  == SubSeq(in, 1, IF nl > 1 /\ in[nl - 1] = CR THEN nl - 2 ELSE nl - 1)
              words == Words(line)
          IN IF words = <<>> \/ Len(words) > RESP_MAX_ARGC THEN Refuse
             ELSE [st |-> "OK", args |-> words, next |-> nl + 1]

(* parse_inline(): a line of tokens, ended by LF or CRLF within the limit. *)
parse_inline(in) ==
  LET scanned == IF Len(in) < RESP_MAX_INLINE_LEN THEN Len(in) ELSE RESP_MAX_INLINE_LEN
      nls     == {i \in 1 .. scanned : in[i] = LF}
  IN IF nls = {} THEN IF Len(in) >= RESP_MAX_INLINE_LEN THEN Refuse ELSE NeedMore
     ELSE LET nl    == Min(nls)
              line  == SubSeq(in, 1, IF nl > 1 /\ in[nl - 1] = CR THEN nl - 2 ELSE nl - 1)
              words == Words(line)
          IN IF words = <<>> \/ Len(words) > RESP_MAX_ARGC THEN Refuse
             ELSE [st |-> "OK", args |-> words, next |-> nl + 1]

(* resp_parse_request(). *)
resp_parse_request(in) ==
  IF in = <<>> THEN NeedMore
  ELSE IF in[1] = Star THEN parse_multi_bulk(in)
  ELSE parse_inline(in)

-----------------------------------------------------------------------------
(* How clients write a request: as an array of bulk strings, or typed on a
   line.                                                                   *)

Crlf == <<CR, LF>>

BulkFrame(arg) == <<Dollar>> \o Format(Len(arg)) \o Crlf \o arg \o Crlf

ArrayFrame(args) ==
  <<Star>> \o Format(Len(args)) \o Crlf \o FlattenSeq([i \in DOMAIN args |-> BulkFrame(args[i])])

(* An argument that can be typed on a line, and a line of such arguments. *)
Typeable(arg) == arg # <<>> /\ \A i \in DOMAIN arg : arg[i] \notin {Blank, CR, LF}

LineFrame(args, end) ==
  FlattenSeq([i \in DOMAIN args |-> IF i = 1 THEN args[i] ELSE <<Blank>> \o args[i]]) \o end
==============================================================================
