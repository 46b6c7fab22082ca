----------------------------- MODULE RespStream ------------------------------
(***************************************************************************)
(* One connection as the parser sees it: a client that writes requests one  *)
(* behind the other, or any bytes at all, and the loop of handle_read() in  *)
(* src/networking.c that reads what has arrived, parses and consumes it.    *)
(* Reads cut the stream anywhere.                                           *)
(***************************************************************************)
EXTENDS Resp

CONSTANTS
  Requests,      (* the argument vectors the client may send                 *)
  MaxRequests,   (* bound: requests it sends                                 *)
  MaxInput       (* bound: bytes of a client that writes anything            *)

(* Its requests are within the limits. *)
ASSUME StreamConstants ==
  \A args \in Requests :
    /\ args \in Seq(Seq(Bytes)) /\ Len(args) \in 1 .. RESP_MAX_ARGC
    /\ \A i \in DOMAIN args : Len(args[i]) <= RESP_MAX_BULK_LEN

VARIABLES
  input,    (* what the connection's input buffer holds                       *)
  legal,    (* the client writes requests, not any bytes                     *)
  sent,     (* the requests written so far                                   *)
  wire,     (* bytes written and not yet read                                *)
  log,      (* the argument vectors the parser found                         *)
  dead      (* the parser has found a protocol error                         *)

vars == <<input, legal, sent, wire, log, dead>>

(* The ways to write a request. *)
Frames(args) ==
  {ArrayFrame(args)} \cup
  {f \in {LineFrame(args, <<LF>>), LineFrame(args, Crlf)} :
     /\ \A i \in DOMAIN args : Typeable(args[i])
     /\ args[1][1] # Star
     /\ Len(f) <= RESP_MAX_INLINE_LEN}

Init ==
  /\ legal \in BOOLEAN
  /\ input = <<>> /\ sent = <<>> /\ wire = <<>> /\ log = <<>> /\ dead = FALSE

(* The client writes a request. *)
Send ==
  /\ legal
  /\ Len(sent) < MaxRequests
  /\ \E args \in Requests : \E f \in Frames(args) :
       /\ sent' = Append(sent, args)
       /\ wire' = wire \o f
  /\ UNCHANGED <<input, legal, log, dead>>

(* A byte from a client that writes anything, up to one behind the first
   request or error. *)
Noise ==
  /\ ~legal /\ ~dead /\ log = <<>>
  /\ Len(input) < MaxInput
  /\ resp_parse_request(SubSeq(input, 1, Len(input) - 1)).st = "NEED_MORE"
  /\ \E c \in Bytes : input' = Append(input, c)
  /\ UNCHANGED <<legal, sent, wire, log, dead>>

(* A read returns any part of what is there. *)
Read ==
  /\ ~dead
  /\ \E n \in 1 .. Len(wire) :
       /\ input' = input \o SubSeq(wire, 1, n)
       /\ wire'  = SubSeq(wire, n + 1, Len(wire))
  /\ UNCHANGED <<legal, sent, log, dead>>

(* One round of the loop: a request is dispatched and its bytes consumed, or
   the connection is given up. *)
Parse ==
  /\ ~dead
  /\ LET r == resp_parse_request(input) IN
       \/ /\ r.st = "OK"
          /\ log' = Append(log, r.args)
          /\ input' = SubSeq(input, r.next, Len(input))
          /\ UNCHANGED dead
       \/ /\ r.st = "PROTOCOL_ERR"
          /\ dead' = TRUE
          /\ UNCHANGED <<input, log>>
  /\ UNCHANGED <<legal, sent, wire>>

Next == Send \/ Noise \/ Read \/ Parse

Spec == Init /\ [][Next]_vars

-----------------------------------------------------------------------------
(* What was dispatched is what was written, in order, argument by argument,
   and no legal request is ever taken for an error, whichever form it was
   written in, whatever bytes its arguments hold and wherever reads cut it. *)
RequestsIntact == legal => log = SubSeq(sent, 1, Len(log)) /\ ~dead

(* When every byte has been read and the parser asks for more, every request
   has been dispatched: none waits for a byte of the one behind it, and the
   bytes consumed with a request were its own. *)
NoneWaits ==
  legal /\ wire = <<>> /\ resp_parse_request(input).st = "NEED_MORE" => log = sent

(* Once the parser has found a request, or an error, no byte that arrives
   later changes what it found: what a client is answered does not depend on
   where its bytes were cut into reads. *)
Settled ==
  [][resp_parse_request(input).st # "NEED_MORE" /\ IsPrefix(input, input')
       => resp_parse_request(input') = resp_parse_request(input)]_input

(* A request takes at least one byte and none that has not arrived, so that
   the loop around the parser makes progress and bytebuf_consume() has what
   it is asked to drop; it has an argument, and no more than the array of
   slices holds. *)
WithinInput ==
  LET r == resp_parse_request(input)
  IN r.st = "OK" => /\ r.next \in 2 .. Len(input) + 1
                    /\ Len(r.args) \in 1 .. RESP_MAX_ARGC
==============================================================================
