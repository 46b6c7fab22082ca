------------------------------- MODULE Service -------------------------------
(***************************************************************************)
(* What the server promises its clients: one store, to which the requests   *)
(* of all clients are applied one at a time, those of a client in the order *)
(* it made them, and to each the answer the store gave at that point.  A    *)
(* connection may be given up at any time; its client then keeps a          *)
(* beginning of its answers, and nothing it asked is executed any more.     *)
(***************************************************************************)
EXTENDS Naturals, Sequences

CONSTANTS
  Clients,
  Digits, Minus, INT_MAX, Malformed, Matches(_, _)

VARIABLES
  map, req, out, rc,       (* the store, and the last request to it          *)
  asked,                   (* what each client asks; <<>> is no request      *)
  done,                    (* how many of a client's requests were executed  *)
  answers,                 (* a client's answers, in pieces                  *)
  over,                    (* the clients whose connection is being given up *)
  serving                  (* the program's own tests of the store are over  *)

K == INSTANCE KeyValueStore WITH Requests <- {}

ProtocolError == K!Error("Protocol error")
ReadErrors    == {K!Error("request too large"), K!OutOfMemory}

Beginnings(s)    == {SubSeq(s, 1, n) : n \in 0 .. Len(s)}
Beginning(s, of) == Len(s) <= Len(of) /\ s = SubSeq(of, 1, Len(s))

HasNext(c) == done[c] < Len(asked[c])
NextOf(c)  == asked[c][done[c] + 1]

Idle == answers = [c \in Clients |-> <<>>] /\ done = [c \in Clients |-> 0]

Apply(r) == req' = r /\ (K!Served(r) \/ K!Refused(r))

(* The connections of S are given up. *)
Lose(S) ==
  /\ over' = over \cup S
  /\ \A c \in Clients : IF c \in S THEN Beginning(answers'[c], answers[c])
                                   ELSE answers'[c] = answers[c]

-----------------------------------------------------------------------------

Init == K!Init /\ Idle /\ over = {} /\ ~serving

(* Until it serves, the program has the store to itself. *)
Prepare ==
  /\ ~serving
  /\ serving' \in BOOLEAN
  /\ UNCHANGED <<asked, done, answers, over>>

(* The next request of c is executed and answered, or, when the answer does
   not fit, executed and the connection given up. *)
Serve(c) ==
  /\ serving /\ c \notin over
  /\ HasNext(c) /\ NextOf(c) # <<>>
  /\ Apply(NextOf(c))
  /\ done' = [done EXCEPT ![c] = @ + 1]
  /\ \/ /\ rc' = 0
        /\ answers' = [answers EXCEPT ![c] = @ \o out']
        /\ over' = over
     \/ /\ rc' # 0
        /\ Lose({c})
  /\ UNCHANGED <<asked, serving>>

(* The connection is given up with an error behind the answers so far, or
   as much of it as fits: something that is no request was met, or the
   requests cannot be read; in the worst case both. *)
GiveUp(c) ==
  /\ c \notin over
  /\ over' = over \cup {c}
  /\ \E e \in IF HasNext(c) /\ NextOf(c) = <<>> THEN Beginnings(ProtocolError)
                                                ELSE {<<>>} :
     \E f \in UNION {Beginnings(m) : m \in ReadErrors} :
       answers' = [answers EXCEPT ![c] = @ \o e \o f]
  /\ UNCHANGED <<map, asked, done, serving>>

(* Connections are lost, or all are because the program is killed, perhaps
   before it serves. *)
Cut ==
  /\ \E S \in SUBSET Clients : Lose(S) /\ serving' \in {serving, S = Clients \/ serving}
  /\ UNCHANGED <<map, asked, done>>

(* The program ends; nothing is kept. *)
Stop ==
  /\ over = Clients
  /\ map' = [k \in {} |-> <<>>]
  /\ UNCHANGED <<asked, done, answers, over, serving>>

Next == Prepare \/ (\E c \in Clients : Serve(c) \/ GiveUp(c)) \/ Cut \/ Stop

Spec == Init /\ [][Next]_<<map, asked, done, answers, over, serving>>
==============================================================================
