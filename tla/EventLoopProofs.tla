--------------------------- MODULE EventLoopProofs ---------------------------
(***************************************************************************)
(* Proofs about the event loop, for every set of clients, buffer size, cut  *)
(* of the streams into read() and write() calls and failing call: what its   *)
(* connections and descriptors always are, and then that neither stream of   *)
(* a connection loses, repeats or reorders anything.  (NumbersProofs is here *)
(* for its facts about sequences; the constants of Numbers play no part.)    *)
(***************************************************************************)
EXTENDS EventLoop, NumbersProofs

-----------------------------------------------------------------------------
(* The inductive invariant.                                                *)

(* Outside the handlers no connection is in hand, and outside the batch
   loop no event is. *)
Control ==
  /\ pc \notin Handling => cur = NoClient
  /\ pc \in {"loop", "enter", "wait", "exited"} => batch = {}

(* What an event of the batch reports was armed, and still is: only the
   handler of a connection changes its mask. *)
BatchArmed ==
  \A e \in batch : e.src # NoClient =>
    /\ e.ev # {}
    /\ e.ev \subseteq sock[e.src].armed \cup {"HUP"}

(* The mask of the connection in hand: the one it was armed with when its
   event came; a new one has none yet.  handle_write() only runs with EPOLLOUT armed.  After the read
   loop there is room for another read(), unless that loop noted an error. *)
InHand ==
  pc \in Handling =>
    /\ conn[cur].events = sock[cur].armed
    /\ pc = "register" => conn[cur] = FreshConn
    /\ pc \in {"read", "dispatch"} => /\ ~conn[cur].closing
                                      /\ curOut => conn[cur].out # <<>>
    /\ pc = "write" => sock[cur].armed =
         {"OUT"} \cup (IF conn[cur].closing THEN {} ELSE {"IN"})
    /\ pc = "dispatch" /\ readErr = "none" => HasRoom(conn[cur].in)
    /\ pc = "write" /\ ~conn[cur].closing => HasRoom(conn[cur].in)

(* No complete frame is left in any buffer but the one being dispatched. *)
FramesDone ==
  \A c \in g_conns :
    (pc \in {"read", "dispatch"} => c # cur) =>
      (~conn[c].closing => Parse(conn[c].in).st = "NEED_MORE")

IInv ==
  /\ TypeOK
  /\ Control
  /\ EventsLive
  /\ FdsOwned
  /\ BatchArmed
  /\ InterestMask
  /\ RoomToRead
  /\ InHand
  /\ FramesDone

-----------------------------------------------------------------------------
(* Types of the operators of the model.                                    *)

(* A reply is a sequence of pieces of the length asked for. *)
LEMMA PiecesType ==
  ASSUME NEW n \in Nat, NEW type \in {"reply", "protocol", "read"},
         NEW len \in Nat
  PROVE  Pieces(n, type, len) \in Seq(Piece) /\ Len(Pieces(n, type, len)) = len
<1>1. \A i \in 1 .. len : [req |-> n, type |-> type, left |-> len - i] \in Piece
  BY DEF Piece
<1> QED  BY <1>1 DEF Pieces

(* A buffer that takes some pieces of a reply stays within its bound and
   keeps what it had. *)
LEMMA AppendToType ==
  ASSUME NEW out \in Seq(Piece), NEW reply \in Seq(Piece),
         NEW k \in Appended(out, reply)
  PROVE  /\ AppendTo(out, reply, k) \in Seq(Piece)
         /\ Len(AppendTo(out, reply, k)) <= OutMax
         /\ out # <<>> => AppendTo(out, reply, k) # <<>>
<1>1. k \in 0 .. Len(reply) /\ Len(out) + k <= OutMax
  BY DEF Appended
<1>2. SubSeq(reply, 1, k) \in Seq(Piece) /\ Len(SubSeq(reply, 1, k)) = k
  BY <1>1
<1>3. /\ AppendTo(out, reply, k) \in Seq(Piece)
      /\ Len(AppendTo(out, reply, k)) = Len(out) + k
  BY <1>2 DEF AppendTo
<1> QED  BY <1>1, <1>3

(* The same for the error replies at the end of handle_read(). *)
LEMMA ErrorRepliesType ==
  ASSUME NEW out \in Seq(Piece), Len(out) <= OutMax, NEW n \in Nat,
         NEW malformed \in BOOLEAN, NEW refused \in BOOLEAN,
         NEW o \in ErrorReplies(out, n, malformed, refused)
  PROVE  /\ o \in Seq(Piece)
         /\ Len(o) <= OutMax
         /\ out # <<>> => o # <<>>
<1> DEFINE Good(b, q) == /\ q \in Seq(Piece)
                         /\ Len(q) <= OutMax
                         /\ b # <<>> => q # <<>>
<1>1. ASSUME NEW b \in Seq(Piece), NEW type \in {"protocol", "read"},
             NEW q \in ErrorReply(b, n, type)
      PROVE  Good(b, q)
  <2>1. Pieces(n, type, ErrorLen) \in Seq(Piece)
    BY PiecesType, ConstantsOK
  <2>2. PICK k \in Appended(b, Pieces(n, type, ErrorLen)) :
          q = AppendTo(b, Pieces(n, type, ErrorLen), k)
    BY <1>1 DEF ErrorReply
  <2> QED  BY <2>1, <2>2, AppendToType
<1> DEFINE outs == IF malformed THEN ErrorReply(out, n, "protocol") ELSE {out}
<1>2. \A b \in outs : Good(out, b)
  BY <1>1
<1>3. CASE ~refused
  BY <1>2, <1>3 DEF ErrorReplies
<1>4. CASE refused
  <2>1. PICK b \in outs : o \in ErrorReply(b, n, "read")
    BY <1>4 DEF ErrorReplies
  <2>2. Good(out, b)
    BY <1>2, <2>1
  <2> HIDE DEF outs
  <2>3. Good(b, o)
    BY <1>1, <2>1, <2>2
  <2> QED  BY <2>2, <2>3
<1> QED  BY <1>3, <1>4

(* A client sends units of its requests. *)
LEMMA NextUnitsType ==
  ASSUME TypeOK, NEW c \in Clients
  PROVE  NextUnits(c) \subseteq Unit
<1>1. log[c].sent \in Seq(Unit)
  BY DEF TypeOK, Log
<1>2. log[c].sent # <<>> => Last(log[c].sent) \in Unit
  BY <1>1 DEF Last
<1>3. Begun(c) \in Nat
  BY <1>2 DEF Begun, Unit
<1>4. \A k \in Kinds : FrameLen[k] - 1 \in Nat
  BY ConstantsOK
<1> QED  BY <1>2, <1>3, <1>4 DEF NextUnits, Unit

(* The kernel's side of a connection after close() and after RST. *)
LEMMA SockTypes ==
  ASSUME NEW s \in Sock
  PROVE  /\ ClosedSock(s) \in Sock
         /\ ClosedSock(s).st = "closed" /\ ClosedSock(s).armed = {}
         /\ ResetSock(s) \in Sock
         /\ ResetSock(s).st = s.st /\ ResetSock(s).armed = s.armed
<1> DEFINE none == <<>>
<1>1. none \in Seq(Unit)
  OBVIOUS
<1>2. /\ ClosedSock(s) = [s EXCEPT !.st = "closed", !.rx = none, !.armed = {}]
      /\ ResetSock(s) = [s EXCEPT !.peer = "reset", !.rx = none, !.inflight = 0]
  BY DEF ClosedSock, ResetSock
<1> HIDE DEF none
<1>3. /\ ClosedSock(s) \in Sock
      /\ ClosedSock(s).st = "closed" /\ ClosedSock(s).armed = {}
  BY <1>1, <1>2 DEF Sock, Mask
<1>5. /\ ResetSock(s) \in Sock
      /\ ResetSock(s).st = s.st /\ ResetSock(s).armed = s.armed
  <2>1. s = [st |-> s.st, rx |-> s.rx, inflight |-> s.inflight,
             armed |-> s.armed, peer |-> s.peer]
    BY DEF Sock
  <2>2. ResetSock(s) = [st |-> s.st, rx |-> none, inflight |-> 0,
                        armed |-> s.armed, peer |-> "reset"]
    BY <1>2, <2>1
  <2> QED  BY <1>1, <2>2 DEF Sock
<1> QED  BY <1>3, <1>5

-----------------------------------------------------------------------------
(* The two ends a handler has.                                             *)

(* conn_t as it is before it is registered. *)
LEMMA FreshConnType ==
  /\ FreshConn \in Conn /\ ~FreshConn.closing
  /\ FreshConn.out = <<>> /\ FreshConn.in = <<>>
BY DEF FreshConn, Conn, Mask

(* close_conn() of the connection in hand, or of the one whose event
   reports EPOLLHUP, in the middle of a batch. *)
LEMMA CloseKeeps ==
  ASSUME IInv, NEW c \in g_conns, Close(c),
         pc \in Handling \cup {"events"}, cur \in {c, NoClient},
         batch' \subseteq batch, \A e \in batch' : e.src # c,
         UNCHANGED <<g_shutdown, rc>>, log' \in [Clients -> Log]
  PROVE  IInv'
<1> USE DEF IInv
<1>1. c \in Clients /\ c # NoClient
  BY ConstantsOK DEF TypeOK
<1>2. /\ pc' = "events" /\ cur' = NoClient /\ curOut' = FALSE
      /\ readErr' = "none" /\ g_conns' = g_conns \ {c}
      /\ conn' = [conn EXCEPT ![c] = FreshConn]
  BY DEF Close
<1>3. /\ sock' \in [Clients -> Sock]
      /\ sock'[c].st = "closed" /\ sock'[c].armed = {}
      /\ \A d \in Clients \ {c} : sock'[d] = sock[d]
  <2>1. sock' = [sock EXCEPT ![c] = ClosedSock(sock[c])]
    BY DEF Close
  <2>2. sock \in [Clients -> Sock] /\ sock[c] \in Sock
    BY <1>1 DEF TypeOK
  <2> QED  BY <1>1, <2>1, <2>2, SockTypes
<1>4. /\ conn' \in [Clients -> Conn] /\ conn'[c] = FreshConn
      /\ \A d \in Clients \ {c} : conn'[d] = conn[d]
  BY <1>1, <1>2, FreshConnType DEF TypeOK
<1>5. TypeOK'
  <2>1. \A d \in Clients : Len(conn'[d].in) <= InMax /\ Len(conn'[d].out) <= OutMax
    BY <1>4, FreshConnType, ConstantsOK DEF TypeOK
  <2> QED  BY <1>1, <1>2, <1>3, <1>4, <2>1 DEF TypeOK, PCs
<1>6. Control'
  BY <1>2 DEF Control, Handling
<1>7. EventsLive'
  BY <1>1, <1>2 DEF EventsLive, Handling
<1>8. FdsOwned'
  BY <1>1, <1>2, <1>3, <1>4 DEF FdsOwned
<1>9. BatchArmed'
  <2>1. \A e \in batch' : e.src # NoClient => e.src \in Clients \ {c}
    BY <1>1 DEF TypeOK, Event
  <2> QED  BY <2>1, <1>3 DEF BatchArmed
<1>10. InterestMask'
  <2>1. \A d \in g_conns' \ {cur'} : d \in g_conns \ {cur} /\ d \in Clients \ {c}
    BY <1>1, <1>2, ConstantsOK DEF TypeOK
  <2> QED  BY <2>1, <1>3, <1>4 DEF InterestMask
<1>11. InHand'
  BY <1>2 DEF InHand, Handling
<1>12. FramesDone'
  <2>1. \A d \in g_conns' : d \in g_conns /\ d \in Clients \ {c} /\ d # cur
    BY <1>1, <1>2, ConstantsOK DEF TypeOK
  <2> QED  BY <2>1, <1>4 DEF FramesDone
<1>13. RoomToRead'
  <2>1. \A d \in g_conns' \ {cur'} : d \in g_conns \ {cur} /\ d \in Clients \ {c}
    BY <1>1, <1>2, ConstantsOK DEF TypeOK
  <2> QED  BY <2>1, <1>4 DEF RoomToRead
<1> QED  BY <1>5, <1>6, <1>7, <1>8, <1>9, <1>10, <1>11, <1>12, <1>13

(* arm_events() with the interest the connection calls for, at the end of
   handle_read() or of handle_write(). *)
LEMMA ArmKeeps ==
  ASSUME IInv, pc \in Handling,
         NEW nc \in Conn, nc.events = conn[cur].events,
         Len(nc.in) <= InMax, Len(nc.out) <= OutMax,
         nc.closing \/ Parse(nc.in).st = "NEED_MORE",
         nc.closing \/ HasRoom(nc.in),
         Want(nc) # {},
         NEW l \in {"write", "events"}, l = "write" => nc.out # <<>>,
         Arm(cur, nc, Want(nc), l),
         UNCHANGED <<batch, g_shutdown, rc>>, log' \in [Clients -> Log]
  PROVE  IInv'
<1> USE DEF IInv
<1>1. cur \in g_conns /\ cur \in Clients /\ cur # NoClient
  BY ConstantsOK DEF TypeOK, EventsLive
<1>2. CASE Close(cur)
  <2>1. \A e \in batch' : e.src # cur
    BY <1>1 DEF EventsLive
  <2> QED  BY <1>1, <1>2, <2>1, CloseKeeps
<1>3. CASE ~Close(cur)
  <2> DEFINE want == Want(nc)
             nc2  == [nc EXCEPT !.events = want]
  <2>1. want \in Mask
    BY DEF Want, ReadInterest, Mask
  <2>2. nc2 \in Conn /\ nc2.events = want /\ nc2.in = nc.in /\ nc2.out = nc.out
                     /\ nc2.closing = nc.closing /\ Want(nc2) = want
    BY <2>1 DEF Conn, Want
  <2>3. conn' = [conn EXCEPT ![cur] = nc2]
    <3>1. nc.events = want => nc = nc2
      BY DEF Conn
    <3> QED  BY <1>3, <3>1 DEF Arm
  <2>4. /\ conn' \in [Clients -> Conn] /\ conn'[cur] = nc2
        /\ \A d \in Clients \ {cur} : conn'[d] = conn[d]
    BY <1>1, <2>2, <2>3 DEF TypeOK
  <2>5. /\ sock' \in [Clients -> Sock] /\ sock'[cur].armed = want
        /\ sock'[cur].st = sock[cur].st
        /\ \A d \in Clients \ {cur} : sock'[d] = sock[d]
    <3>1. CASE nc.events = want
      <4>1. sock[cur].armed = want
        BY <3>1 DEF InHand
      <4> QED  BY <1>3, <3>1, <4>1 DEF Arm, TypeOK
    <3>2. CASE nc.events # want
      <4>1. sock' = [sock EXCEPT ![cur].armed = want]
        BY <1>3, <3>2 DEF Arm
      <4> QED  BY <1>1, <4>1, <2>1 DEF TypeOK, Sock
    <3> QED  BY <3>1, <3>2
  <2>6. /\ pc' = l /\ cur' = (IF l = "write" THEN cur ELSE NoClient)
        /\ curOut' = FALSE /\ readErr' = "none" /\ g_conns' = g_conns
    BY <1>3 DEF Arm, Continue
  <2> HIDE DEF want, nc2
  <2>7. TypeOK'
    <3>1. \A d \in Clients : Len(conn'[d].in) <= InMax /\ Len(conn'[d].out) <= OutMax
      BY <2>2, <2>4 DEF TypeOK
    <3> QED  BY <3>1, <2>4, <2>5, <2>6 DEF TypeOK, PCs
  <2>8. Control'
    BY <2>6 DEF Control, Handling
  <2>9. EventsLive'
    BY <1>1, <2>6 DEF EventsLive, Handling
  <2>10. FdsOwned'
    BY <1>1, <2>4, <2>5, <2>6 DEF FdsOwned
  <2>11. BatchArmed'
    <3>1. \A e \in batch : e.src # NoClient => e.src \in Clients \ {cur}
      BY DEF TypeOK, Event, EventsLive
    <3> QED  BY <3>1, <2>5 DEF BatchArmed
  <2>12. InterestMask'
    <3>1. \A d \in g_conns' \ {cur'} :
            \/ d = cur
            \/ d \in g_conns \ {cur} /\ d \in Clients \ {cur}
      BY <2>6 DEF TypeOK
    <3>2. /\ conn'[cur].events = sock'[cur].armed
          /\ sock'[cur].armed = Want(conn'[cur])
          /\ sock'[cur].armed # {}
      BY <2>2, <2>4, <2>5 DEF want
    <3> QED  BY <3>1, <3>2, <2>4, <2>5 DEF InterestMask
  <2>13. InHand'
    <3>1. l = "write" => want = {"OUT"} \cup (IF nc2.closing THEN {} ELSE {"IN"})
      BY <2>2 DEF want, Want, ReadInterest
    <3> QED  BY <3>1, <2>2, <2>4, <2>5, <2>6 DEF InHand, Handling, HasRoom
  <2>14. FramesDone'
    <3>1. \A d \in g_conns' :
            \/ d = cur
            \/ d \in g_conns \ {cur} /\ d \in Clients \ {cur}
      BY <2>6 DEF TypeOK
    <3>2. conn'[cur].closing \/ Parse(conn'[cur].in).st = "NEED_MORE"
      BY <2>2, <2>4
    <3> QED  BY <3>1, <3>2, <2>4 DEF FramesDone
  <2>15. RoomToRead'
    <3>1. \A d \in g_conns' \ {cur'} :
            \/ d = cur
            \/ d \in g_conns \ {cur} /\ d \in Clients \ {cur}
      BY <2>6 DEF TypeOK
    <3>2. conn'[cur].closing \/ HasRoom(conn'[cur].in)
      BY <2>2, <2>4
    <3> QED  BY <3>1, <3>2, <2>4 DEF RoomToRead, HasRoom
  <2> QED  BY <2>7, <2>8, <2>9, <2>10, <2>11, <2>12, <2>13, <2>14, <2>15
<1> QED  BY <1>2, <1>3

-----------------------------------------------------------------------------
(* The invariant is inductive.                                             *)

LEMMA InitIInv == Init => IInv
<1> SUFFICES ASSUME Init PROVE IInv
  OBVIOUS
<1>1. TypeOK
  <2>1. conn \in [Clients -> Conn]
    BY FreshConnType DEF Init
  <2>2. sock \in [Clients -> Sock] /\ log \in [Clients -> Log]
    BY DEF Init, Sock, Log, Mask
  <2>3. \A c \in Clients : Len(conn[c].in) <= InMax /\ Len(conn[c].out) <= OutMax
    BY FreshConnType, ConstantsOK DEF Init
  <2> QED  BY <2>1, <2>2, <2>3 DEF Init, TypeOK, PCs
<1>2. /\ Control /\ EventsLive /\ BatchArmed /\ InterestMask /\ RoomToRead
      /\ InHand /\ FramesDone
  BY DEF Init, Control, EventsLive, BatchArmed, InterestMask, RoomToRead,
         InHand, FramesDone, Handling
<1>3. FdsOwned
  BY DEF Init, FdsOwned, FreshConn
<1> QED  BY <1>1, <1>2, <1>3 DEF IInv

(* Steps between the events of a batch and around epoll_wait(). *)
LEMMA LoopKeeps ==
  ASSUME IInv,
         \/ CheckShutdown \/ EnterWait \/ EpollReturn \/ BatchDone
         \/ ListenerEvent \/ AcceptDone \/ Signal
  PROVE  IInv'
<1> USE DEF IInv
<1>1. UNCHANGED <<cur, curOut, readErr, g_conns, conn, rc, sock, log>>
  BY DEF CheckShutdown, EnterWait, EpollReturn, BatchDone, ListenerEvent,
         AcceptDone, Signal
<1>2. /\ pc \notin Handling <=> pc' \notin Handling
      /\ pc \in Handling => pc' = pc
      /\ pc' \in PCs /\ g_shutdown' \in BOOLEAN
      /\ pc # "exited" /\ pc' # "exited"
  BY DEF CheckShutdown, EnterWait, EpollReturn, BatchDone, ListenerEvent,
         AcceptDone, Signal, Handling, PCs, TypeOK
<1>3. /\ batch' \subseteq Event
      /\ \A e \in batch' : e.src \in (g_conns \ {cur}) \cup {NoClient}
      /\ \A e, f \in batch' : e.src = f.src => e = f
      /\ BatchArmed'
      /\ pc' \in {"loop", "enter", "wait", "exited"} => batch' = {}
  <2>1. CASE EpollReturn
    <3>1. cur = NoClient /\ pc' = "events"
      BY <2>1 DEF EpollReturn, Control, Handling
    <3>2. PICK hup \in ListenerErrors : batch' \subseteq ReadyEvents(hup)
      BY <2>1 DEF EpollReturn
    <3>3. hup \subseteq {"HUP"}
      BY DEF ListenerErrors
    <3>4. \A c \in Clients : ReadyMask(c) \subseteq sock[c].armed \cup {"HUP"}
      BY DEF ReadyMask
    <3>5. ASSUME NEW e \in ReadyEvents(hup)
          PROVE  \/ /\ e = [src |-> NoClient, ev |-> ListenerMask(hup)]
                    /\ e \in Event
                 \/ /\ e = [src |-> e.src, ev |-> ReadyMask(e.src)]
                    /\ e \in Event /\ e.src \in g_conns /\ e.src # NoClient
                    /\ e.ev # {} /\ e.ev \subseteq sock[e.src].armed \cup {"HUP"}
      <4>1. CASE e = [src |-> NoClient, ev |-> ListenerMask(hup)]
        BY <4>1, <3>3 DEF Event, ListenerMask
      <4>2. CASE \E c \in Clients : /\ e = [src |-> c, ev |-> ReadyMask(c)]
                                    /\ sock[c].st = "open" /\ ReadyMask(c) # {}
        <5>1. PICK c \in Clients : /\ e = [src |-> c, ev |-> ReadyMask(c)]
                                   /\ sock[c].st = "open" /\ ReadyMask(c) # {}
          BY <4>2
        <5>2. sock[c].armed \subseteq {"IN", "OUT"}
          BY DEF TypeOK, Sock, Mask
        <5>3. c \in g_conns /\ c # NoClient
          BY <5>1, ConstantsOK DEF FdsOwned
        <5> QED  BY <5>1, <5>2, <5>3, <3>4 DEF Event
      <4> QED  BY <4>1, <4>2 DEF ReadyEvents
    <3>6. g_conns \ {cur} = g_conns
      BY <3>1, ConstantsOK DEF TypeOK
    <3> QED  BY <1>1, <3>1, <3>2, <3>5, <3>6 DEF BatchArmed
  <2>2. CASE ~EpollReturn
    <3>1. batch' \subseteq batch
      BY <2>2 DEF CheckShutdown, EnterWait, BatchDone, ListenerEvent,
                  AcceptDone, Signal
    <3>2. pc' \in {"loop", "enter", "wait", "exited"} => batch' = {}
      BY <2>2 DEF CheckShutdown, EnterWait, BatchDone, ListenerEvent,
                  AcceptDone, Signal, Control
    <3> QED  BY <1>1, <3>1, <3>2 DEF BatchArmed, EventsLive, TypeOK
  <2> QED  BY <2>1, <2>2
<1>4. TypeOK'
  BY <1>1, <1>2, <1>3 DEF TypeOK
<1>5. Control' /\ EventsLive'
  BY <1>1, <1>2, <1>3 DEF Control, EventsLive
<1>6. FdsOwned'
  BY <1>1, <1>2 DEF FdsOwned, Connected
<1>7. InterestMask'
  BY <1>1 DEF InterestMask
<1>8. InHand' /\ FramesDone' /\ RoomToRead'
  BY <1>1, <1>2 DEF InHand, FramesDone, RoomToRead, HasRoom, Handling
<1> QED  BY <1>3, <1>4, <1>5, <1>6, <1>7, <1>8

(* Steps of clients and of the network change neither the server's state
   nor what it has armed or opened. *)
LEMMA ClientKeeps ==
  ASSUME IInv, NEW c \in Clients, Connect(c) \/ Send(c) \/ Receive(c) \/ Leave(c)
  PROVE  IInv'
<1> USE DEF IInv
<1>1. UNCHANGED <<server, g_shutdown>>
  BY DEF Connect, Send, Receive, Leave
<1>2. /\ sock' \in [Clients -> Sock]
      /\ \A d \in Clients : sock'[d].armed = sock[d].armed
      /\ \A d \in Clients :
           \/ sock'[d].st = sock[d].st
           \/ sock[d].st = "idle" /\ sock'[d].st = "pending" /\ pc # "exited"
  <2>1. CASE Connect(c)
    BY <2>1 DEF Connect, TypeOK, Sock
  <2>2. CASE Send(c)
    <3>1. PICK u \in Unit : sock' = [sock EXCEPT ![c].rx = Append(@, u)]
      BY <2>2, NextUnitsType DEF Send
    <3>2. Append(sock[c].rx, u) \in Seq(Unit)
      BY DEF TypeOK, Sock
    <3> QED  BY <3>1, <3>2 DEF TypeOK, Sock
  <2>3. CASE Receive(c)
    <3>1. /\ sock' = [sock EXCEPT ![c].inflight = sock[c].inflight - 1]
          /\ sock[c].inflight - 1 \in Nat
      BY <2>3 DEF Receive, TypeOK, Sock
    <3> QED  BY <3>1 DEF TypeOK, Sock
  <2>4. CASE Leave(c)
    <3>1. \/ sock' = [sock EXCEPT ![c].peer = "shut"]
          \/ sock' = [sock EXCEPT ![c] = ResetSock(sock[c])]
      BY <2>4 DEF Leave
    <3>2. CASE sock' = [sock EXCEPT ![c].peer = "shut"]
      BY <3>2 DEF TypeOK, Sock
    <3>3. CASE sock' = [sock EXCEPT ![c] = ResetSock(sock[c])]
      <4>1. sock \in [Clients -> Sock] /\ sock[c] \in Sock
        BY DEF TypeOK
      <4> QED  BY <3>3, <4>1, SockTypes
    <3> QED  BY <3>1, <3>2, <3>3
  <2> QED  BY <2>1, <2>2, <2>3, <2>4
<1>3. log' \in [Clients -> Log]
  <2>1. CASE Send(c)
    <3>1. PICK u \in Unit : log' = [log EXCEPT ![c].sent = Append(@, u)]
      BY <2>1, NextUnitsType DEF Send
    <3>2. Append(log[c].sent, u) \in Seq(Unit)
      BY DEF TypeOK, Log
    <3> QED  BY <3>1, <3>2 DEF TypeOK, Log
  <2>2. CASE ~Send(c)
    BY <2>2 DEF Connect, Receive, Leave, TypeOK
  <2> QED  BY <2>1, <2>2
<1>4. TypeOK'
  BY <1>1, <1>2, <1>3 DEF TypeOK, server
<1>5. Control' /\ EventsLive' /\ FramesDone' /\ RoomToRead'
  BY <1>1 DEF Control, EventsLive, FramesDone, RoomToRead, HasRoom, server
<1>6. FdsOwned'
  BY <1>1, <1>2 DEF FdsOwned, server, Connected, TypeOK
<1>7. BatchArmed'
  BY <1>1, <1>2 DEF BatchArmed, server, TypeOK, Event
<1>8. InterestMask'
  BY <1>1, <1>2 DEF InterestMask, server, TypeOK
<1>9. InHand'
  BY <1>1, <1>2, ConstantsOK DEF InHand, server, EventsLive, TypeOK, HasRoom
<1> QED  BY <1>4, <1>5, <1>6, <1>7, <1>8, <1>9

LEMMA HandedOver ==
  ASSUME IInv, pc \in Handling
  PROVE  /\ cur \in Clients /\ cur # NoClient /\ cur \in g_conns
         /\ conn[cur] \in Conn /\ sock[cur] \in Sock /\ log[cur] \in Log
         /\ \A e \in batch : e.src # cur
BY ConstantsOK DEF IInv, TypeOK, EventsLive

(* An event of a connection is handed to close_conn() or to a handler. *)
LEMMA ClientEventKeeps ==
  ASSUME IInv, ClientEvent
  PROVE  IInv'
<1> USE DEF IInv
<1>1. pc = "events" /\ cur = NoClient /\ UNCHANGED <<g_shutdown, rc, log>>
  BY DEF ClientEvent, Control, Handling
<1>2. PICK e \in batch :
        /\ e.src # NoClient
        /\ batch' = batch \ {e}
        /\ \/ "HUP" \in e.ev /\ Close(e.src)
           \/ /\ "HUP" \notin e.ev
              /\ cur' = e.src
              /\ curOut' = (e.ev = {"IN", "OUT"})
              /\ pc' = IF "IN" \in e.ev THEN "read" ELSE "write"
              /\ UNCHANGED <<readErr, g_conns, conn, sock>>
  BY DEF ClientEvent
<1>3. /\ e.src \in g_conns /\ e.src \in Clients
      /\ \A f \in batch' : f \in batch /\ f.src # e.src
  BY <1>1, <1>2 DEF EventsLive, TypeOK
<1>4. CASE Close(e.src)
  BY <1>1, <1>2, <1>3, <1>4, CloseKeeps DEF TypeOK
<1>5. CASE ~Close(e.src)
  <2> DEFINE c == e.src
  <2>1. /\ conn[c].events = sock[c].armed
        /\ sock[c].armed = Want(conn[c])
        /\ e.ev # {} /\ e.ev \subseteq sock[c].armed
    BY <1>1, <1>2, <1>3, <1>5 DEF InterestMask, BatchArmed
  <2>2. /\ "IN" \in e.ev => ~conn[c].closing
        /\ "OUT" \in e.ev => conn[c].out # <<>>
    BY <2>1 DEF Want, ReadInterest
  <2>3. "IN" \notin e.ev => "OUT" \in e.ev
    BY <2>1 DEF Want, ReadInterest
  <2>4. /\ cur' = c /\ batch' \subseteq batch
        /\ curOut' = (e.ev = {"IN", "OUT"})
        /\ pc' = (IF "IN" \in e.ev THEN "read" ELSE "write")
        /\ UNCHANGED <<readErr, g_conns, conn, sock>>
    BY <1>2, <1>5
  <2> HIDE DEF c
  <2>5. c \in g_conns /\ c \in Clients /\ \A f \in batch' : f.src # c
    BY <1>3 DEF c
  <2>6. TypeOK'
    BY <1>1, <2>4, <2>5 DEF TypeOK, PCs
  <2>7. Control' /\ EventsLive'
    BY <1>1, <2>4, <2>5 DEF Control, EventsLive, Handling
  <2>8. FdsOwned' /\ BatchArmed'
    BY <1>1, <2>4 DEF FdsOwned, BatchArmed, Connected
  <2>9. InterestMask'
    BY <1>1, <2>4, ConstantsOK DEF InterestMask, TypeOK
  <2>10. InHand'
    <3>1. ~conn[c].closing => HasRoom(conn[c].in)
      BY <1>1, <2>5, ConstantsOK DEF RoomToRead, TypeOK
    <3> QED  BY <2>1, <2>2, <2>3, <2>4, <3>1
                DEF InHand, Want, ReadInterest, HasRoom
  <2>11. FramesDone' /\ RoomToRead'
    BY <1>1, <2>4, ConstantsOK
       DEF FramesDone, RoomToRead, HasRoom, Handling, TypeOK
  <2> QED  BY <2>6, <2>7, <2>8, <2>9, <2>10, <2>11
<1> QED  BY <1>4, <1>5

(* accept() links a connection that is not registered yet, or leaves no
   trace. *)
LEMMA AcceptKeeps ==
  ASSUME IInv, Accept
  PROVE  IInv'
<1> USE DEF IInv
<1>1. /\ pc = "accept" /\ cur = NoClient
      /\ UNCHANGED <<curOut, batch, readErr, g_shutdown, rc, log>>
  BY DEF Accept, Control, Handling
<1>2. PICK c \in Clients :
        /\ sock[c].st = "pending"
        /\ \/ /\ g_conns' = g_conns \cup {c}
              /\ conn' = [conn EXCEPT ![c] = FreshConn]
              /\ sock' = [sock EXCEPT ![c].st = "open"]
              /\ cur' = c /\ pc' = "register"
           \/ /\ sock' = [sock EXCEPT ![c] = ClosedSock(sock[c])]
              /\ UNCHANGED <<pc, cur, g_conns, conn>>
  BY DEF Accept, Pending
<1>3. /\ c \notin g_conns /\ c # NoClient /\ sock[c] \in Sock
      /\ conn[c] = FreshConn /\ sock[c].armed = {}
      /\ \A d \in g_conns : d \in Clients \ {c}
      /\ \A e \in batch : e.src # NoClient => e.src \in Clients \ {c}
  BY <1>2, ConstantsOK DEF FdsOwned, EventsLive, TypeOK, Event
<1>4. CASE UNCHANGED <<pc, cur, g_conns, conn>>
  <2>1. sock' = [sock EXCEPT ![c] = ClosedSock(sock[c])]
    BY <1>1, <1>2, <1>4
  <2>2. /\ sock' \in [Clients -> Sock]
        /\ sock'[c].st = "closed" /\ sock'[c].armed = {}
        /\ \A d \in Clients \ {c} : sock'[d] = sock[d]
    BY <1>3, <2>1, SockTypes DEF TypeOK
  <2>3. TypeOK' /\ Control' /\ EventsLive' /\ InHand' /\ FramesDone'
    BY <1>1, <1>4, <2>2
       DEF TypeOK, Control, EventsLive, InHand, FramesDone, Handling
  <2>4. FdsOwned'
    BY <1>1, <1>2, <1>3, <1>4, <2>2 DEF FdsOwned
  <2>5. BatchArmed' /\ InterestMask'
    BY <1>1, <1>3, <1>4, <2>2 DEF BatchArmed, InterestMask
  <2>6. RoomToRead'
    BY <1>1, <1>4 DEF RoomToRead, HasRoom
  <2> QED  BY <2>3, <2>4, <2>5, <2>6
<1>5. CASE pc' = "register"
  <2>1. /\ g_conns' = g_conns \cup {c} /\ cur' = c
        /\ conn' = [conn EXCEPT ![c] = FreshConn]
        /\ sock' = [sock EXCEPT ![c].st = "open"]
    BY <1>1, <1>2, <1>5
  <2>2. conn' = conn
    BY <1>3, <2>1 DEF TypeOK
  <2>3. /\ sock' \in [Clients -> Sock]
        /\ sock'[c].st = "open" /\ sock'[c].armed = {}
        /\ \A d \in Clients \ {c} : sock'[d] = sock[d]
    BY <1>3, <2>1 DEF TypeOK, Sock
  <2>4. TypeOK'
    BY <1>1, <1>5, <2>1, <2>2, <2>3 DEF TypeOK, PCs
  <2>5. Control' /\ EventsLive'
    BY <1>1, <1>3, <1>5, <2>1 DEF Control, EventsLive, Handling
  <2>6. InHand'
    <3>1. conn'[cur'] = FreshConn /\ sock'[cur'].armed = {}
      BY <1>3, <2>1, <2>2, <2>3
    <3> QED  BY <1>5, <3>1 DEF InHand, FreshConn
  <2>7. FdsOwned'
    BY <1>1, <1>3, <1>5, <2>1, <2>2, <2>3 DEF FdsOwned
  <2>8. \A d \in g_conns' \ {cur'} : d \in g_conns \ {cur} /\ d \in Clients \ {c}
    BY <1>1, <1>3, <2>1, ConstantsOK
  <2>9. BatchArmed'
    BY <1>1, <1>3, <2>3 DEF BatchArmed
  <2>10. InterestMask'
    BY <2>2, <2>3, <2>8 DEF InterestMask
  <2>11. FramesDone'
    <3>1. Parse(FreshConn.in).st = "NEED_MORE"
      BY FreshConnType DEF Parse
    <3> QED  BY <1>1, <1>3, <1>5, <2>1, <2>2, <3>1 DEF FramesDone
  <2>12. RoomToRead'
    BY <2>2, <2>8 DEF RoomToRead, HasRoom
  <2> QED  BY <2>4, <2>5, <2>6, <2>7, <2>9, <2>10, <2>11, <2>12
<1> QED  BY <1>2, <1>4, <1>5

(* epoll_ctl(ADD) makes a connection like any other of the one in hand, or
   it is taken back. *)
LEMMA RegisterKeeps ==
  ASSUME IInv, Register
  PROVE  IInv'
<1> USE DEF IInv
<1>1. /\ pc = "register" /\ pc \in Handling /\ pc' = "accept" /\ cur' = NoClient
      /\ UNCHANGED <<curOut, batch, readErr, g_shutdown, rc, log>>
  BY DEF Register, Handling
<1>2. /\ cur \in g_conns /\ cur \in Clients /\ cur # NoClient
      /\ sock[cur] \in Sock /\ sock[cur].st = "open" /\ conn[cur] = FreshConn
      /\ \A d \in g_conns : d = cur \/ d \in Clients \ {cur}
      /\ \A e \in batch : e.src # NoClient => e.src \in Clients \ {cur}
  BY <1>1, HandedOver DEF InHand, FdsOwned, TypeOK, Event
<1> DEFINE fresh == [FreshConn EXCEPT !.events = {"IN"}]
<1>3. /\ fresh \in Conn /\ fresh.events = {"IN"} /\ Want(fresh) = {"IN"}
      /\ ~fresh.closing /\ Parse(fresh.in).st = "NEED_MORE"
      /\ HasRoom(fresh.in)
      /\ Len(fresh.in) <= InMax /\ Len(fresh.out) <= OutMax
  <2>1. /\ fresh \in Conn /\ fresh.events = {"IN"} /\ fresh.in = FreshConn.in
        /\ fresh.out = FreshConn.out /\ fresh.closing = FreshConn.closing
    BY FreshConnType DEF Conn, Mask
  <2> HIDE DEF fresh
  <2>2. fresh.in = <<>> /\ fresh.out = <<>> /\ ~fresh.closing
    BY <2>1, FreshConnType
  <2> QED  BY <2>1, <2>2, ConstantsOK DEF Want, ReadInterest, Parse, HasRoom
<1>4. Control' /\ InHand'
  BY <1>1 DEF Control, InHand, Handling
<1>5. CASE Registered
  <2>1. /\ g_conns' = g_conns /\ conn' = [conn EXCEPT ![cur] = fresh]
        /\ sock' = [sock EXCEPT ![cur].armed = {"IN"}]
    <3>1. [conn[cur] EXCEPT !.events = {"IN"}] = fresh
      BY <1>2
    <3>2. conn' = [conn EXCEPT ![cur] = [conn[cur] EXCEPT !.events = {"IN"}]]
      BY <1>5 DEF Registered
    <3> QED  BY <1>5, <3>1, <3>2 DEF Registered
  <2> HIDE DEF fresh
  <2>2. /\ sock' \in [Clients -> Sock]
        /\ sock'[cur].st = "open" /\ sock'[cur].armed = {"IN"}
        /\ \A d \in Clients \ {cur} : sock'[d] = sock[d]
    BY <1>2, <2>1 DEF TypeOK, Sock, Mask
  <2>3. /\ conn' \in [Clients -> Conn] /\ conn'[cur] = fresh
        /\ \A d \in Clients \ {cur} : conn'[d] = conn[d]
    BY <1>2, <1>3, <2>1 DEF TypeOK
  <2>4. TypeOK'
    BY <1>1, <1>3, <2>1, <2>2, <2>3, ConstantsOK DEF TypeOK, PCs
  <2>5. EventsLive' /\ BatchArmed'
    BY <1>1, <1>2, <2>1, <2>2 DEF EventsLive, BatchArmed, Handling
  <2>6. FdsOwned'
    BY <1>1, <1>2, <2>1, <2>2, <2>3 DEF FdsOwned
  <2>7. InterestMask'
    BY <1>1, <1>2, <1>3, <2>1, <2>2, <2>3 DEF InterestMask
  <2>8. FramesDone'
    BY <1>1, <1>2, <1>3, <2>1, <2>3 DEF FramesDone
  <2>9. RoomToRead'
    BY <1>1, <1>2, <1>3, <2>1, <2>3 DEF RoomToRead, HasRoom
  <2> QED  BY <1>4, <2>4, <2>5, <2>6, <2>7, <2>8, <2>9
<1>6. CASE ~Registered
  <2>1. /\ g_conns' = g_conns \ {cur}
        /\ conn' = [conn EXCEPT ![cur] = FreshConn]
        /\ sock' = [sock EXCEPT ![cur] = ClosedSock(sock[cur])]
    BY <1>6 DEF Register
  <2>2. conn' = conn
    BY <1>2, <2>1 DEF TypeOK
  <2>3. /\ sock' \in [Clients -> Sock]
        /\ sock'[cur].st = "closed" /\ sock'[cur].armed = {}
        /\ \A d \in Clients \ {cur} : sock'[d] = sock[d]
    BY <1>2, <2>1, SockTypes DEF TypeOK
  <2>4. TypeOK'
    BY <1>1, <2>1, <2>2, <2>3, ConstantsOK DEF TypeOK, PCs
  <2>5. EventsLive' /\ BatchArmed'
    BY <1>1, <1>2, <2>1, <2>3 DEF EventsLive, BatchArmed, Handling
  <2>6. FdsOwned'
    BY <1>1, <1>2, <2>1, <2>2, <2>3 DEF FdsOwned
  <2>7. InterestMask'
    BY <1>1, <1>2, <2>1, <2>2, <2>3 DEF InterestMask
  <2>8. FramesDone' /\ RoomToRead'
    BY <1>1, <1>2, <2>1, <2>2 DEF FramesDone, RoomToRead, HasRoom
  <2> QED  BY <1>4, <2>4, <2>5, <2>6, <2>7, <2>8
<1> QED  BY <1>5, <1>6

(* A step of a handler that changes only the buffers of the connection in
   hand, and not its mask, keeps the invariant. *)
LEMMA BuffersKeep ==
  ASSUME IInv, pc \in Handling, pc # "register",
         UNCHANGED <<cur, curOut, batch, g_conns, g_shutdown, rc>>,
         readErr' \in {"none", "too_large", "no_memory"},
         pc' = pc \/ (pc = "read" /\ pc' = "dispatch"),
         NEW nc \in Conn, conn' = [conn EXCEPT ![cur] = nc],
         nc.events = conn[cur].events, nc.closing = conn[cur].closing,
         Len(nc.in) <= InMax, Len(nc.out) <= OutMax,
         pc # "write" => (conn[cur].out # <<>> => nc.out # <<>>),
         pc = "write" => nc.in = conn[cur].in,
         pc' = "dispatch" /\ readErr' = "none" => HasRoom(nc.in),
         NEW ns \in Sock, sock' = [sock EXCEPT ![cur] = ns],
         ns.st = sock[cur].st, ns.armed = sock[cur].armed,
         log' \in [Clients -> Log]
  PROVE  IInv'
<1> USE DEF IInv
<1>1. cur \in Clients /\ cur # NoClient /\ cur \in g_conns
  BY HandedOver
<1>2. /\ conn' \in [Clients -> Conn] /\ conn'[cur] = nc
      /\ \A d \in Clients \ {cur} : conn'[d] = conn[d]
      /\ sock' \in [Clients -> Sock] /\ sock'[cur] = ns
      /\ \A d \in Clients \ {cur} : sock'[d] = sock[d]
  BY <1>1 DEF TypeOK
<1>3. TypeOK'
  BY <1>2 DEF TypeOK, Handling, PCs
<1>4. Control' /\ EventsLive'
  BY <1>1 DEF Control, EventsLive, Handling
<1>5. FdsOwned'
  BY <1>1, <1>2 DEF FdsOwned, Connected, Handling
<1>6. BatchArmed'
  <2>1. \A e \in batch : e.src # NoClient => e.src \in Clients \ {cur}
    BY DEF TypeOK, Event, EventsLive
  <2> QED  BY <2>1, <1>2 DEF BatchArmed
<1>7. InterestMask'
  BY <1>2 DEF InterestMask, TypeOK
<1>8. InHand'
  BY <1>2 DEF InHand, Handling, HasRoom
<1>9. FramesDone' /\ RoomToRead'
  <2>1. \A d \in g_conns \ {cur} : d \in Clients \ {cur}
    BY DEF TypeOK
  <2> QED  BY <2>1, <1>2 DEF FramesDone, RoomToRead, HasRoom, Handling
<1> QED  BY <1>3, <1>4, <1>5, <1>6, <1>7, <1>8, <1>9

(* handle_read(), up to its dispatch loop. *)
LEMMA ReadKeeps ==
  ASSUME IInv, ReadRefused \/ ReadSome \/ ReadReturns \/ ReadDrained
  PROVE  IInv'
<1> USE DEF IInv
<1>1. pc = "read" /\ pc \in Handling
  BY DEF ReadRefused, ReadSome, ReadReturns, ReadDrained, CanRead, Handling
<1>2. /\ cur \in Clients /\ cur # NoClient /\ cur \in g_conns
      /\ conn[cur] \in Conn /\ sock[cur] \in Sock
      /\ \A e \in batch : e.src # cur
      /\ Len(conn[cur].in) <= InMax /\ Len(conn[cur].out) <= OutMax
  BY <1>1, HandedOver DEF TypeOK
<1>3. CASE ReadRefused \/ ReadDrained
  <2>1. /\ pc' = "dispatch" /\ readErr' \in {"none", "too_large", "no_memory"}
        /\ UNCHANGED <<cur, curOut, batch, g_conns, conn, g_shutdown, rc,
                       sock, log>>
    BY <1>3 DEF ReadRefused, ReadDrained, TypeOK
  <2>2. /\ conn' = [conn EXCEPT ![cur] = conn[cur]]
        /\ sock' = [sock EXCEPT ![cur] = sock[cur]]
        /\ log' \in [Clients -> Log]
    BY <2>1 DEF TypeOK
  <2>3. readErr' = "none" => HasRoom(conn[cur].in)
    BY <1>3 DEF ReadRefused, ReadDrained, CanRead, HasRoom
  <2> QED  BY <1>1, <1>2, <2>1, <2>2, <2>3, BuffersKeep
<1>4. CASE ReadSome
  <2> DEFINE rx == sock[cur].rx
             n  == IF Len(rx) < ReadChunk THEN Len(rx) ELSE ReadChunk
             in == conn[cur].in \o SubSeq(rx, 1, n)
             nc == [conn[cur] EXCEPT !.in = in]
             ns == [sock[cur] EXCEPT !.rx = SubSeq(rx, n + 1, Len(rx))]
  <2>1. rx \in Seq(Unit) /\ n \in Nat /\ n <= Len(rx) /\ n <= ReadChunk
    BY <1>2, ConstantsOK DEF Sock
  <2>2. conn[cur].in \in Seq(Unit)
    BY <1>2 DEF Conn
  <2>3. /\ SubSeq(rx, 1, n) \in Seq(Unit) /\ Len(SubSeq(rx, 1, n)) = n
        /\ SubSeq(rx, n + 1, Len(rx)) \in Seq(Unit)
    BY <2>1
  <2>4. in \in Seq(Unit) /\ Len(in) = Len(conn[cur].in) + n
    BY <2>2, <2>3
  <2>5. Len(in) <= InMax
    <3>1. Len(conn[cur].in) + ReadChunk <= InMax
      BY <1>4 DEF ReadSome, CanRead
    <3>2. Len(conn[cur].in) \in Nat /\ ReadChunk \in Nat /\ InMax \in Nat
      BY <2>2, ConstantsOK
    <3> HIDE DEF in, n, rx
    <3> QED  BY <2>1, <2>4, <3>1, <3>2
  <2>6. /\ conn' = [conn EXCEPT ![cur] = nc]
        /\ sock' = [sock EXCEPT ![cur] = ns]
        /\ UNCHANGED <<pc, cur, curOut, batch, readErr, g_conns, g_shutdown,
                       rc, log>>
    BY <1>4 DEF ReadSome
  <2> HIDE DEF in, n, rx
  <2>7. nc \in Conn /\ nc.in = in /\ nc.out = conn[cur].out
        /\ nc.events = conn[cur].events /\ nc.closing = conn[cur].closing
    BY <1>2, <2>4 DEF Conn
  <2>8. ns \in Sock /\ ns.st = sock[cur].st /\ ns.armed = sock[cur].armed
    BY <1>2, <2>3 DEF Sock, rx
  <2> HIDE DEF nc, ns
  <2>9. readErr' \in {"none", "too_large", "no_memory"} /\ log' \in [Clients -> Log]
    BY <2>6 DEF TypeOK
  <2> QED  BY <1>1, <1>2, <2>5, <2>6, <2>7, <2>8, <2>9, BuffersKeep
<1>5. CASE ReadReturns
  <2>1. ~conn[cur].closing
    BY <1>1 DEF InHand
  <2>2. Close(cur) /\ UNCHANGED <<batch, g_shutdown, rc, log>>
    BY <1>5, <2>1 DEF ReadReturns
  <2> QED  BY <1>1, <1>2, <2>2, CloseKeeps DEF TypeOK
<1> QED  BY <1>3, <1>4, <1>5

(* One frame parsed, executed, answered and consumed. *)
LEMMA DispatchFrameKeeps ==
  ASSUME IInv, DispatchFrame
  PROVE  IInv'
<1> USE DEF IInv
<1>1. pc = "dispatch" /\ pc \in Handling /\ UNCHANGED <<batch, g_shutdown, rc>>
  BY DEF DispatchFrame, Handling
<1>2. /\ cur \in Clients /\ cur # NoClient /\ cur \in g_conns
      /\ conn[cur] \in Conn /\ sock[cur] \in Sock /\ log[cur] \in Log
      /\ \A e \in batch : e.src # cur
      /\ Len(conn[cur].in) <= InMax /\ Len(conn[cur].out) <= OutMax
  BY <1>1, HandedOver DEF TypeOK
<1> DEFINE in    == conn[cur].in
           used  == Parse(in).used
           reply == Pieces(in[1].req, "reply", ReplyLen[in[1].kind])
           rest  == SubSeq(in, used + 1, Len(in))
<1>3. in \in Seq(Unit) /\ in # <<>> /\ used \in Nat /\ used <= Len(in)
  <2>1. in \in Seq(Unit)
    BY <1>2 DEF Conn
  <2>2. in # <<>> /\ used = in[1].left + 1 /\ in[1].left < Len(in)
    BY DEF DispatchFrame, Parse
  <2>3. in[1] \in Unit
    BY <2>1, <2>2
  <2> HIDE DEF in
  <2> QED  BY <2>1, <2>2, <2>3 DEF Unit
<1>4. in[1] \in Unit
  BY <1>3
<1>5. reply \in Seq(Piece)
  BY <1>4, PiecesType, ConstantsOK DEF Unit
<1>6. rest \in Seq(Unit) /\ Len(rest) <= Len(in)
  BY <1>3
<1>7. log' \in [Clients -> Log]
  <2> DEFINE ex == Append(log[cur].executed, [req |-> in[1].req, kind |-> in[1].kind])
  <2>1. ex \in Seq([req : Nat, kind : Kinds])
    BY <1>2, <1>4 DEF Log, Unit
  <2>2. log' = [log EXCEPT ![cur].executed = ex]
    BY DEF DispatchFrame
  <2> HIDE DEF ex
  <2> QED  BY <2>1, <2>2 DEF TypeOK, Log
<1>8. PICK k \in Appended(conn[cur].out, reply) :
        \/ /\ conn' = [conn EXCEPT ![cur].out = AppendTo(@, reply, k),
                                   ![cur].in  = SubSeq(@, used + 1, Len(@))]
           /\ UNCHANGED <<pc, cur, curOut, readErr, g_conns, sock>>
        \/ Close(cur)
  BY DEF DispatchFrame
<1>9. CASE Close(cur)
  BY <1>1, <1>2, <1>7, <1>9, CloseKeeps DEF TypeOK
<1>10. CASE ~Close(cur)
  <2> DEFINE out == AppendTo(conn[cur].out, reply, k)
             nc  == [conn[cur] EXCEPT !.out = out, !.in = rest]
  <2>1. /\ out \in Seq(Piece) /\ Len(out) <= OutMax
        /\ conn[cur].out # <<>> => out # <<>>
    BY <1>2, <1>5, AppendToType DEF Conn
  <2>2. conn' = [conn EXCEPT ![cur] = nc]
    BY <1>8, <1>10
  <2>3. /\ UNCHANGED <<pc, cur, curOut, readErr, g_conns, sock>>
        /\ sock' = [sock EXCEPT ![cur] = sock[cur]]
        /\ readErr' \in {"none", "too_large", "no_memory"}
    BY <1>8, <1>10 DEF TypeOK
  <2> HIDE DEF out, rest
  <2>4. nc \in Conn /\ nc.in = rest /\ nc.out = out
        /\ nc.events = conn[cur].events /\ nc.closing = conn[cur].closing
    BY <1>2, <1>6, <2>1 DEF Conn
  <2>5. Len(rest) <= InMax
    BY <1>2, <1>3, <1>6, ConstantsOK
  <2>6. readErr' = "none" => HasRoom(rest)
    <3>1. readErr = "none" => Len(in) + ReadChunk <= InMax
      BY <1>1 DEF InHand, HasRoom
    <3>2. Len(in) \in Nat /\ Len(rest) \in Nat /\ ReadChunk \in Nat /\ InMax \in Nat
      BY <1>3, <1>6, ConstantsOK
    <3> HIDE DEF in
    <3> QED  BY <1>6, <2>3, <3>1, <3>2 DEF HasRoom
  <2> HIDE DEF nc, in
  <2> QED  BY <1>1, <1>2, <1>7, <2>1, <2>2, <2>3, <2>4, <2>5, <2>6, BuffersKeep
<1> QED  BY <1>9, <1>10

(* The end of handle_read(): the error replies and the interest mask. *)
LEMMA DispatchEndKeeps ==
  ASSUME IInv, DispatchEnd
  PROVE  IInv'
<1> USE DEF IInv
<1> DEFINE st == Parse(conn[cur].in).st
           n  == Len(log[cur].executed) + 1
           closing == st = "PROTOCOL_ERR" \/ readErr # "none"
<1>1. /\ pc = "dispatch" /\ pc \in Handling
      /\ UNCHANGED <<batch, g_shutdown, rc, log>> /\ st # "OK"
  BY DEF DispatchEnd, Handling
<1>2. /\ cur \in Clients /\ cur # NoClient /\ cur \in g_conns
      /\ conn[cur] \in Conn /\ log[cur] \in Log
      /\ \A e \in batch : e.src # cur
      /\ Len(conn[cur].in) <= InMax /\ Len(conn[cur].out) <= OutMax
  BY <1>1, HandedOver DEF TypeOK
<1>3. PICK out \in ErrorReplies(conn[cur].out, n, st = "PROTOCOL_ERR",
                                readErr # "none") :
        LET want == ReadInterest(closing, out)
            nc   == [conn[cur] EXCEPT !.out = out, !.closing = closing]
        IN IF want = {} THEN Close(cur) ELSE Arm(cur, nc, want, AfterRead)
  BY DEF DispatchEnd
<1> DEFINE nc == [conn[cur] EXCEPT !.out = out, !.closing = closing]
<1>4. /\ out \in Seq(Piece) /\ Len(out) <= OutMax
      /\ conn[cur].out # <<>> => out # <<>>
  <2>1. conn[cur].out \in Seq(Piece) /\ n \in Nat
    BY <1>2 DEF Conn, Log
  <2>2. (st = "PROTOCOL_ERR") \in BOOLEAN /\ (readErr # "none") \in BOOLEAN
    OBVIOUS
  <2>3. out \in ErrorReplies(conn[cur].out, n, st = "PROTOCOL_ERR",
                             readErr # "none")
    BY <1>3
  <2> HIDE DEF st, n
  <2> QED  BY <1>2, <2>1, <2>2, <2>3, ErrorRepliesType
<1>5. /\ closing \in BOOLEAN
      /\ ~closing => st = "NEED_MORE" /\ HasRoom(conn[cur].in)
  BY <1>1 DEF Parse, InHand
<1>6. log' \in [Clients -> Log]
  BY <1>1 DEF TypeOK
<1> HIDE DEF closing, st, n
<1>7. nc \in Conn /\ nc.in = conn[cur].in /\ nc.out = out
      /\ nc.events = conn[cur].events /\ nc.closing = closing
  <2> DEFINE k == conn[cur]
  <2>1. k \in Conn /\ out \in Seq(Piece) /\ closing \in BOOLEAN
    BY <1>2, <1>4, <1>5
  <2>2. nc = [k EXCEPT !.out = out, !.closing = closing]
    OBVIOUS
  <2> HIDE DEF k, nc
  <2>3. nc \in Conn /\ nc.in = k.in /\ nc.out = out
        /\ nc.events = k.events /\ nc.closing = closing
    BY <2>1, <2>2 DEF Conn
  <2> QED  BY <2>3 DEF k
<1>8. Want(nc) = ReadInterest(closing, out)
  BY <1>7 DEF Want
<1>9. CASE ReadInterest(closing, out) = {}
  <2>1. Close(cur)
    BY <1>3, <1>9
  <2> QED  BY <1>1, <1>2, <1>6, <2>1, CloseKeeps
<1>10. CASE ReadInterest(closing, out) # {}
  <2>1. Arm(cur, nc, Want(nc), AfterRead)
    BY <1>3, <1>8, <1>10
  <2>2. AfterRead \in {"write", "events"} /\ (AfterRead = "write" => nc.out # <<>>)
    BY <1>1, <1>4, <1>7 DEF AfterRead, InHand
  <2>3. /\ nc.closing \/ Parse(nc.in).st = "NEED_MORE"
        /\ nc.closing \/ HasRoom(nc.in)
    BY <1>5, <1>7 DEF st
  <2> HIDE DEF nc
  <2> QED  BY <1>1, <1>2, <1>4, <1>6, <1>7, <1>8, <1>10, <2>1, <2>2, <2>3, ArmKeeps
<1> QED  BY <1>9, <1>10

(* handle_write(). *)
LEMMA WriteKeeps ==
  ASSUME IInv, WriteSome \/ WriteBlocked \/ WriteFailed \/ WriteDrained
  PROVE  IInv'
<1> USE DEF IInv
<1>1. pc = "write" /\ pc \in Handling /\ UNCHANGED <<batch, g_shutdown, rc>>
  BY DEF WriteSome, WriteBlocked, WriteFailed, WriteDrained, Handling
<1>2. /\ cur \in Clients /\ cur # NoClient /\ cur \in g_conns
      /\ conn[cur] \in Conn /\ sock[cur] \in Sock /\ log[cur] \in Log
      /\ \A e \in batch : e.src # cur
      /\ Len(conn[cur].in) <= InMax /\ Len(conn[cur].out) <= OutMax
  BY <1>1, HandedOver DEF TypeOK
<1>3. ~conn[cur].closing => /\ Parse(conn[cur].in).st = "NEED_MORE"
                            /\ HasRoom(conn[cur].in)
  BY <1>1, <1>2 DEF FramesDone, InHand
<1>4. CASE WriteSome
  <2>1. PICK n \in 1 .. Len(conn[cur].out) :
          /\ conn' = [conn EXCEPT ![cur].out = SubSeq(@, n + 1, Len(@))]
          /\ sock' = [sock EXCEPT ![cur].inflight = @ + n]
          /\ log'  = [log EXCEPT ![cur].written =
                        @ \o SubSeq(conn[cur].out, 1, n)]
    BY <1>4 DEF WriteSome
  <2> DEFINE out == SubSeq(conn[cur].out, n + 1, Len(conn[cur].out))
             w   == log[cur].written \o SubSeq(conn[cur].out, 1, n)
             nc  == [conn[cur] EXCEPT !.out = out]
             ns  == [sock[cur] EXCEPT !.inflight = sock[cur].inflight + n]
  <2>2. conn[cur].out \in Seq(Piece) /\ n \in Nat /\ n <= Len(conn[cur].out)
    BY <1>2 DEF Conn
  <2>3. out \in Seq(Piece) /\ Len(out) <= Len(conn[cur].out)
    BY <2>2
  <2>4. w \in Seq(Piece)
    BY <1>2, <2>2 DEF Log
  <2>5. /\ conn' = [conn EXCEPT ![cur] = nc]
        /\ sock' = [sock EXCEPT ![cur] = ns]
        /\ log'  = [log EXCEPT ![cur].written = w]
        /\ UNCHANGED <<pc, cur, curOut, readErr, g_conns>>
    BY <1>4, <2>1 DEF WriteSome
  <2> HIDE DEF out, w
  <2>6. nc \in Conn /\ nc.in = conn[cur].in /\ nc.out = out
        /\ nc.events = conn[cur].events /\ nc.closing = conn[cur].closing
    BY <1>2, <2>3 DEF Conn
  <2>7. ns \in Sock /\ ns.st = sock[cur].st /\ ns.armed = sock[cur].armed
    BY <1>2, <2>2 DEF Sock
  <2>8. log' \in [Clients -> Log]
    BY <2>4, <2>5 DEF TypeOK, Log
  <2>9. Len(out) <= OutMax
    BY <1>2, <2>2, <2>3, ConstantsOK
  <2>10. readErr' \in {"none", "too_large", "no_memory"}
    BY <2>5 DEF TypeOK
  <2> HIDE DEF nc, ns
  <2> QED  BY <1>1, <1>2, <2>5, <2>6, <2>7, <2>8, <2>9, <2>10, BuffersKeep
<1>5. CASE WriteBlocked
  <2>1. /\ conn[cur].out # <<>> /\ pc' = "events" /\ cur' = NoClient
        /\ curOut' = FALSE /\ readErr' = "none"
        /\ UNCHANGED <<g_conns, conn, sock, log>>
    BY <1>5 DEF WriteBlocked, Continue
  <2>2. /\ conn[cur].events = sock[cur].armed
        /\ sock[cur].armed = Want(conn[cur]) /\ sock[cur].armed # {}
    BY <1>1, <2>1 DEF InHand, Want, ReadInterest
  <2>3. TypeOK'
    BY <1>1, <2>1 DEF TypeOK, PCs
  <2>4. Control' /\ EventsLive' /\ BatchArmed' /\ InHand'
    BY <1>1, <2>1 DEF Control, EventsLive, BatchArmed, InHand, Handling
  <2>5. FdsOwned'
    BY <2>1 DEF FdsOwned, Connected
  <2>6. InterestMask'
    BY <2>1, <2>2 DEF InterestMask
  <2>7. FramesDone'
    BY <1>1, <1>3, <2>1 DEF FramesDone
  <2>8. RoomToRead'
    BY <1>3, <2>1 DEF RoomToRead, HasRoom
  <2> QED  BY <2>3, <2>4, <2>5, <2>6, <2>7, <2>8
<1>6. CASE Close(cur) /\ UNCHANGED log
  BY <1>1, <1>2, <1>6, CloseKeeps DEF TypeOK
<1>7. CASE WriteFailed
  BY <1>6, <1>7 DEF WriteFailed
<1>8. CASE WriteDrained
  <2>1. UNCHANGED log /\ conn[cur].out = <<>>
    BY <1>8 DEF WriteDrained
  <2>2. CASE conn[cur].closing
    BY <1>6, <1>8, <2>2 DEF WriteDrained
  <2>3. CASE ~conn[cur].closing
    <3>1. Want(conn[cur]) = {"IN"}
      BY <2>1, <2>3 DEF Want, ReadInterest
    <3>2. Arm(cur, conn[cur], Want(conn[cur]), "events")
      BY <1>8, <2>3, <3>1 DEF WriteDrained
    <3>3. log' \in [Clients -> Log] /\ Want(conn[cur]) # {}
      BY <2>1, <3>1 DEF TypeOK
    <3> QED  BY <1>1, <1>2, <1>3, <2>3, <3>2, <3>3, ArmKeeps
  <2> QED  BY <2>2, <2>3
<1> QED  BY <1>4, <1>5, <1>7, <1>8

(* The teardown closes what is live and what is still queued. *)
LEMMA TeardownKeeps ==
  ASSUME IInv, Teardown
  PROVE  IInv'
<1> USE DEF IInv
<1>1. /\ pc \in {"loop", "wait"} /\ cur = NoClient /\ batch = {}
      /\ pc' = "exited" /\ g_conns' = {} /\ rc' = 0
      /\ conn' = [c \in Clients |-> FreshConn]
      /\ UNCHANGED <<cur, curOut, batch, readErr, g_shutdown, log>>
  BY DEF Teardown, Control, Handling
<1>2. \A c \in Clients : sock[c] \in Sock
  BY DEF TypeOK
<1>3. sock' = [c \in Clients |-> IF c \in g_conns \cup Pending
                                   THEN ClosedSock(sock[c]) ELSE sock[c]]
  BY DEF Teardown
<1>4. /\ sock' \in [Clients -> Sock]
      /\ \A c \in Clients : sock'[c].st \notin {"pending", "open"}
      /\ \A c \in Clients : sock'[c].armed = {}
  <2>1. \A c \in Clients : c \notin g_conns \cup Pending =>
          /\ sock[c].st \notin {"pending", "open"} /\ sock[c].armed = {}
    BY DEF FdsOwned, Pending
  <2> QED  BY <1>2, <1>3, <2>1, SockTypes
<1>5. TypeOK'
  BY <1>1, <1>4, FreshConnType, ConstantsOK DEF TypeOK, PCs
<1>6. /\ Control' /\ EventsLive' /\ BatchArmed' /\ InterestMask' /\ InHand'
      /\ FramesDone' /\ RoomToRead'
  BY <1>1 DEF Control, EventsLive, BatchArmed, InterestMask, InHand,
              FramesDone, RoomToRead, Handling
<1>7. FdsOwned'
  BY <1>1, <1>4 DEF FdsOwned, Connected
<1> QED  BY <1>5, <1>6, <1>7

LEMMA NextIInv == IInv /\ [Next]_vars => IInv'
<1> SUFFICES ASSUME IInv, [Next]_vars PROVE IInv'
  OBVIOUS
<1>1. CASE ServerStep
  <2>1. CASE \/ CheckShutdown \/ EnterWait \/ EpollReturn \/ BatchDone
             \/ ListenerEvent \/ AcceptDone
    BY <2>1, LoopKeeps
  <2>2. CASE ClientEvent
    BY <2>2, ClientEventKeeps
  <2>3. CASE Accept \/ Register
    BY <2>3, AcceptKeeps, RegisterKeeps
  <2>4. CASE ReadRefused \/ ReadSome \/ ReadReturns \/ ReadDrained
    BY <2>4, ReadKeeps
  <2>5. CASE DispatchFrame
    BY <2>5, DispatchFrameKeeps
  <2>6. CASE DispatchEnd
    BY <2>6, DispatchEndKeeps
  <2>7. CASE WriteSome \/ WriteBlocked \/ WriteFailed \/ WriteDrained
    BY <2>7, WriteKeeps
  <2>8. CASE Teardown
    BY <2>8, TeardownKeeps
  <2> QED  BY <1>1, <2>1, <2>2, <2>3, <2>4, <2>5, <2>6, <2>7, <2>8
              DEF ServerStep
<1>2. CASE ClientStep
  BY <1>2, ClientKeeps DEF ClientStep
<1>3. CASE Signal
  BY <1>3, LoopKeeps
<1>4. CASE UNCHANGED vars
  BY <1>4 DEF vars, IInv, TypeOK, Control, EventsLive, FdsOwned, Connected,
              BatchArmed, InterestMask, RoomToRead, HasRoom, InHand, FramesDone
<1> QED  BY <1>1, <1>2, <1>3, <1>4 DEF Next

-----------------------------------------------------------------------------
(* The theorems.                                                           *)

(* Every reachable state satisfies the inductive invariant. *)
THEOREM Invariance == Spec => []IInv
BY InitIInv, NextIInv, PTL DEF Spec

(* The server's state is always of its type, and no buffer of a connection
   ever holds more than BYTEBUF_MAX. *)
THEOREM TypeCorrect == Spec => []TypeOK
<1>1. IInv => TypeOK
  BY DEF IInv
<1> QED  BY <1>1, Invariance, PTL

(* No handler is ever given a connection that was closed and freed. *)
THEOREM NoUseAfterClose == Spec => []EventsLive
<1>1. IInv => EventsLive
  BY DEF IInv
<1> QED  BY <1>1, Invariance, PTL

(* Descriptors and list entries go together on every path, and none is left
   when net_run() returns. *)
THEOREM NoDescriptorLeak == Spec => []FdsOwned
<1>1. IInv => FdsOwned
  BY DEF IInv
<1> QED  BY <1>1, Invariance, PTL

(* Between events the kernel's mask, its cached copy and the buffers agree. *)
THEOREM MasksAgree == Spec => []InterestMask
<1>1. IInv => InterestMask
  BY DEF IInv
<1> QED  BY <1>1, Invariance, PTL

(* The closing branch of handle_read() is dead code. *)
THEOREM ClosingNeverRead == Spec => []NoReadWhileClosing
<1>1. IInv => NoReadWhileClosing
  BY DEF IInv, InHand, NoReadWhileClosing, Handling
<1> QED  BY <1>1, Invariance, PTL

(* No complete request waits in a buffer while the loop is in epoll_wait(). *)
THEOREM NothingLeftBehind == Spec => []NoIdleFrame
<1>1. IInv => NoIdleFrame
  BY DEF IInv, FramesDone, NoIdleFrame
<1> QED  BY <1>1, Invariance, PTL

(* A connection that is still read can take another read(): no request, of
   whatever announced length, stalls on a full buffer. *)
THEOREM RoomRemains == Spec => []RoomToRead
<1>1. IInv => RoomToRead
  BY DEF IInv
<1> QED  BY <1>1, Invariance, PTL

-----------------------------------------------------------------------------
(* close_after_drain is final.                                             *)

LEMMA SameBuffers ==
  ASSUME IInv, IInv', NEW c \in g_conns, conn[c].closing,
         log'[c].executed = log[c].executed,
         c \in g_conns' => conn'[c] = conn[c]
  PROVE  OnlyFlushes(c)
<1>1. c \in Clients /\ conn[c].out \in Seq(Piece)
  BY DEF IInv, TypeOK, Conn
<1>2. conn[c].out = SubSeq(conn[c].out, 0 + 1, Len(conn[c].out))
  BY <1>1
<1>3. c \in g_conns' /\ cur' # c => "IN" \notin sock'[c].armed
  BY DEF IInv, InterestMask, Want, ReadInterest
<1> QED  BY <1>1, <1>2, <1>3 DEF OnlyFlushes

LEMMA ClosingStep ==
  ASSUME IInv, IInv', [Next]_vars, NEW c \in g_conns, conn[c].closing
  PROVE  OnlyFlushes(c)
<1> USE DEF IInv
<1>1. c \in Clients /\ c # NoClient /\ log[c] \in Log /\ conn[c] \in Conn
  BY ConstantsOK DEF TypeOK
<1>2. pc \in {"read", "dispatch"} => cur # c
  BY DEF InHand, Handling
<1>3. ASSUME log' = log, c \in g_conns' => conn' = conn
      PROVE  OnlyFlushes(c)
  BY <1>3, SameBuffers
<1>4. CASE \/ CheckShutdown \/ EnterWait \/ EpollReturn \/ BatchDone
           \/ ListenerEvent \/ AcceptDone \/ Signal \/ ReadRefused
           \/ ReadDrained \/ UNCHANGED vars
  BY <1>3, <1>4 DEF CheckShutdown, EnterWait, EpollReturn, BatchDone,
     ListenerEvent, AcceptDone, Signal, ReadRefused, ReadDrained, vars
<1>5. CASE ClientStep
  <2>1. PICK d \in Clients : Connect(d) \/ Send(d) \/ Receive(d) \/ Leave(d)
    BY <1>5 DEF ClientStep
  <2>2. conn' = conn
    BY <2>1 DEF Connect, Send, Receive, Leave, server
  <2>3. log'[c].executed = log[c].executed
    <3>1. CASE Send(d)
      <4>1. PICK u \in Unit : log' = [log EXCEPT ![d].sent = Append(@, u)]
        BY <3>1, NextUnitsType DEF Send
      <4>2. CASE d # c
        BY <1>1, <4>1, <4>2 DEF TypeOK
      <4>3. CASE d = c
        <5>1. log'[c] = [log[c] EXCEPT !.sent = Append(log[c].sent, u)]
          BY <1>1, <4>1, <4>3 DEF TypeOK
        <5> QED  BY <1>1, <5>1 DEF Log
      <4> QED  BY <4>2, <4>3
    <3>2. CASE ~Send(d)
      BY <2>1, <3>2 DEF Connect, Receive, Leave
    <3> QED  BY <3>1, <3>2
  <2> QED  BY <2>2, <2>3, SameBuffers
<1>6. ASSUME NEW d \in Clients \ {c}, Close(d), log'[c] = log[c]
      PROVE  OnlyFlushes(c)
  <2>1. conn'[c] = conn[c]
    BY <1>1, <1>6 DEF Close, TypeOK
  <2> QED  BY <1>6, <2>1, SameBuffers
<1>7. ASSUME Close(c), log'[c] = log[c]
      PROVE  OnlyFlushes(c)
  <2>1. c \notin g_conns'
    BY <1>7 DEF Close
  <2> QED  BY <1>7, <2>1, SameBuffers
<1>8. CASE ClientEvent
  <2>1. log' = log
    BY <1>8 DEF ClientEvent
  <2>2. CASE conn' = conn
    BY <1>3, <2>1, <2>2
  <2>3. CASE \E e \in batch : e.src # NoClient /\ Close(e.src)
    <3>1. PICK e \in batch : e.src # NoClient /\ Close(e.src)
      BY <2>3
    <3>2. e.src \in Clients
      BY <3>1 DEF TypeOK, Event
    <3> QED  BY <1>6, <1>7, <2>1, <3>1, <3>2
  <2> QED  BY <1>8, <2>2, <2>3 DEF ClientEvent
<1>9. CASE Accept \/ Register
  <2>1. \A d \in Pending : d # c
    BY DEF Pending, FdsOwned
  <2>2. pc = "register" => cur \in Clients \ {c}
    BY HandedOver, FreshConnType DEF InHand, Handling
  <2>3. log' = log /\ conn'[c] = conn[c]
    BY <1>1, <1>9, <2>1, <2>2 DEF Accept, Register, Registered, TypeOK
  <2> QED  BY <2>3, SameBuffers
<1>10. CASE ReadSome \/ ReadReturns
  <2>1. pc = "read" /\ cur \in Clients \ {c} /\ log' = log
    BY <1>2, <1>10, HandedOver
       DEF ReadSome, ReadReturns, CanRead, Handling
  <2>2. ~conn[cur].closing
    BY <2>1 DEF InHand, Handling
  <2>3. CASE ReadSome
    <3>1. conn'[c] = conn[c]
      BY <1>1, <2>1, <2>3 DEF ReadSome, TypeOK
    <3> QED  BY <2>1, <3>1, SameBuffers
  <2>4. CASE ReadReturns
    BY <1>6, <2>1, <2>2, <2>4 DEF ReadReturns
  <2> QED  BY <1>10, <2>3, <2>4
<1>11. CASE DispatchFrame
  <2>1. pc = "dispatch" /\ cur \in Clients \ {c}
    BY <1>2, <1>11, HandedOver DEF DispatchFrame, Handling
  <2>2. log'[c] = log[c]
    BY <1>1, <1>11, <2>1 DEF DispatchFrame, TypeOK
  <2>3. conn'[c] = conn[c] \/ Close(cur)
    BY <1>1, <1>11, <2>1 DEF DispatchFrame, TypeOK
  <2> QED  BY <1>6, <2>1, <2>2, <2>3, SameBuffers
<1>12. CASE DispatchEnd
  <2>1. pc = "dispatch" /\ cur \in Clients \ {c} /\ log' = log
    BY <1>2, <1>12, HandedOver DEF DispatchEnd, Handling
  <2>2. conn'[c] = conn[c] \/ Close(cur)
    BY <1>1, <1>12, <2>1 DEF DispatchEnd, Arm, TypeOK
  <2> QED  BY <1>6, <2>1, <2>2, SameBuffers
<1>13. CASE WriteBlocked \/ WriteFailed \/ WriteDrained
  <2>1. pc = "write" /\ cur \in Clients /\ log' = log
    BY <1>13, HandedOver DEF WriteBlocked, WriteFailed, WriteDrained, Handling
  <2>2. CASE Close(cur)
    BY <1>6, <1>7, <2>1, <2>2
  <2>3. CASE ~Close(cur)
    <3>1. conn'[c] = conn[c]
      BY <1>1, <1>13, <2>1, <2>3
         DEF WriteBlocked, WriteFailed, WriteDrained, Arm, TypeOK
    <3> QED  BY <2>1, <3>1, SameBuffers
  <2> QED  BY <2>2, <2>3
<1>14. CASE WriteSome
  <2>1. pc = "write" /\ cur \in Clients
    BY <1>14, HandedOver DEF WriteSome, Handling
  <2>2. PICK n \in 1 .. Len(conn[cur].out) :
          /\ conn' = [conn EXCEPT ![cur].out = SubSeq(@, n + 1, Len(@))]
          /\ log'  = [log EXCEPT ![cur].written =
                        @ \o SubSeq(conn[cur].out, 1, n)]
    BY <1>14 DEF WriteSome
  <2>3. log'[c].executed = log[c].executed
    BY <1>1, <2>1, <2>2 DEF TypeOK, Log
  <2>4. CASE cur # c
    BY <1>1, <2>1, <2>2, <2>3, <2>4, SameBuffers DEF TypeOK
  <2>5. CASE cur = c
    <3>1. conn'[c] = [conn[c] EXCEPT !.out = SubSeq(conn[c].out, n + 1,
                                                    Len(conn[c].out))]
      BY <1>1, <2>2, <2>5 DEF TypeOK
    <3>2. /\ conn'[c].closing /\ conn'[c].in = conn[c].in
          /\ conn'[c].out = SubSeq(conn[c].out, n + 1, Len(conn[c].out))
      BY <1>1, <3>1 DEF Conn
    <3>3. cur' = c /\ n \in 0 .. Len(conn[c].out)
      BY <1>14, <2>5 DEF WriteSome
    <3> QED  BY <2>3, <3>2, <3>3 DEF OnlyFlushes
  <2> QED  BY <2>4, <2>5
<1>15. CASE Teardown
  BY <1>3, <1>15 DEF Teardown
<1> QED  BY <1>4, <1>5, <1>8, <1>9, <1>10, <1>11, <1>12, <1>13, <1>14, <1>15
         DEF Next, ServerStep

(* After the error that marks a connection for closing, the connection is
   only ever flushed and closed. *)
THEOREM ClosingFinal == Spec => ClosingIsFinal
<1>1. IInv /\ IInv' /\ [Next]_vars =>
        [\A c \in g_conns : conn[c].closing => OnlyFlushes(c)]_vars
  BY ClosingStep
<1> QED  BY <1>1, Invariance, PTL DEF Spec, ClosingIsFinal

-----------------------------------------------------------------------------
(* The inductive invariant.                                                *)

Request == [req : Nat, kind : Kinds]

(* The units of the client's stream are whole frames, one after the other,
   the last of which may still be missing its end. *)
Starts(u)   == u.left = FrameLen[u.kind] - 1
WellFormed(sent) ==
  \A i \in 1 .. Len(sent) :
    IF i = 1 \/ sent[i - 1].left = 0
      THEN Starts(sent[i])
      ELSE sent[i] = [sent[i - 1] EXCEPT !.left = @ - 1]

FrameEnd(s) == s = <<>> \/ s[Len(s)].left = 0

(* Of every connection, live or not: the frames of the executed requests
   begin what was sent, and end at the end of a frame. *)
Consumed(l) ==
  /\ WellFormed(l.sent)
  /\ IsPrefix(Frames(l.executed), l.sent)
  /\ FrameEnd(Frames(l.executed))

(* Of a connection that is not closed: in_buf goes on where the executed
   requests end, and the socket where in_buf ends. *)
InputLive(s, k, l) ==
  /\ IsPrefix(Frames(l.executed) \o k.in, l.sent)
  /\ s.peer = "reset" => s.rx = <<>>
  /\ s.peer # "reset" => (Frames(l.executed) \o k.in) \o s.rx = l.sent

OutputLive(k, l) ==
  /\ RepliesThenErrors(l.written \o k.out, l.executed)
  /\ (\E i \in DOMAIN (l.written \o k.out) : IsError((l.written \o k.out)[i]))
       => k.closing

OutputCut(l) ==
  \/ IsPrefix(l.written, Replies(l.executed))
  \/ RepliesThenErrors(l.written, l.executed)

StreamsOf(s, k, l) ==
  /\ Consumed(l)
  /\ s.st # "closed" => InputLive(s, k, l) /\ OutputLive(k, l)
  /\ s.st = "closed" => OutputCut(l)

StreamInv == \A c \in Clients : StreamsOf(sock[c], conn[c], log[c])

-----------------------------------------------------------------------------
(* The frames of requests and their replies.                               *)

LEMMA FrameType ==
  ASSUME NEW r \in Request
  PROVE  /\ Frame(r) \in Seq(Unit) /\ Len(Frame(r)) = FrameLen[r.kind]
         /\ Frame(r) # <<>> /\ FrameEnd(Frame(r))
         /\ \A i \in 1 .. FrameLen[r.kind] :
              Frame(r)[i] = [req |-> r.req, kind |-> r.kind, left |-> FrameLen[r.kind] - i]
<1> DEFINE n == FrameLen[r.kind]
<1>1. n \in Nat \ {0} /\ r.req \in Nat /\ r.kind \in Kinds
  BY ConstantsOK DEF Request
<1>2. Frame(r) = [i \in 1 .. n |-> [req |-> r.req, kind |-> r.kind, left |-> n - i]]
  BY DEF Frame
<1> HIDE DEF n
<1>3. \A i \in 1 .. n : [req |-> r.req, kind |-> r.kind, left |-> n - i] \in Unit
  BY <1>1 DEF Unit
<1>4. Frame(r) \in Seq(Unit) /\ Len(Frame(r)) = n
  <2>1. Frame(r) \in [1 .. n -> Unit] /\ n \in Nat
    BY <1>1, <1>2, <1>3
  <2> QED  BY <2>1
<1>5. \A i \in 1 .. n :
        Frame(r)[i] = [req |-> r.req, kind |-> r.kind, left |-> n - i]
  BY <1>2
<1>6. Frame(r)[n].left = 0
  <2>1. Frame(r)[n] = [req |-> r.req, kind |-> r.kind, left |-> n - n]
    BY <1>1, <1>5
  <2>2. n - n = 0
    BY <1>1
  <2> QED  BY <2>1, <2>2
<1>7. Frame(r) # <<>> /\ FrameEnd(Frame(r))
  BY <1>1, <1>4, <1>6 DEF FrameEnd
<1> QED  BY <1>4, <1>5, <1>7 DEF n

LEMMA ReplyType ==
  ASSUME NEW r \in Request
  PROVE  Reply(r) \in Seq(Piece) /\ \A i \in 1 .. Len(Reply(r)) : ~IsError(Reply(r)[i])
<1>1. r.req \in Nat /\ ReplyLen[r.kind] \in Nat
  BY ConstantsOK DEF Request
<1>2. Reply(r) \in Seq(Piece) /\ Len(Reply(r)) = ReplyLen[r.kind]
  BY <1>1, PiecesType DEF Reply
<1>3. \A i \in 1 .. ReplyLen[r.kind] : Reply(r)[i].type = "reply"
  BY DEF Reply, Pieces
<1> QED  BY <1>2, <1>3 DEF IsError

LEMMA FramesAppend ==
  ASSUME NEW ex \in Seq(Request), NEW r \in Request
  PROVE  /\ Frames(ex) \in Seq(Unit)
         /\ Frames(Append(ex, r)) = Frames(ex) \o Frame(r)
<1>1. ASSUME NEW f, f = [q \in Request |-> Frame(q)]
      PROVE  /\ Frames(ex) \in Seq(Unit)
             /\ Frames(Append(ex, r)) = Frames(ex) \o Frame(r)
  <2>1. f \in [Request -> Seq(Unit)] /\ f[r] = Frame(r)
    BY <1>1, FrameType
  <2>2. \A e \in Seq(Request) : Frames(e) = FlattenSeq(Mapped(f, e))
    <3> SUFFICES ASSUME NEW e \in Seq(Request)
                 PROVE  Frames(e) = FlattenSeq(Mapped(f, e))
      OBVIOUS
    <3>1. \A i \in DOMAIN e : f[e[i]] = Frame(e[i])
      BY <1>1
    <3>2. [i \in DOMAIN e |-> Frame(e[i])] = Mapped(f, e)
      BY <3>1, Zenon DEF Mapped
    <3> QED  BY <3>2 DEF Frames
  <2>3. Append(ex, r) \in Seq(Request) /\ f[r] \in Seq(Unit)
    BY <2>1
  <2>4. /\ Mapped(f, ex) \in Seq(Seq(Unit))
        /\ Mapped(f, Append(ex, r)) = Append(Mapped(f, ex), f[r])
    <3>1. Maps(f, Request, Seq(Unit))
      BY <2>1 DEF Maps
    <3> QED  BY <3>1, MapAppend
  <2>5. /\ FlattenSeq(Mapped(f, ex)) \in Seq(Unit)
        /\ FlattenSeq(Append(Mapped(f, ex), f[r])) = FlattenSeq(Mapped(f, ex)) \o f[r]
    BY <2>3, <2>4, FlattenAppend, Zenon
  <2> QED  BY <2>1, <2>2, <2>3, <2>4, <2>5, Zenon
<1> QED  BY <1>1

LEMMA RepliesAppend ==
  ASSUME NEW ex \in Seq(Request), NEW r \in Request
  PROVE  /\ Replies(ex) \in Seq(Piece)
         /\ Replies(Append(ex, r)) = Replies(ex) \o Reply(r)
<1>1. ASSUME NEW f, f = [q \in Request |-> Reply(q)]
      PROVE  /\ Replies(ex) \in Seq(Piece)
             /\ Replies(Append(ex, r)) = Replies(ex) \o Reply(r)
  <2>1. f \in [Request -> Seq(Piece)] /\ f[r] = Reply(r)
    BY <1>1, ReplyType
  <2>2. \A e \in Seq(Request) : Replies(e) = FlattenSeq(Mapped(f, e))
    <3> SUFFICES ASSUME NEW e \in Seq(Request)
                 PROVE  Replies(e) = FlattenSeq(Mapped(f, e))
      OBVIOUS
    <3>1. \A i \in DOMAIN e : f[e[i]] = Reply(e[i])
      BY <1>1
    <3>2. [i \in DOMAIN e |-> Reply(e[i])] = Mapped(f, e)
      BY <3>1, Zenon DEF Mapped
    <3> QED  BY <3>2 DEF Replies
  <2>3. Append(ex, r) \in Seq(Request) /\ f[r] \in Seq(Piece)
    BY <2>1
  <2>4. /\ Mapped(f, ex) \in Seq(Seq(Piece))
        /\ Mapped(f, Append(ex, r)) = Append(Mapped(f, ex), f[r])
    <3>1. Maps(f, Request, Seq(Piece))
      BY <2>1 DEF Maps
    <3> QED  BY <3>1, MapAppend
  <2>5. /\ FlattenSeq(Mapped(f, ex)) \in Seq(Piece)
        /\ FlattenSeq(Append(Mapped(f, ex), f[r])) = FlattenSeq(Mapped(f, ex)) \o f[r]
    BY <2>3, <2>4, FlattenAppend, Zenon
  <2> QED  BY <2>1, <2>2, <2>3, <2>4, <2>5, Zenon
<1> QED  BY <1>1

(* Before the first request there is nothing. *)
LEMMA NoFrames == Frames(<<>>) = <<>> /\ Replies(<<>>) = <<>>
<1> DEFINE none == <<>>
<1>1. \A g : DOMAIN g = {} /\ g = [i \in {} |-> g[i]] => g = <<>>
  OBVIOUS
<1>2. /\ [i \in DOMAIN none |-> Frame(none[i])] = <<>>
      /\ [i \in DOMAIN none |-> Reply(none[i])] = <<>>
  OBVIOUS
<1>3. /\ Frames(none) = FlattenSeq([i \in DOMAIN none |-> Frame(none[i])])
      /\ Replies(none) = FlattenSeq([i \in DOMAIN none |-> Reply(none[i])])
  BY DEF Frames, Replies
<1> QED  BY <1>2, <1>3, FlattenEmpty

LEMMA StreamsType ==
  ASSUME NEW ex \in Seq(Request)
  PROVE  Frames(ex) \in Seq(Unit) /\ Replies(ex) \in Seq(Piece)
<1>1. CASE ex = <<>>
  <2>1. Frames(ex) = <<>> /\ Replies(ex) = <<>>
    BY <1>1, NoFrames, Zenon
  <2> QED  BY <2>1
<1>2. CASE ex # <<>>
  <2>1. ex[1] \in Request
    BY <1>2
  <2> QED  BY <2>1, FramesAppend, RepliesAppend
<1> QED  BY <1>1, <1>2

-----------------------------------------------------------------------------
(* Frames in the client's stream.                                          *)

LEMMA UnitFields ==
  ASSUME NEW u \in Unit
  PROVE  /\ u.req \in Nat /\ u.kind \in Kinds /\ u.left \in Nat
         /\ u = [req |-> u.req, kind |-> u.kind, left |-> u.left]
BY DEF Unit

(* A stream goes on with a frame wherever a frame ends. *)
LEMMA FrameSent ==
  ASSUME NEW sent \in Seq(Unit), WellFormed(sent),
         NEW p \in Nat, p < Len(sent), p = 0 \/ sent[p].left = 0,
         NEW u, u = sent[p + 1]
  PROVE  /\ Starts(u)
         /\ \A j \in Nat : j <= u.left /\ p + 1 + j <= Len(sent) =>
              sent[p + 1 + j] = [req |-> u.req, kind |-> u.kind, left |-> u.left - j]
<1>1. p + 1 \in 1 .. Len(sent) /\ (p + 1) - 1 = p /\ Len(sent) \in Nat
  OBVIOUS
<1>2. u \in Unit /\ u.left \in Nat
      /\ u = [req |-> u.req, kind |-> u.kind, left |-> u.left]
  <2>1. u \in Unit
    BY <1>1, ElementOfSeq
  <2> QED  BY <2>1, UnitFields
<1>3. Starts(u)
  <2>1. p + 1 = 1 \/ sent[(p + 1) - 1].left = 0
    BY <1>1
  <2> QED  BY <1>1, <2>1 DEF WellFormed
<1> DEFINE At(j) == [req |-> u.req, kind |-> u.kind, left |-> u.left - j]
           T == {j \in Nat : j <= u.left /\ p + 1 + j <= Len(sent) => sent[p + 1 + j] = At(j)}
<1>4. 0 \in T
  <2>1. u.left - 0 = u.left /\ p + 1 + 0 = p + 1
    BY <1>2
  <2> QED  BY <1>2, <2>1
<1>5. ASSUME NEW j \in Nat, j \in T PROVE j + 1 \in T
  <2> SUFFICES ASSUME j + 1 <= u.left, p + 1 + (j + 1) <= Len(sent)
               PROVE  sent[p + 1 + (j + 1)] = At(j + 1)
    OBVIOUS
  <2> DEFINE k == p + 1 + (j + 1)
  <2>1. k \in 1 .. Len(sent) /\ k # 1 /\ k - 1 = p + 1 + j
    BY <1>1
  <2>2. sent[k - 1] = At(j)
    <3>1. j <= u.left /\ p + 1 + j <= Len(sent)
      BY <1>1, <1>2
    <3> QED  BY <1>5, <2>1, <3>1
  <2>3. At(j).left = u.left - j /\ u.left - j # 0 /\ (u.left - j) - 1 = u.left - (j + 1)
    BY <1>2
  <2> HIDE DEF k
  <2>4. sent[k] = [sent[k - 1] EXCEPT !.left = @ - 1]
    BY <2>1, <2>2, <2>3 DEF WellFormed
  <2>5. sent[k] = [At(j) EXCEPT !.left = u.left - (j + 1)]
    BY <2>2, <2>3, <2>4
  <2>6. [At(j) EXCEPT !.left = u.left - (j + 1)] = At(j + 1)
    OBVIOUS
  <2> QED  BY <2>5, <2>6 DEF k
<1> HIDE DEF T
<1>6. Nat \subseteq T
  BY <1>4, <1>5, NumberInduction
<1> QED  BY <1>3, <1>6 DEF T

(* So a buffer that holds as many units as its first one announces begins
   with the frame of that request. *)
LEMMA NextFrame ==
  ASSUME NEW F \in Seq(Unit), FrameEnd(F), NEW in \in Seq(Unit),
         NEW sent \in Seq(Unit), WellFormed(sent), IsPrefix(F \o in, sent),
         in # <<>>, in[1].left < Len(in),
         NEW r, r = [req |-> in[1].req, kind |-> in[1].kind],
         NEW n, n = in[1].left + 1
  PROVE  /\ r \in Request /\ n \in 0 .. Len(in)
         /\ Frame(r) \o SubSeq(in, n + 1, Len(in)) = in
         /\ SubSeq(in, n + 1, Len(in)) \in Seq(Unit)
<1> DEFINE u == in[1]
<1>1. u \in Unit /\ u.req \in Nat /\ u.kind \in Kinds /\ u.left \in Nat
  <2>1. u \in Unit
    OBVIOUS
  <2> QED  BY <2>1, UnitFields
<1>2. r \in Request /\ n \in 1 .. Len(in) /\ n \in 0 .. Len(in) /\ n = u.left + 1
      /\ r.req = u.req /\ r.kind = u.kind
  BY <1>1 DEF Request
<1>3. /\ Len(F) \in Nat /\ Len(in) \in Nat /\ Len(F) + Len(in) <= Len(sent)
      /\ \A i \in 1 .. Len(F) : sent[i] = F[i]
      /\ \A i \in 1 .. Len(in) : sent[Len(F) + i] = in[i]
  <2>1. /\ F \o in \in Seq(Unit) /\ Len(F \o in) = Len(F) + Len(in)
        /\ Len(F) \in Nat /\ Len(in) \in Nat
        /\ \A i \in 1 .. Len(F) : (F \o in)[i] = F[i]
        /\ \A i \in 1 .. Len(in) : (F \o in)[Len(F) + i] = in[i]
    OBVIOUS
  <2>2. /\ Len(F \o in) <= Len(sent)
        /\ \A i \in 1 .. Len(F \o in) : sent[i] = (F \o in)[i]
    BY <2>1, PrefixAt
  <2>3. \A i \in 1 .. Len(in) : Len(F) + i \in 1 .. Len(F) + Len(in)
    BY <2>1
  <2>4. \A i \in 1 .. Len(F) : i \in 1 .. Len(F) + Len(in)
    BY <2>1
  <2> QED  BY <2>1, <2>2, <2>3, <2>4
<1>4. Len(F) < Len(sent) /\ (Len(F) = 0 \/ sent[Len(F)].left = 0)
      /\ u = sent[Len(F) + 1]
  <2>1. 1 \in 1 .. Len(in)
    BY <1>2, <1>3
  <2>2. ASSUME Len(F) # 0 PROVE sent[Len(F)].left = 0
    <3>1. F[Len(F)].left = 0
      BY <2>2 DEF FrameEnd
    <3>2. Len(F) \in 1 .. Len(F)
      BY <2>2
    <3>3. sent[Len(F)] = F[Len(F)]
      BY <1>3, <3>2
    <3> QED  BY <3>1, <3>3
  <2> QED  BY <1>3, <2>1, <2>2
<1> DEFINE m == Len(F)
<1>5. /\ Starts(u)
      /\ \A j \in Nat : j <= u.left /\ m + 1 + j <= Len(sent) =>
           sent[m + 1 + j] = [req |-> u.req, kind |-> u.kind, left |-> u.left - j]
  <2>1. m \in Nat /\ m < Len(sent) /\ (m = 0 \/ sent[m].left = 0) /\ u = sent[m + 1]
    BY <1>3, <1>4
  <2> HIDE DEF m, u
  <2> QED  BY <2>1, FrameSent
<1>6. FrameLen[r.kind] = n /\ FrameLen[r.kind] \in Nat
  <2> HIDE DEF u
  <2>1. u.left = FrameLen[u.kind] - 1
    BY <1>5 DEF Starts
  <2>2. FrameLen[u.kind] \in Nat
    BY <1>1, ConstantsOK
  <2>3. FrameLen[u.kind] = n
    BY <1>2, <2>1, <2>2
  <2> QED  BY <1>2, <2>2, <2>3
<1>7. ASSUME NEW i \in 1 .. n
      PROVE  in[i] = [req |-> r.req, kind |-> r.kind, left |-> n - i]
  <2> HIDE DEF u
  <2> DEFINE left == u.left
  <2>1. i - 1 \in Nat /\ i - 1 <= left /\ m + 1 + (i - 1) = m + i
        /\ m + i <= Len(sent) /\ i \in 1 .. Len(in) /\ left - (i - 1) = n - i
    <3>1. left \in Nat /\ n = left + 1 /\ n <= Len(in) /\ m \in Nat /\ Len(in) \in Nat
          /\ m + Len(in) <= Len(sent) /\ Len(sent) \in Nat /\ i \in 1 .. n
      BY <1>1, <1>2, <1>3
    <3> HIDE DEF left, m
    <3> QED  BY <3>1
  <2>2. sent[m + 1 + (i - 1)] = [req |-> u.req, kind |-> u.kind, left |-> u.left - (i - 1)]
    BY <1>5, <2>1
  <2>3. sent[m + i] = in[i]
    BY <1>3, <2>1
  <2> QED  BY <1>2, <2>1, <2>2, <2>3
<1> HIDE DEF u, m
<1>8. SubSeq(in, 1, n) = Frame(r)
  <2>1. /\ Frame(r) \in Seq(Unit) /\ Len(Frame(r)) = n
        /\ \A i \in 1 .. n : Frame(r)[i] = in[i]
    <3>1. /\ Frame(r) \in Seq(Unit) /\ Len(Frame(r)) = FrameLen[r.kind]
          /\ \A i \in 1 .. FrameLen[r.kind] :
               Frame(r)[i] = [req |-> r.req, kind |-> r.kind, left |-> FrameLen[r.kind] - i]
      BY <1>2, FrameType
    <3>2. \A i \in 1 .. n :
            Frame(r)[i] = [req |-> r.req, kind |-> r.kind, left |-> n - i]
      BY <1>6, <3>1, Zenon
    <3> QED  BY <1>6, <1>7, <3>1, <3>2, Zenon
  <2>2. /\ SubSeq(in, 1, n) \in Seq(Unit) /\ Len(SubSeq(in, 1, n)) = n
        /\ \A i \in 1 .. n : SubSeq(in, 1, n)[i] = in[i]
    BY <1>2
  <2>3. \A i \in 1 .. Len(SubSeq(in, 1, n)) : SubSeq(in, 1, n)[i] = Frame(r)[i]
    BY <2>1, <2>2
  <2> QED  BY <2>1, <2>2, <2>3, SeqEqual
<1> QED  BY <1>2, <1>8, SplitAt

(* A client goes on with its frame, or begins the next one. *)
LEMMA FormAppend ==
  ASSUME TypeOK, NEW c \in Clients, WellFormed(log[c].sent), NEW u \in NextUnits(c)
  PROVE  u \in Unit /\ WellFormed(Append(log[c].sent, u))
<1> DEFINE sent == log[c].sent
           more == Append(sent, u)
<1>1. u \in Unit /\ sent \in Seq(Unit)
  BY NextUnitsType DEF TypeOK, Log
<1>2. /\ Len(sent) \in Nat /\ Len(more) = Len(sent) + 1 /\ more[Len(sent) + 1] = u
      /\ \A i \in 1 .. Len(sent) : more[i] = sent[i]
  BY <1>1
<1>3. CASE sent # <<>> /\ Last(sent).left > 0
  <2>1. u = [sent[Len(sent)] EXCEPT !.left = @ - 1]
    BY <1>3 DEF NextUnits, Last
  <2>2. Len(sent) # 0 /\ sent[Len(sent)].left # 0
    BY <1>1, <1>3 DEF Last
  <2> HIDE DEF sent, more
  <2>3. ASSUME NEW i \in 1 .. Len(more)
        PROVE  IF i = 1 \/ more[i - 1].left = 0
                 THEN Starts(more[i])
                 ELSE more[i] = [more[i - 1] EXCEPT !.left = @ - 1]
    <3>1. CASE i = Len(sent) + 1
      BY <1>2, <2>1, <2>2, <3>1
    <3>2. CASE i # Len(sent) + 1
      <4>1. i \in 1 .. Len(sent) /\ (i # 1 => i - 1 \in 1 .. Len(sent))
        BY <1>2, <3>2
      <4>2. WellFormed(sent)
        BY DEF sent
      <4> QED  BY <1>2, <4>1, <4>2 DEF WellFormed
    <3> QED  BY <3>1, <3>2
  <2>4. WellFormed(more)
    BY <2>3 DEF WellFormed
  <2> QED  BY <1>1, <2>4 DEF more, sent
<1>4. CASE ~(sent # <<>> /\ Last(sent).left > 0)
  <2>1. Starts(u)
    <3>1. PICK k \in Kinds :
            u = [req |-> Begun(c) + 1, kind |-> k, left |-> FrameLen[k] - 1]
      BY <1>4 DEF NextUnits
    <3> QED  BY <3>1 DEF Starts
  <2>2. Len(sent) # 0 => sent[Len(sent)].left = 0
    <3>1. Len(sent) # 0 => sent # <<>> /\ sent[Len(sent)].left \in Nat
      <4> HIDE DEF sent
      <4>1. Len(sent) # 0 => sent # <<>> /\ sent[Len(sent)] \in Unit
        BY <1>1
      <4> QED  BY <4>1, UnitFields
    <3> QED  BY <1>4, <3>1 DEF Last
  <2> HIDE DEF sent, more
  <2>3. ASSUME NEW i \in 1 .. Len(more)
        PROVE  IF i = 1 \/ more[i - 1].left = 0
                 THEN Starts(more[i])
                 ELSE more[i] = [more[i - 1] EXCEPT !.left = @ - 1]
    <3>1. CASE i = Len(sent) + 1
      BY <1>2, <2>1, <2>2, <3>1
    <3>2. CASE i # Len(sent) + 1
      <4>1. i \in 1 .. Len(sent) /\ (i # 1 => i - 1 \in 1 .. Len(sent))
        BY <1>2, <3>2
      <4>2. WellFormed(sent)
        BY DEF sent
      <4> QED  BY <1>2, <4>1, <4>2 DEF WellFormed
    <3> QED  BY <3>1, <3>2
  <2>4. WellFormed(more)
    BY <2>3 DEF WellFormed
  <2> QED  BY <1>1, <2>4 DEF more, sent
<1> QED  BY <1>3, <1>4

-----------------------------------------------------------------------------
(* Replies and errors in the server's stream.                              *)

AllErrors(e) == \A i \in 1 .. Len(e) : IsError(e[i])

(* What is appended of an error reply is pieces of an error. *)
LEMMA ErrorPieces ==
  ASSUME NEW out \in Seq(Piece), NEW n \in Nat, NEW type \in {"protocol", "read"},
         NEW o \in ErrorReply(out, n, type)
  PROVE  \E e \in Seq(Piece) : o = out \o e /\ AllErrors(e)
<1> DEFINE reply == Pieces(n, type, ErrorLen)
<1>1. reply \in Seq(Piece) /\ Len(reply) = ErrorLen
  <2>1. ErrorLen \in Nat /\ type \in {"reply", "protocol", "read"}
    BY ConstantsOK
  <2> QED  BY <2>1, PiecesType
<1>2. \A i \in 1 .. ErrorLen : IsError(reply[i])
  BY DEF Pieces, IsError
<1> HIDE DEF reply
<1>3. PICK k \in 0 .. Len(reply) : o = AppendTo(out, reply, k)
  BY DEF ErrorReply, Appended, reply
<1> DEFINE e == SubSeq(reply, 1, k)
<1>4. e \in Seq(Piece) /\ Len(e) = k /\ \A i \in 1 .. k : e[i] = reply[i]
  BY <1>1, <1>3
<1>5. o = out \o e
  BY <1>3 DEF AppendTo
<1>6. AllErrors(e)
  BY <1>1, <1>2, <1>4 DEF AllErrors
<1> QED  BY <1>4, <1>5, <1>6

LEMMA ErrorsConcat ==
  ASSUME NEW d \in Seq(Piece), AllErrors(d), NEW e \in Seq(Piece), AllErrors(e)
  PROVE  AllErrors(d \o e)
BY DEF AllErrors

LEMMA ErrorRepliesAre ==
  ASSUME NEW out \in Seq(Piece), NEW n \in Nat,
         NEW malformed \in BOOLEAN, NEW refused \in BOOLEAN,
         NEW o \in ErrorReplies(out, n, malformed, refused)
  PROVE  \E e \in Seq(Piece) :
           /\ o = out \o e /\ AllErrors(e)
           /\ malformed = FALSE /\ refused = FALSE => e = <<>>
<1> DEFINE outs == IF malformed THEN ErrorReply(out, n, "protocol") ELSE {out}
<1>1. <<>> \in Seq(Piece) /\ AllErrors(<<>>) /\ out \o <<>> = out
  BY DEF AllErrors
<1>2. \A b \in outs : \E d \in Seq(Piece) : /\ b = out \o d /\ AllErrors(d)
                                            /\ ~malformed => d = <<>>
  BY <1>1, ErrorPieces
<1>3. CASE ~refused
  BY <1>2, <1>3 DEF ErrorReplies
<1>4. CASE refused
  <2>1. PICK b \in outs : o \in ErrorReply(b, n, "read")
    BY <1>4 DEF ErrorReplies
  <2>2. PICK d \in Seq(Piece) : b = out \o d /\ AllErrors(d)
    BY <1>2, <2>1
  <2> HIDE DEF outs
  <2>3. b \in Seq(Piece)
    BY <2>2
  <2>4. PICK e \in Seq(Piece) : o = b \o e /\ AllErrors(e)
    BY <2>1, <2>3, ErrorPieces
  <2>5. o = out \o (d \o e) /\ d \o e \in Seq(Piece)
    BY <2>2, <2>4, ConcatAssociative, ConcatProperties
  <2> QED  BY <1>4, <2>2, <2>4, <2>5, ErrorsConcat
<1> QED  BY <1>3, <1>4

(* Without an error the stream is the replies and nothing else. *)
LEMMA OnlyReplies ==
  ASSUME NEW s \in Seq(Piece), NEW ex, Replies(ex) \in Seq(Piece),
         RepliesThenErrors(s, ex), \A i \in 1 .. Len(s) : ~IsError(s[i])
  PROVE  s = Replies(ex)
<1> DEFINE R == Replies(ex)
<1>1. IsPrefix(R, s) /\ \A i \in Len(R) + 1 .. Len(s) : IsError(s[i])
  BY DEF RepliesThenErrors
<1>2. R \in Seq(Piece)
  OBVIOUS
<1> HIDE DEF R
<1>3. Len(R) <= Len(s) /\ \A i \in 1 .. Len(R) : s[i] = R[i]
  BY <1>1, <1>2, PrefixAt
<1>4. Len(R) = Len(s)
  <2> SUFFICES ASSUME Len(R) < Len(s) PROVE FALSE
    BY <1>2, <1>3
  <2>1. Len(s) \in Len(R) + 1 .. Len(s) /\ Len(s) \in 1 .. Len(s)
    BY <1>2
  <2> QED  BY <1>1, <2>1
<1>5. s = R
  BY <1>2, <1>3, <1>4, SeqEqual
<1> QED  BY <1>5 DEF R

LEMMA MoreErrors ==
  ASSUME NEW s \in Seq(Piece), NEW ex, Replies(ex) \in Seq(Piece),
         RepliesThenErrors(s, ex), NEW e \in Seq(Piece), AllErrors(e)
  PROVE  RepliesThenErrors(s \o e, ex)
<1> DEFINE R == Replies(ex)
           t == s \o e
<1>1. IsPrefix(R, s) /\ \A i \in Len(R) + 1 .. Len(s) : IsError(s[i])
  BY DEF RepliesThenErrors
<1>2. R \in Seq(Piece)
  OBVIOUS
<1>3. IsPrefix(R, t)
  BY <1>1, <1>2, LongerWhole
<1>4. /\ Len(t) = Len(s) + Len(e) /\ Len(s) \in Nat /\ Len(e) \in Nat
      /\ \A i \in 1 .. Len(s) + Len(e) : t[i] = IF i <= Len(s) THEN s[i] ELSE e[i - Len(s)]
  BY ConcatProperties
<1>5. Len(R) \in Nat
  BY <1>2
<1> HIDE DEF R, t
<1>6. ASSUME NEW i \in Len(R) + 1 .. Len(t) PROVE IsError(t[i])
  <2>1. i \in 1 .. Len(s) + Len(e)
    BY <1>4, <1>5
  <2>2. CASE i <= Len(s)
    BY <1>1, <1>4, <1>5, <2>1, <2>2
  <2>3. CASE ~(i <= Len(s))
    <3>1. i - Len(s) \in 1 .. Len(e)
      BY <1>4, <2>1, <2>3
    <3> QED  BY <1>4, <2>1, <2>3, <3>1 DEF AllErrors
  <2> QED  BY <2>2, <2>3
<1> QED  BY <1>3, <1>6 DEF RepliesThenErrors, R, t

(* What was written when the connection ends begins the stream. *)
LEMMA CutAnywhere ==
  ASSUME NEW w \in Seq(Piece), NEW out \in Seq(Piece), NEW ex,
         Replies(ex) \in Seq(Piece), RepliesThenErrors(w \o out, ex)
  PROVE  IsPrefix(w, Replies(ex)) \/ RepliesThenErrors(w, ex)
<1> DEFINE R == Replies(ex)
           t == w \o out
<1>1. IsPrefix(R, t) /\ \A i \in Len(R) + 1 .. Len(t) : IsError(t[i])
  BY DEF RepliesThenErrors
<1>2. R \in Seq(Piece) /\ t \in Seq(Piece) /\ Len(R) \in Nat /\ Len(w) \in Nat
      /\ Len(w) <= Len(t) /\ \A i \in 1 .. Len(w) : t[i] = w[i]
  OBVIOUS
<1> HIDE DEF R, t
<1>3. Len(R) <= Len(t) /\ \A i \in 1 .. Len(R) : t[i] = R[i]
  BY <1>1, <1>2, PrefixAt
<1>4. CASE Len(w) <= Len(R)
  <2>1. \A i \in 1 .. Len(w) : R[i] = w[i]
    BY <1>2, <1>3, <1>4
  <2>2. IsPrefix(w, R)
    BY <1>2, <1>4, <2>1, PrefixWhen
  <2> QED  BY <2>2 DEF R
<1>5. CASE Len(R) < Len(w)
  <2>1. \A i \in 1 .. Len(R) : w[i] = R[i]
    BY <1>2, <1>3, <1>5
  <2>2. IsPrefix(R, w)
    BY <1>2, <1>5, <2>1, PrefixWhen
  <2>3. \A i \in Len(R) + 1 .. Len(w) : IsError(w[i])
    BY <1>1, <1>2, <1>5
  <2> QED  BY <2>2, <2>3 DEF RepliesThenErrors, R
<1> QED  BY <1>2, <1>4, <1>5

-----------------------------------------------------------------------------
(* Steps that change one connection.                                       *)

LEMMA StreamTypes ==
  ASSUME TypeOK, NEW c \in Clients
  PROVE  /\ log[c].sent \in Seq(Unit) /\ log[c].executed \in Seq(Request)
         /\ log[c].written \in Seq(Piece)
         /\ conn[c].in \in Seq(Unit) /\ conn[c].out \in Seq(Piece)
         /\ sock[c].rx \in Seq(Unit)
         /\ Frames(log[c].executed) \in Seq(Unit)
         /\ Replies(log[c].executed) \in Seq(Piece)
<1>1. log[c] \in Log /\ conn[c] \in Conn /\ sock[c] \in Sock
  BY DEF TypeOK
<1>2. log[c].executed \in Seq(Request)
  BY <1>1 DEF Log, Request
<1>3. /\ log[c].sent \in Seq(Unit) /\ log[c].written \in Seq(Piece)
      /\ conn[c].in \in Seq(Unit) /\ conn[c].out \in Seq(Piece)
      /\ sock[c].rx \in Seq(Unit)
  BY <1>1 DEF Log, Conn, Sock
<1> QED  BY <1>2, <1>3, StreamsType

LEMMA OneChanges ==
  ASSUME StreamInv, NEW c \in Clients,
         \A d \in Clients \ {c} : /\ sock'[d] = sock[d] /\ conn'[d] = conn[d]
                                  /\ log'[d] = log[d],
         StreamsOf(sock'[c], conn'[c], log'[c])
  PROVE  StreamInv'
<1> SUFFICES ASSUME NEW d \in Clients PROVE StreamsOf(sock'[d], conn'[d], log'[d])
  BY DEF StreamInv
<1>1. CASE d = c
  BY <1>1
<1>2. CASE d # c
  <2>1. StreamsOf(sock[d], conn[d], log[d])
    BY DEF StreamInv
  <2>2. sock'[d] = sock[d] /\ conn'[d] = conn[d] /\ log'[d] = log[d]
    BY <1>2
  <2> QED  BY <2>1, <2>2
<1> QED  BY <1>1, <1>2

(* A connection may end at any moment. *)
LEMMA CutOf ==
  ASSUME TypeOK, StreamInv, NEW c \in Clients
  PROVE  Consumed(log[c]) /\ OutputCut(log[c])
<1>1. StreamsOf(sock[c], conn[c], log[c])
  BY DEF StreamInv
<1>2. CASE sock[c].st = "closed"
  BY <1>1, <1>2 DEF StreamsOf
<1>3. CASE sock[c].st # "closed"
  <2>1. RepliesThenErrors(log[c].written \o conn[c].out, log[c].executed)
    BY <1>1, <1>3 DEF StreamsOf, OutputLive
  <2>2. OutputCut(log[c])
    BY <2>1, StreamTypes, CutAnywhere DEF OutputCut
  <2> QED  BY <1>1, <2>2 DEF StreamsOf
<1> QED  BY <1>2, <1>3

LEMMA CloseStreams ==
  ASSUME TypeOK, StreamInv, NEW c \in Clients, Close(c),
         Consumed(log'[c]), OutputCut(log'[c]),
         \A d \in Clients \ {c} : log'[d] = log[d]
  PROVE  StreamInv'
<1>1. /\ sock' = [sock EXCEPT ![c] = ClosedSock(sock[c])]
      /\ conn' = [conn EXCEPT ![c] = FreshConn]
  BY DEF Close
<1>2. ClosedSock(sock[c]).st = "closed"
  BY SockTypes DEF TypeOK
<1>3. /\ sock'[c].st = "closed"
      /\ \A d \in Clients \ {c} : sock'[d] = sock[d] /\ conn'[d] = conn[d]
  BY <1>1, <1>2 DEF TypeOK
<1>4. StreamsOf(sock'[c], conn'[c], log'[c])
  BY <1>3 DEF StreamsOf
<1> QED  BY <1>3, <1>4, OneChanges

(* close_conn() of a connection whose streams did not change. *)
LEMMA CloseKeepsStreams ==
  ASSUME TypeOK, StreamInv, NEW c \in Clients, Close(c), log' = log
  PROVE  StreamInv'
BY CutOf, CloseStreams

(* What a connection in hand satisfies. *)
LEMMA LiveStreams ==
  ASSUME IInv, StreamInv, NEW c \in g_conns
  PROVE  /\ c \in Clients /\ sock[c].st = "open" /\ Consumed(log[c])
         /\ InputLive(sock[c], conn[c], log[c]) /\ OutputLive(conn[c], log[c])
<1>1. c \in Clients /\ sock[c].st = "open"
  BY DEF IInv, TypeOK, FdsOwned
<1> QED  BY <1>1 DEF StreamInv, StreamsOf

(* arm_events() at the end of a handler. *)
LEMMA ArmKeepsStreams ==
  ASSUME IInv, StreamInv, cur \in g_conns, NEW nc \in Conn, nc.in = conn[cur].in,
         OutputLive(nc, log[cur]), NEW want, NEW l, Arm(cur, nc, want, l), log' = log
  PROVE  StreamInv'
<1>1. TypeOK /\ cur \in Clients /\ sock[cur].st = "open" /\ Consumed(log[cur])
      /\ InputLive(sock[cur], conn[cur], log[cur]) /\ sock[cur] \in Sock
  BY LiveStreams DEF IInv, TypeOK
<1>2. CASE Close(cur)
  BY <1>1, <1>2, CloseKeepsStreams
<1>3. CASE ~Close(cur)
  <2>1. \/ conn' = [conn EXCEPT ![cur] = nc] /\ sock' = sock
        \/ /\ conn' = [conn EXCEPT ![cur] = [nc EXCEPT !.events = want]]
           /\ sock' = [sock EXCEPT ![cur].armed = want]
    BY <1>3 DEF Arm
  <2>2. /\ conn'[cur].in = nc.in /\ conn'[cur].out = nc.out
        /\ conn'[cur].closing = nc.closing
        /\ \A d \in Clients \ {cur} : conn'[d] = conn[d] /\ sock'[d] = sock[d]
    BY <1>1, <2>1 DEF TypeOK, Conn
  <2>3. /\ sock'[cur].st = sock[cur].st /\ sock'[cur].rx = sock[cur].rx
        /\ sock'[cur].peer = sock[cur].peer
    BY <1>1, <2>1 DEF TypeOK, Sock
  <2>4. InputLive(sock'[cur], conn'[cur], log'[cur])
    BY <1>1, <2>2, <2>3 DEF InputLive
  <2>5. OutputLive(conn'[cur], log'[cur])
    BY <2>2 DEF OutputLive
  <2>6. StreamsOf(sock'[cur], conn'[cur], log'[cur])
    BY <1>1, <2>3, <2>4, <2>5 DEF StreamsOf
  <2> QED  BY <1>1, <2>2, <2>6, OneChanges
<1> QED  BY <1>2, <1>3

-----------------------------------------------------------------------------
(* The invariant is inductive.                                             *)

LEMMA InitStreams == Init => StreamInv
<1> SUFFICES ASSUME Init, NEW c \in Clients
             PROVE  StreamsOf(sock[c], conn[c], log[c])
  BY DEF StreamInv
<1> DEFINE none == <<>>
<1>1. /\ sock[c].st = "idle" /\ sock[c].rx = none
      /\ conn[c].in = none /\ conn[c].out = none
      /\ log[c].sent = none /\ log[c].executed = none /\ log[c].written = none
  BY DEF Init, FreshConn
<1>2. none \in Seq(Unit) /\ none \in Seq(Piece) /\ Len(none) = 0 /\ none \o none = none
  OBVIOUS
<1>3. Frames(none) = none /\ Replies(none) = none
  BY NoFrames
<1>4. IsPrefix(none, none)
  BY <1>2, PrefixOfConcat
<1>5. DOMAIN none = {}
  OBVIOUS
<1> HIDE DEF none
<1>6. WellFormed(none) /\ FrameEnd(none)
  BY <1>2 DEF WellFormed, FrameEnd, none
<1>7. Consumed(log[c])
  BY <1>1, <1>3, <1>4, <1>6 DEF Consumed
<1>8. InputLive(sock[c], conn[c], log[c])
  BY <1>1, <1>2, <1>3, <1>4 DEF InputLive, none
<1>9. RepliesThenErrors(none, none)
  BY <1>2, <1>3, <1>4 DEF RepliesThenErrors
<1>10. OutputLive(conn[c], log[c])
  BY <1>1, <1>2, <1>5, <1>9 DEF OutputLive
<1> QED  BY <1>1, <1>7, <1>8, <1>10 DEF StreamsOf

(* Steps that touch no stream. *)
LEMMA IdleStreams ==
  ASSUME StreamInv, UNCHANGED <<sock, conn, log>>
  PROVE  StreamInv'
BY DEF StreamInv

LEMMA EventStreams ==
  ASSUME IInv, StreamInv, ClientEvent
  PROVE  StreamInv'
<1>1. log' = log /\ TypeOK
  BY DEF ClientEvent, IInv
<1>2. CASE UNCHANGED <<sock, conn>>
  BY <1>1, <1>2, IdleStreams
<1>3. CASE \E e \in batch : e.src # NoClient /\ Close(e.src)
  <2>1. PICK e \in batch : e.src # NoClient /\ Close(e.src)
    BY <1>3
  <2>2. e.src \in Clients
    BY <1>1, <2>1 DEF TypeOK, Event
  <2> QED  BY <1>1, <2>1, <2>2, CloseKeepsStreams
<1> QED  BY <1>2, <1>3 DEF ClientEvent

LEMMA AcceptStreams ==
  ASSUME IInv, StreamInv, Accept
  PROVE  StreamInv'
<1>1. log' = log /\ TypeOK
  BY DEF Accept, IInv
<1>2. PICK c \in Clients :
        /\ sock[c].st = "pending"
        /\ \/ /\ conn' = [conn EXCEPT ![c] = FreshConn]
              /\ sock' = [sock EXCEPT ![c].st = "open"]
           \/ /\ sock' = [sock EXCEPT ![c] = ClosedSock(sock[c])]
              /\ conn' = conn
  BY DEF Accept, Pending
<1>3. sock[c] \in Sock /\ conn[c] = FreshConn
  BY <1>1, <1>2 DEF TypeOK, IInv, FdsOwned
<1>4. conn' = conn
  BY <1>1, <1>2, <1>3 DEF TypeOK
<1>5. StreamsOf(sock[c], conn[c], log[c])
  BY DEF StreamInv
<1>6. CASE sock' = [sock EXCEPT ![c] = ClosedSock(sock[c])]
  <2>1. /\ sock'[c].st = "closed"
        /\ \A d \in Clients \ {c} : sock'[d] = sock[d]
    BY <1>1, <1>3, <1>6, SockTypes DEF TypeOK
  <2>2. StreamsOf(sock'[c], conn'[c], log'[c])
    BY <1>1, <2>1, CutOf DEF StreamsOf
  <2> QED  BY <1>1, <1>4, <2>1, <2>2, OneChanges
<1>7. CASE sock' = [sock EXCEPT ![c].st = "open"]
  <2>1. /\ sock'[c].st = "open" /\ sock'[c].rx = sock[c].rx
        /\ sock'[c].peer = sock[c].peer
        /\ \A d \in Clients \ {c} : sock'[d] = sock[d]
    BY <1>1, <1>3, <1>7 DEF TypeOK, Sock
  <2>2. StreamsOf(sock'[c], conn'[c], log'[c])
    BY <1>1, <1>2, <1>4, <1>5, <2>1 DEF StreamsOf, InputLive
  <2> QED  BY <1>1, <1>4, <2>1, <2>2, OneChanges
<1> QED  BY <1>2, <1>6, <1>7

LEMMA RegisterStreams ==
  ASSUME IInv, StreamInv, Register
  PROVE  StreamInv'
<1>1. pc \in Handling /\ log' = log /\ TypeOK
  BY DEF Register, Handling, IInv
<1>2. /\ cur \in g_conns /\ cur \in Clients /\ sock[cur] \in Sock
      /\ conn[cur] \in Conn
  BY <1>1, HandedOver
<1>3. CASE Registered
  <2>1. /\ conn' = [conn EXCEPT ![cur].events = {"IN"}]
        /\ sock' = [sock EXCEPT ![cur].armed = {"IN"}]
    BY <1>3 DEF Registered
  <2>2. /\ sock'[cur].st = sock[cur].st /\ sock'[cur].rx = sock[cur].rx
        /\ sock'[cur].peer = sock[cur].peer
        /\ conn'[cur].in = conn[cur].in /\ conn'[cur].out = conn[cur].out
        /\ conn'[cur].closing = conn[cur].closing
        /\ \A d \in Clients \ {cur} : sock'[d] = sock[d] /\ conn'[d] = conn[d]
    BY <1>1, <1>2, <2>1 DEF TypeOK, Sock, Conn
  <2>3. /\ sock[cur].st = "open" /\ Consumed(log[cur])
        /\ InputLive(sock[cur], conn[cur], log[cur]) /\ OutputLive(conn[cur], log[cur])
    BY <1>2, LiveStreams
  <2>4. StreamsOf(sock'[cur], conn'[cur], log'[cur])
    BY <1>1, <2>2, <2>3 DEF StreamsOf, InputLive, OutputLive
  <2> QED  BY <1>1, <1>2, <2>2, <2>4, OneChanges
<1>4. CASE ~Registered
  <2>1. /\ conn' = [conn EXCEPT ![cur] = FreshConn]
        /\ sock' = [sock EXCEPT ![cur] = ClosedSock(sock[cur])]
    BY <1>4 DEF Register
  <2>2. /\ sock'[cur].st = "closed"
        /\ \A d \in Clients \ {cur} : sock'[d] = sock[d] /\ conn'[d] = conn[d]
    BY <1>1, <1>2, <2>1, SockTypes DEF TypeOK
  <2>3. StreamsOf(sock'[cur], conn'[cur], log'[cur])
    BY <1>1, <1>2, <2>2, CutOf DEF StreamsOf
  <2> QED  BY <1>1, <1>2, <2>2, <2>3, OneChanges
<1> QED  BY <1>3, <1>4

(* read() moves units from the socket to the end of in_buf. *)
LEMMA ReadStreams ==
  ASSUME IInv, StreamInv, ReadSome
  PROVE  StreamInv'
<1>1. pc \in Handling /\ TypeOK /\ log' = log
  BY DEF ReadSome, CanRead, Handling, IInv
<1>2. /\ cur \in Clients /\ cur \in g_conns /\ sock[cur].st = "open" /\ Consumed(log[cur])
      /\ InputLive(sock[cur], conn[cur], log[cur]) /\ OutputLive(conn[cur], log[cur])
      /\ conn[cur] \in Conn /\ sock[cur] \in Sock
  BY <1>1, HandedOver, LiveStreams
<1> DEFINE rx   == sock[cur].rx
           n    == IF Len(rx) < ReadChunk THEN Len(rx) ELSE ReadChunk
           head == SubSeq(rx, 1, n)
           tail == SubSeq(rx, n + 1, Len(rx))
           in   == conn[cur].in
           F    == Frames(log[cur].executed)
           sent == log[cur].sent
<1>3. /\ rx \in Seq(Unit) /\ in \in Seq(Unit) /\ F \in Seq(Unit) /\ sent \in Seq(Unit)
  BY <1>1, <1>2, StreamTypes
<1>4. n \in 0 .. Len(rx)
  BY <1>3, ConstantsOK
<1>5. /\ conn' = [conn EXCEPT ![cur].in = in \o head]
      /\ sock' = [sock EXCEPT ![cur].rx = tail]
      /\ rx # <<>>
  BY DEF ReadSome
<1>6. (F \o in) \o rx = sent /\ sock[cur].peer # "reset"
  BY <1>2, <1>5 DEF InputLive
<1> HIDE DEF n, rx, in, F, sent
<1>7. /\ head \in Seq(Unit) /\ tail \in Seq(Unit) /\ head \o tail = rx
  BY <1>3, <1>4, SplitAt
<1> HIDE DEF head, tail
<1>8. /\ conn'[cur].in = in \o head /\ conn'[cur].out = conn[cur].out
      /\ conn'[cur].closing = conn[cur].closing
      /\ \A d \in Clients \ {cur} : conn'[d] = conn[d] /\ sock'[d] = sock[d]
  BY <1>1, <1>2, <1>5 DEF TypeOK, Conn
<1>9. /\ sock'[cur].rx = tail /\ sock'[cur].st = sock[cur].st
      /\ sock'[cur].peer = sock[cur].peer
  BY <1>1, <1>2, <1>5 DEF TypeOK, Sock
<1>10. (F \o (in \o head)) \o tail = sent
  <2>1. (F \o (in \o head)) \o tail = (F \o in) \o (head \o tail)
    <3>1. /\ F \in Seq(Unit) /\ in \in Seq(Unit) /\ head \in Seq(Unit)
          /\ tail \in Seq(Unit)
      BY <1>3, <1>7
    <3> QED  BY <3>1, SMTT(30)
  <2> QED  BY <1>6, <1>7, <2>1, Zenon
<1>11. IsPrefix(F \o (in \o head), sent)
  <2>1. F \o (in \o head) \in Seq(Unit)
    BY <1>3, <1>7, ConcatProperties
  <2> QED  BY <1>7, <1>10, <2>1, PrefixOfConcat
<1>12. InputLive(sock'[cur], conn'[cur], log'[cur])
  BY <1>1, <1>6, <1>8, <1>9, <1>10, <1>11 DEF InputLive, F, sent
<1>13. OutputLive(conn'[cur], log'[cur])
  BY <1>1, <1>2, <1>8 DEF OutputLive
<1>14. StreamsOf(sock'[cur], conn'[cur], log'[cur])
  BY <1>1, <1>2, <1>9, <1>12, <1>13 DEF StreamsOf
<1> QED  BY <1>1, <1>2, <1>8, <1>14, OneChanges

(* One frame: its request joins the executed ones, its reply the stream. *)
LEMMA FrameStreams ==
  ASSUME IInv, StreamInv, DispatchFrame
  PROVE  StreamInv'
<1>1. pc = "dispatch" /\ pc \in Handling /\ TypeOK
  BY DEF DispatchFrame, Handling, IInv
<1>2. /\ cur \in Clients /\ cur \in g_conns /\ sock[cur].st = "open" /\ Consumed(log[cur])
      /\ InputLive(sock[cur], conn[cur], log[cur]) /\ OutputLive(conn[cur], log[cur])
      /\ conn[cur] \in Conn /\ sock[cur] \in Sock /\ log[cur] \in Log
      /\ ~conn[cur].closing
  BY <1>1, HandedOver, LiveStreams DEF IInv, InHand
<1> DEFINE in   == conn[cur].in
           out  == conn[cur].out
           ex   == log[cur].executed
           w    == log[cur].written
           sent == log[cur].sent
           rx   == sock[cur].rx
           n    == in[1].left + 1
           r    == [req |-> in[1].req, kind |-> in[1].kind]
           rest == SubSeq(in, n + 1, Len(in))
           F    == Frames(ex)
           R    == Replies(ex)
           more == Append(ex, r)
<1>3. /\ in \in Seq(Unit) /\ out \in Seq(Piece) /\ ex \in Seq(Request) /\ w \in Seq(Piece)
      /\ sent \in Seq(Unit) /\ rx \in Seq(Unit) /\ F \in Seq(Unit) /\ R \in Seq(Piece)
  BY <1>1, <1>2, StreamTypes
<1>4. in # <<>> /\ in[1].left < Len(in) /\ Parse(in).used = n
  BY DEF DispatchFrame, Parse
<1>5. PICK k \in Appended(out, Reply(r)) :
        /\ log' = [log EXCEPT ![cur].executed = more]
        /\ \/ /\ k = Len(Reply(r))
              /\ conn' = [conn EXCEPT ![cur].out = AppendTo(out, Reply(r), k),
                                      ![cur].in  = rest]
              /\ sock' = sock
           \/ Close(cur)
  BY <1>4 DEF DispatchFrame, Reply
<1>6. /\ WellFormed(sent) /\ IsPrefix(F, sent) /\ FrameEnd(F) /\ IsPrefix(F \o in, sent)
      /\ (sock[cur].peer = "reset" => rx = <<>>)
      /\ (sock[cur].peer # "reset" => (F \o in) \o rx = sent)
      /\ RepliesThenErrors(w \o out, ex)
      /\ \A i \in DOMAIN (w \o out) : ~IsError((w \o out)[i])
  BY <1>2 DEF Consumed, InputLive, OutputLive
<1> HIDE DEF in, out, ex, w, sent, rx
<1>7. /\ r \in Request /\ Frame(r) \o rest = in /\ rest \in Seq(Unit)
  <2>1. r = [req |-> in[1].req, kind |-> in[1].kind] /\ n = in[1].left + 1
    OBVIOUS
  <2> HIDE DEF r, n, F
  <2> QED  BY <1>3, <1>4, <1>6, <2>1, NextFrame
<1> HIDE DEF r, n, rest
<1>8. /\ Frame(r) \in Seq(Unit) /\ Frame(r) # <<>> /\ FrameEnd(Frame(r))
      /\ Reply(r) \in Seq(Piece) /\ \A i \in 1 .. Len(Reply(r)) : ~IsError(Reply(r)[i])
  BY <1>7, FrameType, ReplyType
<1>9. Frames(more) = F \o Frame(r) /\ Replies(more) = R \o Reply(r)
  BY <1>3, <1>7, FramesAppend, RepliesAppend, Zenon
<1> HIDE DEF more, F, R
<1>10. Frames(more) \in Seq(Unit) /\ Replies(more) \in Seq(Piece)
  BY <1>3, <1>8, <1>9, ConcatProperties
<1>11. Frames(more) \o rest = F \o in
  <2>1. (F \o Frame(r)) \o rest = F \o (Frame(r) \o rest)
    <3>1. F \in Seq(Unit) /\ Frame(r) \in Seq(Unit) /\ rest \in Seq(Unit)
      BY <1>3, <1>7, <1>8
    <3> QED  BY <3>1
  <2> QED  BY <1>7, <1>9, <2>1, Zenon
<1>12. FrameEnd(Frames(more))
  <2> DEFINE f == Frame(r)
             t == F \o f
  <2>1. f \in Seq(Unit) /\ f # <<>> /\ f[Len(f)].left = 0 /\ F \in Seq(Unit)
    BY <1>3, <1>8 DEF FrameEnd
  <2> HIDE DEF f
  <2>2. t[Len(t)] = f[Len(f)]
    BY <2>1
  <2>3. t = Frames(more)
    BY <1>9 DEF f
  <2> QED  BY <2>1, <2>2, <2>3 DEF FrameEnd
<1>13. /\ log'[cur].executed = more /\ log'[cur].written = w /\ log'[cur].sent = sent
       /\ \A d \in Clients \ {cur} : log'[d] = log[d]
  BY <1>1, <1>2, <1>5 DEF TypeOK, Log, w, sent
<1>14. Consumed(log'[cur])
  <2>1. IsPrefix(Frames(more) \o rest, sent)
    BY <1>6, <1>11
  <2>2. IsPrefix(Frames(more), sent)
    BY <1>3, <1>7, <1>10, <2>1, ShorterPrefix
  <2> QED  BY <1>6, <1>12, <1>13, <2>2 DEF Consumed
<1>15. w \o out = R
  <2> DEFINE s == w \o out
  <2>1. /\ s \in Seq(Piece) /\ RepliesThenErrors(s, ex)
        /\ \A i \in 1 .. Len(s) : ~IsError(s[i])
    <3>1. s \in Seq(Piece) /\ DOMAIN s = 1 .. Len(s)
      BY <1>3
    <3> QED  BY <1>6, <3>1
  <2> HIDE DEF s
  <2>2. s = Replies(ex)
    BY <1>3, <2>1, OnlyReplies DEF R
  <2> QED  BY <2>2 DEF s, R
<1>16. CASE Close(cur)
  <2>1. IsPrefix(w, R)
    BY <1>3, <1>15, PrefixOfConcat
  <2>2. IsPrefix(w, Replies(more))
    BY <1>3, <1>8, <1>9, <2>1, LongerWhole
  <2>3. OutputCut(log'[cur])
    BY <1>13, <2>2 DEF OutputCut
  <2> QED  BY <1>1, <1>2, <1>13, <1>14, <1>16, <2>3, CloseStreams
<1>17. CASE ~Close(cur)
  <2>1. /\ conn' = [conn EXCEPT ![cur].out = AppendTo(out, Reply(r), k), ![cur].in = rest]
        /\ sock' = sock /\ k = Len(Reply(r))
    BY <1>5, <1>17
  <2>2. AppendTo(out, Reply(r), k) = out \o Reply(r)
    BY <1>8, <2>1, SubSeqFull DEF AppendTo
  <2>3. /\ conn'[cur].in = rest /\ conn'[cur].out = out \o Reply(r)
        /\ conn'[cur].closing = conn[cur].closing
        /\ \A d \in Clients \ {cur} : conn'[d] = conn[d]
    BY <1>1, <1>2, <2>1, <2>2 DEF TypeOK, Conn
  <2>4. InputLive(sock'[cur], conn'[cur], log'[cur])
    BY <1>6, <1>11, <1>13, <2>1, <2>3 DEF InputLive, rx
  <2>5. w \o (out \o Reply(r)) = Replies(more)
    <3>1. w \o (out \o Reply(r)) = (w \o out) \o Reply(r)
      <4>1. w \in Seq(Piece) /\ out \in Seq(Piece) /\ Reply(r) \in Seq(Piece)
        BY <1>3, <1>8
      <4> QED  BY <4>1
    <3> QED  BY <1>9, <1>15, <3>1
  <2>6. RepliesThenErrors(Replies(more), more)
    BY <1>10, EqualPrefix DEF RepliesThenErrors
  <2>7. \A i \in DOMAIN Replies(more) : ~IsError(Replies(more)[i])
    <3> DEFINE s == w \o out
               e == Reply(r)
               t == s \o e
    <3>1. /\ s \in Seq(Piece) /\ e \in Seq(Piece)
          /\ \A i \in 1 .. Len(s) : ~IsError(s[i])
          /\ \A i \in 1 .. Len(e) : ~IsError(e[i])
      <4>1. s \in Seq(Piece) /\ DOMAIN s = 1 .. Len(s)
        BY <1>3
      <4> QED  BY <1>6, <1>8, <4>1
    <3>2. t = Replies(more)
      BY <1>9, <1>15
    <3> HIDE DEF s, e
    <3>3. /\ DOMAIN t = 1 .. Len(s) + Len(e) /\ Len(s) \in Nat /\ Len(e) \in Nat
          /\ \A i \in 1 .. Len(s) + Len(e) :
               t[i] = IF i <= Len(s) THEN s[i] ELSE e[i - Len(s)]
      BY <3>1
    <3>4. \A i \in DOMAIN t : ~IsError(t[i])
      BY <3>1, <3>3
    <3> QED  BY <3>2, <3>4
  <2>8. OutputLive(conn'[cur], log'[cur])
    BY <1>13, <2>3, <2>5, <2>6, <2>7 DEF OutputLive
  <2>9. StreamsOf(sock'[cur], conn'[cur], log'[cur])
    BY <1>2, <1>14, <2>1, <2>4, <2>8 DEF StreamsOf
  <2> QED  BY <1>2, <1>13, <2>1, <2>3, <2>9, OneChanges
<1> QED  BY <1>16, <1>17

(* The end of the dispatch: only errors join the stream, and only of a
   connection that is then closing. *)
LEMMA DispatchEndStreams ==
  ASSUME IInv, StreamInv, DispatchEnd
  PROVE  StreamInv'
<1>1. /\ pc = "dispatch" /\ pc \in Handling /\ TypeOK /\ log' = log
  BY DEF DispatchEnd, Handling, IInv
<1>2. /\ cur \in Clients /\ cur \in g_conns
      /\ OutputLive(conn[cur], log[cur])
      /\ conn[cur] \in Conn /\ log[cur] \in Log /\ ~conn[cur].closing
  BY <1>1, HandedOver, LiveStreams DEF IInv, InHand
<1> DEFINE st == Parse(conn[cur].in).st
           n  == Len(log[cur].executed) + 1
           malformed == st = "PROTOCOL_ERR"
           refused   == readErr # "none"
           out == conn[cur].out
           w   == log[cur].written
           ex  == log[cur].executed
<1>3. PICK o \in ErrorReplies(out, n, malformed, refused) :
        LET want == ReadInterest(malformed \/ refused, o)
            nc   == [conn[cur] EXCEPT !.out = o, !.closing = malformed \/ refused]
        IN IF want = {} THEN Close(cur) ELSE Arm(cur, nc, want, AfterRead)
  BY DEF DispatchEnd
<1>4. out \in Seq(Piece) /\ w \in Seq(Piece) /\ Replies(ex) \in Seq(Piece)
  BY <1>1, <1>2, StreamTypes
<1>5. n \in Nat /\ malformed \in BOOLEAN /\ refused \in BOOLEAN
  BY <1>2 DEF Log
<1> DEFINE closing == malformed \/ refused
           nc == [conn[cur] EXCEPT !.out = o, !.closing = closing]
<1>6. closing \in BOOLEAN
  OBVIOUS
<1> HIDE DEF n, malformed, refused, out, w, ex
<1>7. PICK e \in Seq(Piece) : /\ o = out \o e /\ AllErrors(e)
                              /\ malformed = FALSE /\ refused = FALSE => e = <<>>
  <2>1. o \in ErrorReplies(out, n, malformed, refused)
    BY <1>3
  <2> QED  BY <1>4, <1>5, <2>1, ErrorRepliesAre, ZenonT(60)
<1>8. ~closing => e = <<>>
  <2>1. ~closing => malformed = FALSE /\ refused = FALSE
    BY <1>5
  <2> QED  BY <1>7, <2>1
<1>9. CASE Close(cur)
  BY <1>1, <1>2, <1>9, CloseKeepsStreams
<1>10. CASE ~Close(cur)
  <2>1. Arm(cur, nc, ReadInterest(closing, o), AfterRead)
    BY <1>3, <1>10
  <2> HIDE DEF closing
  <2>2. o \in Seq(Piece)
    BY <1>4, <1>7, ConcatProperties
  <2>3. nc \in Conn /\ nc.in = conn[cur].in /\ nc.out = o /\ nc.closing = closing
    <3> DEFINE k == conn[cur]
    <3>1. k \in Conn /\ nc = [k EXCEPT !.out = o, !.closing = closing]
      BY <1>2
    <3> HIDE DEF k, nc
    <3>2. nc \in Conn /\ nc.in = k.in /\ nc.out = o /\ nc.closing = closing
      BY <1>6, <2>2, <3>1 DEF Conn
    <3> QED  BY <3>2 DEF k
  <2>4. /\ RepliesThenErrors(w \o out, ex)
        /\ \A i \in DOMAIN (w \o out) : ~IsError((w \o out)[i])
    BY <1>2 DEF OutputLive, out, w, ex
  <2>5. w \o (out \o e) = (w \o out) \o e
    <3>1. w \in Seq(Piece) /\ out \in Seq(Piece) /\ e \in Seq(Piece)
      BY <1>4, <1>7
    <3> QED  BY <3>1
  <2>6. w \o out \in Seq(Piece)
    BY <1>4, ConcatProperties
  <2>7. RepliesThenErrors((w \o out) \o e, ex)
    BY <1>4, <1>7, <2>4, <2>6, MoreErrors
  <2>8. RepliesThenErrors(w \o o, ex)
    BY <1>7, <2>5, <2>7, Zenon
  <2>9. ~closing => \A i \in DOMAIN (w \o o) : ~IsError((w \o o)[i])
    <3> SUFFICES ASSUME ~closing PROVE w \o o = w \o out
      BY <2>4, Zenon
    <3>1. o = out \o <<>>
      BY <1>7, <1>8, Zenon
    <3>2. out \o <<>> = out
      BY <1>4, ConcatEmptySeq
    <3> QED  BY <3>1, <3>2, Zenon
  <2> HIDE DEF nc
  <2>10. OutputLive(nc, log[cur])
    BY <2>3, <2>8, <2>9 DEF OutputLive, w, ex
  <2> QED  BY <1>1, <1>2, <2>1, <2>3, <2>10, ArmKeepsStreams
<1> QED  BY <1>9, <1>10

(* write() moves pieces from the front of out_buf to what was written. *)
LEMMA WriteStreams ==
  ASSUME IInv, StreamInv, WriteSome
  PROVE  StreamInv'
<1>1. pc \in Handling /\ TypeOK
  BY DEF WriteSome, Handling, IInv
<1>2. /\ cur \in Clients /\ cur \in g_conns /\ sock[cur].st = "open" /\ Consumed(log[cur])
      /\ InputLive(sock[cur], conn[cur], log[cur]) /\ OutputLive(conn[cur], log[cur])
      /\ conn[cur] \in Conn /\ sock[cur] \in Sock /\ log[cur] \in Log
  BY <1>1, HandedOver, LiveStreams
<1> DEFINE out == conn[cur].out
           w   == log[cur].written
<1>3. out \in Seq(Piece) /\ w \in Seq(Piece)
  BY <1>1, <1>2, StreamTypes
<1>4. PICK n \in 1 .. Len(out) :
        /\ conn' = [conn EXCEPT ![cur].out = SubSeq(out, n + 1, Len(out))]
        /\ sock' = [sock EXCEPT ![cur].inflight = @ + n]
        /\ log'  = [log EXCEPT ![cur].written = w \o SubSeq(out, 1, n)]
  BY DEF WriteSome
<1> DEFINE gone == SubSeq(out, 1, n)
           left == SubSeq(out, n + 1, Len(out))
<1> HIDE DEF out, w
<1>5. gone \in Seq(Piece) /\ left \in Seq(Piece) /\ gone \o left = out
  <2>1. n \in 0 .. Len(out)
    BY <1>3
  <2> QED  BY <1>3, <2>1, SplitAt
<1>6. /\ conn' = [conn EXCEPT ![cur].out = left]
      /\ log'  = [log EXCEPT ![cur].written = w \o gone]
  BY <1>4
<1> HIDE DEF gone, left
<1>7. /\ conn'[cur].out = left /\ conn'[cur].in = conn[cur].in
      /\ conn'[cur].closing = conn[cur].closing
  BY <1>1, <1>2, <1>6 DEF TypeOK, Conn
<1>8. /\ log'[cur].written = w \o gone /\ log'[cur].sent = log[cur].sent
      /\ log'[cur].executed = log[cur].executed
  BY <1>1, <1>2, <1>6 DEF TypeOK, Log
<1>9. /\ sock'[cur].st = sock[cur].st /\ sock'[cur].rx = sock[cur].rx
      /\ sock'[cur].peer = sock[cur].peer
  BY <1>1, <1>2, <1>4 DEF TypeOK, Sock
<1>10. \A d \in Clients \ {cur} :
         sock'[d] = sock[d] /\ conn'[d] = conn[d] /\ log'[d] = log[d]
  BY <1>1, <1>2, <1>4, <1>6 DEF TypeOK
<1>11. (w \o gone) \o left = w \o out
  <2>1. (w \o gone) \o left = w \o (gone \o left)
    <3>1. w \in Seq(Piece) /\ gone \in Seq(Piece) /\ left \in Seq(Piece)
      BY <1>3, <1>5
    <3> QED  BY <3>1
  <2> QED  BY <1>5, <2>1, Zenon
<1>12. log'[cur].written \o conn'[cur].out = log[cur].written \o conn[cur].out
  BY <1>7, <1>8, <1>11, Zenon DEF out, w
<1>13. OutputLive(conn'[cur], log'[cur])
  BY <1>2, <1>7, <1>8, <1>12, Zenon DEF OutputLive
<1>14. InputLive(sock'[cur], conn'[cur], log'[cur])
  BY <1>2, <1>7, <1>8, <1>9 DEF InputLive
<1>15. Consumed(log'[cur])
  BY <1>2, <1>8 DEF Consumed
<1>16. StreamsOf(sock'[cur], conn'[cur], log'[cur])
  BY <1>2, <1>9, <1>13, <1>14, <1>15 DEF StreamsOf
<1> QED  BY <1>2, <1>10, <1>16, OneChanges

(* The other ends of the handlers: close_conn(), or arm_events() with the
   buffers as they are. *)
LEMMA EndStreams ==
  ASSUME IInv, StreamInv, ReadReturns \/ WriteFailed \/ WriteDrained
  PROVE  StreamInv'
<1>1. pc \in Handling /\ TypeOK /\ log' = log
  BY DEF ReadReturns, CanRead, WriteFailed, WriteDrained, Handling, IInv
<1>2. /\ cur \in Clients /\ cur \in g_conns /\ conn[cur] \in Conn
      /\ OutputLive(conn[cur], log[cur])
  BY <1>1, HandedOver, LiveStreams
<1>3. CASE Close(cur)
  BY <1>1, <1>2, <1>3, CloseKeepsStreams
<1>4. CASE \E want, l : Arm(cur, conn[cur], want, l)
  BY <1>1, <1>2, <1>4, ArmKeepsStreams
<1> QED  BY <1>3, <1>4 DEF ReadReturns, WriteFailed, WriteDrained

LEMMA TeardownStreams ==
  ASSUME IInv, StreamInv, Teardown
  PROVE  StreamInv'
<1>1. /\ TypeOK /\ log' = log /\ conn' = [c \in Clients |-> FreshConn]
      /\ sock' = [c \in Clients |-> IF c \in g_conns \cup Pending
                                      THEN ClosedSock(sock[c]) ELSE sock[c]]
  BY DEF Teardown, IInv
<1> SUFFICES ASSUME NEW c \in Clients PROVE StreamsOf(sock'[c], conn'[c], log'[c])
  BY DEF StreamInv
<1>2. Consumed(log[c]) /\ OutputCut(log[c]) /\ sock[c] \in Sock
  BY <1>1, CutOf DEF TypeOK
<1>3. CASE c \in g_conns \cup Pending
  <2>1. sock'[c].st = "closed"
    BY <1>1, <1>2, <1>3, SockTypes
  <2> QED  BY <1>1, <1>2, <2>1 DEF StreamsOf
<1>4. CASE c \notin g_conns \cup Pending
  <2>1. sock'[c] = sock[c] /\ conn'[c] = conn[c]
    BY <1>1, <1>4 DEF IInv, FdsOwned
  <2> QED  BY <1>1, <2>1 DEF StreamInv
<1> QED  BY <1>3, <1>4

(* The clients: only Send adds to a stream, at its far end. *)
LEMMA ClientStreams ==
  ASSUME IInv, StreamInv, ClientStep
  PROVE  StreamInv'
<1>1. TypeOK /\ conn' = conn
  BY DEF ClientStep, Connect, Send, Receive, Leave, server, IInv
<1>2. PICK c \in Clients : Connect(c) \/ Send(c) \/ Receive(c) \/ Leave(c)
  BY DEF ClientStep
<1>3. /\ sock[c] \in Sock /\ log[c] \in Log /\ conn[c] \in Conn
      /\ StreamsOf(sock[c], conn[c], log[c])
  BY <1>1 DEF TypeOK, StreamInv
<1>4. CASE Connect(c) \/ Receive(c)
  <2>1. log' = log
    BY <1>4 DEF Connect, Receive
  <2>2. /\ sock'[c].rx = sock[c].rx /\ sock'[c].peer = sock[c].peer
        /\ sock[c].st = "closed" <=> sock'[c].st = "closed"
        /\ \A d \in Clients \ {c} : sock'[d] = sock[d]
    BY <1>1, <1>3, <1>4 DEF Connect, Receive, Connected, TypeOK, Sock
  <2>3. StreamsOf(sock'[c], conn'[c], log'[c])
    BY <1>1, <1>3, <2>1, <2>2 DEF StreamsOf, InputLive
  <2> QED  BY <1>1, <2>1, <2>2, <2>3, OneChanges
<1>5. CASE Leave(c)
  <2>1. log' = log
    BY <1>5 DEF Leave
  <2> DEFINE none == <<>>
  <2>2. /\ \/ sock'[c].rx = sock[c].rx /\ sock[c].peer = "open" /\ sock'[c].peer = "shut"
           \/ sock'[c].rx = none /\ sock'[c].peer = "reset"
        /\ sock'[c].st = sock[c].st
        /\ \A d \in Clients \ {c} : sock'[d] = sock[d]
    <3>1. ResetSock(sock[c]) = [sock[c] EXCEPT !.peer = "reset", !.rx = none, !.inflight = 0]
      BY DEF ResetSock
    <3> HIDE DEF none
    <3>2. /\ ResetSock(sock[c]).rx = none /\ ResetSock(sock[c]).peer = "reset"
          /\ ResetSock(sock[c]).st = sock[c].st
      BY <1>3, <3>1 DEF Sock
    <3>3. CASE sock' = [sock EXCEPT ![c] = ResetSock(sock[c])]
      BY <1>1, <3>2, <3>3 DEF TypeOK
    <3>4. CASE sock[c].peer = "open" /\ sock' = [sock EXCEPT ![c].peer = "shut"]
      BY <1>1, <1>3, <3>4 DEF TypeOK, Sock
    <3> QED  BY <1>5, <3>3, <3>4 DEF Leave
  <2>3. StreamsOf(sock'[c], conn'[c], log'[c])
    BY <1>1, <1>3, <2>1, <2>2 DEF StreamsOf, InputLive
  <2> QED  BY <1>1, <2>1, <2>2, <2>3, OneChanges
<1>6. CASE Send(c)
  <2> DEFINE rx   == sock[c].rx
             sent == log[c].sent
             in   == conn[c].in
             F    == Frames(log[c].executed)
  <2>1. PICK u \in NextUnits(c) :
          /\ sock' = [sock EXCEPT ![c].rx = Append(rx, u)]
          /\ log'  = [log EXCEPT ![c].sent = Append(sent, u)]
    BY <1>6 DEF Send
  <2>2. sock[c].st # "closed" /\ sock[c].peer = "open"
    BY <1>6 DEF Send, Connected
  <2>3. /\ Consumed(log[c]) /\ InputLive(sock[c], conn[c], log[c])
        /\ OutputLive(conn[c], log[c])
    BY <1>3, <2>2 DEF StreamsOf
  <2>4. /\ WellFormed(sent) /\ IsPrefix(F, sent) /\ FrameEnd(F)
        /\ IsPrefix(F \o in, sent) /\ (F \o in) \o rx = sent
    BY <2>2, <2>3 DEF Consumed, InputLive
  <2>5. u \in Unit /\ WellFormed(Append(sent, u))
    BY <1>1, <2>4, FormAppend
  <2>6. rx \in Seq(Unit) /\ sent \in Seq(Unit) /\ in \in Seq(Unit) /\ F \in Seq(Unit)
    BY <1>1, StreamTypes
  <2> HIDE DEF rx, sent, in, F
  <2> DEFINE one  == <<u>>
             rxu  == Append(rx, u)
             more == Append(sent, u)
  <2>7. /\ one \in Seq(Unit) /\ rxu = rx \o one /\ more = sent \o one
        /\ rxu \in Seq(Unit) /\ more \in Seq(Unit)
    BY <2>5, <2>6, AppendIsConcat
  <2>8. F \o in \in Seq(Unit)
    BY <2>6, ConcatProperties
  <2>9. /\ sock'[c].rx = rxu /\ sock'[c].st = sock[c].st /\ sock'[c].peer = sock[c].peer
        /\ \A d \in Clients \ {c} : sock'[d] = sock[d]
    <3> HIDE DEF rxu
    <3> QED  BY <1>1, <1>3, <2>1 DEF TypeOK, Sock, rxu
  <2>10. /\ log'[c].sent = more /\ log'[c].executed = log[c].executed
         /\ log'[c].written = log[c].written
         /\ \A d \in Clients \ {c} : log'[d] = log[d]
    BY <1>1, <1>3, <2>1 DEF TypeOK, Log
  <2> HIDE DEF one, rxu, more
  <2>11. IsPrefix(F, more) /\ IsPrefix(F \o in, more)
    BY <2>4, <2>6, <2>7, <2>8, LongerWhole
  <2>12. (F \o in) \o rxu = more
    <3> DEFINE Fin == F \o in
    <3>1. Fin \in Seq(Unit) /\ Fin \o rx = sent
      BY <2>4, <2>8
    <3> HIDE DEF Fin
    <3>2. Fin \o (rx \o one) = (Fin \o rx) \o one
      <4>1. Fin \in Seq(Unit) /\ rx \in Seq(Unit) /\ one \in Seq(Unit)
        BY <2>6, <2>7, <3>1
      <4> QED  BY <4>1
    <3>3. Fin \o rxu = more
      BY <2>7, <3>1, <3>2, Zenon
    <3> QED  BY <3>3 DEF Fin
  <2>13. Consumed(log'[c])
    BY <2>4, <2>5, <2>10, <2>11 DEF Consumed, F, more
  <2>14. InputLive(sock'[c], conn'[c], log'[c])
    BY <1>1, <2>2, <2>9, <2>10, <2>11, <2>12 DEF InputLive, F, in
  <2>15. OutputLive(conn'[c], log'[c])
    BY <1>1, <2>3, <2>10 DEF OutputLive
  <2>16. StreamsOf(sock'[c], conn'[c], log'[c])
    BY <2>2, <2>9, <2>13, <2>14, <2>15 DEF StreamsOf
  <2> QED  BY <1>1, <2>9, <2>10, <2>16, OneChanges
<1> QED  BY <1>2, <1>4, <1>5, <1>6

LEMMA NextStreams == IInv /\ StreamInv /\ [Next]_vars => StreamInv'
<1> SUFFICES ASSUME IInv, StreamInv, [Next]_vars PROVE StreamInv'
  OBVIOUS
<1>1. CASE UNCHANGED <<sock, conn, log>>
  BY <1>1, IdleStreams
<1>2. CASE ServerStep
  <2>1. CASE CheckShutdown \/ EnterWait \/ EpollReturn \/ BatchDone \/ ListenerEvent
             \/ AcceptDone \/ ReadRefused \/ ReadDrained \/ WriteBlocked
    BY <1>1, <2>1 DEF CheckShutdown, EnterWait, EpollReturn, BatchDone,
         ListenerEvent, AcceptDone, ReadRefused, ReadDrained, WriteBlocked
  <2>2. CASE ClientEvent
    BY <2>2, EventStreams
  <2>3. CASE Accept \/ Register
    BY <2>3, AcceptStreams, RegisterStreams
  <2>4. CASE ReadSome
    BY <2>4, ReadStreams
  <2>5. CASE ReadReturns \/ WriteFailed \/ WriteDrained
    BY <2>5, EndStreams
  <2>6. CASE DispatchFrame
    BY <2>6, FrameStreams
  <2>7. CASE DispatchEnd
    BY <2>7, DispatchEndStreams
  <2>8. CASE WriteSome
    BY <2>8, WriteStreams
  <2>9. CASE Teardown
    BY <2>9, TeardownStreams
  <2> QED
    BY <1>2, <2>1, <2>2, <2>3, <2>4, <2>5, <2>6, <2>7, <2>8, <2>9 DEF ServerStep
<1>3. CASE ClientStep
  BY <1>3, ClientStreams
<1>4. CASE Signal \/ UNCHANGED vars
  BY <1>1, <1>4 DEF Signal, vars
<1> QED  BY <1>2, <1>3, <1>4 DEF Next

-----------------------------------------------------------------------------
(* The theorems.                                                           *)

(* The streams of every connection stay as StreamInv says in every reachable
   state. *)
THEOREM StreamInvariance == Spec => []StreamInv
BY InitStreams, NextStreams, Invariance, InitIInv, NextIInv, PTL DEF Spec

(* What was executed, what is buffered and what is in the socket are exactly
   what the client sent: handle_read() and the dispatch skip, repeat and
   reorder nothing, wherever read() and the frames cut the stream. *)
THEOREM InputIntact == Spec => []InputFraming
<1>1. StreamInv => InputFraming
  <2> SUFFICES ASSUME StreamInv, NEW c \in Clients
               PROVE  /\ IsPrefix(Frames(log[c].executed), log[c].sent)
                      /\ Connected(c) /\ sock[c].peer # "reset" =>
                           Frames(log[c].executed) \o conn[c].in \o sock[c].rx = log[c].sent
    BY DEF InputFraming
  <2>1. StreamsOf(sock[c], conn[c], log[c])
    BY DEF StreamInv
  <2>2. IsPrefix(Frames(log[c].executed), log[c].sent)
    BY <2>1 DEF StreamsOf, Consumed
  <2>3. ASSUME Connected(c), sock[c].peer # "reset"
        PROVE  (Frames(log[c].executed) \o conn[c].in) \o sock[c].rx = log[c].sent
    BY <2>1, <2>3, Zenon DEF StreamsOf, InputLive, Connected
  <2> QED  BY <2>2, <2>3, Zenon
<1> QED  BY <1>1, StreamInvariance, PTL

(* What is written and still to be written to a live connection is the
   replies to its executed requests in order, whole, and then errors of a
   closing connection only; what any ended connection was sent begins that
   stream. *)
THEOREM OutputIntact == Spec => []OutputFraming
<1>1. IInv /\ StreamInv => OutputFraming
  <2> SUFFICES ASSUME IInv, StreamInv PROVE OutputFraming
    OBVIOUS
  <2>1. \A c \in g_conns : OutputLive(conn[c], log[c])
    BY LiveStreams
  <2>2. \A c \in Clients \ g_conns : OutputCut(log[c])
    BY CutOf DEF IInv
  <2> QED  BY <2>1, <2>2, Zenon DEF OutputFraming, OutputLive, OutputCut
<1> QED  BY <1>1, Invariance, StreamInvariance, PTL
==============================================================================
