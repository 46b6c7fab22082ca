------------------------------ MODULE EventLoop ------------------------------
(***************************************************************************)
(* The single-threaded, level-triggered epoll loop of src/networking.c,    *)
(* together with the kernel sockets, the clients and the signal that act   *)
(* on it between any two of its system calls.                              *)
(*                                                                         *)
(* One server step is one iteration of one of the loops of the code: one   *)
(* read(), one parsed frame, one write(), one accept(), one event of the   *)
(* batch that epoll_wait() returned.  The bytes of a request are `units'   *)
(* and a reply is the sequence of the `pieces' that the serializers hand   *)
(* to bytebuf_append() one call at a time; the buffers are bounded in      *)
(* units and pieces, as ByteBuf is bounded in bytes.                       *)
(***************************************************************************)
EXTENDS Naturals, Sequences, SequencesExt

CONSTANTS
  Clients,    (* connections a client may open, each at most once           *)
  Kinds,      (* kinds of request                                           *)
  BadKinds,   (* the kinds resp_parse_request() answers with PROTOCOL_ERR   *)
  FrameLen,   (* units of a request, by kind                                *)
  ReplyLen,   (* pieces of its reply, by kind                               *)
  ErrorLen,   (* pieces of an error reply                                   *)
  MaxReq,     (* bound: requests per client                                 *)
  InMax,      (* BYTEBUF_MAX of in_buf, in units                            *)
  OutMax,     (* BYTEBUF_MAX of out_buf, in pieces                          *)
  ReadChunk,  (* READ_CHUNK, in units                                       *)
  RcvBuf,     (* capacity of the kernel's receive buffer                    *)
  SndBuf,     (* capacity of the kernel's send buffer                       *)
  MaxEvents,  (* MAX_EVENTS, the size of an epoll_wait() batch              *)
  Faults,     (* which system calls may fail in this instance               *)
  NoClient    (* `no connection'; as an event's source, the listener        *)

AllFaults == {"alloc", "accept", "epoll_ctl", "epoll_wait", "listener"}

ASSUME ConstantsOK ==
  /\ BadKinds \subseteq Kinds
  /\ FrameLen \in [Kinds -> Nat \ {0}]
  /\ ReplyLen \in [Kinds -> Nat \ {0}]
  /\ {ErrorLen, InMax, OutMax, ReadChunk, RcvBuf, SndBuf, MaxEvents}
       \subseteq Nat \ {0}
  /\ ReadChunk <= InMax
  /\ MaxReq \in Nat
  /\ Faults \subseteq AllFaults
  /\ NoClient \notin Clients

VARIABLES
  pc,          (* where net_run() is                                        *)
  cur,         (* the connection whose event is being handled               *)
  curOut,      (* EPOLLOUT is set in that event                             *)
  batch,       (* events of the epoll_wait() batch not handled yet          *)
  readErr,     (* read_failed and read_err_msg of handle_read()             *)
  g_conns,     (* the list of live connections                              *)
  conn,        (* conn_t of each connection                                 *)
  g_shutdown,
  rc,          (* what net_run() returns                                    *)
  sock,        (* the kernel's side of each connection                      *)
  log          (* history: units sent, requests executed, pieces written    *)

server == <<pc, cur, curOut, batch, readErr, g_conns, conn, rc>>
vars == <<pc, cur, curOut, batch, readErr, g_conns, conn, g_shutdown, rc,
          sock, log>>

PCs == {"loop", "enter", "wait", "events", "accept", "register", "read",
        "dispatch", "write", "exited"}

(* With a connection in hand: a new one, or inside a handler. *)
Handling == {"register", "read", "dispatch", "write"}

Unit  == [req : Nat, kind : Kinds, left : Nat]
Piece == [req : Nat, type : {"reply", "protocol", "read"}, left : Nat]
Mask  == SUBSET {"IN", "OUT"}
Conn  == [in : Seq(Unit), out : Seq(Piece), events : Mask, closing : BOOLEAN]
Sock  == [st : {"idle", "pending", "open", "closed"}, rx : Seq(Unit),
          inflight : Nat, armed : Mask, peer : {"open", "shut", "reset"}]
Log   == [sent : Seq(Unit), executed : Seq([req : Nat, kind : Kinds]),
          written : Seq(Piece)]
Event == [src : Clients \cup {NoClient}, ev : SUBSET {"IN", "OUT", "HUP"}]

-----------------------------------------------------------------------------
(* Helpers.                                                                *)

(* The number of a client's requests that have been begun. *)
Begun(c) == IF log[c].sent = <<>> THEN 0 ELSE Last(log[c].sent).req

(* The units a client may send next: the rest of a frame it has begun,
   otherwise the first unit of a new request of any kind. *)
NextUnits(c) ==
  IF log[c].sent # <<>> /\ Last(log[c].sent).left > 0
    THEN {[Last(log[c].sent) EXCEPT !.left = @ - 1]}
    ELSE {[req |-> Begun(c) + 1, kind |-> k, left |-> FrameLen[k] - 1] :
            k \in {kk \in Kinds : Begun(c) < MaxReq}}

(* The pieces of one reply, in the order they are appended. *)
Pieces(n, type, len) ==
  [i \in 1 .. len |-> [req |-> n, type |-> type, left |-> len - i]]

(* Variant: the consumed length misses the last unit of the frame. *)
ParseShort(in) ==
  IF in # <<>> /\ in[1].kind \in BadKinds
    THEN [st |-> "PROTOCOL_ERR", used |-> 0]
  ELSE IF in # <<>> /\ in[1].left < Len(in)
    THEN [st |-> "OK", used |-> in[1].left]
  ELSE [st |-> "NEED_MORE", used |-> 0]

(* resp_parse_request() on in_buf: it looks at the first frame only.  The
   result is the verdict and the number of units of a complete frame. *)
Parse(in) ==
  IF in # <<>> /\ in[1].kind \in BadKinds
    THEN [st |-> "PROTOCOL_ERR", used |-> 0]
  ELSE IF in # <<>> /\ in[1].left < Len(in)
    THEN [st |-> "OK", used |-> in[1].left + 1]
  ELSE [st |-> "NEED_MORE", used |-> 0]

(* The numbers of pieces of a reply that bytebuf_append() may take before
   the buffer is full or realloc() fails; only Len(reply) is a success. *)
Appended(out, reply) ==
  {k \in 0 .. Len(reply) :
     /\ Len(out) + k <= OutMax
     /\ \/ k = Len(reply)
        \/ Len(out) + k = OutMax
        \/ "alloc" \in Faults}

AppendTo(out, reply, k) == out \o SubSeq(reply, 1, k)

(* conn_t as accept_clients() leaves it before epoll_ctl(ADD). *)
FreshConn == [in |-> <<>>, out |-> <<>>, events |-> {}, closing |-> FALSE]

(* The kernel's side of a connection whose fd is closed, which discards what
   was not read and leaves the epoll set; whose peer sent a reset. *)
ClosedSock(s)  == [s EXCEPT !.st = "closed", !.rx = <<>>, !.armed = {}]
ResetSock(s)   == [s EXCEPT !.peer = "reset", !.rx = <<>>, !.inflight = 0]

(* What epoll reports for a registered connection, level-triggered. *)
ReadyMask(c) ==
  LET s == sock[c] IN
  {e \in s.armed :
     \/ e = "IN"  /\ (s.rx # <<>> \/ s.peer # "open")
     \/ e = "OUT" /\ (s.inflight < SndBuf \/ s.peer = "reset")}
  \cup (IF s.peer = "reset" THEN {"HUP"} ELSE {})

Pending == {c \in Clients : sock[c].st = "pending"}

(* The mask epoll reports for the listener; hup is {"HUP"} when it fails. *)
ListenerMask(hup) == hup \cup (IF Pending = {} THEN {} ELSE {"IN"})

ReadyEvents(hup) ==
  {[src |-> c, ev |-> ReadyMask(c)] :
     c \in {d \in Clients : sock[d].st = "open" /\ ReadyMask(d) # {}}}
  \cup {[src |-> NoClient, ev |-> m] : m \in {ListenerMask(hup)} \ {{}}}

ListenerErrors == {{}} \cup {{"HUP"} : f \in Faults \cap {"listener"}}

-----------------------------------------------------------------------------
(* Pieces of the handlers.                                                 *)

(* Variant: net_run() goes on to EPOLLOUT after the read handler failed. *)
CloseFallsThrough(c) ==
  /\ g_conns' = g_conns \ {c}
  /\ conn' = [conn EXCEPT ![c] = FreshConn]
  /\ sock' = [sock EXCEPT ![c] = ClosedSock(@)]
  /\ cur' = cur
  /\ curOut' = FALSE
  /\ readErr' = "none"
  /\ pc' = IF curOut THEN "write" ELSE "events"

(* close_conn(): leave epoll and g_conns, close the fd, free both buffers
   and the conn_t; the server goes on with the next event. *)
Close(c) ==
  /\ g_conns' = g_conns \ {c}
  /\ conn' = [conn EXCEPT ![c] = FreshConn]
  /\ sock' = [sock EXCEPT ![c] = ClosedSock(@)]
  /\ cur' = NoClient
  /\ curOut' = FALSE
  /\ readErr' = "none"
  /\ pc' = "events"

(* The server goes on to location l, dropping the connection it handled
   when that is not `write'. *)
Continue(l) ==
  /\ pc' = l
  /\ cur' = IF l = "write" THEN cur ELSE NoClient
  /\ curOut' = FALSE
  /\ readErr' = "none"

(* Variant: the fast path is taken when the mask only shrinks. *)
ArmSubset(c, nc, want, l) ==
  \/ /\ want \subseteq nc.events
     /\ conn' = [conn EXCEPT ![c] = nc]
     /\ Continue(l)
     /\ UNCHANGED <<g_conns, sock>>
  \/ /\ ~(want \subseteq nc.events)
     /\ conn' = [conn EXCEPT ![c] = [nc EXCEPT !.events = want]]
     /\ sock' = [sock EXCEPT ![c].armed = want]
     /\ Continue(l)
     /\ UNCHANGED g_conns

(* arm_events(): epoll_ctl(MOD) unless the cached mask is already want.  nc
   is the conn_t to install; a failing call makes the caller close it. *)
Arm(c, nc, want, l) ==
  \/ /\ nc.events = want
     /\ conn' = [conn EXCEPT ![c] = nc]
     /\ Continue(l)
     /\ UNCHANGED <<g_conns, sock>>
  \/ /\ nc.events # want
     /\ conn' = [conn EXCEPT ![c] = [nc EXCEPT !.events = want]]
     /\ sock' = [sock EXCEPT ![c].armed = want]
     /\ Continue(l)
     /\ UNCHANGED g_conns
  \/ /\ nc.events # want
     /\ "epoll_ctl" \in Faults
     /\ Close(c)

(* Where net_run() goes when handle_read() returned 0. *)
AfterRead == IF curOut THEN "write" ELSE "events"

-----------------------------------------------------------------------------
(* net_run(): the loop, epoll_wait() and the batch.                        *)

(* Variant: the loop does not test the flag. *)
CheckShutdownNever ==
  /\ pc = "loop"
  /\ pc' = "enter"
  /\ UNCHANGED <<cur, curOut, batch, readErr, g_conns, conn, g_shutdown, rc,
                 sock, log>>

(* while (!g_shutdown); leaving the loop is Teardown. *)
CheckShutdown ==
  /\ pc = "loop"
  /\ ~g_shutdown
  /\ pc' = "enter"
  /\ UNCHANGED <<cur, curOut, batch, readErr, g_conns, conn, g_shutdown, rc,
                 sock, log>>

(* The flag was tested; the thread is now inside epoll_wait(.., -1). *)
EnterWait ==
  /\ pc = "enter"
  /\ pc' = "wait"
  /\ UNCHANGED <<cur, curOut, batch, readErr, g_conns, conn, g_shutdown, rc,
                 sock, log>>

(* epoll_wait() returns every ready event, MaxEvents of them at most. *)
EpollReturn ==
  /\ pc = "wait"
  /\ \E hup \in ListenerErrors : \E b \in SUBSET ReadyEvents(hup) :
       /\ b # {}
       /\ Cardinality(b) <= MaxEvents
       /\ b = ReadyEvents(hup) \/ Cardinality(b) = MaxEvents
       /\ batch' = b
  /\ pc' = "events"
  /\ UNCHANGED <<cur, curOut, readErr, g_conns, conn, g_shutdown, rc, sock,
                 log>>

(* The for loop over the batch is done. *)
BatchDone ==
  /\ pc = "events"
  /\ batch = {}
  /\ pc' = "loop"
  /\ UNCHANGED <<cur, curOut, batch, readErr, g_conns, conn, g_shutdown, rc,
                 sock, log>>

(* An event on the listener: an error ends the loop, otherwise accept. *)
ListenerEvent ==
  /\ pc = "events"
  /\ \E e \in batch :
       /\ e.src = NoClient
       /\ \/ /\ "HUP" \in e.ev
             /\ g_shutdown' = TRUE
             /\ batch' = {}
             /\ pc' = "loop"
          \/ /\ "HUP" \notin e.ev
             /\ batch' = batch \ {e}
             /\ pc' = "accept"
             /\ UNCHANGED g_shutdown
  /\ UNCHANGED <<cur, curOut, readErr, g_conns, conn, rc, sock, log>>

(* An event on a connection: EPOLLERR/EPOLLHUP closes it at once, EPOLLIN
   goes to handle_read(), EPOLLOUT alone to handle_write(). *)
ClientEvent ==
  /\ pc = "events"
  /\ \E e \in batch :
       /\ e.src # NoClient
       /\ batch' = batch \ {e}
       /\ \/ /\ "HUP" \in e.ev
             /\ Close(e.src)
          \/ /\ "HUP" \notin e.ev
             /\ cur' = e.src
             /\ curOut' = (e.ev = {"IN", "OUT"})
             /\ pc' = IF "IN" \in e.ev THEN "read" ELSE "write"
             /\ UNCHANGED <<readErr, g_conns, conn, sock>>
  /\ UNCHANGED <<g_shutdown, rc, log>>

-----------------------------------------------------------------------------
(* accept_clients().                                                       *)

(* accept() took a client from the queue.  Its conn_t is allocated and
   linked; or set_nonblock() or malloc() fails and the fd is closed. *)
Accept ==
  /\ pc = "accept"
  /\ \E c \in Pending :
       \/ /\ g_conns' = g_conns \cup {c}
          /\ conn' = [conn EXCEPT ![c] = FreshConn]
          /\ sock' = [sock EXCEPT ![c].st = "open"]
          /\ cur' = c
          /\ pc' = "register"
       \/ /\ Faults \cap {"accept", "alloc"} # {}
          /\ sock' = [sock EXCEPT ![c] = ClosedSock(@)]
          /\ UNCHANGED <<pc, cur, g_conns, conn>>
  /\ UNCHANGED <<curOut, batch, readErr, g_shutdown, rc, log>>

(* epoll_ctl(ADD) of the new connection, with EPOLLIN. *)
Registered ==
  /\ conn' = [conn EXCEPT ![cur].events = {"IN"}]
  /\ sock' = [sock EXCEPT ![cur].armed = {"IN"}]
  /\ UNCHANGED g_conns

(* Variant: the freed conn_t stays linked. *)
RegisterForgets ==
  /\ pc = "register"
  /\ \/ Registered
     \/ /\ "epoll_ctl" \in Faults
        /\ conn' = [conn EXCEPT ![cur] = FreshConn]
        /\ sock' = [sock EXCEPT ![cur] = ClosedSock(@)]
        /\ UNCHANGED g_conns
  /\ cur' = NoClient
  /\ pc' = "accept"
  /\ UNCHANGED <<curOut, batch, readErr, g_shutdown, rc, log>>

(* The connection is registered; or that fails, and it is unlinked, freed
   and closed.  Either way the next client is accepted. *)
Register ==
  /\ pc = "register"
  /\ \/ Registered
     \/ /\ "epoll_ctl" \in Faults
        /\ g_conns' = g_conns \ {cur}
        /\ conn' = [conn EXCEPT ![cur] = FreshConn]
        /\ sock' = [sock EXCEPT ![cur] = ClosedSock(@)]
  /\ cur' = NoClient
  /\ pc' = "accept"
  /\ UNCHANGED <<curOut, batch, readErr, g_shutdown, rc, log>>

(* accept() returned EAGAIN, or another error with clients still queued. *)
AcceptDone ==
  /\ pc = "accept"
  /\ Pending = {} \/ "accept" \in Faults
  /\ pc' = "events"
  /\ UNCHANGED <<cur, curOut, batch, readErr, g_conns, conn, g_shutdown, rc,
                 sock, log>>

-----------------------------------------------------------------------------
(* handle_read().                                                          *)

(* Variant: only a buffer at its very cap is an error. *)
ReadRefusedForgets ==
  /\ pc = "read"
  /\ ~conn[cur].closing
  /\ Len(conn[cur].in) + ReadChunk > InMax
  /\ readErr' = "none"
  /\ pc' = "dispatch"
  /\ UNCHANGED <<cur, curOut, batch, g_conns, conn, g_shutdown, rc, sock, log>>

(* The buffer is at its cap, or bytebuf_reserve() cannot give READ_CHUNK
   more bytes: the error is kept for after the dispatch. *)
ReadRefused ==
  /\ pc = "read"
  /\ ~conn[cur].closing
  /\ \/ /\ Len(conn[cur].in) >= InMax
        /\ readErr' = "too_large"
     \/ /\ Len(conn[cur].in) < InMax
        /\ \/ Len(conn[cur].in) + ReadChunk > InMax
           \/ "alloc" \in Faults
        /\ readErr' = "no_memory"
  /\ pc' = "dispatch"
  /\ UNCHANGED <<cur, curOut, batch, g_conns, conn, g_shutdown, rc, sock, log>>

(* Variant: the cap is tested one unit too late. *)
CanReadLate ==
  /\ pc = "read"
  /\ ~conn[cur].closing
  /\ Len(conn[cur].in) + ReadChunk <= InMax + 1

(* There is room for READ_CHUNK more bytes, so read() is called. *)
CanRead ==
  /\ pc = "read"
  /\ ~conn[cur].closing
  /\ Len(conn[cur].in) + ReadChunk <= InMax

(* read() returned bytes: they are appended and the loop reads again. *)
ReadSome ==
  /\ CanRead
  /\ sock[cur].rx # <<>>
  /\ LET rx == sock[cur].rx
         n  == IF Len(rx) < ReadChunk THEN Len(rx) ELSE ReadChunk
     IN /\ conn' = [conn EXCEPT ![cur].in = @ \o SubSeq(rx, 1, n)]
        /\ sock' = [sock EXCEPT ![cur].rx = SubSeq(rx, n + 1, Len(rx))]
  /\ UNCHANGED <<pc, cur, curOut, batch, readErr, g_conns, g_shutdown, rc, log>>

(* handle_read() returns without dispatching: read() returned 0 (the peer
   closed its side) or an error, or the connection is already draining
   towards its close. *)
ReadReturns ==
  /\ \/ /\ CanRead
        /\ sock[cur].rx = <<>>
        /\ sock[cur].peer # "open"
        /\ Close(cur)
     \/ /\ pc = "read"
        /\ conn[cur].closing
        /\ IF conn[cur].out = <<>>
             THEN Close(cur)
             ELSE Arm(cur, conn[cur], {"OUT"}, AfterRead)
  /\ UNCHANGED <<batch, g_shutdown, rc, log>>

(* Variant: EAGAIN returns from handle_read() instead of leaving its loop. *)
ReadDrainedReturns ==
  /\ CanRead
  /\ sock[cur].rx = <<>>
  /\ sock[cur].peer = "open"
  /\ Continue(AfterRead)
  /\ UNCHANGED <<batch, g_conns, conn, g_shutdown, rc, sock, log>>

(* read() returned EAGAIN. *)
ReadDrained ==
  /\ CanRead
  /\ sock[cur].rx = <<>>
  /\ sock[cur].peer = "open"
  /\ pc' = "dispatch"
  /\ UNCHANGED <<cur, curOut, batch, readErr, g_conns, conn, g_shutdown, rc,
                 sock, log>>

(* One complete frame: command_execute() appends its reply and the frame is
   consumed; a reply that does not fit closes the connection. *)
DispatchFrame ==
  /\ pc = "dispatch"
  /\ LET in    == conn[cur].in
         p     == Parse(in)
         reply == Pieces(in[1].req, "reply", ReplyLen[in[1].kind])
     IN /\ p.st = "OK"
        /\ log' = [log EXCEPT ![cur].executed =
                     Append(@, [req |-> in[1].req, kind |-> in[1].kind])]
        /\ \E k \in Appended(conn[cur].out, reply) :
             \/ /\ k = Len(reply)
                /\ conn' = [conn EXCEPT
                      ![cur].out = AppendTo(@, reply, k),
                      ![cur].in  = SubSeq(@, p.used + 1, Len(@))]
                /\ UNCHANGED <<pc, cur, curOut, readErr, g_conns, sock>>
             \/ /\ k < Len(reply)
                /\ Close(cur)
  /\ UNCHANGED <<batch, g_shutdown, rc>>

(* The out_buf after the error replies that end the dispatch: the one for a
   malformed frame, then the deferred one of the read side.  What
   resp_reply_error() returns is not looked at. *)
ErrorReply(out, n, type) ==
  {AppendTo(out, Pieces(n, type, ErrorLen), k) :
     k \in Appended(out, Pieces(n, type, ErrorLen))}

ErrorReplies(out, n, malformed, refused) ==
  LET outs == IF malformed THEN ErrorReply(out, n, "protocol") ELSE {out}
  IN IF refused THEN UNION {ErrorReply(o, n, "read") : o \in outs} ELSE outs

(* Variants: a mask that forgets the wind-down, or the unsent data. *)
ReadInterestOpen(closing, out) ==
  {"IN"} \cup (IF out = <<>> THEN {} ELSE {"OUT"})
ReadInterestDeaf(closing, out) == IF closing THEN {"OUT"} ELSE {"IN"}

(* The interest mask handle_read() asks for at its end. *)
ReadInterest(closing, out) ==
  (IF closing THEN {} ELSE {"IN"}) \cup (IF out = <<>> THEN {} ELSE {"OUT"})

(* No complete frame is left: append the errors, then close, or arm EPOLLIN
   unless winding down and EPOLLOUT iff there are unsent bytes. *)
DispatchEnd ==
  /\ pc = "dispatch"
  /\ LET st == Parse(conn[cur].in).st
         n  == Len(log[cur].executed) + 1
     IN /\ st # "OK"
        /\ \E out \in ErrorReplies(conn[cur].out, n, st = "PROTOCOL_ERR",
                                   readErr # "none") :
             LET closing == st = "PROTOCOL_ERR" \/ readErr # "none"
                 want == ReadInterest(closing, out)
                 nc == [conn[cur] EXCEPT !.out = out, !.closing = closing]
             IN IF want = {} THEN Close(cur)
                             ELSE Arm(cur, nc, want, AfterRead)
  /\ UNCHANGED <<batch, g_shutdown, rc, log>>

-----------------------------------------------------------------------------
(* handle_write().                                                         *)

(* Variant: one piece too few is consumed after a write(). *)
WriteSomeAgain ==
  /\ pc = "write"
  /\ sock[cur].peer # "reset"
  /\ \E n \in 1 .. Len(conn[cur].out) :
       /\ sock[cur].inflight + n <= SndBuf
       /\ conn' = [conn EXCEPT ![cur].out = SubSeq(@, n, Len(@))]
       /\ sock' = [sock EXCEPT ![cur].inflight = @ + n]
       /\ log'  = [log EXCEPT ![cur].written =
                     @ \o SubSeq(conn[cur].out, 1, n)]
  /\ UNCHANGED <<pc, cur, curOut, batch, readErr, g_conns, g_shutdown, rc>>

(* One write(): the kernel takes some of the unsent bytes, reports a full
   send buffer, or reports that the peer is gone. *)
WriteSome ==
  /\ pc = "write"
  /\ sock[cur].peer # "reset"
  /\ \E n \in 1 .. Len(conn[cur].out) :
       /\ sock[cur].inflight + n <= SndBuf
       /\ conn' = [conn EXCEPT ![cur].out = SubSeq(@, n + 1, Len(@))]
       /\ sock' = [sock EXCEPT ![cur].inflight = @ + n]
       /\ log'  = [log EXCEPT ![cur].written =
                     @ \o SubSeq(conn[cur].out, 1, n)]
  /\ UNCHANGED <<pc, cur, curOut, batch, readErr, g_conns, g_shutdown, rc>>

WriteBlocked ==
  /\ pc = "write"
  /\ conn[cur].out # <<>>
  /\ sock[cur].peer # "reset"
  /\ sock[cur].inflight >= SndBuf
  /\ Continue("events")
  /\ UNCHANGED <<batch, g_conns, conn, g_shutdown, rc, sock, log>>

WriteFailed ==
  /\ pc = "write"
  /\ conn[cur].out # <<>>
  /\ sock[cur].peer = "reset"
  /\ Close(cur)
  /\ UNCHANGED <<batch, g_shutdown, rc, log>>

(* Variants: EPOLLOUT stays armed, or the final close is forgotten. *)
WriteDrainedArmed ==
  /\ pc = "write"
  /\ conn[cur].out = <<>>
  /\ \/ /\ conn[cur].closing
        /\ Close(cur)
     \/ /\ ~conn[cur].closing
        /\ Continue("events")
        /\ UNCHANGED <<g_conns, conn, sock>>
  /\ UNCHANGED <<batch, g_shutdown, rc, log>>
WriteDrainedStays ==
  /\ pc = "write"
  /\ conn[cur].out = <<>>
  /\ Arm(cur, conn[cur], {"IN"}, "events")
  /\ UNCHANGED <<batch, g_shutdown, rc, log>>

(* Drained: close if that was the final flush, else disarm EPOLLOUT. *)
WriteDrained ==
  /\ pc = "write"
  /\ conn[cur].out = <<>>
  /\ \/ /\ conn[cur].closing
        /\ Close(cur)
     \/ /\ ~conn[cur].closing
        /\ Arm(cur, conn[cur], {"IN"}, "events")
  /\ UNCHANGED <<batch, g_shutdown, rc, log>>

-----------------------------------------------------------------------------
(* Leaving net_run().                                                      *)

(* Close and free every live connection, then the epoll and listening fds;
   the kernel refuses the clients still in the accept queue.  net_run()
   returns 0, also when epoll_wait() failed. *)
Teardown ==
  /\ \/ pc = "loop" /\ g_shutdown
     \/ pc = "wait" /\ "epoll_wait" \in Faults
  /\ pc' = "exited"
  /\ g_conns' = {}
  /\ conn' = [c \in Clients |-> FreshConn]
  /\ sock' = [c \in Clients |->
                IF c \in g_conns \cup Pending
                  THEN ClosedSock(sock[c]) ELSE sock[c]]
  /\ rc' = 0
  /\ UNCHANGED <<cur, curOut, batch, readErr, g_shutdown, log>>

-----------------------------------------------------------------------------
(* The environment: SIGINT/SIGTERM, the clients and the network.           *)

(* on_signal() sets the flag; a blocked epoll_wait() returns EINTR, and the
   loop goes back to its test.  Anywhere else nothing is interrupted. *)
Signal ==
  /\ pc # "exited"
  /\ g_shutdown' = TRUE
  /\ pc' = IF pc = "wait" THEN "loop" ELSE pc
  /\ UNCHANGED <<cur, curOut, batch, readErr, g_conns, conn, rc, sock, log>>

(* The kernel completes a handshake and queues the client for accept(). *)
Connect(c) ==
  /\ pc # "exited"
  /\ sock[c].st = "idle"
  /\ sock' = [sock EXCEPT ![c].st = "pending"]
  /\ UNCHANGED <<server, g_shutdown, log>>

Connected(c) == sock[c].st \in {"pending", "open"}

(* The client sends one more unit of its requests. *)
Send(c) ==
  /\ Connected(c)
  /\ sock[c].peer = "open"
  /\ Len(sock[c].rx) < RcvBuf
  /\ \E u \in NextUnits(c) :
       /\ sock' = [sock EXCEPT ![c].rx = Append(@, u)]
       /\ log'  = [log EXCEPT ![c].sent = Append(@, u)]
  /\ UNCHANGED <<server, g_shutdown>>

(* The client receives one piece, which frees room in the send buffer. *)
Receive(c) ==
  /\ Connected(c)
  /\ sock[c].inflight > 0
  /\ sock' = [sock EXCEPT ![c].inflight = @ - 1]
  /\ UNCHANGED <<server, g_shutdown, log>>

(* The client closes its sending side (FIN), or the connection is reset. *)
Leave(c) ==
  /\ Connected(c)
  /\ \/ /\ sock[c].peer = "open"
        /\ sock' = [sock EXCEPT ![c].peer = "shut"]
     \/ /\ sock[c].peer # "reset"
        /\ sock' = [sock EXCEPT ![c] = ResetSock(@)]
  /\ UNCHANGED <<server, g_shutdown, log>>

-----------------------------------------------------------------------------

Init ==
  /\ pc = "loop"
  /\ cur = NoClient
  /\ curOut = FALSE
  /\ batch = {}
  /\ readErr = "none"
  /\ g_conns = {}
  /\ conn = [c \in Clients |-> FreshConn]
  /\ g_shutdown = FALSE
  /\ rc = 0
  /\ sock = [c \in Clients |-> [st |-> "idle", rx |-> <<>>, inflight |-> 0,
                                armed |-> {}, peer |-> "open"]]
  /\ log = [c \in Clients |-> [sent |-> <<>>, executed |-> <<>>,
                               written |-> <<>>]]

ServerStep ==
  \/ CheckShutdown \/ EnterWait \/ EpollReturn \/ BatchDone
  \/ ListenerEvent \/ ClientEvent \/ Accept \/ Register \/ AcceptDone
  \/ ReadRefused \/ ReadSome \/ ReadReturns \/ ReadDrained
  \/ DispatchFrame \/ DispatchEnd
  \/ WriteSome \/ WriteBlocked \/ WriteFailed \/ WriteDrained
  \/ Teardown

ClientStep ==
  \E c \in Clients : Connect(c) \/ Send(c) \/ Receive(c) \/ Leave(c)

Next == ServerStep \/ ClientStep \/ Signal

Spec == Init /\ [][Next]_vars

(* The server thread is scheduled, and a client reads what it is sent.
   Nothing obliges a client to connect, to send or to leave, nor a signal
   to arrive. *)
FairSpec ==
  Spec /\ WF_vars(ServerStep) /\ \A c \in Clients : WF_vars(Receive(c))

-----------------------------------------------------------------------------
(* Properties: state.                                                      *)

(* The type invariant, with the bound BYTEBUF_MAX that bytebuf_reserve() and
   bytebuf_append() keep on both buffers of a connection. *)
TypeOK ==
  /\ pc \in PCs
  /\ cur \in Clients \cup {NoClient}
  /\ curOut \in BOOLEAN
  /\ batch \subseteq Event
  /\ readErr \in {"none", "too_large", "no_memory"}
  /\ g_conns \subseteq Clients
  /\ conn \in [Clients -> Conn]
  /\ g_shutdown \in BOOLEAN
  /\ rc \in Nat
  /\ sock \in [Clients -> Sock]
  /\ log \in [Clients -> Log]
  /\ \A c \in Clients : Len(conn[c].in) <= InMax /\ Len(conn[c].out) <= OutMax

(* net_run() never hands a freed conn_t to a handler: every event left in
   the batch, and the connection in hand, belongs to a live connection, and
   no connection is met twice in a batch.  close_conn() runs in the middle
   of a batch whose events carry raw pointers. *)
EventsLive ==
  /\ \A e \in batch : e.src \in (g_conns \ {cur}) \cup {NoClient}
  /\ \A e, f \in batch : e.src = f.src => e = f
  /\ pc \in Handling => cur \in g_conns

(* An open descriptor is always reachable from g_conns and the other way
   round, on every error path of accept_clients() and close_conn(); a
   returned net_run() has left no client connected. *)
FdsOwned ==
  /\ {c \in Clients : sock[c].st = "open"} = g_conns
  /\ \A c \in Clients \ g_conns : conn[c] = FreshConn /\ sock[c].armed = {}
  /\ pc = "exited" => \A c \in Clients : ~Connected(c)

Want(nc) == ReadInterest(nc.closing, nc.out)

(* Between events, what the kernel watches, what conn_t caches and what the
   buffers call for agree on every connection, so none of them waits for an
   event that cannot come, nor wakes the loop for nothing. *)
InterestMask ==
  \A c \in g_conns \ {cur} :
    /\ conn[c].events = sock[c].armed
    /\ sock[c].armed = Want(conn[c])
    /\ sock[c].armed # {}

(* When the loop goes back to epoll_wait(), no complete request is left in
   a buffer, where no event of the socket would ever call for it. *)
NoIdleFrame ==
  pc \in {"loop", "enter", "wait"} =>
    \A c \in g_conns : ~conn[c].closing => Parse(conn[c].in).st = "NEED_MORE"

(* Between events, a connection that is still read has room for another
   read(): a request that announces more than the buffer can hold is refused
   when the buffer is full, and never waited for.  resp_parse_request() goes
   on asking for more bytes up to RESP_MAX_BULK_LEN, far beyond BYTEBUF_MAX. *)
HasRoom(in) == Len(in) + ReadChunk <= InMax

RoomToRead ==
  \A c \in g_conns \ {cur} : ~conn[c].closing => HasRoom(conn[c].in)

(* The closing branch of handle_read() is never taken: arm_events() left
   only EPOLLOUT in the kernel's mask and no older event is pending. *)
NoReadWhileClosing == pc \in {"read", "dispatch"} => ~conn[cur].closing

-----------------------------------------------------------------------------
(* Properties: the streams.                                                *)

Frame(r) == [i \in 1 .. FrameLen[r.kind] |->
               [req |-> r.req, kind |-> r.kind, left |-> FrameLen[r.kind] - i]]
Reply(r) == Pieces(r.req, "reply", ReplyLen[r.kind])

Frames(requests)  == FlattenSeq([i \in DOMAIN requests |-> Frame(requests[i])])
Replies(requests) == FlattenSeq([i \in DOMAIN requests |-> Reply(requests[i])])

(* Whatever the cuts between read() calls, events and frames: the requests
   executed, the bytes buffered and the bytes in the socket are exactly what
   the client sent, nothing skipped, repeated or reordered; and what was
   executed before a close is a prefix of it. *)
InputFraming ==
  \A c \in Clients :
    /\ IsPrefix(Frames(log[c].executed), log[c].sent)
    /\ Connected(c) /\ sock[c].peer # "reset" =>
         Frames(log[c].executed) \o conn[c].in \o sock[c].rx = log[c].sent

IsError(p) == p.type # "reply"

(* s is the replies to the requests, in order, then errors only. *)
RepliesThenErrors(s, requests) ==
  LET r == Replies(requests) IN
  /\ IsPrefix(r, s)
  /\ \A i \in Len(r) + 1 .. Len(s) : IsError(s[i])

(* The bytes written and still to be written on a live connection are the
   replies to the executed requests in order, whole, and after them error
   replies only, these on a closing connection only: handle_read() queues a
   deferred read error after the replies.  What a client has been sent when
   its connection ends, for whatever reason, begins the same stream. *)
OutputFraming ==
  /\ \A c \in g_conns :
       LET s == log[c].written \o conn[c].out IN
       /\ RepliesThenErrors(s, log[c].executed)
       /\ (\E i \in DOMAIN s : IsError(s[i])) => conn[c].closing
  /\ \A c \in Clients \ g_conns :
       \/ IsPrefix(log[c].written, Replies(log[c].executed))
       \/ RepliesThenErrors(log[c].written, log[c].executed)

(* close_after_drain is final: from then on nothing of the connection's
   input is read, consumed or executed, EPOLLIN is never armed again, and
   nothing is added to what is left to flush. *)
OnlyFlushes(c) ==
  /\ log'[c].executed = log[c].executed
  /\ c \in g_conns' =>
       /\ conn'[c].closing
       /\ conn'[c].in = conn[c].in
       /\ \E n \in 0 .. Len(conn[c].out) :
            conn'[c].out = SubSeq(conn[c].out, n + 1, Len(conn[c].out))
       /\ cur' # c => "IN" \notin sock'[c].armed

ClosingIsFinal ==
  [][\A c \in g_conns : conn[c].closing => OnlyFlushes(c)]_vars

-----------------------------------------------------------------------------
(* Properties: progress.                                                   *)

Closed(c) == sock[c].st = "closed"

(* The first n requests of the client are executed and answered in full. *)
Answered(c, n) ==
  /\ Len(log[c].executed) >= n
  /\ IsPrefix(Replies(SubSeq(log[c].executed, 1, n)), log[c].written)

(* A request sent in full is answered in full, or its connection closed:
   no lost wakeup on either side of the connection. *)
RequestsAnswered ==
  \A c \in Clients : \A n \in 1 .. MaxReq :
    (Connected(c) /\ Cardinality({i \in DOMAIN log[c].sent : log[c].sent[i].left = 0}) >= n)
      ~> (Answered(c, n) \/ Closed(c))

(* The units of the last frame the client began that it has sent. *)
Partial(c) ==
  IF log[c].sent = <<>> \/ Last(log[c].sent).left = 0 THEN 0
  ELSE FrameLen[Last(log[c].sent).kind] - Last(log[c].sent).left

(* A client that has sent as much of one request as the buffer holds, with
   more to come, is not left waiting: its connection is ended. *)
OversizeRefused ==
  \A c \in Clients : (Connected(c) /\ Partial(c) >= InMax) ~> Closed(c)

(* A connection marked for closing, and one whose client has left, is
   closed and its descriptor released. *)
ClosingCloses ==
  \A c \in Clients :
    (c \in g_conns /\ (conn[c].closing \/ sock[c].peer # "open")) ~> Closed(c)

(* The signal is honoured when it finds the thread inside epoll_wait() or in
   a handler, or when there is an event to wake the loop for. *)
ShutdownWhenAwake ==
  (g_shutdown /\ (pc \notin {"enter", "wait"} \/ ReadyEvents({}) # {}))
    ~> (pc = "exited")

-----------------------------------------------------------------------------
(* What comments of the code say and its runs contradict.                  *)

(* networking.c:444 `epoll_wait will return EINTR and the main loop checks
   g_shutdown': a signal always ends net_run(). *)
ShutdownHonoured == g_shutdown ~> (pc = "exited")

(* networking.c:24 reads `until EAGAIN, EOF, or BYTEBUF_MAX' and then
   dispatches: no complete frame is dropped unexecuted at end of file. *)
EofAfterDispatch ==
  [][\A c \in Clients :
       (pc = "read" /\ cur = c /\ sock[c].peer = "shut" /\ c \notin g_conns')
         => Parse(conn[c].in).st # "OK"]_vars

(* networking.h:43 `Returns 0 on normal shutdown, non-zero on a fatal epoll
   error'. *)
ExitStatus == [][pc = "wait" /\ pc' = "exited" => rc' # 0]_vars

=============================================================================
