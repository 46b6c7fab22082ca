-------------------------------- MODULE Server --------------------------------
(***************************************************************************)
(* The whole program: main() of src/main.c, which tries the commands out on *)
(* the store and then hands it to net_init() and net_run() of               *)
(* src/networking.c, with the bytes of the connections read by Resp and the *)
(* requests executed by Commands on its hash table and heap.                *)
(*                                                                         *)
(* Steps are coarser than in EventLoop: a handler's loop over read() or     *)
(* write() is one step, and so is accept_clients().  What a client or a     *)
(* signal does in the middle of one might as well have come before it.      *)
(***************************************************************************)
EXTENDS SmokeTests

CONSTANTS
  Clients, NoClient,
  Sessions,                (* for each client, what it may ask in turn:       *)
                           (* argument vectors, typed on lines, of which the  *)
                           (* empty one is no request                         *)
  CommandName(_),          (* the command a name stands for, in either case   *)
  BYTEBUF_MAX, READ_CHUNK,
  OutMax,                  (* BYTEBUF_MAX of out_buf, in pieces of replies    *)
  Segment,                 (* bound: a client's bytes arrive all at once, or  *)
                           (* the first Segment of them do                    *)
  MaxFaults,               (* bound: failures of system calls and of the      *)
                           (* allocator, and clients that leave               *)
  Keys, Matches(_, _), HT_NUM_BUCKETS, hash, Blocks, NULL, NodeBytes,
  Garbage, MaxLen          (* of Commands                                     *)

VARIABLES
  pc,                      (* where the program is                            *)
  step,                    (* the smoke test cases that have been run         *)
  fds,                     (* the listener and the epoll instance, when open  *)
  g_shutdown, status,
  batch, cur, readErr,     (* of net_run() and handle_read()                  *)
  conn,                    (* the connections in g_conns                      *)
  table, req, out, rc,     (* of Commands                                     *)
  net,                     (* the kernel's and the client's side              *)
  asked, done,             (* history: requests of a client, and how many of  *)
                           (* them have been executed                         *)
  faults                   (* history: what has failed so far                 *)

program  == <<pc, step, fds, g_shutdown, status>>
loop     == <<batch, cur, readErr>>
store    == <<table, req, out, rc>>
history  == <<asked, done>>
vars == <<program, loop, conn, store, net, history, faults>>

(* What clients may type, and the requests that reach the store. *)
Lines == UNION {Range(session) : session \in UNION Range(Sessions)}

Request(args) == IF args = <<>> THEN <<>> ELSE <<CommandName(args[1])>> \o Tail(args)

Asked == {Cases[i].req : i \in DOMAIN Cases} \cup {Request(args) : args \in Lines \ {<<>>}}

C == INSTANCE Commands WITH Requests <- Asked, Values <- Seq(Bytes)

(* The lines are within the parser's limits and none begins like an array;
   keys and values are where the commands want them. *)
ASSUME ServerConstants ==
  /\ NoClient \notin Clients
  /\ DOMAIN Digits = 1 .. BASE
  /\ \A session \in UNION Range(Sessions) : session \in Seq(Range(session))
  /\ \A args \in Lines \ {<<>>} :
       /\ args \in Seq(Seq(Bytes)) /\ Len(args) <= RESP_MAX_ARGC
       /\ \A i \in DOMAIN args : Typeable(args[i])
       /\ args[1][1] # Star
       /\ Len(LineFrame(args, <<LF>>)) <= RESP_MAX_INLINE_LEN
  /\ \A i \in DOMAIN HashCalls :
       /\ HashCalls[i][2] \in Keys
       /\ HashCalls[i][1] = "ht_set" => HashCalls[i][3] \in Seq(Bytes)
  /\ C!T!TableConstants
  /\ C!RequestsTyped

Pending == {c \in Clients : net[c].st = "pending"}
Open    == {c \in Clients : net[c].st = "open"}

Works == UNCHANGED faults
Fails == faults < MaxFaults /\ faults' = faults + 1

(* The step takes a fault when it could not go this way without one. *)
FailsIf(fault) == IF fault THEN Fails ELSE Works

(* No memory for the command or for its reply. *)
Denied == rc' # 0 \/ out' = C!OutOfMemory

(* Nothing later depends on what the last command said. *)
Forget == req' = <<>> /\ out' = <<>> /\ rc' = 0

-----------------------------------------------------------------------------
(* What is in the store before it is served.                               *)

(* smoke_test(). *)
HashTest ==
  /\ pc = "hash" /\ step < Len(HashCalls)
  /\ \E call \in {HashCalls[step + 1]} :
       \/ /\ call[1] = "ht_set"
          /\ \E s \in C!T!HtSet(table, call[2], call[3]) :
               /\ table' = s.t
               /\ FailsIf(~s.ok)
               /\ step' = IF ~s.ok /\ EndsTest(step + 1) THEN Len(HashCalls) ELSE step + 1
       \/ /\ call[1] = "ht_del"
          /\ table' = C!T!HtDel(table, call[2])
          /\ step' = step + 1 /\ Works
  /\ UNCHANGED <<pc, fds, g_shutdown, status, loop, conn, req, out, rc, net, history>>

(* resp_smoke_test() changes nothing. *)
ParserTest ==
  /\ pc = "hash" /\ step = Len(HashCalls)
  /\ pc' = "tests" /\ step' = 0 /\ Works
  /\ UNCHANGED <<fds, g_shutdown, status, loop, conn, store, net, history>>

(* command_smoke_test(): each case runs, whatever became of those before. *)
CommandTest ==
  /\ pc = "tests" /\ step < Len(Cases)
  /\ \E q \in {Cases[step + 1].req} : C!Execute(q)
  /\ FailsIf(Denied)
  /\ step' = step + 1
  /\ UNCHANGED <<pc, fds, g_shutdown, status, loop, conn, net, history>>

(* The replies go to a buffer of the tests' own. *)
TestsDone ==
  /\ pc = "tests" /\ step = Len(Cases)
  /\ pc' = "listen" /\ Works
  /\ Forget
  /\ UNCHANGED <<table, step, fds, g_shutdown, status, loop, conn, net, history>>

-----------------------------------------------------------------------------
(* net_init().  A failing call closes what was opened before it.            *)

ClosedNet(S) ==
  [c \in Clients |->
     IF c \in S THEN [net[c] EXCEPT !.st = "closed", !.rx = <<>>] ELSE net[c]]

GoOn(l, open) == pc' = l /\ fds' = open /\ Works /\ UNCHANGED net

(* Variant: the listener stays open. *)
InitFailsOpen(opened) ==
  Fails /\ pc' = "failed" /\ fds' = fds \ (opened \ {"listener"}) /\ UNCHANGED net

(* A call fails, and net_init() closes what the path has opened.  Who waits
   in the queue of a listener is cut off when it is closed. *)
InitFails(opened) ==
  /\ Fails /\ pc' = "failed"
  /\ fds' = fds \ opened
  /\ net' = ClosedNet(IF "listener" \in opened THEN Pending ELSE {})

(* setup_listener(), epoll_create1(), epoll_ctl(ADD) of the listener. *)
NetInit ==
  /\ \/ pc = "listen"   /\ (GoOn("epoll", {"listener"}) \/ InitFails({}))
     \/ pc = "epoll"    /\ (GoOn("register", fds \cup {"epoll"}) \/ InitFails({"listener"}))
     \/ pc = "register" /\ (GoOn("handlers", fds) \/ InitFails({"epoll", "listener"}))
     \/ pc = "handlers" /\ GoOn("loop", fds)
  /\ UNCHANGED <<step, g_shutdown, status, loop, conn, store, history>>

-----------------------------------------------------------------------------
(* net_run().                                                              *)

Test ==
  /\ pc = "loop" /\ ~g_shutdown
  /\ pc' = "wait" /\ Works
  /\ UNCHANGED <<step, fds, g_shutdown, status, loop, conn, store, net, history>>

(* What epoll reports.  A client that reads makes room in the send buffer
   in time. *)
Ready ==
  {e \in (DOMAIN conn) \X {"IN", "OUT"} :
     /\ e[2] \in conn[e[1]].events
     /\ e[2] = "IN" => net[e[1]].rx # <<>> \/ net[e[1]].gone}
  \cup {<<NoClient, "IN">> : c \in Pending}

EpollWait ==
  /\ pc = "wait" /\ Ready # {}
  /\ batch' = Ready
  /\ pc' = "events" /\ Works
  /\ UNCHANGED <<step, fds, g_shutdown, status, cur, readErr, conn, store, net, history>>

BatchDone ==
  /\ pc = "events" /\ batch = {}
  /\ pc' = "loop" /\ Works
  /\ Forget
  /\ UNCHANGED <<table, step, fds, g_shutdown, status, loop, conn, net, history>>

(* An error on the listener ends the batch and the loop. *)
ListenerFails ==
  /\ pc \in {"wait", "events"} /\ cur = NoClient
  /\ g_shutdown' = TRUE /\ batch' = {} /\ pc' = "loop" /\ Fails
  /\ UNCHANGED <<step, fds, status, cur, readErr, conn, store, net, history>>

FreshConn == [in |-> <<>>, out |-> <<>>, events |-> {"IN"}, closing |-> FALSE]

(* accept_clients(): every waiting client is accepted, or something fails
   after its accept() and it is closed, or accept() itself fails. *)
AcceptClients ==
  /\ pc = "events" /\ cur = NoClient /\ <<NoClient, "IN">> \in batch
  /\ batch' = batch \ {<<NoClient, "IN">>}
  /\ \E accepted, closed \in SUBSET Pending :
       /\ accepted \cap closed = {}
       /\ FailsIf(accepted # Pending)
       /\ conn' = [c \in DOMAIN conn \cup accepted |->
                     IF c \in accepted THEN FreshConn ELSE conn[c]]
       /\ net' = [c \in Clients |->
                    IF c \in accepted THEN [net[c] EXCEPT !.st = "open"]
                                      ELSE ClosedNet(closed)[c]]
  /\ UNCHANGED <<program, cur, readErr, store, history>>

-----------------------------------------------------------------------------
(* The handlers of a connection.                                           *)

(* close_conn(), after the kernel took taken for the client. *)
Close(c, taken) ==
  /\ conn' = [d \in DOMAIN conn \ {c} |-> conn[d]]
  /\ net' = [ClosedNet({c}) EXCEPT ![c].got = @ \o taken]
  /\ batch' = {e \in batch : e[1] # c}
  /\ cur' = NoClient /\ readErr' = "none" /\ pc' = "events"

Room(n) == n + READ_CHUNK <= BYTEBUF_MAX

(* How much of rx the loop over read() can have read when it ends. *)
Loads(in, rx) ==
  {n \in 0 .. Len(rx) : /\ n % READ_CHUNK = 0 \/ n = Len(rx)
                        /\ \A m \in 0 .. n - 1 : m % READ_CHUNK = 0 => Room(Len(in) + m)}

(* Why it ends there: no more can be stored, or be had. *)
ReadEnds(len, drained) ==
  IF len >= BYTEBUF_MAX THEN {"request too large"}
  ELSE {"out of memory"} \cup (IF drained /\ Room(len) THEN {"none"} ELSE {})

(* The first half of handle_read().  A client that has left is noticed when
   all it sent has been read, or at once by EPOLLHUP; read() may fail too.
   A connection with close_after_drain waits for no input and is not read. *)
HandleRead ==
  /\ pc = "events" /\ cur = NoClient
  /\ \E c \in Open :
       /\ <<c, "IN">> \in batch
       /\ LET rx == net[c].rx IN
          \/ Close(c, <<>>) /\ FailsIf(~net[c].gone)
          \/ \E n \in Loads(conn[c].in, rx) :
             \E end \in ReadEnds(Len(conn[c].in) + n, n = Len(rx)) :
               /\ end = "none" => ~net[c].gone
               /\ FailsIf(end = "out of memory" /\ Room(Len(conn[c].in) + n))
               /\ conn' = [conn EXCEPT ![c].in = @ \o SubSeq(rx, 1, n)]
               /\ net' = [net EXCEPT ![c].rx = SubSeq(rx, n + 1, Len(rx))]
               /\ batch' = batch \ {<<c, "IN">>}
               /\ cur' = c /\ readErr' = end /\ pc' = "dispatch"
  /\ UNCHANGED <<step, fds, g_shutdown, status, store, history>>

(* One frame of the dispatch loop: the reply goes behind those that are
   still unsent, and the frame leaves the buffer. *)
DispatchFrame ==
  /\ pc = "dispatch"
  /\ \E r \in {resp_parse_request(conn[cur].in)} :
       /\ r.st = "OK"
       /\ \E q \in {Request(r.args)} : C!Execute(q)
       /\ done' = [done EXCEPT ![cur] = @ + 1]
       /\ \/ /\ rc' = 0
             /\ Len(conn[cur].out) + Len(out') <= OutMax
             /\ FailsIf(Denied)
             /\ conn' = [conn EXCEPT ![cur].in = SubSeq(@, r.next, Len(@)),
                                     ![cur].out = @ \o out']
             /\ UNCHANGED <<pc, loop, net>>
          \/ /\ rc' # 0
             /\ Len(conn[cur].out) + Len(out') <= OutMax
             /\ FailsIf(Len(conn[cur].out) + Len(out') < OutMax)
             /\ Close(cur, <<>>)
  /\ UNCHANGED <<step, fds, g_shutdown, status, asked>>

(* As much of an error reply as was appended. *)
PartsOf(msg) == {SubSeq(C!Error(msg), 1, n) : n \in 0 .. Len(C!Error(msg))}

(* Variant: the error goes in front of the replies that are unsent. *)
WithErrorFirst(o, msg) == {p \in {part \o o : part \in PartsOf(msg)} : Len(p) <= OutMax}

(* The output after the error replies that are due.  What
   resp_reply_error() returns is not looked at: o may end with a part of
   one, for want of room or of memory. *)
WithError(o, msg) == {p \in {o \o part : part \in PartsOf(msg)} : Len(p) <= OutMax}

WithErrors(o, malformed) ==
  LET outs == IF malformed THEN WithError(o, "Protocol error") ELSE {o}
  IN IF readErr = "none" THEN outs ELSE UNION {WithError(p, readErr) : p \in outs}

Longest(outs) == CHOOSE o \in outs : \A p \in outs : Len(p) <= Len(o)

(* Variant: nobody asks for the socket to become writable. *)
InterestIn(closing, o) == IF closing THEN {} ELSE {"IN"}

Interest(closing, o) ==
  (IF closing THEN {} ELSE {"IN"}) \cup (IF o = <<>> THEN {} ELSE {"OUT"})

(* arm_events() and the return to the batch, where the other half of the
   same event is next if it has one; or the call fails. *)
Arm(c, k, want, taken, left, fault) ==
  \/ /\ batch' = left
     /\ conn' = [conn EXCEPT ![c] = [k EXCEPT !.events = want]]
     /\ net' = [net EXCEPT ![c].got = @ \o taken]
     /\ cur' = (IF <<c, "OUT">> \in left THEN c ELSE NoClient)
     /\ readErr' = "none" /\ pc' = "events" /\ FailsIf(fault)
  \/ conn[c].events # want /\ Close(c, taken) /\ Fails

(* The second half of handle_read(). *)
DispatchEnd ==
  /\ pc = "dispatch"
  /\ \E st \in {resp_parse_request(conn[cur].in).st} \ {"OK"} :
     \E closing \in {st = "PROTOCOL_ERR" \/ readErr # "none"},
        outs \in {WithErrors(conn[cur].out, st = "PROTOCOL_ERR")} :
     \E o \in outs :
     \E want \in {Interest(closing, o)} :
       IF want = {} THEN Close(cur, <<>>) /\ FailsIf(o # Longest(outs))
       ELSE Arm(cur, [conn[cur] EXCEPT !.out = o, !.closing = closing], want, <<>>, batch,
                o # Longest(outs))
  /\ Forget
  /\ UNCHANGED <<table, step, fds, g_shutdown, status, history>>

(* handle_write(): the kernel takes everything, or a part before it blocks
   or fails. *)
HandleWrite ==
  /\ pc = "events"
  /\ \E c \in Open :
       /\ <<c, "OUT">> \in batch
       /\ cur = c \/ (cur = NoClient /\ <<c, "IN">> \notin batch)
       /\ \E n \in 0 .. Len(conn[c].out) :
            LET taken == SubSeq(conn[c].out, 1, n)
                k     == [conn[c] EXCEPT !.out = SubSeq(@, n + 1, Len(@))]
            IN \/ k.out # <<>> /\ Close(c, taken) /\ FailsIf(~net[c].gone)
               \/ k.out = <<>> /\ k.closing /\ Close(c, taken) /\ Works
               \/ /\ n > 0
                  /\ k.out # <<>> \/ ~k.closing
                  /\ Arm(c, k, IF k.out = <<>> THEN {"IN"} ELSE k.events, taken,
                         batch \ {<<c, "OUT">>}, FALSE)
  /\ UNCHANGED <<step, fds, g_shutdown, status, store, history>>

-----------------------------------------------------------------------------
(* The end.                                                                *)

Nobody == [c \in {} |-> FreshConn]

(* The end of net_run(): after the loop, or when epoll_wait() fails. *)
Teardown ==
  /\ (pc = "loop" /\ g_shutdown) \/ pc = "wait"
  /\ pc' = "down" /\ FailsIf(pc = "wait")
  /\ conn' = Nobody /\ net' = ClosedNet(Pending \cup Open) /\ fds' = {}
  /\ UNCHANGED <<step, g_shutdown, status, loop, store, history>>

(* main() destroys the store and returns. *)
Exit ==
  /\ pc \in {"failed", "down"}
  /\ pc' = "exited" /\ Works
  /\ table' = C!T!HtDestroy(table)
  /\ status' = IF pc = "failed" THEN 1 ELSE 0
  /\ UNCHANGED <<step, fds, g_shutdown, loop, conn, req, out, rc, net, history>>

(* SIGINT or SIGTERM: it ends the program until net_init() has installed
   on_signal(), which sets the flag and wakes epoll_wait() if the program
   is inside it already. *)
Signal ==
  /\ \/ /\ pc \in {"hash", "tests", "listen", "epoll", "register", "handlers", "failed"}
        /\ pc' = "killed" /\ fds' = {} /\ net' = ClosedNet(Pending)
        /\ UNCHANGED g_shutdown
     \/ /\ pc \in {"loop", "wait", "events", "dispatch", "down"}
        /\ g_shutdown' = TRUE
        /\ pc' \in IF pc = "wait" THEN {"wait", "loop"} ELSE {pc}
        /\ UNCHANGED <<fds, net>>
  /\ Works
  /\ UNCHANGED <<step, status, loop, conn, store, history>>

-----------------------------------------------------------------------------
(* The clients and the network.                                            *)

Connect(c) ==
  /\ "listener" \in fds /\ net[c].st = "idle"
  /\ net' = [net EXCEPT ![c].st = "pending"]
  /\ Works
  /\ UNCHANGED <<program, loop, conn, store, history>>

Send(c) ==
  /\ c \in Pending \cup Open /\ ~net[c].gone
  /\ \E n \in {Segment, Len(net[c].unsent)} \cap (1 .. Len(net[c].unsent)) :
       net' = [net EXCEPT ![c].rx = @ \o SubSeq(net[c].unsent, 1, n),
                          ![c].unsent = SubSeq(@, n + 1, Len(@))]
  /\ Works
  /\ UNCHANGED <<program, loop, conn, store, history>>

Leave(c) ==
  /\ c \in Pending \cup Open /\ ~net[c].gone
  /\ net' = [net EXCEPT ![c].gone = TRUE]
  /\ Fails
  /\ UNCHANGED <<program, loop, conn, store, history>>

Init ==
  /\ pc = "hash" /\ step = 0 /\ fds = {} /\ g_shutdown = FALSE /\ status = -1
  /\ batch = {} /\ cur = NoClient /\ readErr = "none" /\ conn = Nobody
  /\ C!Init
  /\ \E session \in [Clients -> UNION Range(Sessions)] :
       /\ \A c \in Clients : session[c] \in Sessions[c]
       /\ asked = [c \in Clients |-> [i \in DOMAIN session[c] |-> Request(session[c][i])]]
       /\ net = [c \in Clients |->
                   [st |-> "idle", rx |-> <<>>, gone |-> FALSE, got |-> <<>>,
                    unsent |-> FlattenSeq([i \in DOMAIN session[c] |->
                                             LineFrame(session[c][i], <<LF>>)])]]
  /\ done = [c \in Clients |-> 0] /\ faults = 0

ProgramStep ==
  \/ HashTest \/ ParserTest \/ CommandTest \/ TestsDone \/ NetInit
  \/ Test \/ EpollWait \/ BatchDone \/ ListenerFails \/ AcceptClients
  \/ HandleRead \/ DispatchFrame \/ DispatchEnd \/ HandleWrite
  \/ Teardown \/ Exit

ClientStep == \E c \in Clients : Connect(c) \/ Send(c) \/ Leave(c)

Next == ProgramStep \/ ClientStep \/ Signal

Spec == Init /\ [][Next]_vars

(* The program has something to do: it is not inside an epoll_wait() that
   has nothing to report. *)
Runnable == pc \notin {"exited", "killed"} /\ (pc = "wait" => Ready # {})

(* The program is scheduled: it does not stay for ever where it has something
   to do.  That a call fails is never owed.  A client writes what it has to
   ask; none need connect. *)
FairSpec ==
  /\ Spec
  /\ []<>~Runnable \/ []<><<ProgramStep>>_vars
  /\ \A c \in Clients : WF_vars(Send(c))

-----------------------------------------------------------------------------
(* Properties.                                                             *)

Answers(c) == net[c].got \o (IF c \in DOMAIN conn THEN conn[c].out ELSE <<>>)

Over ==
  IF pc \in {"failed", "killed", "down", "exited"} THEN Clients
  ELSE {c \in Clients : net[c].st = "closed" \/ (c \in DOMAIN conn /\ conn[c].closing)}

(* The clients of the program, however their bytes are cut and their
   requests interleaved, have one store, which executes what each of them
   asked, once and in its order, and answers it in that order. *)
Service == INSTANCE Service WITH
  map <- C!T!Contents(table), answers <- [c \in Clients |-> Answers(c)], over <- Over,
  serving <- pc \notin {"hash", "tests"}
ImplementsService == Service!Spec

(* Every check of the self tests passes, unless the memory runs out. *)
ChecksPass ==
  /\ pc = "hash" => ParserChecks
  /\ pc = "tests" /\ step > 0 /\ faults = 0 => rc = 0 /\ out \in Cases[step].ok

(* Whatever fails in the self tests, what they leave behind for the clients
   is at most the two keys of the last ones. *)
Leftovers ==
  pc = "listen" => DOMAIN C!T!Contents(table) \subseteq LateKeys

(* The program returns from main() with every descriptor closed, every
   connection freed and the heap as empty as at the start, on every path. *)
NothingLeft ==
  pc = "exited" => /\ fds = {} /\ DOMAIN conn = {} /\ Pending \cup Open = {}
                   /\ DOMAIN table.heap = {}

(* Whoever reaches the listener, if only while net_init() is still at work,
   and writes what it has to ask, has all of it executed and answered, or
   its connection closed. *)
ClientsServed ==
  \A c \in Clients :
    c \in Pending \cup Open
      ~> \/ net[c].st = "closed"
         \/ /\ net[c].unsent = <<>> /\ net[c].rx = <<>>
            /\ done[c] = Len(asked[c]) /\ conn[c].out = <<>>
==============================================================================
