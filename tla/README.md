# Redis-in-C: specification, model checking and proofs

This directory specifies the server of this repository in TLA+: the epoll loop
and its connections, the byte buffers, the request parser, the hash table, the
command handlers, the number parser, the glob matcher, and the whole program
that `main()` makes of them. TLC checks the specifications on small instances;
the TLA+ proof system (TLAPS) proves the invariants of the event loop, that it
keeps the streams of every connection intact, the correctness of the byte buffer,
of the request parser and of the hash table, that the commands implement one
store and neither leak, corrupt nor half change its table, and that the whole
program gives its clients that store and leaves nothing behind, for every value of
the constants.

Paths below are relative to the repository; the server's code is in `src/`.

## The system

One process, one thread. `main()` creates a hash table, tries the table, the
parser and the commands out on it, opens a listening socket and an epoll
instance, installs a handler for SIGINT and SIGTERM, runs `net_run()` until a
signal sets `g_shutdown`, and destroys the table. The table that is served is
the one the tests ran on.

| Component | State | Operations |
|---|---|---|
| Event loop, `networking.c` | `g_conns` (list of `conn_t`), per connection `in_buf`, `out_buf`, cached epoll mask, `close_after_drain`; `g_shutdown` | accept, read, dispatch, write, arm, close, signal, teardown |
| Byte buffer, `bytebuf.c` | one allocation, `off`, `len`, `cap` | append, appendf, reserve, advance, consume, reset, free |
| Request parser, `resp.c` | none: called again on the whole buffer | multi-bulk and inline requests |
| Reply serializers, `resp.c` | none: they append to a byte buffer | one per reply type |
| Hash table, `hashtable.c` | 1024 chains of heap-allocated entries, a counter | set, get, del, scan, destroy |
| Commands, `command.c` | none of their own | 17 commands, arity checks, integer parsing, glob matching |
| Start and end, `main.c`, `net_init()` | the listener, the epoll instance | open, close on failure, serve, destroy |
| Smoke tests, `main.c` | none of their own: they use the table | 5 calls of the table, 8 of the parser, 41 commands |

How they interact. The kernel tells the loop which descriptors are ready. A
readable connection is read into `in_buf`; the parser is called on it over and
over, and every complete request goes to `command_execute()`, which changes the
table and appends a reply to `out_buf`. The loop then writes what the socket
takes and asks for `EPOLLOUT` for the rest. Nothing calls back except
`ht_scan()` (for `KEYS`) and the signal handler. The only shared state is what
the kernel, the clients and the signal handler share with the thread: they act
between any two of its system calls.

Where it is hard, and what makes each part correct:

* *Event loop.* One `epoll_wait()` returns a batch of raw `conn_t` pointers, and
  handlers free connections in the middle of it: none may be used afterwards.
  The cached mask must equal the kernel's and what the buffers call for, or a
  reply is never sent. A complete request left in `in_buf` is never seen again,
  since the socket need not become readable. A request is executed once and in
  order however `read()` cuts it; an error reply follows the replies of the
  requests before it and nothing follows it. Every descriptor is closed on every
  failing path. A signal ends the loop.
* *Byte buffer.* Bytes leave in the order they came; a failed call loses none,
  although it may have moved them; the cap holds; the dead space at the head
  stays small; bytes reserved and not written never become live.
* *Parser.* It must give the same answer wherever the stream was cut, take
  exactly the bytes of one request, and never take a legal request for an error.
* *Hash table.* It is one partial function whichever keys collide; each of
  several allocations may fail; a value that was lent is freed by the next set.
* *Commands.* They work on values the table has lent, count in one scan and emit
  in another, convert between text and bounded integers, and change the table
  before they know whether their reply fits.
* *The whole.* Clients take turns in an order nobody fixes, yet share one store.
  Set-up may fail with clients already waiting in the listener's queue, and a
  signal may arrive before its handler is installed. What the smoke tests leave
  in the table is served.

## Modules

| Module | Models | Source |
|---|---|---|
| `EventLoop` | the loop, the kernel's sockets, clients, the signal | `networking.c` |
| `EventLoopProofs` | its theorems: the invariants of the loop, and the two streams of a connection | |
| `ByteBuf` | the byte buffer, cell by cell | `bytebuf.c` |
| `Fifo` | what it promises: a bounded queue | `bytebuf.h` |
| `ByteBufProofs` | its theorems | |
| `HashTable` | the table and the heap it allocates from | `hashtable.c` |
| `KeyMap` | what it promises: a partial function | `hashtable.h` |
| `HashTableProofs` | its theorems | |
| `Numbers` | `parse_int64()` and decimal formatting, for any base and width | `command.c` |
| `NumbersProofs` | induction and recursion over numbers; lemmas on prefixes, concatenation, flattening and sequences without repetition; what digits denote, and that both functions of `Numbers` agree with it | |
| `Replies` | the serializers: a reply is the sequence of its appends | `resp.c` |
| `Commands` | the 17 handlers and `command_execute()`, over `HashTable` | `command.c` |
| `KeyValueStore` | what they promise: one map and a reply per request | |
| `CommandsProofs` | the theorems about the handlers | |
| `Glob` | `glob_match()`, and what a pattern means | `command.c` |
| `GlobProofs` | its theorem | |
| `Resp` | the request parser | `resp.c` |
| `RespStream` | the parser at work on a stream that reads cut anywhere | `resp.c`, `networking.c` |
| `RespProofs` | the theorems about the parser and the stream | |
| `SmokeTests` | what the smoke tests call and expect | `main.c` |
| `Server` | the whole program: smoke tests, start, loop and end, over `Resp` and `Commands` | `main.c`, `networking.c` |
| `Service` | what it promises its clients: one store that answers each in order | |
| `ServerProofs` | the invariant of the program's connections, every step of it as one of `Service`, and the theorems about the whole program, from these, `CommandsProofs` and `RespProofs` | |
| `MC*` | values of the constants for TLC | |

### EventLoop

A server step is one round of one of the code's loops: one `read()`, one parsed
frame, one `write()`, one `accept()`, one event of the batch. Between two steps
the environment may act: a client connects, sends a unit, receives a piece,
shuts down its sending side or resets the connection; a signal arrives. `pc`
says where `net_run()` is: `loop` is the test of `g_shutdown`, `enter` is
between that test and `epoll_wait()`, `wait` is inside it, `events` is between
two events of the batch, `accept` and `register` are inside `accept_clients()`,
`read`, `dispatch` and `write` inside a handler.

Requests are sequences of *units* (parts of a frame that `read()` can separate)
and replies sequences of *pieces* (one `bytebuf_append()` of a serializer each),
so that the model can cut a frame between reads and fill a buffer in the middle
of a reply. Buffers are bounded in units and pieces. Here the parser is the
function that `Resp` is checked to be: it looks at the first frame only, waits
until it is complete and refuses a malformed one. A request may be longer than
the input buffer, as a bulk may announce 512 MiB where the buffer stops at
16 MiB: it is waited for until the buffer is full and then given up
(`OversizeRefused`), and a buffer that is full without anything to dispatch never
goes back to the kernel (`RoomToRead`). The kernel is level-triggered: an event
is reported whenever the mask asks for it and the condition holds. The constant
`Faults` names the calls that may fail: memory allocation, `accept()` and
`set_nonblock()`, `epoll_ctl()`, `epoll_wait()`, the listener.

An accepted client is linked into `g_conns` by `Accept`, with its descriptor open
and nothing armed, and is the connection in hand until `Register`, the
`epoll_ctl(ADD)`, arms it or takes everything back. `FdsOwned` compares the list with
the open descriptors at that point too.

`log` is a history variable: what each client sent, which requests were
executed, which pieces were written.

### ByteBuf and Fifo

The allocation is a sequence of cells; a fresh one holds `Junk`. `Ladder` gives
the capacities that the doubling loop goes through; the invariant `GrowthLoop`
compares it with the loop as written. `Fifo` has a queue and no layout: a
producer adds at the end or is refused, and is refused only if the bytes it
asked for exceed the cap or memory has run out. `ImplementsFifo` says that every step
is some step of that queue, `CallsAsPromised` that each call is its own: the bytes it
was given, behind all others, or a refusal for the cells it asked for.

### HashTable, Commands and their abstractions

`table` holds the chains, the counter and the heap, a map from allocated blocks
to their contents. An entry names three blocks. `malloc()` may fail at any call;
a load from a freed block gives `Garbage`, which no specification accepts. The
operations are functions from a table to the tables they may leave, and
`Commands` composes them as the handlers do: `cmd_getset` copies the value that
`ht_get()` lent and reads it after `ht_set()` freed the original, `cmd_append`
allocates before it sets, and so on. A handler's reply is delivered piece by
piece, and `out_buf` may refuse any of them, which is what `rc = -1` says.

`KeyValueStore` knows neither chains nor blocks nor handlers: a map, a request,
a reply. `ImplementsStore` is the refinement `map <- T!Contents(table)`. A command that
runs out of memory has changed nothing; a reply that does not fit is cut short
after the store has changed, as in the code. `ErrorsUndone` says more than the
refinement can: after an error the heap, too, is what it was, temporary copies and
the blocks of an unfinished entry included.

`Numbers` works for any base and `INT_MAX`: TLC uses base 3 and four bits, which
brings both ends of the range within two digits.

### Glob and Resp

Both are pure. `Glob` states the matcher as the code's backtracking search and a
second time as a declarative meaning (tokens, and a way to cut the key among
them). `Resp` gives for a byte string the verdict, the arguments and the number
of bytes; `RespStream` puts a client and the reading loop around it. The client
either writes requests, in each of the framings a request can be written in, or
any bytes at all.

### Server, SmokeTests and Service

`Server` is the program from `main()` to its return. `pc` goes through the smoke
tests (`hash`, `tests`), `net_init()` (`listen`, `epoll`, `register`,
`handlers`), `net_run()` (`loop`, `wait`, `events`, `dispatch`) and the ways out
(`failed` and `down`, then `exited`; `killed` is a signal that found no handler).
A step of `net_init()` that fails closes what the steps before it opened, and
nothing else.
The bytes a connection has read go through `Resp` and the requests it finds
through `Commands`, on one table and one heap, so that a reply, a refused reply
or a failed allocation is that of the real handlers.

`SmokeTests` lists what the three tests of `main.c` call and which answers pass.
A test goes on after a failed check, or ends early, as it does in the code; it
runs with real allocations that may fail. A key, or a text that is never taken
apart, is one byte.

Steps are coarser than in `EventLoop`: one handler's loop over `read()` or
`write()` is one step, and so is a round of accepting, because what a client or
a signal does inside one might as well have come before it. Frames are still
dispatched one by one. A client's bytes arrive whole or cut after `Segment`;
its requests are typed on lines (arrays are left to `resp_stream`).
The failures of calls and the clients that leave share one budget, `MaxFaults`.

`Service` is what a client sees: a store of which the program has sole use until
it serves; then each request of a client is applied in its order, between
anyone else's, and answered; a connection may be given up, with errors behind
the answers, or cut, which leaves its client a beginning of them.
`ImplementsService` is the refinement. `Service` applies requests with
`KeyValueStore`, so it covers chains, blocks, framing, buffers and the loop at once.

## Runs

`MC<module>.tla` holds the definitions a `.cfg` substitutes for constants.

| Run | Question | Instance |
|---|---|---|
| `el_streams` | Are requests executed and answered once, in order, with errors last, and is every one answered, or given up if it is too long? | 1 client, 3 requests of 4 kinds, buffers of 4 units, `malloc()` may fail |
| `el_faults` | Is every connection and descriptor released, none used after it is freed, and every mask right? | 2 clients, 1 request each of 2 kinds, any call may fail |
| `bb_fifo` | Is the buffer a bounded queue? | 2 byte values, cap 6 (no power of two times the initial 2), calls of up to 3 bytes, `realloc()` may fail |
| `ht_map` | Is the table a map and its heap exact? | 4 keys, 3 in one chain, 13 blocks |
| `cmd_store` | Do the commands do what they say, is everything undone on an error, and is the arithmetic that of integers with an overflow check? | 2 keys in one chain, 9 blocks, all arities; on one of them the numbers, 4-bit integers in up to 3 bytes |
| `glob_meaning` | Does the matcher match what a pattern means? | all patterns of up to 4 bytes, all keys of up to 3 |
| `resp_stream` | Is each request dispatched as written wherever the stream is cut; is an answer of the parser final? | 2 requests with framing bytes as arguments; any 11 bytes |
| `server` | Do the parts make a service: one store, each client's requests executed once, in order and answered, everything given back at the end? | 2 clients with 1 to 2 requests on one key, 16 blocks, input buffers of 10 bytes, 2 failures |
| `el_signal`, `el_eof`, `el_status`, `cmd_range` | disagreements between the code and its comments, below | 1 client or 1 key |

**Why the bounds are enough.** In `el_streams` three requests fill a buffer of
four units more than once, a reply is longer than the room left, a frame is cut
between two reads, and a malformed one comes first, last and between. In
`el_faults` two clients give batches with an event for either and for the
listener, so a handler can close a connection while the batch still holds
events. One client's buffers have no influence on another's except through the
batch. In `bb_fifo` the cap is reached both by doubling and by the jump to
`MAX`, and compaction happens with and without growth. In `ht_map` three
colliding keys give a head, an interior and a last entry; 13 blocks are the 12
that four keys need and the one that an overwrite needs besides. In `cmd_store`
7 and -7 are two digits long, and what `APPEND` makes of the numeric arguments
includes leading zeros, numerals beyond the range and bytes that are no number;
the other key shares the chain and takes every other command. In `resp_stream` eleven
bytes hold a complete frame of either form, whole and followed by a byte, and
reach the limits, which are set to 2 arguments, 2 bytes per bulk and 4 bytes per
line; the two requests of the other client alternate between the forms. In
`server` one client's two requests fill the input buffer to its last byte and are
cut after the first half; the other interleaves an increment with them, and may
type an empty line, which the parser refuses. The key they share is one that the
smoke tests leave behind. Five pieces of output hold one bulk
reply and cut the next one, or an error, short. Two failures are
enough for one client to leave while an allocation fails for the other; the
tests use 27, the largest number they need, as the end of the integer range.

**Views and symmetry.** `ht_map`, `cmd_store` and `cmd_range` use `VIEW
Shape`: two tables that hold the same contents in the same chains, with as many
allocated blocks, have the same futures, because blocks are only compared with
each other. In the commands' runs the view also leaves out the last request, its
reply and its result, on which nothing that follows depends; refinement is
checked on every transition, before states are identified. `bb_fifo` permutes
byte values. The runs with liveness use neither.

**Deadlock.** `CHECK_DEADLOCK FALSE` is set where the system does stop: the
server has returned from `net_run()` and its clients have nothing left to do
(`EventLoop`); the program has returned or was killed, or waits for clients that
want nothing more (`Server`); a connection whose client has written all it will
(`RespStream`); the enumeration of inputs has reached its bound (`Glob`). The
buffer, the table and the commands never stop, and are checked for it.

**Fairness.** `FairSpec` assumes weak fairness of `ServerStep`, since the thread
is runnable whenever it is not inside `epoll_wait()` and is woken when that has
an event to report, and of `Receive(c)`, since a reply cannot be sent to a client
that stops reading. Nothing makes a client connect, send or leave, nor a signal
arrive; no system call is assumed to succeed in the long run. In `el_faults` a
batch holds every event there can be (`MaxEvents = 3`): with more ready
descriptors than that, the kernel serves them in turns, and this rotation is not
part of the code. The safety properties do not depend on it and are proved for
every `MaxEvents`.

`Server!FairSpec` says the same of the whole program: it does not stay for ever
where it has something to do (`Runnable`). This is weak fairness of `ProgramStep`
spelled out, with one difference: inside an `epoll_wait()` that has nothing to
report a failure is possible but not owed. The clients send
what they have to ask; none must connect.

## Disagreements found

Each is a run that TLC finds violated.

* `el_signal`: a signal between the test of `g_shutdown` and `epoll_wait()` is
  not acted upon until another event arrives. (`ShutdownWhenAwake`, checked in
  `el_faults`, is what does hold.)
* `el_eof`: complete requests that are read in the same call as the end of file
  are dropped, although the file's opening comment has the dispatch follow.
* `el_status`: `net_run()` returns 0 after a fatal `epoll_wait()` error; its
  header says non-zero.
* `cmd_range`: the number parser refuses the last eight values at either end of
  the range its comment gives, so `INCRBY` can store a number that no `INCR`
  or `DECR` reads.

Two more were met and have no run: an error reply that fits only in part is
flushed in part (`networking.c:367` ignores the result); and the smoke tests
leave the keys `sk` and `gs` in the table that is served (`Leftovers`), while
the session in `src/README.md` (lines 135 to 152) shows `KEYS *` and `DBSIZE`
counting only what its user stored.

## Proofs

`NumbersProofs`, `EventLoopProofs`, `ByteBufProofs`, `HashTableProofs`,
`CommandsProofs`, `GlobProofs`, `RespProofs` and `ServerProofs` are checked
by TLAPS with its SMT, Zenon and PTL backends. They hold for all values of the
constants that satisfy these assumptions, each next to the constants it is about:

* `ConstantsOK`, `BufConstants`, `TableConstants`: sizes are positive, the initial
  capacity does not exceed the cap, the hash of a key is a bucket;
* `NumberConstants`: there are at least two digits, all different and none a minus
  sign; the largest integer has room for one; `Malformed` is no number;
* `CommandConstants`, `RequestsTyped`: model values differ from data; the values are
  strings that include what the handlers make of them (a number's text; a
  concatenation, up to the bound on `APPEND`); a request is a sequence and names keys
  and values where its command takes them;
* `RespConstants`, `StreamConstants`: the six bytes the framing gives a meaning to
  differ from each other and from the digits; the limits on a request are numbers a
  header can carry (`ReadLimit` is what the parser's overflow guard lets through),
  and a legal request keeps to them;
* `ServerConstants`, of the whole program: the clients type lines that keep to the
  parser's limits and do not begin like an array; what they ask by them, and what
  the self tests ask, names keys and values where a command takes them. That the
  values are strings of bytes and the requests those of the lines and of the self
  tests is no assumption but how `Server` instantiates `Commands`.

**Event loop.** No property above is inductive alone. `EventsLive` needs to know
that an event of the batch belongs to a connection that was registered and that
the connection in hand has left the batch; `InterestMask` excludes the connection
in hand, whose buffers change before its mask does, so that what its buffers
and mask are at each `pc` must be carried along. `IInv` is the conjunction of

* `TypeOK`, `EventsLive`, `FdsOwned`, `InterestMask` as checked;
* `Control`: which variables mean something at which `pc`;
* `BatchArmed`: an event in the batch was asked for by the mask;
* `InHand`: what is known of the connection being handled, at each stage;
* `FramesDone`: no connection but the one in hand has a frame that could be
  dispatched.

There is one lemma per group of actions (`ReadKeeps`, `DispatchEndKeeps`,
`AcceptKeeps`, ...) and one for each helper they share (`CloseKeeps`,
`ArmKeeps`, `BuffersKeep`). From `Invariance` follow `TypeCorrect`,
`NoUseAfterClose`, `NoDescriptorLeak`, `MasksAgree`, `ClosingNeverRead` (the
closing branch of `handle_read()` is dead code), `NothingLeftBehind` and
`RoomRemains`; `ClosingFinal` is an action property proved from the same
invariant.

**The streams of a connection.** `InputFraming` and `OutputFraming` compare buffers
with concatenations of frames and of replies. `StreamInv` strengthens them, and is
inductive together with `IInv`: of every connection,

* what was sent consists of whole frames, one after the other, the last of which
  may be cut (`WellFormed`): without it nothing says that a buffer that is as long
  as its first unit announces begins with that request's frame (`NextFrame`);
* the executed frames end at the end of a frame (`Consumed`), so that the next unit
  of the stream starts one;
* until it is closed, the executed frames, `in_buf` and the socket's receive queue
  make up what was sent (`InputLive`), and what was written with `out_buf` makes up
  the replies, with errors behind them only if it is closing (`OutputLive`);
* once it is closed, what was written is a beginning of that (`OutputCut`), which
  `CutAnywhere` shows of every cut.

There is one lemma per action that moves anything (`ReadStreams`, `FrameStreams`,
`DispatchEndStreams`, `WriteStreams`, `ClientStreams`, ...). That one more request
adds its frame to the frames, and its reply to the replies, is a fact about a
function defined by recursion over a sequence. `NumbersProofs` proves it
(`FlattenAppend`) from the least-element principle of the natural numbers
(`LeastNumber`, `NumberInduction`): the partial concatenations of a sequence are
described without recursion (`Concats`), shown to exist and to be the same for two
sequences as far as these agree. `InputIntact` and `OutputIntact` then hold for
any number of clients and requests, all frame and reply lengths, all buffer sizes,
all cuts by `read()`, `write()` and the peer, and all combinations of failing calls.

**Byte buffer.** `TypeCorrect` and `LiveAlwaysWritten` by induction, with lemmas on
`Compact`, `Resize`, `EnsureTail` and `WriteTail` that say what each does to the
live bytes. `Implementation` is the refinement: every step of `ByteBuf` maps to a
step of `Fifo` or leaves the queue as it was, for every alphabet, capacity,
compaction threshold and stack-buffer size; `CallsKept` that each call is the step it
promises, which the same lemmas, one per call, show. `LittleWaste` bounds the dead space at
the head: a call that adds bytes compacts or grows the buffer and never shrinks
it, and one that takes bytes resets a drained buffer and compacts one that is more
than half dead. `GrowthLoops` is about the doubling loop of `ensure_tail_cap()`: `LoopCap`
is the loop as a recursive function, `Found` what it should end with from each
capacity; that `Found` solves the loop's equation (`RungStep`, `LoopExists`), and that
every solution agrees with it (`LoopFinds`, by induction from the cap downwards), needs
that the doublings of a number are itself and those of its double (`DoubledStep`).

**Hash table.** `Sound(t)`, a predicate of a table and not of a state, is the
inductive invariant: the conjunction of `Typed`, `Exact`, `Chained` and `Counted`,
and that the set of entries is finite. None is inductive alone: that deleting
the first hit deletes the key needs `Chained`; that freeing an entry's blocks
leaves the others readable, and so `Chained`, needs `Exact`; that a counter that
goes down stays a number needs `Counted`. Each outcome of an operation has a
lemma (`LinkKeeps`, `OverwriteKeeps`, `DelKeeps`, `DestroyOutcome`, and
`FreshSound` for the empty table); the failing allocations are cases of
`InsertHolding`. A caller of `ht_set()` may hold blocks of its own at the time, as
`APPEND` and `GETSET` do: `Holding(u, t, X)` says that `u` is the sound table `t`
with the blocks `X` besides, and `SetHolding` that `ht_set()` does to `u` what it
does to `t`, without touching `X`; the table on its own is the case of no blocks
(`SetOutcome`). `ConsChain`, `CutChain` and `RewriteChain` say what happens to the
positions of a chain, and `ContentsByEntry` turns the walk along it into "the entry
of that key", from which `ContentsWith` and `ContentsWithout` give the
refinement: `Implementation` states that every step of the table is a step of the
partial function, whichever keys collide and whichever allocation fails.
`OneKeyPerEntry` gives the size of the map from the number of entries.

**Commands.** The invariant is `Sound` of the served table, taken over from
`HashTableProofs` by an instance (`P`); lemmas named `Same...` identify the
operations `Commands` calls with those proved there. `Leaves(a, t)` is what every
outcome `a` of a handler on a sound table `t` satisfies: its table is sound, and it
is `t` itself if the reply is an error. A lemma `...Becomes` per handler that stores
something says more: which map the table now is, and which reply goes with it. In
`AppendBecomes` and `GetSetBecomes` the temporary block is what the caller holds
(`StoredHolding`), or there is none and `free(NULL)` does nothing (`StoredBare`).
`DelBecomes` is an induction over the keys of the request. From `Invariance` follow
`NoLeak` and the action property `NothingHalfDone`.

`Implementation` is the refinement of `KeyValueStore`, all of whose requests, replies
and changes of the map are those of the code. `Serves...` is a lemma per group of
requests, and `Refuses` is about those that no handler takes. That `KEYS` sends each
matching key once, under a header that counts them in an earlier scan, needs that a
walk over the chains meets every key of the map and none twice (`WalkIs`, from the
soundness of the chains) and that what is collected on the way is the walk with the
other keys left out (`MatchesAre`).

**Numbers.** `KeyValueStore` says what a numeral means by weights: the digit in front
of `n` others counts for the `n`-th power of the base. The code reads from the left
and guards each step. `MagnitudeDenotes` and `DenotesMagnitude` show by induction over
the digits that the two agree wherever the guard lets the loop go on, and
`ParseDenotes` that `parse_int64()` returns `n` exactly for the numerals of `n` within
`ReadLimit`. `FormatReadBack` is about the way back: a formatted number is read as
itself if and only if it is within that limit, which is short of `INT_MAX`; the run
`cmd_range` shows what comes of it.

**Parser.** Everything rests on two theorems about `resp_parse_request()` as a
function, for every alphabet, all limits and any arguments:

* `ParseSettled`: once the answer is not "more", no byte that comes behind changes
  it. There is a lemma for each of the parser's functions (`IntSettled`,
  `BulkSettled`, `MultiSettled`, `InlineSettled`); the one on arrays is an induction
  over the bulks read so far.
* `RoundTrip`: where the input begins with a request written in either form, the
  answer is its arguments and the first byte behind it. For an array, `ConcatsHeld`
  finds the frames of its bulks in the input one behind the other and `MultiReads`
  reads them by induction; that a length is read back is `ParseDenotes`. For a line,
  `Words` picks its maximal runs without a blank in the order of their first bytes;
  `NextWord` shows that a further argument adds one run, behind all others
  (`Ranked`), and `InlineReads` that the line ends where the client ended it.

`ParseOutcome` adds that a request takes at least one byte and none that has not
arrived, and gives `TakesWhatArrived`. `VerdictsSettled` is `ParseSettled` of the
bytes in the buffer. `RequestsIntact` and `NoneWaits` are not inductive: they do not
say what is in the buffer. `IInv` adds `Undispatched`: the buffer and the wire
together are frames of the requests not dispatched yet, in order. A verdict on the
buffer is then, by `ParseSettled`, the verdict on all those frames, and by
`RoundTrip` the first of the requests (`VerdictIsFirst`); taking its bytes away
leaves the frames of the others (`FlattenFirst`, `SameParts`).

**The whole program.** `ServiceImplemented` is the refinement of `Service`, and
`NothingIsLeft` and `LeftoversHold` are about the two ends of the program. `Inv`
is about the connections:

* `ClientsInv`, of each client: unless its connection is closed, the input buffer,
  the bytes on their way and the unsent ones, laid end to end, are the lines of its
  requests that have not been executed, in order (`Waits`); it is open if and only if
  the program has a connection for it. Without the bytes not read yet, nothing says
  that a line the parser finds in the buffer is the next request.
* `PlaceInv`: a connection that is closing waits for no input and has no read event
  left in the batch, so that nobody's answers are followed by more once they are
  given up, and the connection in hand is not closing; outside the loop there is no
  connection; after it nobody waits for one and no descriptor is open.
* `TypeInv`.

`OpenInv` says what is open at each step of `net_init()`, so that what each of its
error paths closes is all there is, and that nobody waits before there is a listener.
`StoreInv` is about the table: it is sound until `main()` destroys
it, then its heap is empty; and between the last `FLUSHDB` of the self tests and the
clients, it holds no keys but those of the cases that follow.

The lemmas `...Step`, one per action, show that the action keeps `Inv` and is a step
of `Service` or none. Most rest on one of these: no client sees anything
(`NobodySees`, `ClientActs`), connections are given up (`CutOff`), one is closed
(`CloseStep`) or armed again (`ArmEffect`). The longest is `DispatchEndStep`: a
protocol error and a read error may both be due, each may fit in part, and the
connection may be closed all the same. What the parser and the store do enters as two
hypotheses, `Parses` and `Executed`, so that these lemmas are about control alone.
The second part of the module discharges them at the theorems of the parts, taken
over by instances: `L` for `Parses` (`ParserParses`, from `ParseSettled`, `RoundTrip`
and `ParseOutcome` at lines), `D` for `Executed` (`Executes`, from the lemmas behind
`Implementation` of the commands, where `StoreInv` gives the sound table that these
need); lemmas named `Same...` identify the operations, and `ProgramSteps` puts it all
together. `ServerInvariant` states that `Inv`, `StoreInv` and `OpenInv` always hold.

**Matcher.** `MatcherRight` needs no assumption: whatever the special bytes are, and
whatever the bounds, the search of `glob_match()` agrees with the declarative meaning,
for every pattern and every key (`MatcherMeans`). `Takes` generalises `Means` to the
tokens from a position of the pattern on and the bytes from a position of the key on;
`MatchStepMeans` shows that one step of the search decides it, if later ones do, and
`FirstTakes` that the first token takes its piece and the others the rest. Induction
from the end of the pattern (`Backwards`) does the rest. Classes are where the two
descriptions differ most: the code skips two bytes at every escape it walks over, the
meaning asks whether an odd number of escapes stands in front of a byte. That both find
the same `]` and the same members (`ClassMeans`) follows from `EscapedBehind` and
`EscapedBehindPair`: what is escaped does not depend on where the walk is, as long as it
did not stop behind an escape.

**Recursion.** tlapm has no induction over data, but sequences can be counted.
`NumberInduction` is induction over a set of numbers, and `Recursion` gives the
solution of a recursive equation over them; lemmas named `...Exist` apply it to the
recursive functions of the model, whose equation alone does not say that one solves
it.

**Only model-checked.** Liveness (`RequestsAnswered`, `OversizeRefused`,
`ClosingCloses`, `ShutdownWhenAwake`, `ClientsServed`) is out of the prover's
reach. `ChecksPass` is about 54 given calls and the answers they get:
it is a matter of running them, and holds only where the constants leave room for
them (the self tests count up to 27).

## Not modelled

* The text of error messages and the upper-casing of command names.
* `resp.c`'s check that the size of a frame does not wrap around: the limit of
  512 MiB makes it unreachable where `size_t` has 64 bits.
* The reply of `APPEND` when the sum of the two lengths would exceed `SIZE_MAX`
  (`command.c`, lines 391 to 394): both strings are in memory, so it is unreachable
  where `size_t` has 64 bits.
* What `setup_listener()` does between `socket()` and `listen()`: it leaves a
  listening socket or nothing, and is one step.
* What `main()` and the smoke tests print and count.
* Running time: `glob_match()` is exponential in the number of stars, and
  `FLUSHDB` and `KEYS` hold the thread for as long as they take.
* What the peer's kernel does with data in flight when a connection is closed
  with unread input.
* The build files and documents have no behaviour.

## What remains

1. *The composition as a refinement of its parts.* `Server` repeats the loop of
   `EventLoop` in larger steps; that its steps are sequences of `EventLoop`'s is
   argued above and not checked.
