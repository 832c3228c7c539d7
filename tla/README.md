# A TLA+ model of Utu

Utu is a messaging hub written in C. Clients run a local *proxy* that opens an
encrypted session to the *hub*; the hub logs each client in as a *member*,
routes messages by their structure to the members registered for it, and runs
on cooperative tasks (libtask, through the myriad library).

## The system

| Part | State | Operations | Interacts with |
|---|---|---|---|
| Message queue (`hub/queue.c`) | ring of message pointers, indices, dead flag, sleepers | create, add, first, delete, wake, destroy | members, writer tasks |
| Members (`hub/member.c`) | map by key, queue, heap of routes | login, send, first, delete, logout | queue, routing, connections |
| Routing (`hub/routing.c`) | tree of routes, heap of members per route | register, unregister, unregister all, find, deliver | members, commands |
| Connection machine (`hub/connection.rl`, `connection_actions.rl`) | state of the Ragel chart | one action list per event | both tasks of a connection |
| Connection tasks (`hub/connection_state.c`, `hub_state.c`) | reader, writer, lock, socket, hub's list of closed states | incoming, outgoing, half_close, rest_close, reuse, finish | everything in the hub |
| Commands (`hub/commands.c`) | none of their own | dispatch, replies | routing, members |
| Hub life cycle (`hub/hub.rl`, `hub_actions.rl`) | chart of the hub, lists | create, listen, close, destroy | connection tasks |
| Session (`protocol/crypto.c`, `peer.c`) | keys and nonces of both sides | handshake, encrypt, decrypt | frames, proxy, connection tasks |
| Proxy (`client/proxy.c`) | connection to hub and listener | connect, select loop | session |
| Frames (`protocol/frame.c`, `client/io.c`) | buffers | send, receive | session |
| Messages (`protocol/message.c`), stackish (`stackish/`) | trees of nodes and their text | compose, print, parse, take apart, destroy | commands, session, connection machine |
| Heap (`hub/heap.c`) | sorted array of pointers | add, find, delete, clear, resize | routing |
| Strings (`myriad/bstring/bstrlib.c`) | buffers with length and terminator | create, append, cut, insert, replace, format, read | all |

What makes it hard: two tasks share a connection state and close it together;
a task loses the processor in every socket call, in `taskyield`, in the lock
and in an empty queue; clients leave at any point; a message is borrowed from a
queue across a send that may block; nonces are never transmitted after the
handshake and have to stay in step by counting; the proxy is one thread that
reads and writes blockingly between two peers that may both be writing; a
structure is composed, printed, parsed and taken apart by four pieces of code
that must agree; string functions change buffers in place that their arguments
may share. `PROJECT.json` lists the
hazards with the line where each one bites.

## Modules

| Module | Models | Checked by |
|---|---|---|
| `MsgQueue` | `queue.c`, `queue.h` and the calls of `member.c` on them | `MCMsgQueue.cfg` |
| `BoundedFifo` | what a queue promises: a bounded sequence | refinement in `MCMsgQueue.cfg` and in `MsgQueue_proofs` |
| `ConnectionChart` | the chart of `connection.rl` as a relation from state and event to state and actions | through `Hub` |
| `Hub` | tasks, lock, connection states, members, delivery, scheduler | `MCHub_*.cfg` |
| `Routing` | `routing.c`, with heaps as bags | `MCRouting*.cfg` |
| `Session` | handshake and traffic between `peer.c` and `proxy.c` | `MCSession*.cfg` |
| `Relay` | the select loop of `proxy.c` with the I/O of `io.c`, between a client and the hub's two tasks | `MCRelay.cfg` |
| `Node` | the tree of `node.c`, composing, printing, taking apart, destroying | through `Wire` |
| `Stackish` | the parser of `stackish.c` and `Node_parse_seq` | through `Wire` |
| `Wire` | messages, formats, signatures and hate challenges from end to end | `MCWire.cfg` |
| `Heap` | the array of `heap.c` | `MCHeap.cfg` |
| `HeapBag` | what a heap promises: a bag, which is what `Routing` uses | refinement in `MCHeap.cfg` and in `Heap_proofs` |
| `BString` | the buffers of `bstrlib.c` | `MCBString.cfg` |
| `StringSpec` | what the string functions promise: texts | refinement in `MCBString.cfg` |
| `MsgQueue_proofs`, `Heap_proofs`, `Routing_proofs`, `Session_proofs`, `Relay_proofs` | theorems about the module of that name | TLAPS |
| `Hub_steps`, `Hub_calm`, `Hub_proofs` | theorems about `Hub`: those that hold whatever clients and sockets do, the inductive invariant of a calm network and the steps of readers; the steps of writers, the close and the scheduler; the start of a connection, and the theorems about a calm network | TLAPS |

The `MC` modules only give values to constants. Definitions whose name ends in
an underscore and a remark, as in `Route_unregister_OneSided`, are deliberately
wrong variants of the definition below them; none is used by a specification.
They show that each property fails when the code is changed in a plausible way.

### MsgQueue
The variables are the fields of `MsgQueue`, the reference counts of the
messages and the position of the one consumer, the writer task. An action is a
stretch of code between two points where a task may lose the processor, so
`MsgQueue_first` is two actions (before and after the sleep) and
`MsgQueue_destroy` runs one slot at a time. Slots start as garbage because
`MsgQueue_create` does not clear them.

### ConnectionChart and Hub
`Step(s, e)` gives the next state and the list of actions for an event, error
transitions and `Aborting` included. `Hub` runs these lists for the tasks: `pc`
says where a task is, `acts` what is left of its list. The scheduler is
libtask's: a FIFO run queue, a lock that is handed to the first waiter, sleepers
put on the run queue when woken, sockets polled only if no task is ready. It is
external code, modelled from its documented use. A step that would follow a null
or dangling pointer, free what is freed, or fail an assertion of the hub, sets
`fault`. A message that `Message_decons` refuses is freed there, and the state
goes on referring to it (`body` is then `"freed"`) until the next read. When a
delivery makes the writer close the connection first, there is no next read, and
`ConnectionState_finish` is left with what is freed: one of the ways in which
`NoFault` fails once messages may be malformed.

A `ConnectionState` bears the name of the connection it was allocated for, and
keeps it when `Hub_new_or_reuse_conn` gives it to another one; `used` is the set
of those that were allocated. A message to a route wakes the sleeping writers of
all its members, and the order in which they become ready is the order of the
route's heap, that is of addresses: `Woken` is the set of all orders.
A member that registers twice is in the route's heap twice and receives a message
twice, so `routed` counts. `Route_deliver` stops at the first member whose queue
cannot take all of its copies, after as many as fit.

Left out: reuse of descriptor numbers, the split of a message into header and
body reads, the text of replies, a login or a peer that cannot be had for want
of memory (`Member_create` and `Peer_create` assert that there is some), keys of members (members are distinct and named
after their connection), and the route tree (one route, which exists; `Routing`
has the tree).

### Routing
A route is the sequence of words that leads to it. A heap is a bag, written as a
count, since a member may register repeatedly. `Route_register` creates the
routes on the way before it refuses an internal one, as the code does.

### Session
Two programs, two FIFO channels and a connection that may be cut, which may lose
the tail of what was on its way. Keys and random nonces are symbols; a message
decrypts if and only if key and nonce agree, and the nonce advances in any case.
Failing reads return what the code returns, which is not always a failure. The
arithmetic of nonces is not bounded by 64 bits: both sides wrap alike.

### Relay
`step` is where the single thread of `Proxy_event_loop` is: in `select`, or in
one of the four handlers, which block. The masks of a `select` are used through
the whole round, as in the code, while sockets go on changing. A socket holds a
few cells, a frame is one or two, and `readn` and `writev` move a cell at a time.
The hub's end is its reader and its writer with the connection's lock between
them, so the hub stops reading while its own send blocks. Clients that leave and
hubs that leave end the loop.

### Node, Stackish, Wire
A tree is a store of node records with the three links of the C structure;
children are pushed to the front, so a tree is the reverse of the order it was
composed in, and the walk back must undo exactly that. Text is a sequence of
characters, except that the letters of one word, the digits of one number and
the length before a blob are one character each, carrying the value. This much
of the text is kept because the parser decides by the character, and its marks
and the blob's count are where it could lose or add one. The parser
is the state machine of `stackish.c`, one character at a time, with its mark, its
`more` count for blobs and the re-entry of `Node_parse_seq`. `Wire` takes a
structure from the task that builds it to the one that opens it: any structure
up to a bound as a message; each structure the crypto code composes, read with
the format of the function that reads it; a signed challenge and its answer.
`Node_destroy` keeps its path in an array that siblings use up as well as levels;
the run gives it 8 cells, the least its largest structures need, so its limit is
met.

### Heap
A pointer is its address and `Heap_void_ptr_compare` truncates the difference to
an `int`. The search is one turn of its loop per action, so that what it has
ruled out can be stated; the sort is any sorted permutation, since sglib's is
not stable. The addresses are assumed to lie within half the range of an `int`
of each other; beyond that the comparison is not an order.

### BString
A bstring is `mlen`, `slen` and its cells, of which unwritten ones hold junk. A
store outside the buffer adds a cell that the buffer does not have and remains
visible. Every call is one action; the destination and an argument may be the
same string, and any allocation may fail. The refinement maps a buffer to the
text of its first `slen` cells. `bformat` may need a second attempt with a larger
buffer or get by with the first, and an append may meet a string whose terminator
an earlier failure has torn off. `bfindreplace` is called with strings of the
state and, as the code does, with a literal, so that it shrinks a text with
several occurrences; the list of positions that it grows beyond 32 is out of
reach of the lengths here. The comment on `bpattern` promises `BSTR_OK`
whenever the string is writable; for a negative length it returns `BSTR_ERR`,
and `StringSpec` says so.

## Runs

| Run | Result | Bounds | What it shows |
|---|---|---|---|
| `queue` | pass | 4 slots, 2 messages | the ring is a bounded FIFO queue, references balance, no lost wake-up, logout ends |
| `hub_quiet` | pass | 2 connections, queue of 2, 3 messages read | with failing but not blocking sends nothing is misused, the closed list is sound, closing ends, queues drain |
| `hub_rough` | pass | 2 connections, queue of 1, 3 messages read, all kinds, blocking and failing sends | routes reach live members only, the two tasks of a connection never exchange messages at the same time, types |
| `hub_front` | violation | 2 connections | the front of the closed list is not always the one that just closed |
| `hub_stuck` | violation | 1 connection | a failed send leaves the lock taken for ever |
| `routing` | pass | 2 members, 5 structures, paths of 3, 2 repetitions | heaps mirror each other, logout leaves nothing, routes stay |
| `session` | pass | 3 messages each way | nonces in step, nothing refused, the handshake ends |
| `session_connect` | violation | 1 message each way | `Proxy_connect` reports success without a session |
| `relay` | pass | 3 frames each way, sockets of 2 cells | frames arrive once and in order, and all of them arrive |
| `wire` | pass | structures of up to 4 nodes, hate up to level 2 | what is composed is what is opened, readers' formats fit writers', challenges are answered, nodes are freed once |
| `heap` | pass | 5 elements, first size 2 | the array is a bag; searching never rules out what it looks for |
| `bstring` | pass | 2 strings, any 3 calls, lengths up to 8 | no store leaves its buffer, and the calls do what the library promises |

Why the bounds are enough for the question: a ring of four slots wraps in every
position with a window of every length; two connections are what it takes for
one to deliver to, close with, or be reused by the other; three messages
register a member, fill its queue and overflow it; a path limit of three has
paths below, at and above it; three messages put several encrypted messages on
the way at once behind the last one of the handshake. Three frames over sockets
that one long frame fills put a frame in every socket and in both hands at once,
with both ends of the hub blocked; four nodes give every shape of group, sibling
and attribute, one inside another; five elements grow an array of two twice and
shrink it once. The sizes of `bstrlib.c` (8, 16 and 1024) are scaled to 2, 2 and
4 so that strings of eight characters cross them; three calls build a string,
fill it and change it in place.

The hub stops when all clients have come and gone, so deadlock is not checked
for `Hub`; that nothing is stuck before is what `GracefulShutdown` and
`QueuesDrain` say. The same holds for `Session` once both sides have left.

`hub_quiet` assumes that sends do not block, that clients send well-formed
messages and that nobody connects while another connection closes. A send may
fail: the writer then returns with the lock, which does no harm because without
blocking sends no reader ever waits for it.
`hub_stuck` lifts some of these assumptions; `hub_front` needs none lifted.
`MCHub_calm.cfg`, which is not among the runs, checks the invariants of
`hub_quiet` for three connections.

What the lock is for is `ExchangesExclude`, checked in `hub_rough` where it can
be contended: between its lock and its unlock (or its close) neither task finds
the other one there, across blocking reads and sends, yields, and states that are
used again. It does not say that the machine stands still while the writer sends;
that is `LockExcludesOthers` below, which fails.
`Relay` stops when every frame has arrived or the loop has ended, `Wire` when its
conversation is over, `BString` after its last call, so deadlock is not checked
there; that `Relay` does not stop early is `Delivered`.

### Other disagreements the models show
Five more disagreements are not among the runs above, but each has a
configuration to reproduce it:

- `FinishedBeforeReuse` (`MCHub_reuse.cfg`): a state on the closed list is given
  to a new connection before its old reader has finished it, a consequence of
  what `hub_front` shows.
- `SendsOnlyInSending` (`MCHub_abort.cfg`): a delivery that arrives in `Aborting`
  leads to a send without a member.
- `LockExcludesOthers` (`MCHub_lock.cfg`): `READ_CLOSE` is executed without the
  lock, while the writer may be sending.
- `ClosedListSound`, when sends block and clients connect at any time
  (`MCHub_rough.cfg` with `NConns = 3` and this invariant): a state that is on
  the closed list behind the head is put on it again, and the list runs in a
  circle.
- `FoundAgain` (`MCRouting_attrs.cfg`): `Route_find` counts attributes against
  the limit on a path and registration does not, so a structure can be
  registered and not found.

Smaller ones, met while translating, without a property of their own:
`heap.h` says that `Heap_add` returns the location of the element, and it
returns their number; `crypto.h` says that the secret of a hate challenge is below
2^level, and the code draws it below 2^(level+1) and lets the peer try
level * 2^(level+1) values, so a challenge of level 0 is never answered. `HateIsAnswered` therefore claims
nothing of level 0, and levels are at most 30 (`LevelsAssumption`), beyond which
the shift overflows. A response whose nonce is not the expected one is logged by
`CryptState_initiator_process_response` and not refused; between two honest
programs, which `Session` models, it is always the expected one.

### Fairness
`MsgQueue` assumes that a consumer that asks for a message or was woken, and a
logout that has begun, go on (that a send ends is not assumed): libtask's
run queue is first-in first-out and no task loops without giving up the
processor. `Hub` models the scheduler itself, so its fairness is only that the
task which has the processor goes on and that the next ready task gets it, and
that a task which waits for a socket the hub has shut down is told so
(`PollClosed`): `poll` reports such a socket as ready, and goes on doing so.
Nothing is assumed of sockets that are open: a client may be silent, or not read,
for ever. So `hub_stuck` is not about a socket that is never reported; the reader
waits for the lock, and with an unlock on the writer's way out the property
holds. `Session` assumes
that a side which can take its next handshake step does; it assumes nothing of
the traffic or of the network. `Relay` assumes that the loop, the hub's two tasks
and a client's reading and writing go on whenever they can, each on its own (a
process of the operating system, or a task of the FIFO scheduler), and that an
unlock hands the lock to a waiting reader, as libtask's does. Nobody has to
leave. `Delivered` further rests on the assumption `FramesFit`: a socket is
called writable only when a whole frame fits. A frame larger than the free space
`select` asks for can block the proxy in a write while the hub, blocked in its
own, does not read; the model's mutated `Select` shows that loop.

## Proofs

`MsgQueue_proofs`, for every size of the ring and every finite set of messages:
type correctness, the window between the indices holds messages, references
equal slots, the borrowed message stays first, NULL only when dead, no missed
wake-up, and `Spec => FifoSpec`. The inductive invariant `IInv` joins these
facts, since each needs the others: references stay balanced only if the slot
that is deleted holds a message, which needs the window, which needs the types.
The refinement maps the ring to the sequence read from `i` to `j`, and the lemmas
`AddAppends` and `DeleteTails` show that adding appends and deleting removes the
head wherever the indices wrap. Assumptions: `Dim` is a positive number,
`Messages` is finite and contains neither NULL nor the garbage value.

`Routing_proofs`, for any members, structures and path limit: types, heaps mirror
each other (`Mutual`), no route refers to a member that left (`NoGhosts`), and no
step removes a route or changes another member's registrations (`RoutesStay`). `NoGhosts` alone is not inductive: logging out visits only the
routes in the member's own heap, so it rests on `Mutual`, which in turn survives
a login with an empty heap only because of `NoGhosts`. `PathStaysInArray` says
that the check of `Route_extend_and_find`, which comes before a store and not
after, still keeps `path[ROUTE_MAX_PATH]` within its bounds. It is about what a
loop over the children computes, so it takes an induction: the library's
theorem on well-founded relations gives the least number outside a set, from
which `SetInduction`, `BoundedInduction` and the existence of a function defined
by recursion on a number (`IterationExists`) follow, with sets in the place of
predicates. Assumptions: the path limit is positive, internal structures are
structures, and the children of a structure form a sequence.

`Heap_proofs`, for any addresses within half the range of an `int`, any initial
size and any number of elements: indices stay inside the array and no cell below
`last` is NULL (`TypeOK`), the array is sorted and bisection never rules out a
cell that holds its element (`SearchNarrows`), and `Spec => BagSpec`. The
inductive invariant is the conjunction of the first two: a deletion keeps the
order only if its index is inside, and the search is sound only in a sorted
array. Bag counts are cardinalities of sets of indices, so the refinement rests
on bijections between the indices before and after a sort, a shift or a resize.

`Session_proofs`, for any number of messages and a cut at any point: `TypeOK`,
`NeverRejected`, `InStep` and `HubIsLast`. The inductive invariant says, for each
pair of stages of the two programs, which handshake message can be on the way
(`HubStages`, `ProxyStages`), that a side leaves the handshake without keys only
when the connection is gone (`Gone`), and that while it holds the nonce a side
will send under is the one its peer will have after reading all that is on the
way (`Counting`). `InStep` alone says nothing of the next message to be sent, so
it needs `Counting`; and a message the proxy sends before the hub has read the
last one of the handshake has the right key only because that last one is still
in front of it, which is in `HubStages`.

`Hub_steps`, for any number of connections, any capacity of the queues and
whatever clients and sockets do (sends that block or fail, malformed messages,
states used again too early): `TypeOK` and `RoutedAreLive`. That a member in a
route is live needs to know who may register and who may log out, so the
inductive invariant `IInv` says that

- only `Member_logout` loses the processor in the middle of an event, and the
  state of the machine fits the action that comes next (`Fits`);
- a machine that lost its client is in a state where it neither receives nor
  registers (`ClientsPart`), the member of one that has a client is live, and no
  two states have the same member (`MembersLive`);
- a peer belongs to one state, and has no member before `register` runs
  (`PeersApart`); this is what a connection that starts on an old state could
  have broken;
- a task in the middle of `Member_logout` holds a dead member that no other
  logout holds (`LogoutsApart`);
- readers are created in order and a state is allocated for the reader that
  takes it first (`Births`); the listener is scheduled once for a client
  (`Once`).

So when `Hub_service_message` registers a member, its state has a client, hence
the member is live; and a logout takes its member out of the routes before it
yields. The actions that move a task without touching a client, a member or a
peer are treated together (`MovesKeep`), every other one in a lemma of its own.
Assumptions: positive numbers of connections and of queue slots,
and NULL is not one of the objects.

`Hub_proofs` proves `NoFault` and `ClosedListSound`, again
for any number of connections and any capacity, on a network that is `Calm`:
sends do not block, nobody connects while another connection closes, and clients
send well-formed messages. Sends may fail and clients may leave at any time. This
is the assumption of `hub_quiet`. It is needed:
with the constants of `MCHub_rough.cfg` `NoFault` fails for two connections, and
`ClosedListSound` for three, as said above. Neither is inductive, since
each depends on where the two tasks of a connection can be at the same time. The
inductive invariant `CInv`, defined in the last part of `Hub_steps`, says together
with `IInv`:

- for each state of the machine, where the reader and the writer may be
  (`Together`), and where they go on after the actions of an event (`RLands`,
  `WLands`);
- which client, member and peer the state has by then, and that those it will
  still use are live (`Owns`, `Uses`); which message is in hand (`Moving`); who
  has the lock (`Locks`). Nobody ever waits for the lock: whoever takes it keeps
  the processor until it gives it back or closes the connection, because sends
  do not block;
- that a task in the middle of its work is the one that runs, and that one that
  yielded in `Member_logout` is in the run queue (`Turn`). A reader that closes
  while its writer sleeps wakes the writer and yields, and the writer comes first
  (`Before`): so the writer learns of the close before the reader frees the
  member and its queue;
- that a state has the tasks of one connection only (`Alone`), which needs that
  nobody else is ready when a client connects (`Comes`) and that a reader is in
  the run queue once (`Queued`);
- that a state is on the closed list, or linked to, only after its close has
  ended, that nothing links to the head and that no two states link to the same
  one (`Linked`).

That the steps keep it is spread over the three modules: those of a reader are in
`Hub_steps`, those of a writer, of a close and of the scheduler in `Hub_calm`, the
start of a connection in `Hub_proofs`. Most steps change the places of one
connection: `ReaderCalm` and `WriterCalm` say once what they leave alone in the
others, and the lemma of an action shows that the new place fits that of the other
task. `ClosedListSound` follows from `Linked` by counting: were the list as long
as there are states and still not at its end, some state would be on it twice;
taking the two places back link by link, a state would link to the head
(`ListEnds`).

`Relay_proofs`, for any number of frames and sockets of any size, whether the
ends stay or leave: `NothingLost`. The cells that an end sends are numbered;
`Carries(c, a, b)` says that the sequence `c` is the cells from `a` up to `b`.
The inductive invariant says that what is under way in one direction is one run
of cells (`Flow`): those in the socket that leaves the loop, from the first that
has not arrived; then what is left of the frame in hand; then those in the
socket that enters the loop, up to the last one sent. It needs `Loop`: the sets
given to `select` say whether a frame is in hand, and a handler runs only for the
case it is meant for although the masks it goes by are as old as the round. A
frame that was sent and has not arrived is found by its last cell. Nothing is
assumed of the constants; `FramesFit` and `SocketsHold` are needed for
`Delivered` only.

Only model-checked:

- `ExchangesExclude`: with blocking sends the lock is handed from task to task,
  and an inductive invariant would have to follow it through states that are used
  again before their close has ended;
- the liveness properties (`MessageIsServed`, `LogoutCompletes`,
  `GracefulShutdown`, `QueuesDrain`, `Establishes`, `Delivered`): temporal
  reasoning under fairness is beyond this prover;
- `Wire`, `Node`, `Stackish` and `BString`, whose operators are recursive over
  trees, texts and buffers.

## Not modelled

- The chart of the hub as a whole (`hub.rl`): start-up, listening and shutdown
  happen once, in one order, in one task; its close action is part of `Hub`.
- The socket buffer and the tasks of the myriad library and libtask are not part
  of the sources; they are modelled from their use and marked external. With
  them goes the arithmetic of `FrameSource_send` on buffer space and on 16-bit
  lengths, which depends on the buffer.
- The cipher, hashes and key import and export, which only move bytes to and
  from libtomcrypt.
- Comparison, case conversion, character search, splitting, joining and the
  stream functions of `bstrlib.c`: without state, or never called by Utu.
- A second login with a key already logged in: the map of members is a library
  list; members are distinct in the models.
- Directory listings and files of `hub/info.c` beyond the way they append to a
  string, option parsing, texts of replies, logging, `Node_dump`, and the Ruby
  client.
