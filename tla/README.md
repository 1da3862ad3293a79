# Cloak-c in TLA+

Cloak-c is a C11 port of Cloak: a client and a server that carry many
application connections ("streams") over a small pool of TCP connections that
look like ordinary web traffic. This directory is a TLA+ development of the
code in `src/`: modules that model its components, TLC configurations that
check them on small instances, and TLAPS proofs for every instance where one is
given.

Both programs are single-threaded. Everything runs inside one edge-triggered
epoll loop: a handler is a C function that runs to its end, keeps its state in
a struct, and calls back into its owner. What is hard about this code is
therefore not threads but

* re-entrancy: a send can empty a queue, or break a connection, and run the
  owner's callback while the caller is still on the stack;
* deferred destruction: an object may only be freed from a later event;
* edges: epoll reports readiness once, and a handler that stops early must
  leave something behind that wakes it up again;
* order: frames of one stream travel on connections picked at random.

`PROJECT.json` lists the components, the runs, the mutants, which definition
models which lines, the hazards and the theorems.

## The system and its parts

| layer | part | modelled by |
|---|---|---|
| common | reactor: descriptors and batches, timers (`reactor.c`) | `Reactor`; `TimerHeap`, `TimerSet` |
| common | byte queue, byte relay, dial (`bytequeue.c`, `relay.c`, `dial.c`) | `Queues`, `ByteRelay`, `Ledger` |
| common | listener, signals (`listener.c`, `signals.c`) | `Startup` |
| common | option strings (`config_ssv.c`) | `Options` |
| mux | stream (`stream.c`), message queue (`msgqueue.c`) | `OrderedStream`, `DgramStream`, `ByteStream`; `Queues` |
| mux | session (`session.c`), stream table (`strmtab.c`) | `Session`; `StreamTable` |
| mux | pool of connections (`switchboard.c`) | inside `Session`, `StreamRelay`, `DgramRelay` |
| mux | connection (`conn.c`) with WebSocket framing | `Conn` |
| mux | relays (`stream_relay.c`, `dgram_relay.c`) | `StreamRelay`, `DgramRelay` |
| mux | valve (`valve.c`) | `Valve` |
| server | first packet, replay cache, timestamp window | `FirstPacket`, `Admission` |
| server | dispatcher with registry, user panel, user database | `Server` over `Registry`, `UserPanel`, `UserManager` |
| server | proxy; admin API and its HTTP parser | `Proxy`; `AdminApi`, `Http` |
| client | client stack, connector, piper | `Client` over `Connector`, `ClientPiper` |
| client | handshake (`client_transport.c`), UDP piper | `Handshake`, `UdpPiper` |
| programs | `ck-server`, `ck-client` (`main.c`), `server_stack.c` | `Startup`, `Options`; `Server` |

A frame goes application -> relay -> stream -> session -> switchboard ->
connection -> socket, and the other way round. Back-pressure goes against it: a
connection whose queue empties tells the switchboard, the session and, through
its owner, every relay. The valve of a user is shared by all of its sessions:
connections count received bytes and pause on its rx bucket, relays ask its tx
bucket before they read. On the server the dispatcher turns a socket into a
connection of a session, or splices a stranger with the cover site; the proxy or
the admin API serves the session's streams; the panel ends users whose credit
is spent. On the client the stack keeps a session up and the pipers put local
connections and datagrams on its streams.

## The modules

All modules keep the control of the code (each guard, early return and error
path, in order) and abstract its data to what the properties tell apart. A
handler is one action. A loop that calls out, or whose turns others may observe
the effects of, is one action per turn, with a `pc` or a `stack` variable that
keeps everything else out until the handler returns. Where a component only
runs as part of another (`Registry`, `UserPanel`, `UserManager`, `Ledger`,
`Connector`, `ClientPiper`, `Http`), its functions are operators
from a state to a state, and the module that composes them has the actions.
`Ledger` is a helper of these: which object holds which descriptor and which
registration.

### Streams, sessions and connections

**OrderedStream** is one direction of an ordered stream: the writing end cuts
what is written into frames, the wire is a set (each frame rides a random
connection), the reading end keeps a bounded heap of pending frames and drains
it into a bounded byte queue. A byte is named by its position in what was
written, so order and completeness show in the data. `WriteChunk` is one turn
of the loop of `cloak_stream_write`, `DrainData`/`DrainClosing`/`DrainStop` one
of `try_drain`; `FeedAccept` and `FeedViolation` are `cloak_stream_feed_frame`
with what the session does on its result. **ByteStream** is what such a stream
promises. **DgramStream** is the other mode, one frame per datagram with a
bounded queue that drops.

**Session** is a session over its pool, with the memory of each stream entry
(`unused`, `live`, `freed`) and who holds a pointer to it. `stack` holds the
calls in progress: a write, a close or a release waits on the stack while the
sink sends its frame, and the sink may break the pool or call `on_writable`,
from which the owner calls again. The two chained timers of the teardown, and
the single handle that names either, are explicit. **StreamTable** is the table
under it, slot by slot, next to the map it stands for: probing, tombstones,
growth, and growth that is refused.

**Conn** is one connection with its socket, in TLS-record or WebSocket framing,
bytes counted in units; `stack` again holds the loops and callbacks in
progress. **Valve** is one direction of a valve in exact integer arithmetic, with the clock; the bucket in the relays
and the tokens in `Conn` are coarser views of it. **Queues** has both rings,
byte for byte, next to the queues they stand for.

**StreamRelay**, **DgramRelay** and **ByteRelay** are the three splices, each
with the mask registered in epoll, epoll's ready list, the pauses (pool and
bucket) and the timers. The rest of a pool's traffic is one other stream.
Arming a timer may fail at any time.

**TimerHeap** has the timers of the reactor: the array heap with every swap of
its sift loops, slots, generations and the free list. **TimerSet** is what they
promise: a set of timers whose handles never come back. **Reactor** is the rest
of the loop: batches, watchers removed and their numbers recycled inside a
batch, deferred frees, stop.

### Server

**Server** composes `Registry`, `UserPanel` and `UserManager` with the
dispatcher as `server_stack.c` wires them. A connection is read, authenticated,
answered and handed over, or dialed to the cover site and spliced; every call
that may fail (memory, a timer, the database, composing the reply) is chosen at
each step. A settlement commits, rolls back, or leaves its transaction open; a
termination inside it can run a further cycle. Rows expire, are written and are
deleted; the stack is closed and opened again on what the database kept.
`used`, `paid` and `lost` are histories of what was counted, charged and given
up, `unbilled` of who was ended with closing frames to send. **Admission** is the replay cache with the timestamp window in the
dispatcher's order, **FirstPacket** the incremental parser with the
dispatcher's read loop.

**Proxy** and **AdminApi** are the two owners of a server's streams. Both give
streams back by sending a closing frame, which may report room before it
returns, so both have a `stack`. A relay is used through what `StreamRelay` and
`DgramRelay` promise. **Http** is the admin API's parser over items of text,
fed in any pieces, with its verdict defined a second time from the whole
request.

### Client and programs

**Client** has one action per callback of the reactor, the listener or a
session, over `Connector` (the slots of the stack with their rounds; attempts,
retries, hand-over and assembly of the connections of a session) and
`ClientPiper` (local connections). **Handshake** is one handshake byte by byte,
**UdpPiper** the local datagram socket with its peers. Its read loop can run
inside the release of a peer's stream; `retiring` names that peer meanwhile.

**Startup** is the life of a process: the bind list, the parts opened one by one
with a failure at any of them, signals, the usage upload, and destruction in
its own order. **Options** rewrites an option string as the command line does
and reads it as the library does, character by character, since escaping is
what its property is about.

External to `src/`, and modelled from how the code uses them: epoll and the
sockets, the clock, SQLite's commit and roll-back, the peers, and the owners'
callbacks where the owner is not itself modelled.

## What the runs check

A run asks one question of several parts. Its MC module instantiates them, and
a variable (`part`, `kind`, `tenant`, `ordered`) says which one a behaviour is
about; the others' variables do not move.

| run | what it shows |
|---|---|
| `streams` | An ordered stream implements `ByteStream`: bytes in order, end of stream after the last (`ImplementsByteStream`). A pending frame is never stuck behind an empty queue (`NoWedge`), a first copy is lost only to the heap's cap, the close reaches the reader, datagrams are conserved. |
| `relays` | A frame fits the pool whichever connection takes it, and spliced bytes keep their order (`DataFits`). No pause and no edge is left without something to resume it, none spins, a finished relay is inert (`NoRelayStalls`). A regular end comes after the last byte is out (`EndsFlushed`). What a relay could move it moves (`AllMoves`). |
| `loop` | A session leaves no dangling pointer and no leak through nested calls (`MemorySafe`), and counts its streams and reports its end once (`Accounting`). Every edge, timer, session and direction of a connection is served (`EventsAreServed`). |
| `mux` | The stream table is a map and the rings are queues (`StructuresAgree`). A valve bills every byte once, keeps its rate over any interval, and tells waits that are long enough and short. A connection carries whole messages in order both ways and answers pings (`MessagesArrive`), overruns nothing and misses no wake-up (`NothingIsMissed`). |
| `parts` | Each hello is let in once. The first packet is taken to its last byte and no further, and an option string means the same to both scanners (`InputIsExact`). A process stops with its usage uploaded and nothing left, whatever failed to open (`StopsCleanly`). The reactor reads no freed watcher, owns each once, delivers no stale event; its heap is well formed and implements `TimerSet`, and a stale handle cancels nothing (`HeapIsSet`). A peer of the UDP piper and its stream end together and once, datagrams reach only their application and are read only when the pool has room (`PeersAreSound`), and no pause, refusal or peer is left behind (`NoStall`). |
| `server` | Contexts of proxy and admin API match the live sessions (`OwnersMatch`), sessions match users and their valves (`ValvesAreLive`), no session is left without a connection or someone bringing one (`NoOrphanSession`). |
| `users` | What the valves counted is what was charged, is queued, or was given up (`UsageConserved`); it is given up only when the queue is full of others and nothing could be settled, and only users whom the database has barred are ended with sessions up (`LossesAreExcused`). |
| `tenants` | Nothing of the proxy or the admin API outlives its owner and caps hold (`NothingStrays`). Answers are right, and arrive whole and once. Streams settle; pending connections, closed sessions and barred users go (`ServerSettles`). |
| `client` | No descriptor, registration or stream is leaked and no pointer dangles (`NothingStrays`). Whatever waits has something that will call back (`NothingIsForgotten`). No two sessions share an id, and a session is brought up under another id than the one it replaces (`IdsAreFresh`). A handshake consumes exactly its reply. A bring-up ends. |

Three runs show where the code differs from what its comments say; each finding
in `PROJECT.json` quotes the lines.

* `stream_relay_violation`: a relay whose stream the session retired for a
  protocol violation is not ended by the notification it gets.
* `udp_nested`: `peer_retire` is the one place where the UDP piper releases a
  stream, but it can be entered twice for the same one: the closing frame of the
  release drains a queue, `piper_on_writable` reads a datagram of the peer, which
  is still linked, and its write fails. The passing run `parts` leaves out such
  a write (`WriteFailsNested`), and no other step of a nested read.
* `proxy_nested`: the walk over a session's relays saves its next element, and
  a relay that ends during the walk can, through a nested report of room, free
  it. `client_piper.c:715` has the same walk. The passing run `tenants` bounds
  the nesting at 1 (`MaxNest`) for this reason: it shows that one level alone is
  safe.

Some smaller disagreements have no run of their own. `session.h:98-99` calls a
release from `on_writable` safe without exception, but `on_writable` can run
inside a write, a close or a release of the very stream, which that call uses
when it returns. `Session` lets the owner release from every callback any stream
that no call further up uses, and that is what `MemorySafe` is shown for.
`client_stack.c` says that a reconnect cannot reuse an id; it cannot reuse that
of the session or round just before it (`IdsAreFresh`), while a second round may
draw the id of the session that broke before the first. `reactor.h:65-66` says
that the batch in progress finishes after a stop; `reactor.c:522` drops the rest of
it, and `Reactor` does the same. `ck-client`'s `main.c:444` says that an override
"leaves exactly one field" of its name; that does not hold of a text that ends in
a lone backslash, and `InputIsExact` is checked for the texts that do not.

### Bounds

Every bound is a constant named in its module. They are the least at which the
cases the properties are about happen:

* streams: 5 bytes in frames of at most 3 with a receive queue of 2 and a heap
  of 2, so that frames larger than the queue, frames that must wait for a read,
  a full heap and a close ahead of data all occur; every frame may be repeated.
  Datagrams of 1, 3 and 5 bytes meet a queue of 6 with a prefix of 2: two small
  ones fit, a second larger one is dropped, one of 5 can never be held.
* relays: two connections that hold two frames each and a chunk of two, so one
  connection can fill while the other is empty; a bucket of one token, so that
  both pauses and the change from one to the other occur.
* session: three entries, ids for both sides to open the same one, calls nested
  four deep (the owner's callback inside a send inside a callback inside a send).
* connection: a send buffer smaller than the send queue (partial writes), a read
  chunk smaller than the longest frame, an rx rate, and frames longer than
  allowed in both directions. Both instances have the same buffers.
* stream table: five ids, a table of four slots that may grow to eight, and
  three hash functions: all in one slot, one slot each, and runs that wrap
  around the end. Rings of up to six bytes, prefixes of two.
* timers: six entries make a heap of three levels in which a removal needs a
  sift in each direction, and three handles are enough to recycle a slot
  (`parts`); two slots with two generations retire (`loop`). Reactor: three
  descriptors against a batch of two, and a watcher for a number that is
  recycled inside it.
* valve: rates 0, 1 and 3 with a scale of 4 in place of 1000, so that refills
  round; eight ticks are two fillings of the bucket, five bytes more than it holds.
* admission: three randoms over two slots, an age limit of twice the tolerance, the
  least the code allows, a clock that runs past both. First packets: every header block up
  to a byte more than the buffer, records whose length is short of, equal to or
  beyond what follows. Option strings: all texts of up to five characters.
* server: two connections, an ordered and an unordered hello for the same
  session, the admin, two entries in the table and two users. Users: two active
  ones with a session each, behind three whose usage waits in a queue of four
  (`MaxQueuedUsers`), so that the first to end fills it and the second forces a
  cycle; one counts a byte, the other's row may expire.
* proxy: two sessions at their caps of streams, and one session with retries.
  Admin API: twenty requests, one for each way the parser and the router decide,
  delivered in any pieces; a pool of two frames for answers longer than that.
* client: two slots, two local connections, two connections per session, two
  attempts; rounds without a limit, as by default, except for the admin session,
  which has two. Ids are one more than the slots, and draws may all collide. A
  reply of three records with bodies of up to three bytes, read two at a time,
  and a byte of the session behind it.
* UDP piper: two local addresses, at most one or two peers, a connection that
  holds one frame and a socket that takes one datagram.

The histories that grow (bytes written, frames sent, watchers and entries
allocated) are bounded by guards that name the bound. Runs say
`CHECK_DEADLOCK FALSE` because the systems may stop: a stream that ended, a
connection that broke, a session destroyed, a process that exited, a history at
its bound.

### Fairness

Fairness is assumed of what the loop itself guarantees: a handler that was
entered returns, a due timer fires, a reported edge is dispatched, a dial ends
(by its timeout at the latest). Of the client it is assumed that a connector's
timers fire and that the deadline of a local connection does. Strong fairness is used where the action is
enabled again and again between other handlers: the timers of a session, the end
of a pass over the timers, a stream's dial, retry and deadline. Of the
environment it is assumed that TCP delivers what is in flight on a live
connection, that a peer that is not gone reads, that the clock advances, and,
for barred users only, that the database does not fail for ever. Peers that
fail, timers that cannot be armed and owners that close are allowed at any point
and never assumed. Every module with liveness properties states its fairness
(`FairSpec`); the MC modules repeat it for the part a behaviour is about.

## What is proved

Eight modules hold theorems: seven about the component they extend, and
`Admission`, whose proof is short, about itself. They hold for
every value of the constants that satisfies the component's named assumption,
bounds of histories included, so they hold for runs of any length. TLC evaluates
the assumptions on the instances of the runs, and each inductive invariant was
checked by TLC before it was proved. Where a run covers several parts, its MC module
checks the component's properties for the behaviours about that part.

| theorem | says | assumes |
|---|---|---|
| `TypeCorrect`, `DeliveredInOrder`, `EndOfStreamIsComplete` | bytes arrive once and in order, end of stream behind the last | `StreamAssumption` |
| `NeverStuck` | the heap holds only awaited frames, and the next one waits only behind unread bytes | the same |
| `OnlyTheCapLosesAFrame` | a frame that is no repeat and fits the queue is refused only by a full heap (`FirstCopyLostOnlyToCap`) | the same |
| `Refinement` | an ordered stream implements `ByteStream` | the same |
| `StreamsAreSafe` | `MemorySafe`: each stream is freed once and not before its last use, whichever callback releases it | `SessionAssumption` |
| `CountAndReportAreExact` | `Accounting`: the count of streams, the inactivity timer, one report of the end | the same |
| `RelayIsSafe` | reads fit the pool, no pause without its wake-up, a finished relay is inert (`DataFitsPool`, `NoStall`, `FinishedIsInert`) | `RelayAssumption` |
| `NormalEndsDropNothing` | `EndsFlushed`: a normal end has written all the stream carried | the same |
| `TimersAreASet` | `HeapIsSet`: the heap is ordered, agrees with its slots, implements `TimerSet`, and a handle cancels its own timer or none | `TimerAssumption` |
| `WatchersAreSafe`, `DispatchIsFresh` | `ReactorIsSound`, `NoStaleDispatch`: no event of a freed or removed watcher is dispatched | `ReactorAssumption` |
| `ConnGoesOn` | `NothingIsMissed`: no buffer of a connection is overrun, a read always has room, no wake-up is lost, one report of the end | `ConnAssumption` |
| `PacedAndBilled` | `BilledOnce` and `RateIsKept` | `ValveAssumption` |
| `WaitsAreRight` | `WaitIsRight`: an undisturbed waiter finds a byte, within two seconds | the same |
| `AtMostOnce` | `AdmittedOnce`: a hello is let in once while its slot is its own | `AdmissionAssumption` |

None of the properties is inductive. What each invariant adds, and why:

* `OrderedStreamProofs`: what the two ends know together. The frames sent cut
  what was written into adjoining intervals numbered without a gap, with a
  closing frame last; every frame on the wire or in the heap is one of them, up to
  its copy; the heap has at most one frame per number, each fitting the queue; what
  was received ends exactly where the frame numbered `next_recv_seq` begins. For
  the cap, `FirstCopies`: the reader has neither drained nor buffered the number
  of a first copy that is still on the wire.
* `SessionProofs`: the table and the entries agree on which streams are active,
  calls in progress keep their stream alive, a stream under release is in no
  other call, and what is pending in the reactor tells how far the end of the
  session has come. That the owner releases no stream in use further up is a
  guard of the action, not an assumption of the theorems.
* `StreamRelayProofs`: what the loops in progress may rely on. The frames left
  of a write fit every connection, since the budget was that of the fullest one
  (which exists by the least number principle); a paused relay reads only to
  learn of an error; what arrived was sent, is held, or is still to be read.
* `TimerHeapProofs`: the heap during a sift. The entry in flight counts as being
  at the hole; the slots agree everywhere else; the order holds around the
  hole, and across it from its parent to its children. That the root is the
  earliest follows by the least number principle, which
  `NaturalsInduction` gives in a form without operator parameters. The
  refinement maps the array to the set of its entries, so that every turn of a sift
  is a stutter.
* `ReactorProofs`: where live watchers are. One is in the table under its own
  descriptor and not marked, or on the dead list and marked; what the kernel reports
  is in the table.
* `ValveProofs`: the debt never exceeds a second's worth, so that
  `VALVE_FULL_AFTER_MS` of idling fills the bucket; an armed and undisturbed timer
  fires when a byte has accrued. The arithmetic is not linear and rests on lemmas
  about products and rounded quotients. `RateIsKept` speaks of rates of at least
  one transfer, since a debt beyond a second is forgiven.
* `ConnProofs`: what holds inside the nested calls. Work that no event stands for
  belongs to a call that has still to return; the descriptor is watched for what
  `want_writable` and `read_paused` say; the units in `recv_acc`, in the socket and
  under way are those of the frames still to be taken, so that an accumulator
  without a whole frame in it is short of one, and has room. That a read has room
  holds of a connection that is not broken: one that breaks on an illegal frame
  may leave with a full accumulator, and the code looks at `broken` first.
* `Admission`: the history and the cache agree, and an admitted hello is stale
  `TOLERANCE` after it was last remembered. `AdmissionAssumption` asks for an age
  limit of at least twice that.

Each proof has one lemma per action or group of actions; the theorems follow from
the invariance by temporal propositional logic.

Only model-checked, and why:

* Every liveness property (`CloseReachesReader`, `AllMoves`, `EventsAreServed`,
  `StreamsSettle`, `ServerSettles`, `BringUpEnds`): fairness and ENABLED are beyond
  the prover.
* What `StreamTable`, `Queues`, `Http`, `Options` and `FirstPacket` compute,
  compared with their reference definitions (`StructuresAgree`, `InputIsExact`):
  that needs induction over data.
* `Server`, `UserPanel`, `Proxy`, `AdminApi`, `Connector`, `Client`, `UdpPiper`,
  `Handshake` and `DgramStream` walk lists or sum with folds. A fold takes an
  operator, and the prover cannot instantiate a theorem about one. This concerns
  `OwnersMatch`, `ValvesAreLive`, `NoOrphanSession`, `UsageConserved`,
  `LossesAreExcused`, `DgramConservation`, `PeersAreSound`, `NoStall`, and the
  properties of the runs `tenants` and `client`.
* `DataFits` and `NoRelayStalls` cover all three relays; the proofs cover the
  stream relay only. `DgramRelay` and `ByteRelay` are within reach.
* `MessagesArrive` of `Conn` compares with sequences that SelectSeq filters or
  FlattenSeq joins, which are recursive.
* `StopsCleanly` of `Startup` has not been attempted.

## What is not modelled, and why

* The WebSocket upgrade, the TLS ClientHello, base64, JSON documents,
  configuration files and cryptography are functions on byte strings without
  state between calls; the models use their outcome (accepted, refused,
  decoded). The bit layout of a WebSocket header is left out for the same
  reason: `Conn` takes a header as what it decodes to.
* `switchboard.c` has no module of its own. Its random choice, its broken flag
  and its smallest free space are in the modules that use it; the buffering of
  random numbers and the forwarding of a valve are left out.
* The dispatcher looks a session up again when it hands a connection over, and
  may find one that another connection created meanwhile under the same user and
  id. `Server` has that behaviour; no property excludes it, since no comment
  does.
* Two failures are possible and have no path in the code: the session's teardown
  timer cannot be armed (`session.c:267`; assumed to be armed), and the upload
  timer cannot be re-armed (`userpanel.c:366`; the same as one that never fires
  again, which `Server` allows except under the fairness of `ServerSettles`). A wall clock that steps back is not modelled:
  `Admission`'s clock only advances.
* Frames the code sends without asking. `DataFits` is about data: the closing
  frame of a relay asks for no budget, and one can come between two frames of
  another relay's write, when a frame drains the pool and a relay told of room
  ends (`stream_relay.c:739`); `StreamRelay` has one relay. The frames that close
  a user's sessions are sent after its valve was drained for the last time and
  charged to nobody, which `userpanel.c:630-639` accepts; `LossesAreExcused`
  says for whom.
* Allocation failure is modelled where the code treats it as a case of its own
  and left out where it only refuses a call. Growth of the reactor's arrays is
  left out.
* Flag parsing, key generation, logging, statistics, the test and benchmark
  tools, and third-party code.
