# A TLA+ model of the Conduit runtime

This directory holds the formal model of the Conduit runtime environment
(`src/include/conduit`): TLA+ modules translated from the C++ headers, TLC runs
that check them on small instances, and TLAPS proofs for every instance.
`PROJECT.json` lists the runs, the lines of code behind each definition, a
mutation of the code that each property detects, and the hazards of the code.

## The system

Conduit is a header-only C++20 library for event processing without locks.

| Part | Source | What it does |
|---|---|---|
| `event_ptr` | core.hpp 66 | move-only owner of a cell; frees it through a deleter |
| `pool` | core.hpp 137 | fixed array of cells, lock-free free list with a tagged head |
| `conduit` | core.hpp 202 | ring of raw pointers, one producer, one consumer |
| `pipeline`, `bound_sink` | core.hpp 241 | calls the `on()` overloads of handlers, base types first |
| `round_robin_switch` | core.hpp 361 | fan-out of events over several conduits |
| `round_robin_poller` | core.hpp 390 | fan-in from several conduits |
| `networked_conduit` | net/networked_conduit.hpp | frames over a TCP socket that may break and be replaced |
| `node_runtime` | runtime/node_runtime.hpp | the loop that polls networked conduits |
| `http_parser` | transport/http.hpp | request parser without copies |
| `spsc_ring_buffer`, `tcp_sender_node` | core/networked_conduit.hpp | another ring, and a sender thread |
| `slab_allocator`, `pinned_slab_allocator` | pending/core | free lists of blocks, with and without a tag |
| `http_gateway`, `environment`, `load_generator` | pending/transport, pending/supplemental | programs on an allocator and a ring |
| `timing_wheel`, `clock_node` | pending/core, pending/io | timers, and the thread whose ticks drive them |
| `async_logger_node`, `logger_client` | pending/supplemental | log events handed to a thread that writes them |
| programs with one conduit | examples/02 01, examples/03 02 and 03 | producer, consumer, and a last event that ends both |
| `durable_sink`, `durable_source`, `deterministic_saga` | pending/storage, pending/workflow | log, replay, and the workflows rebuilt from it |

A cell moves from the pool into an `event_ptr`, through a pipeline, over a conduit
as a bare pointer, into another thread's `event_ptr`, and back to the pool.

## Modules

| Module | Models | Notes |
|---|---|---|
| `EventPool` | `pool::make`, `pool::free` | every access to shared memory is a step; any number of threads |
| `EventPtr` | `event_ptr` | one thread; the pool is the set of free cells |
| `Conduit` | `conduit::push`, `pop` | every access to shared memory is a step |
| `BoundedFifo` | | what `Conduit` and `SpscRing` promise: a bounded queue with atomic effects |
| `RoundRobinSwitch` | `round_robin_switch` with pool, conduits, workers | composition |
| `Sharding` | the program of `examples/.../03_sharding.cpp` | extends `RoundRobinSwitch` |
| `Shutdown` | the programs with one conduit, `runtime_domain::make`, and the logger | one module, since they differ in how they end |
| `RoundRobinPoller` | `round_robin_poller` with producers | a conduit is its load |
| `DispatchPlan` | types, handlers, overloads of a pipeline | operators only |
| `Pipeline` | `pipeline`, `bound_sink` | the recursion as a stack of frames |
| `FlatDispatch` | | what `Pipeline` promises: one flat list of calls |
| `NetworkedConduit` | both ends of one direction of `networked_conduit` | the connections are external |
| `NodeRuntime` | `node_runtime` | each conduit is alive or dead, with data to read |
| `HttpParser` | `http_parser::parse` | a function, and a grammar to compare it with |
| `FreeList`, `SlabAllocator`, `PinnedSlabAllocator` | the two allocators | what they share, and each of them |
| `AllocatorType` | the template parameter of that name | either allocator |
| `SpscRing` | `spsc_ring_buffer` | refines `BoundedFifo` |
| `HttpGateway` | `http_gateway` and `environment` | composes allocator and ring; which requests `parse()` accepts is the constant `WellFormed` |
| `LoadGenerator` | `load_generator` and `tcp_sender_node` | composes allocator and ring |
| `SlabPrograms` | these two programs | one or the other from the start; their common properties |
| `TimingWheel` | `timing_wheel` | the intrusive lists |
| `ClockNode` | `clock_node` | time in fractions of a millisecond |
| `Timers` | a core with a wheel and a clock | composition |
| `Durable` | sink, source, saga | with `EventPtr`, a conduit and a worker |
| `ConduitProofs` | | theorems about `Conduit`, `RoundRobinPoller` and `Pipeline` |
| `EventPoolProofs`, `ShardingProofs`, `NetworkedConduitProofs` | | theorems about the module of that name |
| `DurableProofs`, `TimersProofs` | | theorems about that module and its parts `EventPtr`; `TimingWheel`, `ClockNode` |
| `SlabMemoryProofs`, `SlabProgramsProofs` | | what each call of allocator and ring does; theorems about `SlabPrograms` |
| `MCPipeline`, `MCSharding`, `MCHttpGateway` | | instances for TLC; the second runs `Sharding`, `Shutdown` or `LoadGenerator`, the last one takes `WellFormed` from `HttpParser`. The other modules are run as they are |

Variables have the names of the members they model, without the trailing
underscore. Variables marked *history* record what the code does not, and no
guard of a code step reads them, except `age` in `NoTagLap` (below). Operators
that nothing uses, such as `FreeRetryWithoutRelink`, are the mutations listed in
`PROJECT.json`, each before the definition it replaces.

### Correspondence

*EventPool.* `head` is the word `free_head_` as tag and index. `mem` says what the
bytes of a cell hold: an index, or a payload (`DATA`). A thread that reads `next`
from a payload gets any index or `WILD`, an index outside the array: the union
makes this read possible and only the compare-and-swap keeps its result out.

*Conduit.* `PushRoom`/`PushFull` is the load of the other side's index and the test,
`PushSlot` the write of the slot, `PushPublish` the release store; `pop` likewise.

*Pipeline.* `frames` is the stack of `traverse_and_call`, each with the number of
bases it has visited. What a handler does is a choice: keep the event, reset its
`event_ptr`, or give the pointer to a new owner and release it. `owners` says who would
return the cell to the pool, or that the pool has it. The view of a base owns nothing: a
reset of it frees nothing, and who takes the pointer from it is an owner besides `ev`,
until `dispatch` finds the view null and releases `ev` (`ReleaseEvent`). The new owner may
free the cell before that step.

*RoundRobinSwitch, Sharding.* `TryPush` and `Release` are two steps: between them the
producer's `event_ptr` still names a cell it gave away. `make`, `free`, `push` and
`pop` are atomic here, which `EventPoolProofs` and `ConduitProofs` justify.
`SendTask`, `MakeStops`, `SendStop` and `Join` are the statements of `main`. A pill
that every track refuses stays in `stop1` or `stop2`, hence `stops`.

*Shutdown.* `at` is the producer's place: at the top of its loop, or between `make()` and
`push()` of a task or of the last event, or in `join()`. `raw` is the pointer that
`release()` gave it: a `push()` that fails forgets it, and the cell is in `lost`. A
null pointer goes into the conduit like any other, and the consumer takes it for an
empty one. `logger_client` hands over an `event_ptr`, which keeps a refused event.

*NetworkedConduit.* A frame is a sequence of units that `send` and `recv` may split
anywhere. `offset`, `tail`, `head` and `staging` are the code's. A connection breaks
at any moment, losing what is in flight from some unit on; `send` may still accept
units after that. Each end finds out alone and is then bound to a later connection.

*NodeRuntime.* `poll_rx` goes round its loop as long as the socket has data.

*HttpParser.* A byte is one of those `parse()` compares with, or a word that stands for
the letters of a token; a view is the bytes it covers. `Method`, `Uri`, `Version`,
`HeaderKey`, `HeaderValue` and the body are the cases of the switch. `Grammar` says
with line ends and first occurrences, without a state machine, what a request is; it
shares with the parser how a value is trimmed, which values are allowed and where the
body ends (`TrimValue`, `ValueAllowed`, `BodyOf`), so these are not compared.

*Allocators and ring.* `cur`, `nxt` and `blk` are a thread's `current_head`,
`next_index` and pointer. Load, read of the link, write of the link and
compare-and-swap are steps, as is each access to an index or slot of the ring.
`free_count` changes in a step after the swap. A call that is over leaves its thread
at `"pushed"` or `"popped"`, from where the caller uses the result. `IsFreeList(s)` says
that head and links spell the sequence `s`.

*HttpGateway.* `pc` is the place of the gateway thread and of the worker in their
loops, calls included. `main` is the order of calls in the comments of
environment.hpp. Each of the ways out of `accept_loop` (no bytes, no block,
malformed, ring full) is a disjunct; `SendError` is the response and the `close`.
The worker's handler answers, closes the connection and gives the block back.

*LoadGenerator.* `ArmWeapon`, `Fire` and `Destroy` are constructor, `fire()` and
destructor; a generator that finds no block throws, and destroys what it has.

*TimingWheel, ClockNode, Timers.* Links and buckets are the code's, and
`current_tick_` counts modulo the number of slots. `since` is `now - last_tick`.
`owed` is the real time no `delta_ms` has accounted for. `CoreTick` pops a tick event
and calls `tick()`; `Fire` walks one node. User code sets and cancels at any moment.

*Durable.* An event is two bytes. `write` appends any part of them; a crash cuts the
file anywhere. `read` takes two bytes. The source's and the worker's handles are
variables of `EventPtr`, whose operations move cells between pool, source, conduit
and worker. A slot of the saga is the sequence of records it was handed.

## Assumptions

- *Interleaving.* Indices and heads are published with release and read with
  acquire operations, so the steps are interleaved in one order. In `Conduit` this
  is sound because no slot is accessed by both sides at once (`NoSlotConflict`,
  proved). In `pool` the reload after a failed compare-and-swap is relaxed and the
  read of `next` is a race: what it returns for a cell that others own is
  unconstrained, and a stale link of a free cell is not modelled.
- *Tag.* `NoTagLap`: while one thread is between its load and its swap, others change
  the head fewer than `TagMod` times (2^32 in the code). Without it ABA is possible.
- *One allocating thread* in the programs on the slab allocators, as in the code. The
  pinned allocator's untagged head is sound for this reason only.
- *Plain flags.* `is_running_` of the gateway, the clock, the logger and the replay are plain
  `bool`s that other threads write. Each loop has system calls or atomic operations
  between two reads, so the model lets it see the new value.
- *Spurious failures* of `compare_exchange_weak` are allowed; `LockFree` excepts a
  processor that fails swaps spuriously for ever.
- *Tracks* are bound once each, and between calls of `on()` or `poll()`.
- *Type hierarchies* are trees: a repeated base is ambiguous to the view's cast.
- *Sockets* are bound to dead conduits only, while no poll of that conduit runs.
- *Timers* are set while idle or fired: `schedule()` (`timing_wheel.hpp:54`) does not test
  whether its node is in a bucket already. They are cancelled while idle or set
  (`Cancellable`), see below; so no handler cancels a later timer of the list that is
  being walked, which has expired.
- *Files* are sequences: a crash loses a suffix, never a part in the middle.

### Fairness

Weak fairness of threads that are inside a call (the scheduler) and of the loops
that poll: the consumer in `Conduit`, main and the workers in `Sharding`,
producer and consumer in `Shutdown` (a call of `log()` only once begun), `poll()` in
`RoundRobinPoller`, both nodes in `NetworkedConduit`, the thread in `run()`, the
gateway except in `accept()` and `recv()`, its worker, the generator, the sender, the
source and the worker of the replay, the core that walks timers. Producers are
never forced to push, threads never to call `make` or `free`, connections neither to
break nor to be made, and `main` never to start or stop anything.

Two assumptions are strong. In `HttpGateway` a compare-and-swap that is possible again
and again succeeds in the end: two threads share the list, and the code has nothing
better than hardware that does not fail for ever. In `Timers` a tick event for which
there is room again and again gets through: the core empties the conduit, but the
clock may look at it at the wrong moment any finite number of times. `Pipeline`
assumes that handlers return.

## Runs

| Run | Instance | Shows |
|---|---|---|
| `pool` | 2 threads, 3 cells, 4 tags | free list whole, no cell shared or lost, snapshots sound, lock-free |
| `conduit` | 4 slots, 3 pointers | no slot conflict; implements the queue, with its liveness |
| `pipeline` | 4 types, 2 handlers, all overloads | implements the flat list, with its liveness; no event left with two owners, none dispatched that another owns |
| `pipeline_leak` | 1 handler; a base's `on()` may reset | **violation**: the cell leaks |
| `switch` | 4 cells, 2 tracks of 2, 4 tasks, 2 pills; or 3 cells, a conduit of 2, 3 events and the last; or a load generator of 6 blocks with a ring of 4 slots | one holder per cell, no track with room passed over, events return to the pool; programs end, and are drained, as far as no event was refused (`ShutdownsComplete`); the ring is a queue |
| `poller` | 4 tracks of 2 | bounded bypass, no track missed, no starvation |
| `network` | ring of 2, frames of 3 units, 3 frames, 2 connections | frames whole, in order, at most once, lost only with a connection, delivered once a connection stays up |
| `runtime` | 3 bindings | stop, turns and death reports |
| `runtime_early_stop` | 1 binding | **violation**: an early `stop()` is lost |
| `gateway` | both programs on both allocators; 2 blocks, ring of 2, 2 clients; about 17,000 inputs for the parser | parser meets its grammar, no block or connection lost or given up twice, counter accounted for, requests answered, events sent |
| `timers` | 3 nodes, 2 slots, delays 0 and 2 | lists whole, each timer fires once at its tick, core never ahead of real time, timers fire although ticks are dropped |
| `durable` | 4 events of 2 bytes, 2 workflows, 3 cells, conduit of 2 | records replayed in order, once, all; rebuilt state existed; one owner per cell, and every cell in the pool, the conduit or with an owner; replay ends |

*Bounds.* Two threads and three cells let one thread sleep while the other takes
two cells and returns them in another order, the ABA pattern; four tags wrap. Rings
wrap several times. Four cells are what the tracks of the switch hold, so a pill can
find its track full, or the pool empty; the same holds for the three cells and two slots
of the programs with one conduit, and SIGINT may come at any moment. Two connections allow a break anywhere in a
frame, seen by either end first, and a resumption; three frames wrap the ring of two.
The frame's three units are its beginning (with the type id), middle and end. In
`gateway` two blocks and a ring that holds one make both the allocator and the ring
refuse; a generator with more events than blocks throws. Order in the ring is a matter
for `switch`, where the generator sends six events through a ring that holds three: it
fills up, and slots are used again. The requests take every
pair of header lines out of 42 and three headers where the event holds two. In
`timers` three nodes make lists with a first, a middle and a last node; two slots
make delay 0 a full turn and delay 2 one that must be clamped; time saturates at a
millisecond and a half, so that fractions are dropped. In `durable` the crash may
fall within a record, and more events are logged than cells or conduit hold; workflow 2
is the first that the saga has no slot for.

`CHECK_DEADLOCK FALSE` is set where the system may stop: when all connections of the
bound are used up, when `run()` or the gateway's threads have returned, when the
replay is done, and in `switch`, where programs end or a lost pill stops main for good.

### Where code and documentation disagree

- `TECHNOLOGY_MAP.md:229` says a rejected event is destroyed without leaks. If the
  `on()` of a base type resets its view, `dispatch` releases the owner and nobody
  frees the cell. The run `pipeline` leaves this one use out (`BaseEffect`), since
  `FlatDispatch` promises that no event is lost; `SoleOwner` is proved with it.
- `node_runtime.hpp:106` promises graceful shutdown. `run()` sets `is_running_` when
  it starts, so an earlier `stop()` has no effect. The run `runtime` assumes that `stop()`
  finds the loop running (`StopWaits`).

Four more were met and have no run of their own:

- `README.md:75` calls reclamation wait-free. It is lock-free (`LockFree`): a thread's
  swap may fail for ever because others succeed.
- The comment at `clock_node.hpp:59` says that dropped ticks make the next
  `delta_ms` larger. `last_tick = now` runs for dropped ticks too, so they do not: in
  `ClockNode` the time of a dropped tick stays in `owed`.
- `timing_wheel::tick()` leaves `wheel_bucket` of the nodes it returns, so the test
  commented "Not scheduled" (`timing_wheel.hpp:86`) does not recognise a timer that has
  expired: `cancel()` then relinks a bucket that it is no longer in. With "fired" in
  `Cancellable` TLC finds `WheelIntact` violated. Nothing says that cancelling so late
  is allowed.
- `examples/04_showcase/02_deterministic_network_routing.cpp:86` says that the third tick
  was dropped, and line 79 that each conduit holds one. They are `conduit<market_tick, 1>`, and a ring of one slot
  is full when it is empty (`IsFull` in `Conduit`): no tick gets in.

What the properties do not promise is as telling. `MainReturns` excepts runs in which
a track refused an event: then two pills may end in one track, and `main` waits for
ever. `ExamplesHalt` excepts an exhausted pool, whose null pointers no consumer sees, and
in two programs a last event that was refused, for it is sent once; and it does not
count the cells that a refused `push()` lost. So "Zero leaks at shutdown"
(`03_graceful_drain.cpp:78`) holds because 51 events fit into 1024 slots. `ClientsAnswered` excepts a worker that looked at `is_running_` before `start()`
set it, and left. `RebuiltStateExisted` needs whole writes that begin where a record
begins: after one short write every later record is read out of step.
`CountAccounted` allows `free_count_` to pass below zero for a moment.

## Proofs

TLAPS checks the theorems below for all values of the constants that satisfy the
assumptions named in the modules: sizes and counts are natural numbers and positive
where the code needs it (`SizeAssumption`, `CapacityAssumption`, `BlocksAssumption`,
`SizesAssumption`, ...), null is no cell, slot or client (`NoneAssumption`,
`NullAssumption`, `WheelAssumption`, `ClientAssumption`), the two ends of a ring are two
threads (`EndsAssumption`), the pinned allocator's counter is wider than the number of
blocks (`CountAssumption`), and timers are cancelled while idle or set
(`UserAssumption`). A theorem needs all of its invariant at once; what follows says why.

**EventPoolProofs.** The invariant joins the type invariant, the integrity
of the free list, exclusive ownership, conservation, the counting of updates by the
tag, and the soundness of snapshots. None is inductive alone: that the list stays
whole needs that a swap that succeeds had a current snapshot, this needs the tag
to count updates, and that a linked cell keeps its link until the swap needs
exclusive ownership. `NoTagLap` is part of the action that swaps.

**ConduitProofs.**
- *Ring.* From `TypeOK` and `ChecksStayValid` (inductive together) follow the absence of
  slot conflicts and, with lemmas about the modular arithmetic of the ring, the
  refinement of `BoundedFifo` (`ConduitIsFifo`, without fairness).
- *Poller.* `BypassBudget` (bypasses suffered plus distance to the next turn stay below
  the number of tracks) is inductive and gives `BypassesBounded`. `NoBusyTrackMissed` rests
  on `BusyKeepEvents`: only `poll()` empties tracks, and it returns with the first event.
- *Pipeline.* `OneOwner`: while the last result is true the dispatch alone owns the event,
  and a second owner exists only while a view has come back null. It is inductive for any
  hierarchy of types and whatever handlers do with events and views, and gives
  `EventOwnedOnce`: nothing frees a cell twice, and `on()` is called only with an event
  that nobody else owns.

**DurableProofs.** For `event_ptr`, type, single owner and conservation are inductive
together, over all operations, moves and views included. Every step of the replay is one
of these operations or leaves the handles alone (`ReplayUsesHandles`, a refinement), so
both hold across its two threads (`ReplaySingleOwner`). That a pointer once released is
in the conduit (`BareQueued`) makes conservation a statement about the replay: a cell is
in the pool, with an owner or in the conduit (`ReplayConservation`).
`ReplayIsFaithful` needs who owns the cells between source and saga (`Holders`), what the
phase of the program says of the file position (`Phases`), and that what the saga had, the worker has, the conduit
holds and the source has just read are, in this order, the records of the file
(`InTurn`).

**ShardingProofs.** `FirstRoomyTrack`: a track that had room when `on()` was called
keeps it until `on()` pushes, because meanwhile workers only pop. `OneHolder`: each
cell is held somewhere (`Held`), by nobody else (`Exclusive`), and once
(`Position` ties the producer's place in `on()` to what its `event_ptr` names).
Queue positions shift with every pop, so these are stated for places in the
tracks and related to `Holders` at the end.

**NetworkedConduitProofs.** `IInv` is about the sender: it bounds the poll thread's copies
of `tail` and `head` by the shared ones, keeps the room that `push()` found, and says
what lies in the slots in between; two positions less than a ring apart lie in different
slots. This gives `SlotsRaceFree` and `SendingInTurn`. `NetInv` is about all that is on its
way. On each connection the units staged and in flight follow one another as the sender
sends them, and the first one that is read begins a frame (`InStream`); what is sent next
continues them (`SendContinues`); an event whose last unit was sent is not sent again, on
a later connection either (`InOrder`); what was delivered is whole, in order and before
all that may follow (`DeliveredOK`); and each event that was sent is delivered or
dropped for lack of a cell, on its way, or on a connection that broke or was left
(`AllAccounted`). Breaks and new
connections may come at any moment and at each end alone. This gives `NoZombieFrame`,
`OrderAcrossConnections` and `NothingElseLost`.

**TimersProofs.** `WheelInv` says of each slot that its links form one list without a cycle
of exactly the timers due at it (`IsList`, by closure: a set that holds the first node
and the successor of each of its nodes is everything), that the back links match
(`BackLinks`), and the same of the list the core is walking (`WalkOK`). This gives
`WheelStaysIntact` and `WalkMeetsAll`, although user code sets and cancels timers during
the walk. For the clock, `NeverAhead` and `CoreOnTime`: the two measures of time saturate
at one bound, which the invariant includes, and the cast to milliseconds rounds down.

**SlabMemoryProofs, SlabProgramsProofs.** The invariant says that there are a list `s` and a
queue `q` with `ProgramInv(s, q)`:
- `MemInv(s)`: head and links spell `s`, without repetition; a thread about to swap has a
  block of `s` and its link, or a block of its own that it has linked (`SwapInv`); the
  counter is the length of `s` but for the updates still to come (`CountInv`). The
  untagged head is sound because one thread only takes blocks: what it saw at the head
  stays in the list, and its link stays the same.
- `RingInv(q)`: `q` is what the ring holds, and what `push()` and `pop()` found out holds
  until they act on it.
- `HttpInv` or `LoadInv`: where the two threads can be; that free, queued and held blocks
  are disjoint, are all blocks, and add up to their number; and, for the gateway, who
  is to close each open connection (`Keepers`); for the generator, what its
  magazine holds (`Magazine`).

The steps of a call are proved once, as lemmas about the effect of each on `s` and `q`
(`SlabMemoryProofs`); each program's steps then use these effects. The theorems are
`RingRefinesFifo`, `Conservation`, `CounterAccounted` and `Keeping`, for both programs on
both allocators.

### Only model-checked

- All liveness properties: TLAPS does not reason about fairness. These are `LockFree`,
  `Reclaimed`, `ShutdownsComplete`, `StarvationFree`, `EventuallyDelivered`, the three
  of `NodeRuntime`, `WorkCompletes`, `TimersFire`, `ReplayDrains`, and the fair halves of the
  refinements of `BoundedFifo` and `FlatDispatch`.
- That `Pipeline` makes the calls of `FlatDispatch`: the list of calls is defined by recursion
  over the types, and to relate the stack of frames to it takes induction over both.
- `ParserMeetsGrammar`: parser and grammar are recursive.
- `RebuiltStateExisted`: what the saga rebuilds is a fold over the records.

## Not modelled

- *Without behaviour of their own:* the placeholders `cluster`, `router` and `bind_route`, `trivial_serializer`,
  `physical_layout`.
- *A thin layer over what is modelled:* `mesh_router` tests a route and calls the
  `push()` of `NetworkedConduit`, ignoring the result; the other examples pass fixed
  events through one thread.
- *Sketches:* `moe_dispatcher` schedules every task under one constant index, and its
  walk of expired timers is a comment.
- *Formatting and blocking I/O:* telemetry, the exporter, the telemetry gateway, the text
  of log messages.
- *Inside modelled parts:* the `pool` move constructor (used before any event exists);
  exceptions thrown by event constructors; weak memory beyond what is said above; the
  bytes an HTTP event refers to, which lie in a buffer that the next request overwrites
  while the event waits in the ring; `timestamp_ms` of a tick, which nothing reads;
  what a partial `send` in `tcp_sender_node` does to the stream.
