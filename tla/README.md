# colinlib in TLA+

colinlib is a C library for event-driven programs: a stackful coroutine
scheduler, a timing wheel, an IO service on epoll, the loop that runs them, and
the containers they are built on. This directory models the parts of it that
keep state over time, checks them with TLC and proves their central invariants
with TLAPS. Paths below are relative to `src/` of the repository unless they
name a module.

Contents: [the system](#the-system) · [modules](#modules-and-how-they-read-the-code) ·
[runs](#runs) · [bounds](#bounds) · [fairness](#fairness) · [proofs](#proofs) ·
[disagreements found](#where-the-code-and-its-words-disagree) ·
[not modelled](#what-is-not-modelled) · [plan](#plan)

## The system

Everything runs in one thread. Interleaving comes from two sources all the same:
a coroutine may yield in the middle of any of the user's functions, and a
callback runs in the middle of a handler of the library and may call any
operation of the library, on any object, before it returns.

| component | state | operations | used by |
|---|---|---|---|
| `co_routine` scheduler | slot table (status, resumer, saved context), number of live slots, capacity, running id | open, close, new (scan or grow), resume, yield, return | `co_routineex` |
| `co_timingwheel` | tick counter, 1+4 wheels of lists, clock and remainder | add, del, update (tick, cascade, fire) | `co_timerservice` |
| `co_falloc` allocator | blocks, free list through the items, a flag in each item | newitem, freeitem, isfree | `co_timerservice` |
| `co_timerservice` | items with node, callback and period | add, del, update | loop, `cort_sleep` |
| TCP, UDP and FD service, `co_ioservice` | three pools of objects (state, fd, buffers, callbacks), cursor of each pool | listen, connect, send, close, bind, unbind, on_*; handlers of read, write, error, connect, accept | loop, `co_routineex` |
| `co_poll` | the kernel's poll set: `data.ptr` and EPOLLOUT of each descriptor | add, request_write, del, wait | IO service |
| `co_loop` | the stop flag | one batch of events, then the timers, then the idle callback | programs |
| `co_routineex` | `object->ud`, locals of parked calls | connect, bind, read, sleep, and the callbacks that resume | programs |
| ring buffer (`co_buffer`), `co_queue` | head, tail, storage | write, read, consume; push, pop, peek | sockets' send buffers, programs |
| `co_pqueue` | a heap in a vector | push, pop | programs |
| `co_dict` | buckets of chains, a list of all nodes, count | get, set, del, clear, move, resize | programs |
| `co_set` | a red-black tree with one nil | add, delete, clear, union, intersect, minus, iteration | programs |
| `co_vec`, `co_list` | storage, size and capacity; linked nodes | push, del, set, swap, resize, copy; push, pop | the other containers, programs |
| word filter (`misc/co_wordfilter.c`) | a trie, children sorted in vectors | add, load, delete, clear, exist, filter, check | programs |
| `co_str`, `co_dnsutils`, `co_endian` | none | conversions | programs |

How they interact: `coloop_runonce` takes a batch of events from the poll set and
hands each to `_coios_process_event` with the pointer that was registered; the
handlers of the object's state follow, and from them the user's callbacks. After
the batch `cots_update` turns the elapsed milliseconds into ticks; each tick
cascades the upper wheels and fires the nodes of one list through `_on_timer`.
With `co_routineex`, callbacks and timers do one thing: they store a result in a
local of the call a coroutine is parked in, and `cort_resume` it on top of
whatever stack they run on.

What is hard in it, and so what the properties are about:

* **Scheduler.** `pco` is never cleared and slots are reused, so the chain of
  resumers is correct only because of what was resumed when. It must be a call
  stack (`ResumeChain`, `Nesting`), with one coroutine running (`OneRunning`),
  every switch loading a context that was saved for it (`ContextsMatch`), and the
  scan for a slot always successful (`NewFindsSlot`).
* **Timers.** A node may pass through four wheels, the tick counter wraps around,
  the clock is read at uneven moments, and callbacks add and delete timers of the
  tick being fired. Every timer fires in exactly its tick (`Punctual`,
  `Periodic`), the clock never drifts (`NoDrift`), released items are in no list
  (`LinkedIsHeld`), and the update ends (`UpdateReturns`).
* **IO service.** Objects are closed while handlers of theirs are on the stack and
  events of theirs are in the batch, and slots are reused at once. Descriptors,
  poll set and pool must agree (`PollMatchesSlots`, `PollMatchesObjects`,
  `OpenMatchesUdp`), an event must reach the object it is for (`EventsReachOwner`,
  which `cofd_send` breaks), unsent data is watched (`UnsentIsWatched`), a graceful close
  ends (`ClosingHasData`, `GracefulCloseEnds`), datagrams leave once and in order
  (`SendListSound`, `InOrder`), and a slot's state means what it says
  (`ConnectedIsEstablished`, `ConnectingIsWatched`, `LifeCycle`).
* **Blocking calls.** A parked coroutine has somebody to resume it (`Served`,
  `SleepersWake`) and is told what happened (`ToldTheTruth`).
* **Receive buffers.** A read that returns nothing must mean the end of the stream,
  whatever size the buffer has grown to (`ZeroMeansClosed`).
* **Containers.** Each of them links, moves or enlarges things in ways that go wrong
  only after a sequence of operations: rings that grow while they are wrapped
  (`RingOK`, `KeepsOrder`), a heap between two comparisons (`HeapOrdered`,
  `PopsGreatest`), chains rebuilt from a list that is being reordered (`DictSound`,
  `KeepsMap`), deletions fixed up through a shared nil (`RedBlack`, `KeepsSet`,
  and `IntersectLeavesCommon`, which does not hold), insertion where a search ended
  and files read in pieces (`FilterExact`), an insertion at the last free
  place (`HoldsItems`).

`PROJECT.json` lists the hazards one by one, each at its line.

## Modules, and how they read the code

Definitions have the names of the functions, fields and constants they model;
`PROJECT.json` maps each to its lines. Definitions called "faulty variant" are
not part of any specification: each is what a plausible bug would make of the
definition after it, and a check that puts it in its place finds the property
violated.

**`CallStack` ← `CoRoutine`** (`src/co_routine.c`). `CallStack` is the promise: a
stack of coroutines whose resume has not returned, and a set of parked ones.
`CoRoutine` has the scheduler's fields: `status`, `pco` and `ctx` of every slot,
`nco`, `cap`, `running`. `cort_new` is two actions, the scan from `nco` on and
the doubling of the table; `cofunc_return` is the end of a coroutine's function;
the saved contexts are told apart by what continues when they are loaded.

**`Countdown` ← `TimingWheel`** (`co_timingwheel.c`). `Countdown` has only the
ticks each timer has left. `TimingWheel` keeps `expire` and the list each node is
in; lists are sets, as no property tells the order within one. `cotw_update`
starts an update, `_cotw_tick` is one turn of its loop up to the firing (counter,
cascades, the list to fire detached), `fire` runs one callback, and `tick_end`
and `update_end` are the ends of the two loops, so that callbacks can add and
delete between any two firings. The index arithmetic is that of `FIRST_INDEX` and
`NTH_INDEX`, modulo the word.

**`Falloc`** (`co_falloc.c`): free list, blocks, and the flag that lies inside the
memory the user gets. **`TimerService`** (`co_timerservice.c`) composes `Falloc`
and `TimingWheel` by INSTANCE: an item is allocated and its node linked in one
action, a looping timer is linked again before its callback is called, a handle
is cleared by the call that deletes it. It implements `Countdown` with periods.

**`TcpService`** (`co_ioservice.c`, with `co_poll.h` and `co_loop.c`). The variable
`agenda` is the C call stack: the handlers and callbacks in progress and what each
still has to do. A handler is cut where it calls something, and nowhere else:
`Then` puts the calls in front of the rest. Every callback can call every
operation on every slot. Descriptors, poll set and readiness are the kernel's and
chosen freely; what `read`, `write`, `accept` and `getsockopt` return is a choice
among the outcomes the code distinguishes. Bytes in a send buffer are counted.

**`IoService`** (same file, UDP and FD parts) has the same `agenda`. The list of
datagrams is followed pointer by pointer (`head`, `tail`, `next`); **`SendQueue`**
is the queue it implements. The states of UDP and FD objects keep their numbers,
because the dispatcher tests UDP objects by the names of FD states. `UserData` are the
pointers a user may store in the `ud` of an FD object, at any time: its own address,
that of another object, or a pointer of another kind (`Wild`); where `cofd_send` and
`_cofd_handle_write` register `fd->ud`, one of them is chosen.

**`RecvBuffer`** (same file) is one connection with the size of its receive buffer,
a 16-bit number, and what `realloc` may do with a size of 0. The other two modules
leave that size out: there, a read has the outcomes the code tells apart.

**`Fifo` ← `Ring`** (`co_buffer.c`, `co_queue.c`). One storage with two ends, two
ways to grow, and memory that holds junk until it is written.

**`PrioritySet` ← `PQueue`** (`co_pqueue.c`). The promise is a set of entries of which
a greatest is taken. A turn of `_heap_up_tail` or `_heap_down_head`, one or two
comparisons and a swap, is a step of its own, so that the heap is seen half-way.

**`LinkedMap` ← `Dict`** (`co_dict.c`). The promise is a map with an order. The nodes
have the code's three links (`next` in the bucket, `listprev` and `listnext`); a
resize gives each node the chain that the loop over the list builds. **`Links`** has
what `Dict` and `VecList` share: nodes, `NULL`, and the sequence one visits by
following pointers (`Followed`).

**`KeySet` ← `RbSet`** (`co_set.c`). The promise is what each call, with its argument,
makes of a set of keys. Each action of `RbSet` takes the step of `KeySet` for the same
call on the history variable `members`, so that a call that removes another element,
or none, leaves a tree that is not `members`. The tree is a value
that every function takes and returns; the side, left or right, is a parameter of
what the code writes twice. The nil node is a node: a deletion sets its parent and
the fix-up starts from it. Addresses matter only during one call (`coset_intersect`
holds one across a deletion), so that between calls nodes are named by their data.
When that address is of a node the deletion has freed, `undefined` is set and the
model stops.

**`WordFilter`** (`misc/co_wordfilter.c`). A node is the path to it, with the vector of
its children's characters, which the code's search by halves goes through. A file is
read line by line, each line in reads of at most `WordSize - 1` bytes as `fgets` does
it, with a character that is cut in two decoded by neither, and a read of a single
byte taken for an empty line. The history variable `added` is the set of words that
should be there: of a file, every line, whatever was read of it; `whole` says that no
file had a line that is cut or skipped. Looking up and filtering change no state and
are operators over the trie; texts are filtered with every mask of `Masks`.

**`VecList`** (`co_vec.c`, `co_list.c`). The variable `items` is the sequence that the
calls asked for; storage that was never written holds garbage.

**`CoRoutineEx`** (`co_routineex.c`) over `CallStack`, which `CoRoutine` implements.
An object has a state, a set of callbacks and `ud`: the coroutine whose local it
points to, or `Stale` when that call has returned. A callback that goes through a
stale pointer has every outcome short of a crash (`Signal`): nothing happens, or
any parked coroutine is resumed. The history variable `missed` records that, or
that an owner was not told of the end of its object; `Served` and `ToldTheTruth`
are promises for executions in which it never happened, `SleepersWake` is for all.

**`CoRoutine_proof`, `TimingWheel_proof`, `TimerService_proof`, `TcpService_proof`,
`IoService_proof`, `CoRoutineEx_proof`, `Queues_proof` (of `Ring` and `PQueue`),
`Containers_proof` (of `VecList`, `Dict` and `WordFilter`)** hold the theorems.
**`MC...`** modules give constants for TLC. `MCContainers` joins all
containers by a variable that says which of them a behavior is of: they do not
interact, and their states add up. `MCSchedulers` does the same with the scheduler of
coroutines and the timing wheel.

## Runs

| run | what it asks | checked |
|---|---|---|
| `schedulers` | coroutines: opening, spawning, resuming, yielding, returning, reuse and growth in every order; two timers on five wheels, over more than one wrap of the counter | `TypeOK`, `ResumeChain`, `OneRunning`, `ContextsMatch`, `NewFindsSlot`, `NoDrift`; `Nesting` (CoRoutine implements CallStack), `Punctual` (TimingWheel implements Countdown) |
| `timer_service` | one-shot and looping timers, deleted and reused from callbacks | `LinkedIsHeld`, `HandlesUsable`; `Periodic`, `UpdateReturns` |
| `tcp_service` | a pool that is full, slots reused at once, nested callbacks, batches of two events | `TypeOK`, `PollMatchesSlots`, `UnsentIsWatched`, `ClosingHasData`; `LifeCycle` |
| `tcp_close` | the same with room to spare: no slot is reused while work refers to it; graceful close under fairness | `ConnectedIsEstablished`, `ConnectingIsWatched`; `GracefulCloseEnds` |
| `io_service` | UDP and FD objects, two datagrams, sends that fail | `PollMatchesObjects`, `OpenMatchesUdp`, `SendListSound`, `UnsentIsWatched`, `ClosingHasData`; `InOrder` (implements SendQueue), `GracefulCloseEnds` |
| `containers` | every sequence of operations of each container on small contents | `RingOK`, `HeapOrdered`, `DictSound`, `RedBlack`, `KeepsSet` (against KeySet), `FilterExact`, `HoldsItems`; `KeepsOrder` (implements Fifo), `PopsGreatest` (PrioritySet), `KeepsMap` (LinkedMap) |
| `routine_ex` | every blocking call against every event and timer | `SleepersWake`, `Served`, `ToldTheTruth` |
| `tcp_stale` | finds a stale event applied to a reused slot | `ConnectedIsEstablished`, violated |
| `io_fd` | finds `fd->ud` in the poll set in place of the object | `EventsReachOwner`, violated |
| `recv_buffer` | finds the read of nothing after a full buffer | `ZeroMeansClosed`, violated |
| `set_intersect` | finds the intersection that goes on from a freed node | `IntersectLeavesCommon`, violated |
| `routine_connect` | finds the coroutine that waits for a connection nobody makes | `ConnectBlocksWhileConnecting`, violated |

`TimingWheel` (`TWTypeOK`), `TimerService`, `IoService` and `CoRoutineEx` have a type
invariant, too, for the reader; no run spends its time on it, as the invariants above evaluate every
field they speak of.

## Bounds

* `schedulers`, coroutines: the table starts with 2 slots and doubles once (`MaxCap` 4). Three
  coroutines besides the main one are enough for a chain with a branch, a reused
  slot inside it and a scan that wraps; the proofs have no such bound.
* `schedulers`, timers: 1 bit per wheel and all four upper wheels, a 5-bit counter. Every
  level of `_cotw_add` and every cascade, that of all wheels in one tick included,
  is reached; `MaxTime` 90 ms at 2 ms a tick is 45 ticks, a wrap and a half. The
  delays are chosen on both sides of each level's limit. `timer_service` has a
  3-bit counter, 12 ticks, one-item blocks and two items.
* `tcp_*`: two slots, so that the pool is full with a listener and a connection;
  three descriptors; one piece of unsent data, so that "some" and "none" are told
  apart; batches of two events; a callback in a callback (`MaxNest` 1: user code
  deeper than that returns at once), of three kinds of callback in `tcp_service`.
  `tcp_close` has two descriptors and one kind, as liveness is expensive; the user
  code between events can close and send there, too.
* `io_service`: one slot of each pool, so that a released slot is reused at once;
  two datagrams, the shortest list whose head and tail differ. The FD's `ud` is the
  address of the UDP object: until its first send the FD gets its own events, and from then
  on the UDP object gets them or they do not come. In `io_fd` it is a pointer to something
  else (the proof has all of these).
* `containers`: rings of one to three bytes and a queue that starts with two items,
  storage up to 7, writes of up to 3 items out of two values and junk: a buffer grows
  twice, wrapped or not. Six of seven entries of four priorities in the heap: three
  levels, ties, a last inner entry with one child. Four dictionary nodes, a table of
  one bucket that grows to three and is from then on only rebuilt, as the code does at
  its largest size, and three keys that share a bucket in both. Numbers 1 to 8 in the
  set: every case of both fix-ups, repeated a level up, and nodes with two children
  whose successor is not their child. Words that are prefixes and inner parts of each
  other and of the texts, empty and malformed ones, 90 texts, a mask that is in words and
  one that is in none. A buffer of 6 bytes, of which a read uses 5, for files with an empty line, a
  line that fills a read exactly, one that is cut inside a character, and a last line of
  one byte with and without its newline. Vector and list of four
  items: the vector is enlarged twice, the list has nodes that are neither end.
* `set_intersect`: three data, a root with two children, and the sets {} and {1} to
  intersect with.
* `recv_buffer`: pieces of 1, 256 and 512 bytes, 1024 at a time, for a buffer of 512: a
  read that fills it and one that does not.
* `routine_ex`: two coroutines and one object of each kind; a coroutine has one
  object at a time; two timers of a coroutine at once (`MaxTimer` 2), which takes a
  stale wake-up. The coroutines are interchangeable, and the run checks only
  invariants, so that symmetry is sound. The wheel's nodes are, too.

`CHECK_DEADLOCK FALSE` stands where the system can really stop: `MaxTime` stops the
clock, in `routine_ex` all coroutines may wait for something nobody will do, in
`containers` and `set_intersect` a set is not used any further after
`coset_intersect` used a freed node, and in `recv_buffer` a closed connection is the end.

## Fairness

* `TimerService!Spec`: weak fairness of the thread inside `cots_update`. Callbacks
  return, and between two firings the user may do any finite number of calls.
* `FairSpec` of `TcpService` and `IoService`: weak fairness of the handlers together
  (the thread goes on); strong fairness of `user_returns` at each nesting depth (a
  callback makes finitely many calls, each of which may run handlers and other
  callbacks in between, so that returning is not continuously enabled); strong
  fairness of a report that a socket can be written, and of the write that
  empties the buffer: the peer keeps reading. Without the last a graceful close
  does not end and the code does not claim it does.

## Proofs

All theorems are for every value of the constants that satisfies the module's
named assumption: sizes are naturals, at least one slot, junk is no item, the nodes
or buffers are finitely many. Two theorems, of `TcpService`, have the Boolean constant
`RoomToSpare` as a hypothesis besides.

* **`CoRoutine_proof`.** `ResumeChain` counts the chain by `Cardinality(Active)`, which
  is awkward to reason about; the inductive invariant `IInv` says instead that some
  chain of some length exists (`Linked`), that `nco` is the number of live slots
  (`Counted`), and adds types, `OneRunning` and `ContextsMatch`. A resume pushes on
  the chain (`ChainPush`), a yield or return pops it (`ChainPop`); a chain is unique
  (`ChainUnique`), so that the refinement mapping, which chooses one, is a function
  of the state. `ContextsMatch` is needed for itself and `Counted` for the scan:
  if `nco < cap` some slot is not live, and the probes, which go round modulo
  `cap`, reach every slot (`ScanReaches`). Theorems: `TypeCorrect`,
  `ResumersFormChain`, `OneRunningAlways`, `ContextsMatchAlways`, `NewNeverFails`,
  and `ImplementsCallStack` (initial states and every step map to CallStack's).
* **`TimingWheel_proof`.** `NoDriftAlways`, for every geometry and interval; types of
  the clock are the only strengthening. `PunctualAlways`: the wheel implements
  `Countdown`, for every number of wheels and every size of theirs. The inductive
  invariant `PlaceInv` says where each linked node is (`OnTime`): due now, or in the
  root wheel's slot of its tick, with fewer ticks to go than that wheel has slots, or
  in the slot of an upper wheel that covers its distance, where it is cascaded before
  it is due. `Punctual` is not inductive without it: that the root slot
  of this tick has the due nodes and no others is a fact about how every node came
  there. A tick cascades the slots it arrives at; of a cascade that goes through
  several wheels the first at which a node could be lost is taken
  (`CascadedIs`, by the least counterexample in place of an induction), and what is
  left is arithmetic of quotients and remainders. The provers know nothing of `^`, so
  that `Geometry`, in `TimingWheel`, assumes the law it takes: a wheel's step times its
  slots is the next one's step. TLC evaluates it on every run of a timer.
* **`TimerService_proof`.** `LinkedIsHeld` and `HandlesUsable` need the whole of the
  allocator: the free list has no item twice and none in use, and the two make up the
  items of all blocks (`AllocInv`). A released item is in no list of the wheel, so that reusing
  it moves nobody else. `NoItemLost` says that every item of a block is free or
  in use. `PeriodicAlways` is the promise that each firing of a timer comes a delay or a
  period after the last: the lemmas of `TimingWheel_proof` are used by `INSTANCE` with
  items for nodes, and `PlaceInv` is a part of this invariant, too.
* **`TcpService_proof`.** `PollMatchesSlots`, `UnsentIsWatched` and `ClosingHasData`
  are inductive only together: a write turns EPOLLOUT off, which is right because
  the buffer it looked at is empty; a descriptor is released, which is right
  because no other slot has it. To these come the types, the call stack's
  included (`IInv == SlotInv /\ CallsTypeOK`): a frame names a slot, whatever its
  state is by the time it runs. `LifeCycleAlways` follows step by step. They hold
  with `RoomToSpare` or without, and for any depth of callbacks.
  `ConnectedIsEstablishedAlways` and `ConnectingIsWatchedAlways` are for
  `RoomToSpare`, a constant: that no slot is handed out while an event of the batch or a
  handler under way refers to it, which the code does not see to. Run `tcp_stale` shows
  that the first is false without it; that the second is, too, has no run and is said
  [below](#where-the-code-and-its-words-disagree).
  Their strengthening (`Fresh`) speaks of every event that is still in the batch and
  every frame of the call stack: an event for a slot that connects is about that
  connection, which has been decided, and no write is in progress for it.
* **`IoService_proof`.** The same for UDP and FD objects, with the list of datagrams:
  the invariant `Lists` says that each object's pointers form a list, disjoint
  from the others, of the buffers in use; `ChainIsList` shows that following `next` from
  the head finds that list. `InOrderAlways` is the refinement of `SendQueue`.
  `PollMatchesObjectsAlways` is for whatever users store in `ud`: live objects, and no
  others, are registered, on open descriptors, with their address or, of an FD, what
  is in `ud`. That every event reaches its object (`EventsReachOwner`) is false
  with the pointer that the code registers (run `io_fd`), and no theorem assumes it away.
* **`CoRoutineEx_proof`.** `SleepersWake`, `Served` and `ToldTheTruth` are proved from
  one invariant: no coroutine is on the stack twice or both there and parked
  (`SchedOK`), control never comes back to a callback of a coroutine that is in a
  blocking call (`CallsOK`), and, as long as nobody missed an event, the objects and their
  owners point to each other (`InTouch`): a `ud` that is not stale is a local of a call for
  this very object, and the only timer of a coroutine is the one it sleeps for.
* **`Queues_proof`.** Of `Ring`: `RingOK` is inductive as it stands. The work is in the arithmetic:
  a write after the growth, wrapped or not, appends (`WriteShape`), with each `%`
  resolved to "at most one subtraction" (`ModuloOnce`). `RingKeepsOrder` is the
  refinement of `Fifo`. Of `PQueue`: `HeapOrdered` compares an entry with its parent only, and is
  inductive because of its part `AroundInOrder`: when an entry swaps with its parent,
  what was below the one comes to be below the other. Besides types, `IInv` says that
  no entry is in the vector twice. That the front is a greatest entry is not part of
  it: `FrontIsGreatest` takes the least index whose entry is greater, whose parent,
  an index before it, is not (`LeastElement` in place of an induction). With it a pop
  is `PrioritySet`'s `Take`, a push its `Put`, and the turns of the loops change places
  only (`MoveStutters`). Theorems: `HeapOrderedAlways`, `PopsGreatestAlways`.
* **`Containers_proof`.** Of `VecList`: `HoldsItems` speaks of what is read, cell by cell and by following
  pointers; the invariant `VLInv` says what is stored: of the vector, that its room is
  at least its size and which item each cell has; of the list, that some sequence of
  nodes, none of them twice, is all there are, and that each node's pointers are its
  neighbours in it (`Linked`). Putting a node in and taking one out changes two
  neighbours (`InsertKeeps`, `RemoveKeeps`), and following the pointers finds the
  sequence, in either direction (`FollowedIs`). The vector is enlarged in time because
  the least capacity is not 0. Theorem: `HoldsItemsAlways`.
  Of `Dict`: the invariant `DictInv` says that no two nodes have the same key
  (`NodesOK`), that the list is `Linked` and holds the entries, that each bucket has a
  chain of exactly the nodes whose keys belong there (`TableOK`), and that there are not
  too many nodes for the buckets (`Sparse`). The order of a chain does not matter, so that
  a set or a removal disturbs one bucket and the list, and leaves the other chains alone (`PathFront`, `PathWithout`). After a resize no chain is what it
  was: that the loop over the list leaves a chain in every bucket is shown by the first
  entry after which it would not (`ChainsAreBuilt`). Moving a node in the list is
  taking it out and putting it in (`MoveGoes`). `DictSoundAlways` follows, and
  `DictKeepsMap`, the refinement of `LinkedMap`: what is read along the list, forwards,
  is the map the calls made. Both are for every hash function and for all table
  sizes of which each is more than one greater than the one before, as the code's
  primes are.
  Of `WordFilter`: the invariant `WFInv` says that the nodes are a trie whose children are
  sorted (`TrieOK`), and that the marked nodes are the words. A search by halves finds
  what is there, and otherwise the place between the smaller and the greater ones
  (`SearchFinds`): of what each turn leaves, `Narrowed` says that everything before is
  smaller and everything behind is greater. So an insertion keeps the children sorted
  (`Grown`), and a walk from the root comes to the nodes and nowhere else (`ReachedIs`).
  Of the text that is left after filtering, `FromOK` says that every piece without a mask
  before the first undecodable byte was copied from a place where no word starts: a
  word in it would start there. Of a file whose lines are all read at once, the reads
  are its lines (`WholeRead`, `ReadsAre`), so that what is marked is what should be there
  (`LoadKeeps`). Theorem: `FilterExactAlways`, for all words, files, sizes of the buffer,
  texts and masks. Its two conditions are parts of the property: `whole`, without which
  it is false, as a file with a last line of one byte shows; and that the mask is in no word, for the part
  that says that no word is left, since what is written over one word may be another.
  The recursive functions of this module are over numbers, not over the tree:
  each is shown to be what its equation says by the first number at which there would
  be no such function (`Recursion`, `FilterEnds`).

Only model-checked: everything live (`UpdateReturns`, `GracefulCloseEnds`), which is
out of the prover's reach; `RedBlack` and `KeepsSet`, as `RbSet` is written with recursive
operators, for which the provers have no rule. To prove them its loops would have to
be counted as those of `WordFilter` are, and the invariant to describe a tree halfway
through a fix-up; a deletion has no sibling to turn around unless the whole tree is
balanced, so that the one cannot be had without the other.

## Where the code and its words disagree

* An event of a closed socket that is still in the batch is dispatched on the state
  of the socket that took its slot: a connection is announced that does not exist
  (run `tcp_stale`). It takes a pool whose cursor comes back to the slot within one
  batch; in `tcp_close`, where the pool never hands out such a slot, the same
  property holds.
* `cofd_send` and `_cofd_handle_write` register `fd->ud` where TCP and UDP register the
  object (run `io_fd`). With a `ud` other than the object, the first send sends the
  next event to the wrong address. `cort_fd_read` sets `ud` to a local, so a coroutine
  that reads and sends on an FD is exposed.
* `coset_intersect` (`co_set.c:334`) goes on from a node that the deletion before may
  have freed (run `set_intersect`): a node with two children takes the data of its
  successor, which is the next node and is freed in its place. It is documented as the
  intersection (`co_set.h:53-54`), and `README.md:115` says that memory was checked with
  valgrind. The test (`test/test_set.c:302`) only draws the result. The model
  stops there; `RedBlack` holds of the tree that the deletion left, and `KeepsSet` says
  that nothing common was deleted by then.
* `MAX_READ_BUF` is `(uint16_t)65536` (`co_ioservice.c:8`), which is 0, so that the first
  read that fills the receive buffer sets its size to 0 (run `recv_buffer`). With glibc
  `realloc` then frees the buffer and the next read starts with a new one of 512 bytes:
  it never grows. Where `realloc(p, 0)` returns a buffer, the next read asks for
  nothing, gets it, and the connection is closed with data unread.
* `cort_tcp_connect` (`co_routineex.c:123`) ignores the result of `cotcp_connect`:
  `co_routineex.h:27` says that it blocks until connected or unable to connect, and
  when the connect failed at once it never returns (run `routine_connect`).

Seen while modelling, with no run of its own:

* `cofalloc_newitem` (`co_falloc.c:43`) does not clear the flag of a recycled item, so that
  `cofalloc_isfree`, which `co_falloc.h:42` documents as telling whether an item was
  released, says so of an item in use, and `cofalloc_freeitem` refuses it, unless the
  user's data covers the flag, as that of the timer service does (`Filled`; the mutant
  of `HandlesUsable` is a user whose data does not).
* The write part of an event whose read part closed the socket is applied to the socket
  that took the slot, like a stale event: EPOLLOUT of a connection that is being made is
  turned off, and `fn_connect` is not called when it was made
  (`co_ioservice.h:100` says it is), unless the peer sends something. The instance of
  `tcp_stale` has such behaviors: `ConnectingIsWatched` does not hold in it.
* `cowf_loadwords` (`misc/co_wordfilter.c:62`) takes a last line of one byte without a
  newline for an empty line, and the word is not loaded, where
  `co_wordfilter.h:19` promises one keyword per line. A line of more than 255 bytes is
  added in pieces; the comment of line 60 says that keywords may be no longer.
  `WordFilter` has both, and `FilterExact` says nothing after such a file.
* `cobuffer_seek` (`co_buffer.c`) computes `size - pos` for a negative `pos`, which is
  beyond the end and clamped to the last byte, where `co_buffer.h:36` counts from the
  end: -2 is the last byte but one.
* In `co_routineex.c`, `cort_tcp_connect` yields once too often if the connection was made
  at once; `object->ud` is stale between two reads, so that data arriving while a
  coroutine sleeps, a failing `cotcp_send`, or a close of its own socket goes through the
  address of a dead local; a graceful close that has to wait frees the socket without
  calling `fn_close`, so that a coroutine reading it is never resumed. `CoRoutineEx`
  has all these steps, as what sets `missed`.

## What is not modelled

The end of services (`cots_free`, `coios_free`, `coloop_free`, `cofalloc_free`,
`cortenv_free`) and of most containers, which only releases memory; `coloop_stop`; the
kqueue half of `co_poll.h`; addresses and name resolution beyond success and failure;
`epoll_ctl` failing; allocation failing; machine stacks and registers
(`coctx_swap.S`), reduced to which context is loaded. The typed reads and writes of
`cobuffer_t`, `co_str`, `co_dnsutils`, `co_endian` and the hash functions of `co_dict.c`
convert bytes and keep no state between calls; an item of a container is a value here,
and a key has a hash. A character of the word filter has a width in bytes and is
decoded or refused as a whole; masks are characters of one byte, and zero bytes in
files or as a mask, which end a C string, are left out. `co_routineex`'s sleeps have no length: its milliseconds
are passed as ticks, which agree at the one-millisecond interval the tests use.

## Plan

Done, in the order of importance: the scheduler, the timers, the TCP service, UDP
and FD, the ring buffers, the blocking calls, the receive buffer, the other
containers and the word filter; proofs of the scheduler, the wheel and the timer
service, the TCP, UDP and FD services, the blocking calls, the ring, the heap, the
vector, the list, the dictionary and the word filter.

Next, the model: the loop, one module that composes the timers and the IO service as
`coloop_runonce` does, with `coloop_stop` from a callback; liveness of blocking calls
for programs that do nothing between two reads; `cobuffer_t` with its position; the
steps of `LinkedMap` tied to the arguments of the calls, as those of `KeySet` are, and
the loss of datagrams in `SendQueue` tied to a close.
