# Fibre: specifications and proofs

TLA+ models of the fibre workspace, the TLC configurations that check them, and
TLAPS proofs of the properties the rest stands on. Paths such as `v2.rs:689` are
relative to the crate the section is about, `channels/src`, `cache/src` and so on.

## The system and its models

Fibre is a workspace of six crates. `channels` has channels of every arity, the
locks under them and a left-right list; the other five use it. `cache` shards a
table behind the locks, loads what is missing and joins callers of one key;
`logging` sends events through bounded channels to writer threads; `stats`,
`tracing` and `ioc` keep small shared books.

| part | source | module | what a step is |
|---|---|---|---|
| SPSC ring | `spsc/shared.rs` | `SpscRing`, promise in `SpscQueue` | one access to an index or a slot; stores of an index reach the other side later |
| SPSC channel | `spsc/` | `SpscChannel` | one access or one critical section of the waiter slot; fences force stores out |
| oneshot | `oneshot/core.rs`, `mod.rs` | `Oneshot` | one compare-and-swap loop, one slot access, one wake |
| exclusive oneshot, pools | `oneshot/exclusive.rs`, `pool.rs` | `OneshotExclusive`, `OneshotPool` | the same |
| free list of a pool | `oneshot/pool.rs` | `Freelist` | one load or swap of the tagged head |
| wait list | `sync/wait_queue.rs` | `WaitList` | operators on a sequence |
| mutex, reader-writer lock | `sync/mutex.rs`, `rwlock.rs` | `HybridLock` | one access to the state word; what happens under the list spinlock is cut at those accesses |
| reader-biased lock | `sync/v2.rs` | `HybridRwLockV2` | the same, and one per access to a slot or to `visible` |
| left-right list | `internal/left_right.rs` | `LeftRight`, promise in `Snapshot` | one access to `live_idx` or a count |
| MPSC bounded | `mpsc/bounded_v3/` | `MpscBounded` | one access to tail, progress, drained, a slot, a queue |
| MPSC and MPMC unbounded | `mpsc/unbounded_v3/`, `mpmc_v2/unbounded/` | `SlabChain` with `MpscUnbounded`, `MpmcUnbounded` | swap of the head, link, pop, one critical section of the waiters |
| rendezvous | `internal/rendezvous.rs` and its handles | `Rendezvous` | one critical section; the state swap of a cancel is outside it, as in the code |
| MPMC bounded | `mpmc_v2/` | `MpmcBounded` | one critical section |
| MPMC experimental | `mpmc_exp/` | `Vyukov`, `WaiterSlab` | one access to a position or a stamp; one critical section of the parkers |
| SPMC broadcast ring | `spmc/ring_buffer.rs` | `SpmcRing` over `Snapshot` | one access to a tail, a slot, the parked producer's cell |
| topic channel | `spmc/topic/` | `Topic` | one critical section of a mailbox or a subscription list |
| cache shard | `store.rs`, `handles/`, `task/`, `policy/`, `hpolicy.rs` | `CacheShard`, `EvictionPolicies` | one critical section of the shard lock, and what a call does after it |
| S3-FIFO twice | `policy/s3fifo.rs`, `hpolicy.rs` | `EvictionPolicies` | the same call on both |
| loading | `loader.rs`, `shared.rs`, `handles/` | `CacheLoads` | one lock, flag or queue operation |
| loader threads | `task/load_pool.rs` | `LoadPool` | one counter or queue operation |
| iteration, calls that lock every shard | `iter.rs`, `snapshot.rs`, `clear` | `CacheIter`, `StopTheWorld` | one shard visited, one lock taken |
| statistics | `stats/src/` | `StatsBook`, `Histogram` | one critical section of the book; buckets are pure operators |
| logging | `logging/src/` | `LogPipeline`, `LogRoller` | one queue operation; one file operation |
| spans, container | `tracing/src/`, `ioc/src/` | `SpanTraces`, `Container` | one map operation |

A module has the state of its component as variables and one action per
operation, or, where threads interleave, one per step named above. Thread-local
progress is a program counter with the locals that survive a step. What a
program calls is a constant, `Clients`: a set of programs, one of which `Init`
picks, so that one run covers sync, async, batch, timed, cancelling and
converting callers. The `MC` modules give the constants values and put several
components side by side: `which` says what a behaviour is about, and the
variables of the others stay still.

Histories such as `swallowed`, `missed`, `overtaken`, `recvd` and the records
called `hist` are only read by properties.

### Memory model

Accesses interleave. The two SPSC modules add the delay of Release stores, since
the argument of that channel (register, fence, look again; push, fence, look at
the gate) is about exactly that. Elsewhere what matters goes through
read-modify-writes of one word, SeqCst accesses or a lock, and weaker reordering
is not modelled. `park` keeps one permit per thread and may return without
cause; a task is polled again after its waker fired, and in some programs
without that (`spurious`, `repoll`).

### What the models leave open

- How often a lock or channel spins before it sleeps: one attempt, which may
  fail although the lock is free (`LostRaces`), or a constant.
- How many fallback reads turn the reader slots on again (`HybridRwLockV2`).
- Which of two sketch estimates is larger (`EvictionPolicies`), so the policies
  hold for every sketch.
- Whether time passes between two steps, up to a bound.
- Values and names: an item is its sender and number, a file name is what it
  parses to.

## Runs

Twelve runs: eight pass, four end in a violation that shows a disagreement of
the code with its own text (see below).

| run | module | distinct states | what it shows |
|---|---|---|---|
| `spsc` | `MCSpsc` | 661 k | `RingSafe`: indices ordered modulo the word, no slot read before its item shows or written before it was read, no reserved push refused, nothing left after drop. `ImplementsQueue`: the ring implements `SpscQueue`. `NobodyForgotten`: no side sleeps past what it waits for, no flag of a returned call is registered. `DrainedBeforeDisconnected`: Disconnected only after the last item |
| `oneshots` | `MCOneshots` | 1.05 M | `ValueHasOneOwner`, `PendingIsWoken` of `Oneshot`. `SlotsSafe`: the same of the exclusive and the pooled channel, a slot has one owner, the storage outlives the channels, all slots return. `IsAStack`: every step of the free list is one of an atomic stack, and `pop_chain` gives up only when too few slots are free |
| `locks` | `MCLocks` | 262 k | `Exclusion`, `ListSafe` (live nodes, a wake is owed), `NoReaderOvertakes`, `EveryoneGetsIn` for mutex and reader-writer lock. `BiasedSafe`: exclusion, exact counts and an owed wake for the reader-biased lock |
| `returns` | `MCReturns` | 116 k | `CallsReturn`: sends, receives, acquisitions and modifications that can return do. `NobodyReadsTheWritten`, `ImplementsSnapshot` of the left-right list |
| `rings` | `MCRings` | 814 k | MPSC bounded, broadcast ring, topics: `SlotsSafe`, `AwakeExact`, `NobodyForgotten`, `SubscriptionsAgree`, `DeliveredOnce` |
| `channels` | `MCChannels` | 1.02 M | unbounded MPSC and MPMC, rendezvous: `SlabsSafe`, `NobodyForgotten`, `HandedOver`, `DeliveredOnce` |
| `mpmc` | `MCMpmc` | 691 k | bounded MPMC, experimental MPMC, its waiter slab: `NobodyForgotten`, `WaitersSound`, `DrainedBeforeDisconnected`, `SlotsExclusive` |
| `libraries` | `MCLibraries` | 853 k | the other crates: `LoadsKept`, `NoWaiterForgotten` (loading), `ShardConsistent`, `CapacityHolds`, `ExpiryInTime` (shard), `TwinsAgree`, `StableSeen`, `NobodyStuck` (locking every shard; the loader pool), `StatsFaithful`, `EventsDelivered`, `ResolvedWhole` |
| `locks_dropped` | `MCLocks` | violation | a writer beside a reader after a draining write future was dropped |
| `rendezvous_cancel` | `MCChannels` | violation | a value handed to a waiter that has cancelled |
| `mpmc_finished` | `MCMpmc` | violation | a `recv_timeout` that reaches its `unreachable!` |
| `cache_costs` | `MCLibraries` | violation | a shard above its capacity after an entry became lighter |

Every property of a passing run fails once a mapped definition is replaced by
the mutant that `PROJECT.json` names for it: a dropped guard, a missing fence or
reset, an off-by-one, a swapped order. The mutants are the definitions called
`Mut...`, just before what they change.

### Bounds

- The ring has capacity 3 in a buffer of 4 and indices modulo 8: the capacity is
  not the buffer, and the indices wrap twice per buffer.
- Channels have capacity 1 or 2, so that they are full and empty at every item,
  and batches of 2, which do not fit at once. Slabs have two nodes and are
  recycled after two items; the pool keeps one.
- Two senders and two receivers: one that is served and one that is overtaken.
  Three senders of a oneshot: two that race and one that clones or leaves.
- Three callers of a lock: a holder, a sleeper and one that barges or cancels.
  The budgets let two of them come twice, so that a late wake of the first round
  meets the second.
- Four swaps of the free list are enough for a slot to be popped, pushed back
  and popped again under a reader. The tag does not wrap (`MaxSwaps`).
- The cache has three keys of cost 1, 1 and 2 under a budget of 2 or 3: an insert
  can need two victims. Under the policies the cost of a key changes from insert
  to insert, in both directions and to more than the budget. The wheel has two slots of two ticks, lifetimes are below
  and above a turn. Two keys share a hash in the runs with timers.
- A histogram word has 8 bits: every value is a first value, and later values
  are taken from the edges of buckets.
- The statistics' clock steps back once, by more than the interval of a collector.
- The log writer's flush interval and receive timeout are two ticks each, and the
  clock runs to four: a byte may be too old by the bound of `NeverFarBehind`.
- Three callers lock every shard, all sync, all async, and mixed both ways.
- The roller writes four or five records, dies once and fails once; a sequence
  of records on both sides of both is what `LogsInOrder` is about.

Deadlock is checked except in `locks`, `returns` and `libraries`, where callers
stop when their budget is used up. The other runs say `Quiet` where a state in
which everybody sleeps or has returned is not a deadlock, and the properties say
what such a state may look like.

### Fairness

`CallsReturn` and `EveryoneGetsIn` are the temporal properties. A thread inside
a call runs on and a woken task is polled: weak fairness of each caller's steps,
and nothing is assumed of callers that have not called. The locks assume strong
fairness of each caller: others take the list spinlock and the word again and
again for a few instructions, and nobody is denied them for ever; guards are
dropped. Acquisitions are finite, since both locks allow barging and an endless
stream of it starves anybody.

## Proofs

The theorems hold for every value of the constants, not only the ones the runs
use. `tlapm` checks them to the last leaf; nothing is assumed but the `ASSUME`s
and theorem hypotheses named here.

### The SPSC ring (`SpscRingProofs`)

Assumed: the capacity is at most the buffer, and the buffer divides the range of
the index. `TypeCorrect`; `RingIsSafe`, for `RingSafe`; `Refinement`, for
`ImplementsQueue`. The order of the indices is not inductive. A store of an
index needs to know that the push (pop) decided on a cached value that still
proves a free place (an item): `SpaceProved`, `ItemProved`. That a slot is
initialised exactly when a live position maps to it (`SlotContents`) rests on
these. The refinement maps the items between the two indices to the queue; a
store that becomes visible is a `Show` or a `Refund` of the queue.

### The oneshot (`OneshotProofs`)

For any finite set of senders and users of the receiver. `TypeCorrect`;
`OwnershipHolds`, for `ValueHasOneOwner`; `NoLostWakeup`, for `PendingIsWoken`.
`TypeInv` ties each handle to its place in the code and counts them; `SlotInv`
says that the phase tells who may touch the slot and whether it is full;
`FateInv` says where each value is; `WakeInv` has a sender on its way for each
way in which a wait can end. `NoLostWakeup` assumes one user of the receiver:
with two it is false (`mod.rs:274`, below).

### The locks (`WaitList`, `HybridLockProofs`)

`WaitList` proves what linking, unlinking and searching do to a list without
repetitions; both lock proofs use it. For any finite sets of threads and tasks,
any budgets, mutex and reader-writer lock: `TypeCorrect`; `MutualExclusion`, for
`Exclusion`; `NobodyIsForgotten`, for `ListSafe`; `WritersComeFirst`, for the
action property `NoReaderOvertakes`. `ListInv` adds that a list that is not
empty shows in HAS_QUEUED and that WRITER_PENDING is exact. That a wake is owed
is not inductive: when the one queued writer is dropped in its sleep, a reader
that sleeps behind it must not have been counting on it, so `WakeInv` asks for
an awake writer while a writer is queued.

### The reader-biased lock (`HybridRwLockV2`)

For any number of slots, finite sets of callers and assignment of slots.
`GuardsExclude`: `Exclusion`, as long as no write future is dropped while it
drains (`"drain" \notin Drops`); without that hypothesis the run `locks_dropped`
refutes it. `CountsAreExact`: the counts of readers, of each slot and of pending
writers are exact, whatever is dropped. Both are conjuncts of `BiasedSafe` in
the run `locks`.

The inductive invariant: a place in the code goes with a wish and with where the
guard is (`PlaceInv`); the list lock covers the steps between linking and
sleeping (`SectionInv`); one writer has the inner lock, and the readers it
counts are backing out (`InnerInv`); a guard that is confirmed in a slot is
ahead of the writer that scans, and slots that are off are empty but for those
(`SlotInv`, the part a dropped drain breaks); who is linked follows from its
place (`LinkInv`), which gives the count of pending writers. Counts are
cardinalities, and a step moves at most one caller in or out of a counted set.
What this takes of finite sets is stated as `Counting` and proved once, in
`CountingHolds`, from the library's theorems: with these in the context of every
lemma the provers take twice as long. `CardinalityFacts` below is the same.

### The left-right list (`LeftRight`)

For any set of readers and members. `Invariance`: each count is the number of
guards on its copy, a guard that stays is on the live copy except while the
writer drains, and the copies differ by the one closure one of them has not
seen. `WritersAreAlone`, for `NobodyReadsTheWritten`; `Refinement`, for
`ImplementsSnapshot`: the successful re-check takes the guard, the store of
`live_idx` publishes.

### Loading (`CacheLoadsProofs`)

For any finite set of callers, any keys, any number of loads and any limit on
concurrent refreshes, under sync and async loaders that return, panic or are
dropped. `TypeCorrect`; `LoadsAreKept`, for `LoadsKept`: one loader runs per key,
a load that can be joined has somebody who ends it, and no refresh is stranded in
the queue nor a slot of the limit leaked; `NoWaiterIsForgotten`, for
`NoWaiterForgotten`, where no program both drops loader tasks and cancels waiting
callers (with both it is false, see below).

`ShareInv` ties the table of pending loads to the state of each load: who is
pending is not started, running or dropped, and who runs is pending. `PumpInv`
says that one thread at a time starts refreshes, that the flag tells so, and that
it holds a refresh exactly between taking and starting it. `SlotInv` counts the
slots in use as the refreshes that run and the one the pump holds, and the queue
as the waiting refreshes and those whose callers are about to count them; while
some wait and a slot is free, somebody is on the way into the pump. `WaitInv`
says that whoever holds the mutex of a load is about to release it and looks at
`dropped` again, which is what a drop that found the mutex taken relies on.

### What is only model-checked

- Liveness (`CallsReturn`, `EveryoneGetsIn`): the prover has neither fairness nor
  ENABLED.
- `WakeOwed` of the reader-biased lock, `DeliveredOnce`, and the sleeping
  properties of the other channels: their inductive invariants enumerate program
  counters of callers written as sequences of labels (`todo`), where each of many
  call kinds needs its own cases. TLC visits them all in the programs listed.
- What folds and recursive functions compute: the policies, `CacheShard`, the
  histogram, retention of the roller, `Longest` of the logger table. A proof
  would need induction over data.
- The components with long histories: `StatsBook`, `LogPipeline`, `LogRoller`,
  `SpanTraces`, `Container`, `CacheIter`, `StopTheWorld`, `LoadPool`.

## Where code and text disagree

Shown by a run:

- `locks_dropped` (`WriterIsAlone`). A write future of the reader-biased lock
  that is dropped while it drains unlocks with `visible` off and readers in their
  slots. The next writer takes slots that are off for empty ones (`v2.rs:737`),
  against "Slots are off and empty unless `visible` is set" (`v2.rs:689`).
- `rendezvous_cancel` (`CancelIsFinal`). A cancel swaps the state before it takes
  the lock, and a peer that holds the lock hands over all the same
  (`rendezvous.rs:610`, `:627`), against `rendezvous.rs:69` and `:53`. The value of
  a send that said Ok is dropped with the waiter.
- `mpmc_finished` (`FinishedMeansItem`). A `recv_timeout` whose deadline passes
  after it was woken, and whose item another receiver took, reaches
  `unreachable!` (`sync_impl.rs:433`).
- `cache_costs` (`CapacityAsDocumented`). FIFO keeps the cost a key was first
  inserted with (`fifo.rs:35-39`). With a capacity of 3, after a=3, a=1, b=2 the
  insert of c=2 evicts a for the 3 it no longer weighs, and the shard is left at 4,
  against `store.rs:229-231` and `policy/mod.rs:49-51`.

The following were met while modelling. The passing runs are set up so that they
do not hide anything else: the programs avoid the call, or the property excludes
exactly that case (the history it names says when).

### Sleeping past something

- MPSC bounded: `poll_recv` publishes its progress, registers and looks again
  (`consumer.rs:476`). When the second look consumes only tombstones of senders
  that overshot, it returns Pending with drained progress it has not published
  (`consumer.rs:512`). Trace: capacity 1; a sender overshoots and leaves a
  tombstone between the two looks; the window the senders see is still full, the
  next sender sleeps on it, and the receiver sleeps on an empty ring.
  `NobodyForgotten` allows a sleeping sender only while there are values or
  unpublished progress (`H.unpub > 0`).
- MPMC unbounded: one notify wakes one waiter (`shared.rs:225`), also for a batch,
  and a notified waiter that times out or is cancelled (`shared.rs:564`) does not
  pass the wake on. Trace: two receivers wait, a batch of two is sent, one is
  woken, takes one item and does not come back; the other sleeps beside the
  second. Or: one item is sent, the woken receiver times out at that moment, and
  the other sleeps beside the item. `NobodyForgotten` says that not all sleep
  unless a wake was `swallowed`.
- MPMC bounded: a woken future that is dropped swallows the wake, and a wake may
  go to an entry that a receive left behind (below). `swallowed` records both; a
  waiter may then sleep beside an item or space, and a receiver may hear
  Disconnected while an item is left that nobody else was woken for.
- MPMC experimental: a wake can go to a waiter that cannot yet reach the item,
  because an earlier position is claimed and not stamped (`core.rs:516`, against
  `core.rs:27-29`); it sleeps again, and nobody is woken when the stamp comes
  (`missed`).
- Reader-biased lock: the single compare-exchange of a queued writer
  (`v2.rs:217`) fails when a dropped write future changes the word, and the
  writer sleeps on a free lock. The runs drop no queued write future.
- Oneshot: a pending receive is not woken when another user of the same receiver
  closes it (`mod.rs:274`).
- Topics: a receiver without a subscription is on no list of the dispatcher and
  is not told that the sender left (`topic/sync_impl.rs:107`, against `:168`;
  history `late`).
- Loading: a drop of the load's task that finds the load's mutex taken leaves it
  to the holder to finish the load (`loader.rs:61-62`, `:101`). When the holder is
  a waiter that is cancelled before it looks again, the others sleep for good,
  against `handles/futures.rs:821-823`.

### Handles that were closed or released

- SPSC: `to_async` and `to_sync` of a closed handle make one that does not know
  it was closed (`bounded_sync.rs:66`), so its drop gives the count up twice. The
  same holds of `mpmc_v2` and SPMC handles. The sync `send_batch` does not look at
  the flag of its own handle (`bounded_sync.rs:189`): after `close` it still
  sends, and a receiver that heard Disconnected finds an item. The programs ask
  neither of a closed handle.
- Pooled oneshot: a sender publishes and wakes in two steps. In between, with the
  pool handle dropped, the receiver can take the value, retire the slot and, as
  the last, free the storage; the wake then touches it (`pool.rs:85`, against
  `pool.rs:11` and `:163`). `SlotsSafe` covers every other access.
- Oneshot: a send on a clone of a closed sender reports Sent although nothing was
  sent (`core.rs:205`); the phase goes back from WRITING to EMPTY on a rollback,
  against "strictly monotonic" (`core.rs:11`).
- SPMC: a clone copies the tail and registers the copy in two steps
  (`ring_buffer.rs:1060`). When another thread receives through the same handle in
  between, the clone is a lap behind, against `:407`. The programs of the run do
  not share a receiver between threads (`shared`).
- MPMC bounded: two receives return with their entry still queued, a raw pointer
  to a state on a stack frame or in a future that is gone. A `recv`, `recv_batch`
  or `recv_batch_mut` future that is polled while it still waits (a second branch
  of a select, or a wake meant for an earlier future of the same task) tries the
  ring first; when it finds an item, or the senders gone, it resolves and clears
  `is_registered` without unlinking (`async_impl.rs:578-586`, `:748-752`). A
  `recv_timeout` that is told CLOSED tries once more and returns
  (`sync_impl.rs:443-447`). This is against `async_impl.rs:768` ("Eagerly unlink
  the waiter so the future's memory can be safely freed.") and against what the
  tests at `mod.rs:1346-1349` and `:1462-1465` assert for other schedules. The
  model turns such an entry into one whose state reads as anything, and
  `WaitersSound` says that these two cases are the only ones (history `strays`),
  and that senders leave none. The `recv_timeout` of the experimental channel
  leaves its entry in one case too, but there is no pointer in it.
- MPMC bounded: `recv_timeout` does not look at `closed` (`mod.rs:515-517`): on a
  closed handle it still receives, against `mod.rs:521-522`. The model does the
  same, and one program of the run closes a receiver and goes on.
- Topics: `close` of a receiver drains its record of topics before it calls
  `unsubscribe`, which then finds nothing to do (`topic/sync_impl.rs:294-302`).
  The closed receiver stays on the dispatcher's lists until its storage goes,
  against `sync_impl.rs:275-276`; `SubscriptionsAgree` counts these lists (`left`).
  The async `close` does not stop the drop behind it from giving the count up
  again (`topic/async_impl.rs:227-248`, `:319-335`), and a conversion forgets that
  a handle was closed. The count of receivers is then too low, or wraps; a `send`
  can be refused with a receiver open. `SubscriptionsAgree` has the exact
  difference (`astray`).
- MPSC rendezvous: two concurrent receives overwrite each other in the one-slot
  store. One thread receives in the programs.

### Limits and words

- Widths: pending writers have 8 bits (`v2.rs:41`), the tag of the free list 32.
- MPSC bounded: an async send with a run of more than 128 can pend on a drained
  channel until the next receive; `Full` on the cold path need not mean full
  (`shared.rs:353-355`); two senders can tombstone each other without bound
  (`mod.rs:4-6`); the batch sends return on a closed channel without giving back
  their awake count (`producer.rs:285-290`, `:355-357`); not only the consumer
  notifies (`shared.rs:247-248`).
- MPMC experimental: `mod.rs:84`, `:101` and `:234` say that the capacity is
  rounded up, `core.rs:64-66` keeps the requested one, and so does the model.
- ARC: a victim that `replace` moves to a ghost list stays in the table
  (`arc.rs:132`), and no later eviction can name it, against `store.rs:231`.
  `CapacityHolds` excludes ARC.
- Other policies that lose the capacity when the cost of a key changes: FIFO, CLOCK
  (`clock.rs:68`) and SLRU (`slru.rs:146`) keep the first cost of a key; SLRU and
  TinyLFU take one from a read that was put off behind an insert; HTinyLfu evicts
  nothing from its window, so that an entry made heavier than the budget there
  stays (`hpolicy.rs:305-318`). `CapacityHolds` says that LRU, Random, SIEVE and both
  S3-FIFOs always hold it, and the others unless the policy believed an entry
  heavier than it was or HTinyLfu has an entry heavier than the budget.
- `clear` and `to_snapshot` of the async handle keep the shard locks they get while
  they wait for the rest (`handles/futures.rs:432-435`, `snapshot.rs:171`); the sync
  ones take them in order (`snapshot.rs:119-125`). Two async calls, or an async
  and a sync one, can wait for each other for ever. `NobodyStuck` says that every
  such circle has an async call that holds a lock ahead of its turn; sync calls
  alone never make one.
- Loader pool: two submits that count in one order and look in the other leave
  two jobs to one worker; a worker that timed out may take a late job while its
  replacement runs, so that more than MAX_WORKERS run (`task/load_pool.rs:7`). The
  refresh queue may hold a key twice (`shared.rs:21-22`).
- `Iter` may miss or repeat stable entries after a write, since it counts
  positions; a cancelled `AsyncSnapshotIter::next` skips a key or a shard
  (`iter.rs:392`, `:413`). A timer may be late by less than a tick
  (`timer.rs:63-64`); after `clear` a stale node id can name a new node
  (`hpolicy.rs:6-7`); a window-resident re-insert differs between the two TinyLFUs
  (`hpolicy.rs:216-217`).
- Statistics: after the clock steps back the collect thread goes on waiting until
  an entry is due by the clock (`stats.rs:785-790`) and does not reach `run_due`,
  which would pull the entry in (`:808-811`). It waits out the whole step, against
  `:809` ("Without this the collector waits out the step.") and
  `API_REFERENCE.md:342`. `CollectorsOnTime` allows the interval and the step, and
  after a host's own `collect_due` one interval.
- Container: two threads that resolve singletons in a circle wait for each
  other's cell (`core.rs:91`), where `README.USAGE.md:298` promises a panic.
  `ResolvesRight` says that without a circle nobody panics or waits in one. It is
  about one container; RESOLVING_STACK is shared by all of a thread (`core.rs:12`).
- Logging: a non-additive logger without appenders does not gate
  (`processor.rs:76-78`); an event accepted between the writer's last drain and
  the close of its channel is lost. That drain ends at the first slot in flight
  (`init.rs:509`, `bounded_v3/consumer.rs:202-204`, `shared.rs:1020-1021`), so that
  sends behind it are lost even when they returned before the shutdown, against
  `init.rs:508`; `EventsDelivered` excuses exactly these (history `behind`). A
  byte can wait for up to the flush interval and the receive timeout together
  (`init.rs:481`, `:491`), against `init.rs:423-424`. A thread held up between winning
  the right to report drops and reporting them subtracts a later, larger total
  (`actor.rs:106-111`). Roller: a failed rename leaves the writer on
  a null device; a file that was never made, or half compressed, counts as a file
  in retention; among the excess the newest goes first, so that a crash leaves a
  gap; a prefix also matches the files of an appender with a longer name.

## Not modelled

`PROJECT.json` lists every part with what is left out. In short: configuration,
parsing, text encoders, definitions of metrics, readings from the operating
system, the single-threaded container, the unsynchronised ring and error types,
which have no concurrent state; lengths and other approximate queries; values
changed in place by `compute`; the `Stream` of the MPMC receivers; memory orders
weaker than what is said above.
