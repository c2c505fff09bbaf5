# allocazam: TLA+ models, checks and proofs

The repository is a C++ memory allocator library: a fixed-size node pool, an
allocator of variable-size runs, an exclusive single-block resource, and a
`std`-style allocator that puts them behind containers and gives every thread a
state of its own. This directory holds models of the library and of one program
that uses it under load, the TLC runs that check them, and proofs that TLAPS
checks. `PROJECT.json` lists components, runs,
mutants, source lines, hazards and theorems in machine-readable form.

## 1. Inventory

### Node pool: class `allocazam` (lib/allocazam.hpp, chunks in lib/types.hpp)
* **State**: `_size`, `_capacity`, `_next_growth`, `_free_head`, the chunks, and
  with owner headers an atomic `_remote.head`. The link of a free or parked node
  is the first word of its own storage.
* **Operations**: three constructors (eager, lazy, caller's buffer), `allocate`
  (pop; else drain, first chunk, growth or failure), `deallocate`, `remote_push`
  (any thread, lock-free), `_drain_remote`, the destructor (drain, then assert
  `_size == 0`), defaulted moves (pools without headers only).
* **Hard**: pushers race each other and the owner's exchange; the link word is
  written by a pusher, read and overwritten by the drain and then given to the
  user; growth can be refused after its size was already stored.
* **Correct when**: no node is lost, listed twice or handed out while somebody
  has it; `_size` is exact; a call never fails or grows while parked nodes could
  have served it; a fixed pool keeps its budget; the destructor's assertion is
  neither spurious nor silent; calls return and pushes make progress.

### Run allocator: `runner::allocator` (lib/runner.hpp)
* **State**: chunks of runs with headers (size, free, previous-free), footers of
  free runs, 536 bins (512 linear, 24 logarithmic) and a bitmask, growth and
  deferred sizes, counters, and an atomic stack of parked payloads.
* **Operations**: `allocate_bytes` (find, drain and replay, deferred chunk, grow),
  `deallocate_bytes` (merge both ways), `expand` (absorb the next run, split
  again), `remote_push`, `owner_of` and `owns_run` (reads).
* **Hard**: a footer is only meaningful while a flag in the *next* header says so;
  every split and merge touches three runs, two bins and a counter; a parked run
  is replayed into a neighbourhood that has changed since.
* **Correct when**: the runs tile each chunk; free neighbours are merged; tags,
  bins and bitmask are exact; the search returns only and finds all fitting runs;
  a run in use never moves or shrinks; a growth satisfies its request.

### Exclusive resource and allocator (lib/exclusive_resource.hpp, lib/allocazam.hpp)
* **State**: the block (usable bytes, alignment) and a ledger of the one claim.
* **Operations**: `claim`, `release`, `expand`, reached from `allocate`,
  `allocate_at_least`, `deallocate`, `expand` for any value type.
* **Hard**: bytes against elements, several value types over one ledger,
  boundaries of `max_size()`.
* **Correct when**: ledger and caller agree; whatever a caller may rightly release
  is accepted; `max_size()` is exact.

### Suballocated `std` allocator (lib/allocazam.hpp)
* **State**: mode (default, explicit state, runner override), one lazily created
  state (pool + runner) per thread and value type, a push-only registry of them.
* **Operations**: allocation from the calling thread's state, frees routed to the
  owner found in a granule header or run header, `expand` with a classifier.
* **Interaction**: calls pools and runners directly for local memory and through
  `remote_push` for foreign memory.
* **Correct when**: every free reaches the owner, only the owner's thread mutates
  a pool or runner, and threads that only free create no state.

### Thread-local run cache (lib/allocazam.hpp)
* **State**: per thread, 256 classes of cached runs with a count and, in each run,
  its owner. **Operations**: pop for the owner, refill in batches of 4, push with
  drain from 32 to 16, drain all on failure, flush at thread exit.
* **Hard**: foreign runs ride in the cache; refills may throw half-way; frees can
  come after the flush.

### Granule layout, checked arithmetic (lib/types.hpp)
Pure functions: node addresses within granules, the header found by masking,
`contains`, checked sums, products and roundings.

### Owned memory, chunk objects, page size (lib/owned_memory.hpp, lib/types.hpp, lib/runner.hpp, lib/allocazam.cpp)
* **State**: the regions obtained from the system; in each chunk object, list node
  or owner the address, length and alignment needed to give its region back.
* **Operations**: construct, stamp, move, assign and destroy chunks; add chunks to a
  runner's list and release the list; construct and destroy an owner of memory from
  `operator new[]` or of huge pages.
* **Hard**: memory must be returned once, by the right call, with the alignment it
  was obtained with; a refused mapping must leave no list node behind.

### Cross-thread free benchmark (bench/cross_thread_free_benchmark.cpp)
* **State**: two barriers, a one-slot channel per pair, the producers' pools.
* **Operations**: producers allocate and publish batches, consumers take and free
  them (which parks them at the producer's pool), main joins and goes on to more pairs.
* **Correct when**: the sweep ends, every node comes home, and a producer's pool is
  bounded by what is in flight.

## 2. Plan

Done, in this order:

1. `NodePoolContract`, `NodePool`, `NodePoolProofs`: the lock-free remote free,
   the centre of the design; refinement of the contract; inductive proofs.
2. `Runner`, `RunnerContract`, `RunnerProofs`: the boundary-tag structure, what it
   promises, and that it keeps the promise.
3. `ExclusiveResource`, `ExclusiveResourceProofs`.
4. `GranuleLayout`: `at`, `contains` and masking, for all sizes; `Backing`: who owns
   the memory, over the layout; `BackingProofs` about both.
5. `StdAllocator`, `StdAllocatorProofs`: threads, states, registry and routing.
6. `RunCache`, `RunCacheProofs`: the thread-local cache, with refills that throw and
   thread exit.
7. `PoolMove`: moves of pools without headers.
8. `CrossThreadFree`, `CrossThreadFreeProofs`: the program that drives remote frees
   from many threads.
9. `LinkedListProofs`: null-terminated lists, for the pool's lists and the registry.
10. `AllocatorContract`: what the suballocated allocator promises the threads of a
   program; `StdAllocator` and `RunCache` both implement it, with proofs.

Nothing of the plan is left. Every invariant, action property and refinement of the
passing runs is a theorem; what remains with TLC is said at the end of section 5.

## 3. Modules and how they correspond to the code

**`NodePool`**: each atomic access to the remote head is a step: `PushLoad`,
`PushLink` (the plain store into the node), `PushCas` / `PushCasFail`,
`DrainExchange`. Each iteration of the drain loop is a step (`DrainStep`), since
the model must show that a pusher at work in between does no harm. What the owner
does between two such points touches only memory no other thread may touch, so it
is one step: `AllocateHit`, `AllocateMiss`, `FirstChunk`, `Grow`, `Deallocate`.
`opc` and `push[t].pc` are program counters. A node is named by the order in which
it was carved, so `next` is a function on `0..MaxNodes-1`; a node in the user's
hands has link `Junk`. `holder` is the callers' state and `Handoff` (a program
passing an object between threads) is the only action that models code outside the
library. `where` and `owed` are history: no guard reads them. A chunk of k slots
has k nodes (chunk_t sets `count = sz`); a chunk may be granted while it fits in
`MaxNodes` and may be refused at any time. Memory is sequentially consistent in the
model: the only cross-thread data are a node's link and payload, published by a
release compare-exchange and read after an acquire exchange of the same atomic;
intermediate compare-exchanges continue the release sequence.

**`NodePoolContract`** says what is promised without lists: slots are raw, idle,
held or returning. `NodePool` maps *pushing*, *parked* and *walk* to returning.

**`Runner`**: addresses and sizes are bytes with the code's constants (16-byte
headers, 48-byte smallest run, split at 112). `mem` holds headers, footers, bins
and bitmask as partial functions; words that the code leaves behind as garbage are
removed from them, so that a read of such a word would stop TLC. The operators
`Occupy`, `FreeRun`, `AbsorbNext`, `InitializeFreeRun`... are the C++ functions
with the order of their writes kept. The order inside a bin is not tracked: where
the code takes a bin's head, any member may be taken, which covers every order.
The remote stack is a set, since its protocol is that of `NodePool`; `Replay` takes
parked runs in any order, which covers the stack's. Chunks are mapped side by side.

**`ExclusiveResource`**: the ledger is modelled exactly, `block` is what the caller
was told. A caller may release with any whole number of elements between what it
asked for and what it was told. Refused calls change nothing and are not steps.

**`RunnerContract`** says what `Runner` promises, with relations between two
states: chunks are mapped apart, a run lies in a chunk, has the room asked for and
shares no byte, widens only in place, ends when it is freed here or reclaimed after
a free elsewhere, and `live_bytes` is exact. `Runner` implements it.

**`StdAllocator`**: `tls`, `registry` and `rnext` are `_tls_state`,
`_state_registry` and `registry_next`; publishing a state is a step per atomic
access (`NewState`, `Link`, `Cas`, `CasFail`, `SetTls`). Pools and runners are sets
of free and parked blocks. A call enters one in one step (`pc = "inside"`) and has
its effect in another, which is how two threads in one unsynchronized structure
would show; which structure it enters is computed as the code computes it: from the
thread's state, the allocator's mode, the header before the memory. The word that
`expand` probes before a pool node is arbitrary. Allocators bound to an explicit
state, and those rebound from them, are kept to one thread, as the program must.

**`RunCache`**: size classes, the singly linked classes as sequences, `stamp` for
the owner word in a cached run. `AllocateHit`, `AllocateMiss`, `Refill`,
`RefillThrows`, `DrainAll`, `Retry`, `RetryFails` are the branches of
`_allocate_from_tls_run_cache`; `ServeDirect` and `AllocateFails` are what `allocate`
does past the cache, for the last attempt of a cacheable request and for every
request above the cutoff. A refusal (`Refused`) ends the call and changes nothing else,
so for a call that had not begun to drain it is a step that leaves the state as it
was; the property about it is an invariant of the states where a refusal is due.
`Flush` is `~tls_run_cache`, and a thread may still allocate and free after it. A
runner is a supply of slots that drains its remote stack when it is full. `lost` and
`late` are history: the runs that fell to the two known cases below. The drain of the
whole cache and the flush at thread exit are one operator, `TakeOut`, which empties
classes and returns each run to its owner.

**`AllocatorContract`** says what the two modules above promise together, without
pools, headers, registry or caches: which thread has a block (`has`) and in which
place it was carved (`origin`). A block is served from a place that the asking thread
may work in and that is nobody else's block; it stays where it belongs while anybody
has it; any thread may give it back, but only a thread of its place reuses or unmakes
it. The actions are relations between two states, so that carving, refills and drains
are left to the implementation. In `StdAllocator` a block is had by its holder
until its free has taken effect or parked it; the places of a thread are
its own pool and runner and those of the explicit states confined to it (`Hands`,
`Origins`, `PlacesOf`). In `RunCache` a place is a thread's runner, and a run belongs
there while the runner records it as given out: held, cached by whichever thread,
parked or lost.

**`GranuleLayout`** is the arithmetic of `node_t` and `chunk_t` as operators on a
layout (node size, header offset, granule size). **`Backing`** is `chunk_t`, the
runner's chunk list and `owned_memory`, one of them at a time, over a heap of
regions with the way each was obtained; the system may place a region anywhere that
is aligned and free, or refuse.

**`PoolMove`** has two pool objects without headers; a move empties the chunks of
its source and copies the rest, as the defaulted members do.

**`CrossThreadFree`**: barriers, channels, joins and the sweep over pair counts as
in the program, over pools that are counts of free and parked nodes. `PairCounts` is the sequence
that `build_pair_counts` makes by doubling, given in closed form. Its runs with
`std::allocator`, timing and output are left out.

`MC*` modules give model values and symmetry.

## 4. Runs

| run | what it checks | bounds and why they are enough |
|---|---|---|
| `node_pool` | `PoolInv`, `ListsExact`, `HandoutSafe`, `DestructorAssert`, `DrainBeforeFail`, `FixedBudget`, refinement `ContractSpec` | an owner and two pushers (two pushers conflict with each other and with the exchange), 4 nodes (a stack of three with one in flight), pool sizes 1 to 4 (3 is accepted only for a caller's buffer), `SizeMax` 7 so that doubling overflows; the two pushers are symmetric |
| `node_pool_liveness` | `CallsReturn`, `PushesProgress` | 3 nodes, no symmetry |
| `runner` | `RunsTile`, `Coalesced`, `BoundaryTagsExact`, `BinsExact`, `UsedRunsAccounted`, `DrainBeforeFail`, refinement `ContractSpec` | two 256-byte pages, either of which the system may refuse, or a backing of 64 or 330 bytes (the smallest legal one, and one whose end must be aligned down); requests 0, 100, 200 give remainders below, at and above the split threshold, whole-run grants and up to five runs |
| `runner_large` | `FitsAreLargeEnough`, `NoFitOverlooked`, `GrowthSuffices`, `UsedRunsAccounted` | requests above 4096 share logarithmic bins with larger and smaller runs; 8170 needs more than one page with its epilogue; 1048570 is 5 below the largest `size_t` (20 bits wide here) and is refused by the overflow test |
| `runner_liveness` | `CallsReturn` | one page |
| `exclusive` | `LedgerInv`, `MaxSizeExact`, `ClaimOnlyWidens` | four value types, one aligned beyond `max_align_t` and one whose size divides few capacities |
| `std_allocator` | `OneThreadInside`, `BlocksGoHome`, `RegistryComplete`, `CallsReturn`, refinement `ContractSpec` | two threads (each the other's foreign owner, both creating states at once), one explicit state, two blocks (one in flight while the other is carved or freed), counts 1 (a node) and 2 (a run, and the most that `allocate_at_least` may ask for), which are all that the routing tells apart; no symmetry, because of `CallsReturn` |
| `run_cache` | `NoRunLost`, `RoomForRequest`, `CacheBounded`, `OwnerOnly`, `FailureIsHonest`, refinement `ContractSpec` | two threads with two runs each, two classes and one size above the cutoff, batch 2, watermarks 2 and 1: refills, drains at the watermark, exhaustion with memory in the cache, met by cacheable and by larger requests, exits with foreign runs cached; in the fixed and the dynamic mode |
| `backing` | `OwnedOnce`, `LayoutExact` | three chunk objects (source, target and bystander of a move), two list nodes, types below and above pointer size and alignment, one aligned beyond the granule header; pages of 32 and 64 bytes, 1024 bytes of memory; sizes that overflow a 9-bit `size_t` |
| `cross_thread_free` | `EveryNodeBack`, `FootprintBounded`, `SweepEnds` | up to two pairs, four batches (producer a batch ahead, one in the slot, one being freed, one to come back) |
| `runner_bin_comment` | violated: `LogBinsAbove2KiB` | see findings |
| `pool_move` | violated: `AssertOnlyOutstanding` | see findings |

`SizeExact` and `NoAssertFires` are conjuncts of `PoolInv` and of `LedgerInv`.

Every property has a mutant of the code's definition that breaks it (an `as`
operator next to the definition it changes; `PROJECT.json` pairs them).

**Fairness.** `NodePool!FairSpec`: a thread inside a call keeps taking steps (weak
fairness per thread, as any scheduler gives a running thread), and a weak
compare-exchange whose expectation is right again and again does not fail
spuriously for ever (strong fairness of `PushCas`, which the C++ standard
recommends of implementations and hardware provides). Nothing is assumed of
callers: they need not free anything. `Runner!FairSpec`: weak fairness of the owner
inside `allocate_bytes`. `PushesProgress` is lock-freedom, not wait-freedom: one
thread may retry for ever while others succeed. `StdAllocator!FairSpec`: weak
fairness of each thread inside a call and strong fairness of its `Cas`, as for
`PushCas`. `CrossThreadFree!FairSpec`: weak fairness of the main thread and of each
worker; a thread that polls the channel while it yields gets the mutex in the end.
The other modules state no fairness and no liveness.

Deadlock is checked except in `run_cache` and `cross_thread_free`, where all threads
may have ended, and in `pool_move`, where both pools may have been destroyed.

**Findings.** The comment at src/lib/runner.hpp:372-373 says that bins are linear up
to 2 KiB and logarithmic above; `linear_bin_cutoff` is 4096 (line 44). The code is
consistent with itself; the comment is stale. In `pool_move`, a pool that is moved
from while objects are in use keeps its `_size`, so its destructor's assertion
("outstanding objects at pool destruction", src/lib/allocazam.hpp:116) fails although
the objects live on, correctly, in the pool that was moved to.

**What `run_cache` tells of the code.** In the dynamic mode a refill that throws
leaves `allocate` with the run it had already obtained: that run is never handed out
or freed again (`lost`). A run freed into a thread's cache after `~tls_run_cache` is
not flushed again (`late`). `NoRunLost` allows for both and shows that they are the
only ways to lose a run; it does not show that the code is free of the first.
In the fixed mode only a request up to the cutoff (4096 bytes) drains the cache
before it is refused. A larger one goes past `_allocate_from_tls_run_cache`, and if
the runner has nothing it throws `bad_alloc` at once (src/lib/allocazam.hpp:655-657),
although the thread's own cache may hold runs of that very runner, which a drain
would free and merge: a thread that obtained all runs and freed one, which is now
cached, is refused a large one (three steps in the model). `FailureIsHonest`
therefore promises such a request only that the runner has nothing free and nothing
parked; that the cache is empty too it promises to cacheable requests. The drain of
the whole cache (`_tls_drain_all`) is reached in the fixed mode only, since a runner
that may grow throws instead of returning `nullptr`.

## 5. Proofs

Every theorem holds for all values of the constants that satisfy the named `ASSUME`s
of its module. Unless something is said about them below, those only say that the
constants are of the right kind and that `Null` and its like are distinct from what
they stand beside.

### Lists: `LinkedListProofs`
`Numbers(f, m, S, h, nx, null)` says that `f` numbers the walk from `h` along `nx`:
`f[0]` is the head, `f[m]` the null that ends it, and between them every element of
`S` is met once. `Chain` says there is such a numbering. Pushing (`ChainPrepend`),
popping (`ChainRest`), carving a chunk (`ChainBlock`) and writing elsewhere
(`ChainFrame`) renumber it. What the modules compute along a list by a recursive
function (`Visit`, `Reach`) is compared with the numbering: an explicit function
solves the recursive equation, and two solutions that agree at 0 agree everywhere,
since there is no least number where they differ (`SameFromStart`).

### Node pool: `NodePoolProofs`
* `PoolInvariant`: `Spec => []PoolInv`. That a head is never a node in use is not
  inductive: one must know that *all* links stay within their own list, that no two
  links meet and none leads to a head (`LinksDisjoint`), which makes popping,
  splicing and publishing safe; that a pusher is alone with its node and that a
  node about to be published links to the head its compare-exchange expects
  (`PushersApart`), which is where ABA could hurt and does not; that heads belong
  to their own list (`HeadsPlaced`); that chunks are carved in order
  (`CarvedInOrder`), so that new nodes are disjoint from old ones; and what is owed
  to a call that missed (`OwedParked`). One lemma per kind of step.
* `HandoutSafety`, `SizeExactness` follow from it; `DrainsBeforeFailing` and
  `FixedBudgetKept` are action properties that use it; `PoolImplementsContract` is
  the refinement, one contract action or a stutter per step.
* `ListsStayExact` and `DestructorAssertExact` need more than disjoint links, which
  would also allow a cycle: `ListInv` adds that the free list, the remote stack and
  the chain being drained are chains (`Lists`), and what is known of a drain and of
  the destructor (`Drains`: a chain is drained only by the owner, each node being
  pushed has a pusher, and nothing is parked any more once the destructor runs).

### Run allocator: `RunnerProofs`
The first half is about the boundary-tag memory alone: rounding and binning, what
each primitive does to headers, footers and bins, and one form, `Carved`, for every
rewriting (free, split, merge, expand): the runs between two headers are replaced by
a run in use and a free run, either of which may be empty. Then
`IInv == MemoryInv /\ RunsInv /\ CallInv`: the memory is tiled, tagged, coalesced and
binned; the runs in use are the held, the parked and the ones waiting for their
replay, each once and with room; and what the owner knows at each place inside
`allocate_bytes` (after a growth there is a run that fits; what was parked at the
miss has been replayed before it gives up). None is inductive alone: a merge trusts
the flag and the footer, `_find_fit` trusts the bins, a growth the epilogue.
* `RunsAlwaysTile`, `AlwaysCoalesced`, `TagsAlwaysExact`, `BinsAlwaysExact`,
  `RunsAccounted` are read off the invariant (the first also off `FirstChunkAhead`:
  the deferred size is given up only for a chunk); `FitsAlwaysLargeEnough` and
  `NoFitEverOverlooked` hold for *every* request, not only the run's;
  `GrowthAlwaysSuffices` and `DrainsBeforeFailing` follow likewise.
* `RunnerImplementsContract` is the refinement of `RunnerContract`.

Assumptions: the largest `size_t` ends at an alignment boundary (any word of 4 bits
or more); a page is a positive multiple of 16; memory is smaller than the address
space; an external buffer has at least `MinChunkBytes` (the constructor's check).
`2 ^ w \in Nat` is assumed of the word's bits because the provers know nothing of
exponentiation; it is true.

### Exclusive resource: `ExclusiveResourceProofs`
`LedgerInvariant`, `AssertionsHold`, `ClaimsOnlyWiden`, and `MaxSizeIsExact`, which
rests on a lemma on whole elements (`n * s <= u` exactly when `n <= u \div s`).

### Suballocated allocator: `StdAllocatorProofs`
Assumptions: threads are finitely many, states are distinct, each explicit state is
confined to a thread, and `Null` is no structure.
* `OneThreadInsideHolds`, `BlocksGoHomeHolds`. The invariant says which structure
  serves an allocator and a count (`ServedBy`), that every block in use was carved by
  that structure for the allocator it came from, that a thread is only ever inside
  its own state or one confined to it (`Mine`), and that a block somebody is freeing
  or expanding is that thread's. Two lemmas carry the argument: equal allocators have
  one form (`SameForm`), so a free through any of them leads to the structure that
  carved the block (`OwnerOfNode`, `OwnerOfRun`); and no structure belongs to two
  threads (`MineApart`).
* `RegistryAlwaysComplete`: the registry is a chain of exactly the published states,
  and a state at its compare-exchange links to the head it expects (`RegInv`), so a
  successful exchange prepends and a failed one changes nothing.
* `StdAllocatorImplementsContract`: the refinement of `AllocatorContract`. Four steps
  change a block (a grant, a direct free, a routed free, a hand-off) and each is one
  contract action; the others stutter. A grant is made inside a structure of the
  thread that asked (`MinePlaces`) and takes a block that was free there, parked there
  or not carved; that one must have no owner, which the invariant says.

### Run cache: `RunCacheProofs`
A run is held by a thread, inside a call, in a class of a cache, on a remote stack or
lost. Each is a set indexed by the run (`HeldBy`, `CallsOf`, `ClassesOf`, `StacksOf`,
and the flag `lost`), and the invariant says that of a run given out exactly one of
the five is inhabited, by one element (`Placed`); a step is then understood one run
at a time, and a run it does not touch has the same five sets. With it go sizes
(`Sized`, `Roomy`), classes without repetition and with the right stamp (`Listed`),
lengths (`Bounded`, which counts what is left of a refill) and what a call knows
(`InCall`: between a drain and the last attempt the cache is empty). Theorems:
`RunsNeverLost`, `AlwaysRoomForRequest`, `CacheAlwaysBounded`, `OnlyTheOwner`,
`FailuresAreHonest` (requests of every size, with the empty cache for those up to the
cutoff). `RunCacheImplementsContract` is the refinement of `AllocatorContract`. What
changes in the records of a runner is its own thread's work, by `OnlyTheOwner`; a run
that is in somebody's hands before a step and after it is recorded both times, by
`Placed`, so only a run given up in this very step can leave the records.
Assumptions: cutoff and largest payload are multiples of the quantum, the low
watermark is below the high one, a refill has two runs or more.

### Layout and ownership of memory: `BackingProofs`
* `ContainsExactlyTheSlots`, `MaskFindsHeader`, `NodesApart`: of every layout, count
  and address. Divisions are replaced by quotients and remainders that the proofs
  name and calculate with.
* `EverythingOwnedOnce`: each chunk, list node or owner that has memory stands for a
  region of the heap (`OfChunk`, `OfNode`, `OfOwner`); the invariant says that this
  region is in the heap exactly as it would be given back, that no two objects stand
  for one region, that every region has an object (`ByChunks`, `ByRunner`, `ByOwner`),
  and that regions are disjoint (`HeapInv`).
* `LayoutAlwaysExact`: in addition every granule of a chunk is stamped as its first
  (`StampInv`), wherever the chunk object has moved; with the three layout theorems
  this gives the property on real memory.

Assumptions: a chunk has at least one slot (pool sizes are powers of two); a huge
page is a multiple of every smaller power of two; and `LayoutAssumption`, what the
chunk's constructor asserts (a granule holds at least one node) for the types and
pages in use. Deriving it for every type needs facts about powers of two that the
provers lack; TLC evaluates it on the run's types.

### Benchmark: `CrossThreadFreeProofs`
`SweepInvariant`, for any number of pairs, rounds and batches, from two sums: a
pool's nodes are free, parked, in the producer's hands, in the slot or in the
consumer's hands (`Balanced`), and the producer is ahead of its consumer by the batch
in the slot and the one being freed (`Handed`); with them, what each place of a
thread says (`Phase`) and who is born or joined (`Joined`). From it `NodesComeBack`
(once a round is joined both sides have been through every batch, so nothing is in
flight) and `FootprintStaysBounded` (a pool grows only when all it has is in flight,
with the producer's hands not full). `2 ^ e \in Nat \ {0}` is assumed as above.

### Only model-checked
* Liveness (`CallsReturn` of three modules, `PushesProgress`, `SweepEnds`): fairness
  and `ENABLED` are out of the proof system's reach.
* The two runs that refute a statement, `runner_bin_comment` and `pool_move`.
* The powers of two assumed above, and `LayoutAssumption`.

## 6. Not modelled

* The two constructors of a noheap state of the suballocated allocator, which split a
  caller's buffer between pool and runner; the pool and the runner over such a buffer
  are modelled.
* That huge pages exist only on Linux.
* `construct` / `destroy`, which act on the user's object only; the assertions
  against misuse (`_is_in_free_list` and others), which concern programs that break
  the contract; counters of `stats_t` other than `live_bytes`.
* The other benchmarks and the tests: timing loops and assertions over the library,
  single-threaded or with threads that each use their own state. They were read for
  how the library is meant to be used.
* Weak memory: every run is sequentially consistent (see `NodePool` above for why
  that is enough there; the registry has the same release/acquire pattern).
