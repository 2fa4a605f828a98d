# TLA+ models of Pronto

These are TLA+ specifications of Pronto, the persistent-memory runtime: asynchronous
semantic logging plus periodic copy-on-write checkpoints. The runs check the
specifications with TLC.

Pronto itself is built from three core headers: `src/ckpt_alloc.hpp`,
`src/snapshot.hpp` and `src/savitar.hpp`. None of them is in this repository. It
contains their unit tests (`src/unit/`), the benchmarks that use them
(`src/benchmark/`) and the tools that read their files (`src/tools/`). Each model is
therefore built in one of two ways:

- **Translated from the code in `src/`:** the benchmark harness, the `Log`/`Play`
  codecs of the persistent objects, the mutator's store, the parallel sort of
  `sort-vector.cpp`, the block addressing of the recovery-overhead benchmark and the
  `dump_snapshot` tool.
- **Modelled from `spec.md`, pinned by the unit tests:** the block allocator and the
  snapshot engine. Their behaviour is fixed by the unit tests, which give exact
  addresses, snapshot words and bitmap values. In `PROJECT.json` the map points such
  definitions at the test that pins them, or marks them `spec_modelled` where no test
  does.

## The system and how its parts interact

| Part | Where | Role |
|---|---|---|
| GlobalAlloc | `ckpt_alloc.hpp` (tests: `unit/alloc_global.hpp`) | Process-wide pool of `FreeList::BlockSize` blocks (2 MiB; each block spans eight 64-bit bitmap words). Serves first fit from an MRU-first free-region list, carving from the top of a region. Grows by `MinPoolSize`. Coalesces on release. Saved to and loaded from a word array. |
| FreeList / ObjectAlloc | `ckpt_alloc.hpp` (tests: `unit/alloc_free_list.hpp`, `unit/alloc_object.hpp`) | Per-object, per-core chunk allocators that take their blocks from GlobalAlloc. |
| Dirty bitmap | `ckpt_alloc.hpp` (tests: `unit/alloc_bitmap.hpp`) | One bit per 4 KiB page that overlaps a used chunk. A checkpoint copies only these pages. |
| Snapshot | `snapshot.hpp` (tests: `unit/snapshot.hpp`) | Started by `SIGUSR1`. It pauses mutators, saves the bitmap and allocator state and write-protects used blocks. A worker thread and the page-fault handler then copy blocks out before they are modified. |
| Redo log / Savitar | `savitar.hpp` | `Savitar_thread_notify` makes a persistent object's `Log` append a method record to its log. On recovery the log is replayed through `Play`. |
| Persistent objects | `benchmark/persistent/*.hpp`, `rocksdb/pdb.h` | Key/value containers. Their `Log` encodes the call's arguments and their `Play` decodes them. |
| Benchmark harness | `benchmark/common/base.cpp` | Spawns threads, runs a spin barrier on `sync`, times the window t1..t2 and sums the operations. |
| Recovery benchmarks | `benchmark/recovery/*.hpp` | A mutator writes cells while `SIGUSR1` triggers a checkpoint. `RdWrObject` allocates one chunk per block and maps cell offsets onto them. |
| Parallel sort | `benchmark/sort-vector.cpp` | Threads quick-sort disjoint slices of a persistent vector through a logged, unlocked `swap`; the main thread triggers a checkpoint, sets `stopThreads` and returns. |
| Tools | `tools/dump_snapshot.cpp` | Reads a snapshot file and counts the modified pages in its bitmap. |

The parts interact as follows:

- A mutator's store runs in `RdWrObject::write`. If the block is protected by an
  active checkpoint, the store traps into the page-fault handler.
- The fault handler races the snapshot worker for the same blocks. Each block's
  context is `UsedHugePage`, `Copying` or `SavedHugePage`, and whoever claims the
  block first does the copy.
- A checkpoint also saves GlobalAlloc. Recovery reloads it, then replays the redo log.
  The replayed calls must therefore produce the same addresses as the original run,
  and the log codecs must reproduce the same calls.

## Modules

### `SnapshotImage` (abstract)

This module states what a checkpoint promises.

- **Trigger:** at a trigger, the image of every page whose bit is set is frozen to the
  page's current contents.
- **Writes:** writes may change memory and the bitmap at any time without changing
  the image.
- **Finish:** the checkpoint finishes.

### `Snapshot` (detailed)

This module models the copy-on-write engine.

- **Constants:** mutator threads plus one worker, blocks of `PagesPerBlock` pages,
  page values.
- **Variables:**
  - `mem`, `bitmap`: the live heap and its dirty bits;
  - `savedBitmap`: the bitmap saved at the trigger;
  - `context`, `prot`: the block contexts and write protection;
  - `data`: the snapshot file;
  - `pc`, `cblock`, `target`, `wval`: the mutator program counters and copier state.
- **Actions:**
  - `Write`: a store to an unprotected block. `Store` either writes and sets the bit,
    or models a dealloc that frees the page, which clears the bit.
  - `Trap`: a store to a protected block.
  - `HandlerClaim`, `WorkerClaim` (through `ClaimBlock`): move a block from
    `UsedHugePage` to `Copying`.
  - `CopyPages`: copy the saved-bitmap pages of the block into `data`.
  - `Unprotect`: mark the block `SavedHugePage` and lift its protection.
  - `Retry`: the trapped store re-executes.
  - `Prepare`: the `SIGUSR1` handler, taken only when no checkpoint is active and all
    copiers are idle.
  - `Complete`: the checkpoint ends.
- **Refinement:** `ImageOf` maps the state to the abstract image. A page that is not
  in the saved bitmap maps to Nil. A saved page maps to its copy in `data` if it has
  one, and otherwise to the live `mem`, which is still unmodified.

`Snapshot` is checked to implement `SnapshotImage` (`ImplementsSnapshotImage`).

### `GlobalAlloc`

Each allocator operation is a pure operator over a record `[pool, free]`:
`AllocOp`, `ReleaseOp`, `SaveOp` and `LoadOp`. The actions apply these operators
under the allocator's lock.

- **`Checkpoint`:** saves `ga` into `buf`. The words of `buf` past the saved list keep
  stale data from earlier saves, as the buffer does. `Checkpoint` then loads a replica
  `rep` from the buffer.
- **After a checkpoint:** every later `Alloc` and `Release` is applied to both `ga`
  and `rep`, as redo-log replay would do after a crash.
- **`ReplayReproducesAddresses`:** in every state after a checkpoint, the next
  alloc of every size succeeds on `rep` exactly when it does on `ga`, and returns
  the same address.

### `FreeList`

This module models one FreeList, the blocks it takes from GlobalAlloc, and the
dirty-page bitmap over them.

- **Units:** sizes and offsets are in allocation units. A page (the bitmap
  granularity) is `UnitsPerPage` units, and a block is `PagesPerBlock` pages.
- **Variables:**
  - `chunks`: a set of `[start, size, used]` records;
  - `bitmap`: an array of words of `WordBits` pages (64 in the code), page `p`
    at bit `p % WordBits` of word `p \div WordBits`, as `CheckBitmap` reads it.
    `setBitmap` ORs `WordMask(w, f, l)` into every word the page range `f .. l`
    meets: a partial mask for the first and the last word, all bits for the words
    between. Dealloc clears those masks over the wholly free pages only;
  - `pool`: GlobalAlloc's state (pool size and free regions), reached through
    `GA == INSTANCE GlobalAlloc WITH ga <- pool, ...`, so every block is taken with
    GlobalAlloc's own `AllocOp` and returned with its `ReleaseOp`;
  - `jumbo`: the live jumbo ranges `[start, size]`.
- **Where blocks sit:** GlobalAlloc carves from the top of its free regions, so the
  k-th block taken usually lies right below the one before it. Blocks are therefore
  adjacent in memory, and coalescing has to stop at the chunk flagged `last`.
  `Taken` is the set of blocks the FreeList holds, derived from `chunks`.

The unit tests fix where chunks go:

- A request carves the tail of a free chunk. This is why ptrs[1..4] in the bitmap
  tests descend from the top of the block, and why `p4 == p2Old + newSize` in
  `ReallocAndFree`.
- A request that no chunk can serve takes a new block. It is carved from the block's
  head, with the rest of the block left as one free chunk (ReallocAndFree, lines
  43–52).

The actions are:

- `Alloc`: `setBitmap` marks every page the new chunk touches.
- `Dealloc`: coalesces with both neighbours inside the block, then clears the pages
  that lie wholly inside the merged free chunk. The tests `FreePageAligned`,
  `FreeLastSmallRegionFromMidPage` and `FreeSmallRegionAndCoalesceWith*` show this.
- `Realloc`: grows in place into a large-enough free right neighbour, or else
  allocates, copies and frees.
- `JumboAlloc(n)`: a request larger than a block takes `Blocks(n)` (rounded up)
  whole blocks from GlobalAlloc, and `setBitmap` marks every page the `n` units
  touch, the partly used last page included (`BigAllocBitmapSet*`).
- `JumboDealloc(x)`: returns the `Blocks(x.size)` blocks and clears every page of
  them (`BigDeallocBitmapUnset*`: the last, partly used, page reads 0 too).

Which size-class bucket serves a request is left nondeterministic. None of the
properties depends on it.

### `Heap` (abstract)

This module states what an allocator promises its callers, with no chunks, blocks or
cores. `allocs` is the set of live allocations `[start, size]`, and they are disjoint
ranges of the arena.

- `New(r)` adds a range that overlaps no live one.
- `Free(r)` removes a live one.
- `Resize(r, q)` replaces `r` by `q`. `q` overlaps no other live range, and either
  starts where `r` did (grown in place) or is disjoint from `r`, so that realloc can
  copy the old content before it frees it.

`Next` names each step by the change it makes to `allocs`. It is written for
checking a refinement, not to be run on its own.

### `ObjectAlloc` (composition)

This module puts the FreeLists of several cores on one GlobalAlloc, as an
`ObjectAlloc` does. It takes GlobalAlloc's variables and actions through
`INSTANCE GlobalAlloc`, and FreeList's layout operators (`Fits`, `Carve`,
`FreshBlock`, `Coalesce`, `Room`, `Grow`) through `INSTANCE FreeList`, with a block of
`BlockUnits` units and one page per block (the bitmap is left to `FreeList`).

- **Variables:** GlobalAlloc's four; `chunks[o]`, the layout of core o's FreeList;
  `owned[o]`, the blocks it took; `jumbo`, the live jumbo ranges.
- **`Alloc(o, n)`:** the calling core's FreeList carves a chunk that fits
  (`AllocFit`), or, when none fits, calls `GlobalAlloc::alloc(1)` and carves the
  new block's head (`AllocBlock`). `AllocBigRegion` pins both: a small request
  after a jumbo one lands at the head of the next block down.
- **`Dealloc(caller, o, c)` and `Realloc(caller, o, c, n)`:** served by `Route`,
  the FreeList the chunk header names (`free_list_id`), whatever core calls.
  A realloc grows in place or allocates, copies and frees on that FreeList.
- **`JumboAlloc` and `JumboDealloc`:** whole blocks straight from and back to
  GlobalAlloc (`AllocBigRegion`, `DeallocBigRegion`).
- **`Checkpoint`:** GlobalAlloc's save and reload, as in `GlobalAlloc`.
- **Refinement:** `LiveAllocations` maps the state to `Heap`'s `allocs`: the used
  chunks of every core and the jumbo ranges, in units. `ImplementsHeap` checks
  `Heap`'s specification under this mapping.

Each FreeList call holds that FreeList's lock and takes GlobalAlloc's lock inside
it, never the other way round. So every call is one step, and the calls of
different cores interleave freely.

### `BenchmarkHarness`

This module models `Benchmark::run` and `Benchmark::worker` (`base.cpp` lines 63–113).
There is one action per statement that touches shared state:

- on the main thread: `Spawn`, `RunMainWorker`, `MainWorkerReturned`, `Join`,
  `Finish`;
- on each worker thread: `InitThread`, `Arrive`, `Spin`, `Work`, `Depart`,
  `Cleanup`.

`Spin` is one read of `sync`.

### `LogReplay`

This module models the `Log`/`Play` pairs of the persistent objects, with the same
log, crash and replay steps for all of them. A log belongs to one object, so `Init`
picks the object's codec, the variable `codec`, from the constant set `Codecs`:

- `"NulTerminated"`: `map.hpp`, `unordered_map.hpp` and `hash_map.hpp`, which
  terminate each argument with NUL;
- `"Slice"`: `pdb.h`;
- `"Single"`: `vector.hpp` (`push_back`, modelled as `PushBack`) and
  `priority_queue.hpp` (`push`). Their `Log`/`Play` are the same lines with another
  tag: one value logged with its NUL, and `Play` reading it at `args`.

Strings are short byte sequences. A log entry is padded with NUL to the cache-line
size.

### `DumpSnapshot`

This module models the counting loop of `dump_snapshot.cpp` (lines 71–86). `PopCount`
is a recursive reference definition, and the loop's count is checked against it.

### `QuickSort`

This module models `sort-vector.cpp` from the spawning loop of `bench` (lines 214–238)
down to `partition` (146–157). Each thread has an explicit stack of int64 bounds,
like `callStack`. The actions are:

- `Pop`: pop the top bounds, skip an empty range, or start `partition` with
  `StartPartition`;
- `PartStep`: one iteration of the partition loop, including its `swap`;
- `PartEnd`: the final swap and the two pushes;
- `LeaveLoop`: the `while` condition fails;
- `Stop` and `Exit`: the main thread sets `stopThreads`, then returns without
  joining, which ends the process.

Indices are `Width`-bit unsigned numbers (`U`). The int64 casts reinterpret the top
bit as the sign (`ToSigned`), so `i = LB - 1` and `pi - 1` wrap exactly as in the
code. An element is a `DataElement` of `DataSize` words. `Leq` is `operator<=`: every
word of the left side is at most the right side's, a partial order. `at()` past the
end of the vector throws, which ends the process; `Pop` models that branch.

### `RecoveryOverhead`

This module models `overhead.hpp`, composed with `FreeList` through
`INSTANCE FreeList`:

- `Factory`: the object's allocation, of any size its `static_assert` allows;
- `AllocateBlock`: one iteration of `allocateBlocks`;
- `FinishAllocation`: the swap of the first and last blocks;
- `Access`: one `read` or `write` of the worker. The variable `accessed` records the
  cell `Cell(blocks, offset)` that the access reached;
- `WorkerDone`: the joins of the two worker runs.

Every alloc goes through `FreeList`'s `AllocOutcomes`. The addresses `blocks` holds
are therefore the ones the allocator really hands out: the first block's chunk is
carved from the tail of the block that holds the object, and the later blocks are
whole fresh blocks from GlobalAlloc, top down.

### `RecoveryBreakdown`

This module models `breakdown.hpp`, also composed with `FreeList`:

- `Factory`: `DummyObject::Factory`;
- `FillOneBlock`: one `allocateAndFillOneBlock`, whose first call is 64 bytes
  short "for the current object";
- `RaiseSnapshot`: the `raise(SIGUSR1)` whose checkpoint the benchmark times.

`sizeof(DummyObject)` is not in the repository, but it is bounded. The
`static_assert` in `overhead.hpp` puts `sizeof(PersistentObject)` in (104, 168]
bytes, because `RdWrObject` adds 16 bytes of members. `DummyObject` adds 8, so the
object and its header take 16 to 23 cells.

### MC modules and configs

Each `MC*.tla` module extends its model and gives the constants small values.

## Runs

| Run | Config | Expect | What it shows |
|---|---|---|---|
| `snapshot_cow` | `MCSnapshot.cfg` | pass | Copy-on-write preserves the frozen image, and a faulting store is always let through. It checks `TypeOK` (which includes "no two copiers in one block"), `ImplementsSnapshotImage` (a refinement) and `FaultEventuallyResolved` (liveness). |
| `harness_safety` | `MCBenchmarkHarness.cfg` | pass | No thread works before all have arrived (`WorkAfterAllArrived`). t2 is stamped only once, after all traces are done (`LatencyWindow`). The assertion holds when `run()` returns (`OpsAddUp`). |
| `harness_liveness` | `MCBenchmarkHarnessLive.cfg` | violation | `RunReturns` fails. A fast thread finishes its trace and decrements `sync` before a slow thread has read `sync == N`, so the slow thread spins forever. |
| `dump_snapshot_count` | `MCDumpSnapshot.cfg` | violation | `ModifiedPagesIsPopCount` fails. The statement `bit >> 1;` at line 83 discards its result, so every page of a word is tested against bit 0. |
| `log_replay_nul` | `MCLogReplayNulTerminated.cfg` | pass | After a crash, replaying the log of a map object (NUL-terminated codec) or of a vector or priority queue (one-argument codec) reproduces every logged call, bytes included. |
| `log_replay_pdb` | `MCLogReplaySlice.cfg` | violation | PDB logs its Slices without terminators but decodes them with `strlen`. `Put("1","1")` is therefore replayed as `Put("11","")`. |
| `freelist_layout` | `MCFreeList.cfg` | pass | `ChunksTileBlocks`: chunks tile the blocks taken, and no chunk straddles a block boundary. `FreeChunksCoalesced`: no two free chunks of a block are neighbours. `BlocksPartitioned`: every block below GlobalAlloc's pool size lies in exactly one of a free region, a jumbo range (rounded up to whole blocks) or a FreeList block, and no two free regions are the same. `BitmapTracksUsedPages`: the bitmap, updated one step at a time, equals the set of pages that live chunks and jumbo ranges touch, so a checkpoint copies every live page. |
| `freelist_dirty_persistence` | `MCFreeListPersistence.cfg` | violation | `DirtyBitPersistence` (spec §8) fails. Allocating a chunk and then freeing it, so that the merged free chunk covers the whole page, clears the page's bit, exactly as the unit test `FreePageAligned` expects. |
| `quicksort` | `MCQuickSort.cfg` | pass | `RangesInSlice`: the uint64 wraps of `i = LB - 1` and `pi - 1` cancel through the int64 casts, so every non-empty range a thread pushes or partitions lies in its own slice, and `at()` never throws `std::out_of_range`. `SlicesKeepTheirElements`: each slice always holds the multiset it was filled with, so the unlocked swaps of two threads never touch one element. `SortedWhenDone`: a thread that empties its stack leaves no element after one strictly below it under `operator<=`, for two-word elements that include an incomparable pair. `SortTerminates`: every thread's loop ends under weak fairness of the sort threads alone, without `stopThreads`. |
| `recovery_overhead` | `MCRecoveryOverhead.cfg` | pass | `AccessesInBlockData`: with 1, 2 or 3 blocks and an object that fills or underfills the 24-cell reservation, every offset below `totalCells` reaches a data cell of a block chunk. It never reaches the object, a header, free space or memory past the blocks. |
| `recovery_breakdown_blocks` | `MCRecoveryBreakdown.cfg` | violation | `CheckpointCoversModifiedPages` fails. The 64 bytes the first fill leaves are fewer than the object needs, so that fill takes its own block. With `modifiedPages` = 1 the checkpoint covers 2 blocks. |
| `object_alloc` | `MCObjectAlloc.cfg` | pass | Two cores allocate, free and resize chunks, their own and each other's, and jumbo ranges. `PoolPartitioned`: GlobalAlloc's free regions and the ranges it handed out (FreeList blocks, jumbo ranges) tile the pool. `ReplayReproducesAddresses`: an allocator loaded from any snapshot, after the same calls, would serve the next alloc of every size at the same address as the original. `CoreLayoutsTileOwnedBlocks`: each core's FreeList holds exactly the chunks of the blocks it took, each inside one block. `ImplementsHeap` (a refinement): every call of any core only adds a range that overlaps no live allocation, removes one, or resizes one in place or into a disjoint range. |

Each property of a passing run has a mutant in `PROJECT.json`. A mutant is a plausible
bug in the modelled code, and TLC reports the property violated when the mutant
replaces the definition:

- **`Snapshot`:** a claim that does not mark the block; a claim that unprotects
  before copying; a trigger that protects blocks that are not in use.
- **`BenchmarkHarness`:** spawning N threads; a barrier one arrival early; stamping t2
  at 1; a join loop one short.
- **`LogReplay`:** `Play` not skipping the NUL.
- **`FreeList`:** a free chunk kept in its list after it is carved to nothing;
  coalescing across a block boundary; no merge with the left neighbour; bits cleared
  for pages that are only partly free; a jumbo's block count rounded down.
- **`QuickSort`:** `pi - 1` pushed as the uint64 value without the int64 cast;
  `sort_thread` passing `UB` instead of `UB - 1`; the pivot read from `at(LB)`; the
  left part pushed as `(lb, pi)`.
- **`RecoveryOverhead`:** the allocation loop running to `i <= numberOfBlocks`; the
  first and last blocks not swapped.
- **`GlobalAlloc`:** no address-range check; a right neighbour merged but not
  unlinked; a loaded list in reverse order.
- **`ObjectAlloc`:** dealloc and realloc served by the caller's FreeList instead
  of the owner's; a realloc that moves freeing the old chunk before allocating the
  new one.

## Bounds, and why they suffice

| Model | Bounds | Why they suffice |
|---|---|---|
| `Snapshot` | One mutator and the worker, two blocks of two pages, values {0, 1} plus a free operation | Two copiers can race for the same block, a write can hit a saved page or an unsaved page, and a second trigger can follow a completed one. A second mutator only adds more of the same race; with it the run grows past minutes. |
| `BenchmarkHarness` | N = 3, trace lengths 1, 2, 3 | One spawned thread, one more spawned thread and the main thread are enough for the lost-barrier race. They also make the sum `OpsAddUp` distinguish every join order. |
| `LogReplay` | Keys and values from {⟨1⟩, ⟨2⟩, ⟨1,2⟩, ⟨2,2⟩}, a 4-byte line, two puts | This includes entries that end exactly on a line boundary and entries that need padding, and keys that are prefixes of other keys. |
| `ObjectAlloc` (with `GlobalAlloc`) | 2 cores (a symmetry set), blocks of 2 units, requests of 1 or 2 units, jumbo requests of 2 blocks, `MinPoolSize` = 2 blocks, `MaxPoolSize` = 4, a 6-word snapshot buffer | The pool grows, and a released jumbo range can merge with a free region on one side, next to a FreeList block on the other. A jumbo freed between two free regions needs six blocks and is not reached. Both cores can own blocks, so a chunk can be freed or resized by the core that does not own it. A save can leave stale words behind. With `MaxPoolSize` = 6 the run takes more than ten minutes. |
| `FreeList` (with `GlobalAlloc`) | Three blocks (`MinPoolSize` = `MaxPoolSize` = 3) of two pages of two units, bitmap words of 4 pages, requests of 1–3 units, jumbo requests of 5 units | Chunks can sit inside a page, fill a page, straddle two pages, or end at a block boundary that has a free chunk of the next block right behind it. A middle block has block boundaries on both sides. A realloc can move across blocks. A jumbo range spans two blocks and ends one unit into a page, and it competes with FreeList blocks for the three. A word of four pages spans two blocks here, where a 64-bit word is an eighth of a block. The mask arithmetic depends only on the page range, so this bound is enough to exercise a chunk at an offset inside a word and a jumbo range whose first and last words are both partial. Blocks of four pages ran for more than fifteen minutes. Pool growth is left to `ObjectAlloc`'s run: with `MaxPoolSize` = 4 this run took more than fifteen minutes. |
| `DumpSnapshot` | Words of 4 bits, 2 words | — |
| `RecoveryBreakdown` | Blocks of 32 cells, the real 8-cell reservation, objects of 16 and 23 cells, 1 or 2 fills | Whether a fill fits beside the object depends only on the reservation and the object size, which keep their real values. Only the block is shrunk. |
| `QuickSort` | 2 threads with 3 elements each, 4-bit indices, elements ⟨0,0⟩, ⟨0,1⟩, ⟨1,0⟩ | Every fill of the vector is an initial state (729). Thread 0's slice starts at 0, so `i = LB - 1` wraps; a pivot that ends at the slice's start makes `pi - 1` wrap. Three elements per slice give partitions with both sides non-empty. The incomparable pair exercises the partial order. Slices of 3 keep indices below 2^(Width-1) as the casts require. |
| `RecoveryOverhead` | Blocks of 8 cells in 2 pages, a 3-cell reservation, objects of 2 or 3 cells, 1 to 3 blocks | These cover the single block (no swap), two blocks swapped, and three blocks with a middle one left in place. An object smaller than the reservation leaves a free gap. The code's numbers (262,143 cells per block, 24 reserved) scale down to these because the mapping depends only on `CellsPerBlock` and `Resvd`. |

## Fairness

### `Snapshot`

These actions are weakly fair:

- `CopyPages`, `Unprotect`, `HandlerClaim` and `Retry`: the handler runs on the
  faulting thread, which the kernel resumes;
- `WorkerClaim` and `Complete`: the worker is a dedicated thread.

Mutator writes are not fair: a program may stop writing.

### `BenchmarkHarness`

Every thread's step is weakly fair, and so is the main thread's. This is exactly what
a preemptive scheduler gives. It does not guarantee that a spinning thread is
scheduled while `sync` has one particular value, which is why `RunReturns` can fail.

### `QuickSort`

Each sort thread's step is weakly fair: it is a running thread. The main thread's
`Stop` and `Exit` are not assumed to happen, so `SortTerminates` says that the sort
ends on its own. That is weaker than what `sleep` gives, which makes the check
stronger.

`RecoveryOverhead`, `FreeList` and `ObjectAlloc` check only safety and assume no fairness.

## Not modelled (yet), and the plan

These parts are not modelled, and each is listed in `PROJECT.json` with its reason:

- the Savitar runtime and the redo-log internals (not in the repository);
- the RocksDB driver;
- the volatile, sensitivity and motivation benchmarks (throughput only, with no
  persistence protocol);
- `dump_log` and `alloc_debug` (printing and timing).

Several hazards listed in `PROJECT.json` have no property, because what decides
them is not in the repository (`savitar.hpp`, `nv_log.hpp`, `snapshot.hpp`,
`ckpt_alloc.hpp`):

1. **Key buffers** (`hash_map.hpp:42`): `alloc(k.length())` followed by `strcpy`
   writes one byte past the allocation. Whether it lands in the next chunk's header
   depends on the size-class table of `ckpt_alloc.hpp`, and `FreeList` takes chunk
   sizes as given.
2. **Checkpoint abandonment and file extension** (`snapshot.hpp:176`):
   `extendSnapshot` and the abandon path are in `snapshot.hpp`. The one test shows
   only a successful extension, so `Snapshot` gives the data region room for every
   block.
3. **Replayed pointers** (`vector.hpp:85`): `Play` pushes a pointer into the log
   entry itself. When that log space is reclaimed is decided by the redo log.
4. **Choice of snapshot on recovery** (`snapshot.hpp:256`): `lastSnapshotID`
   returns the highest-numbered file, empty ones included. After a crash in
   mid-checkpoint, whether recovery loads that file or validates it is in
   `snapshot.hpp`.
5. **Zero threads** (`base.cpp:70`): `threads - 1` wraps, and the first write goes
   past a zero-length array. `BenchmarkHarness` takes N >= 1.

What is left of the repository's lines falls into three groups, and none can be
modelled faithfully:
- unit tests of code that is not in the repository (the layout checks of
  `snapshot.hpp` and the save/load word checks of `alloc_free_list.hpp` and
  `alloc_object.hpp`). These depend on bucket tables and header structs that are not
  here;
- tools that only print (`dump_log`);
- benchmarks of third-party or volatile stores (`vpmem.hpp`, `pmemkv_throughput.cc`).

`saveBitmap`/`loadBitmap` copy the words verbatim (`LoadAndSaveBitmap`), and the
latency `RecoveryBreakdown` reports is timing. Neither is modelled.

`QuickSort` leaves out two things. The first is the `Log`/`Play` of `SwapTag`: it is
the codec pattern `LogReplay` already checks. The second is what the redo log holds
for a swap that `Exit` interrupts, which is decided in `savitar.hpp`.
`ObjectAlloc` leaves out its `save`/`load`: what it writes per core is the FreeList's
bucket heads, and the model abstracts the buckets away.
`RecoveryOverhead` takes `numberOfPages >= 1`. With 0, `allocateBlocks` indexes
`blocks[-1]`, which is undefined behaviour before any modelled step.
