# A verification of the Tomato kernel core

Tomato is an exokernel for x86-64: memory management, threads and a little
boot code, in C, running on several cores. This directory holds TLA+ models of
the parts in which cores meet, the TLC configurations that check them on small
instances, and proofs that TLAPS checks for every instance. Paths below are
relative to the kernel's `src/` directory (`mem/phys.c` is `src/src/mem/phys.c`).

`PROJECT.json` ties it together: which definition stands for which lines of
code, which run checks which property, a deliberately broken variant of the
code for each property, and the list of hazards the properties are aimed at.

## The system

| Part | State | Operations | Talks to |
|---|---|---|---|
| Page accounting, `mem/accounting.c` | four relaxed atomic counters: available, total, committed, reserved | reserve, unreserve, add_total, add_committed, commit, commit_reserved, uncommit, uncommit_to_reserved | called by phys and virt, without a lock |
| Physical allocator, `mem/phys.c` | freelist per level, bitmap of free heads, header inside each free block, one mutex | phys_alloc(_reserved), phys_free(_reserved), phys_add_memory | accounting, inside and outside its lock |
| Regions and mappings, `mem/vmar.c`, `mem/mapping.c` | a tree of reference counted `vmar_t`, one rwlock, a mutex per mapping | vmar_allocate, vmar_map, vmar_populate, vmar_lock, vmar_find_mapping, vmar_unmap, put | virt, slab allocator |
| Page tables and faults, `mem/virt.c` | page table entries, reservations for pages not yet populated | virt_reserve_page_tables, virt_populate, virt_make_global, virt_free, the page fault handler | phys, accounting, vmar |
| Objects, `lib/object.[ch]` | a reference count | object_get, object_put | vmar, thread |
| Slab allocator, `mem/alloc.c` | three lists of slabs, a free list threaded through the objects, a mutex | mem_alloc, mem_free | phys |
| Scheduler, `thread/sched.c`, `thread/runq.c` | per core: run queue, current and last thread, cleanup to do after a switch | scheduler_schedule, scheduler_after_schedule, scheduler_finish_park, idle loop | thread, run queue |
| Threads, `thread/thread.c`, `mem/stack.c` | thread state, reference count, stack region | create, start, yield, exit, free; park and unpark are prepared for only | scheduler, vmar |
| Core start up, `boot/entry.c`, `boot/gdt.c` | goto_address of each core, the one TSS descriptor, a count of running cores | start_cores, core_entry, tss_init, sched_wait | vmar, scheduler |
| Locks, `sync/` | lock words | mutex, rwlock, spinlock | everyone |
| Early memory, `boot/virt.c` | the bootloader's memory map, the entry pages are cut off from, the first page tables, the place of the buddy bitmap | the early allocator, the kernel and direct maps, the bitmap, the hand over to the buddy allocator | phys, accounting |
| Trees and lists, `lib/rbtree`, `lib/list.h`, `lib/hlist.h` | intrusive nodes | insert, erase, rebalance, walk, keep the largest gap of a subtree | vmar, slab, run queue |
| Interrupts, APIC, architecture, utilities | device and CPU registers | | |

### What is hard here

* **Counters without a lock.** An accounting operation is two atomic
  instructions. In between the pages are in neither counter, and every other
  core may read, reserve or give back. The claim that available never goes
  negative and that `checked_atomic_sub` never asserts is about all
  interleavings.
* **Promises.** A reservation promises that a later page fault finds a page.
  The promise is kept by three parties (accounting, the buddy allocator, the
  page tables) that update their state at different moments.
* **Use after unlock.** A page fault leaves the rwlock with a reference and a
  mutex and goes on; unmap, pin and the last put may come meanwhile.
* **Leaving a stack.** A thread that dies or parks still runs on its own stack
  until the switch; what happens to it is done by whoever runs next.
* **Locks that do not wait.** The slow path of the mutex and of the rwlock is
  an assertion. A core that meets a taken lock stops for ever with whatever it
  holds. The models do what the code does: the core becomes `halted` and keeps
  its locks and references, and the safety properties have to survive that.
* **Start up.** All secondary cores share one TSS descriptor and are released
  in one loop. The shared lock they meet in is a load and a compare-and-swap
  with anything in between.
* **A number kept in a balanced tree.** First fit searches a tree by the largest
  gap below each node. Every insertion, removal and rotation has to carry that
  number along; one stale value hides free space or hands out taken space, and
  only some shapes of the tree show it.
* **Memory before the allocator.** Pages are cut off the memory map while the
  same map is being walked to build the tables those pages are for. Which entry
  runs out when depends on the machine.

### What makes each part correct

* accounting: no page lost or invented, no underflow, never more promised than
  there is; every operation looks atomic;
* phys: blocks never overlap, merge fully, come zeroed; every promised page
  exists; a page is committed exactly while a part of it is out;
* vmar and virt: no use after free, exact reference counts, reservations spent
  or returned exactly once, every frame with one use, nothing left in the
  tables of an unmapped range, pinned pages are global;
* slab: a slab is in the list its count says, an object has one owner, objects
  come zeroed;
* scheduler: one core per thread, no lost wakeup, no run on an unmapped stack,
  exact references, a dead thread is released;
* rwlock: readers and writers exclude each other and the word says exactly who
  is in;
* start up: every core loads its own TSS, the start up ends;
* regions' trees: red-black, linked in address order, gaps exact after every
  operation; the place found is the lowest that fits, a lookup finds the child
  that covers the page;
* early memory: a usable page is handed out once, early or to the buddy
  allocator, none is lost; the bitmap covers every block; the direct map is
  complete and maps nothing else.

## The modules

| Module | Models | State ↔ code |
|---|---|---|
| `Ledger` | the abstract promise of the accounting | `account`, `total` |
| `Accounting` | `mem/accounting.c`, one step per atomic instruction | `pages` the counters, `frame` the call a core is in, `held` what callers own |
| `FiniteSums` | the sum of a function over a finite set | |
| `ListTheorems` | theorems about lists whose elements occur once | |
| `AccountingProofs`, `PhysProofs`, `SchedProofs`, `SlabProofs`, `EarlyMemProofs`, `VmarProofs` | theorems about the module of that name | |
| `Phys` (extends `Accounting`) | `mem/phys.c` | `freelist`, `hdr`, `freeBit`, `lock`, `op` the call of a core, `owned` blocks handed out, `boot` progress of phys_add_memory |
| `Vmar` | `mem/vmar.c`, `mem/virt.c`, `lib/object.[ch]` | `vm` the objects, `rw` and `mutex` the locks, `pte`, `tables`, `free`, `resv`, `job` the call of a core |
| `Sched` | `thread/*.c` | per thread `state`, `ref`, `stack`; per core `runq`, `current`, `last`, `action`, `irq` |
| `Slab` | `mem/alloc.c` | `partial`, `full`, `empty`, `free`, `in_use`, `content` |
| `RwLock` | `sync/rwlock.h`, one step per atomic instruction | `rw` the word, `seen` what a reader loaded, `mode` what a core has of the lock |
| `Boot` (extends `RwLock`) | start_cores, core_entry, tss_init, sched_wait | `pc`, `done` and `todo` how far a core is in the calls for its stacks, `taken` the mutexes, `tssLock`, `tss` the descriptor, `tr` what each core loaded, `count` |
| `BootProofs` | theorems about `RwLock` and `Boot` | |
| `RbTree` | `lib/rbtree`, as operators on a tree | a tree is a record of functions over nodes: `child`, `parent`, `black`, `prev`, `next`, `gap`, `max` |
| `Gaps` (extends `RbTree`) | the tree of a region's children in `mem/vmar.c`: placement, linking, lookup, unlinking | `tree`, `pages` of each child, `unmapped` |
| `EarlyMem` | `boot/virt.c` | `memmap`, `early` the allocator, `tables`, `pte`, `bitmapAt`, `given` to the buddy allocator, `total` and `committed`, `at` where the code is |
| `MC*` | instances for TLC | |

`Phys` composes with `Accounting` directly: the allocator's calls are frames of
the accounting, so one core may be in the middle of `mem_acct_uncommit` while
another splits a block. `Vmar` stands on the other side of the abstraction and
uses memory as the ledger promises it: a set of free frames, `resv` of which are
promised. That the promise is kept is what `Phys` checks (`PromisesBacked`).

Where a handler is cut into several steps, the cut is where another core can
see the difference: an atomic instruction, a reference count, a mutex, a page
table entry. Code under a lock that touches only what the lock protects is one
step.

Abstractions worth knowing:

* Addresses in `Phys` count minimal blocks; the content of a block is a header,
  zero or data. The bitmap bits inside merged blocks go stale as in the code.
* A vmar's place in `Vmar` is a set of adjacent virtual pages; any place that is
  free may be chosen. `Gaps` shows that the code takes the lowest such place and
  that its lookup is exact, so the choice in `Vmar` includes what the code does.
  Permissions, special mappings, names and printing are left out.
* Page tables in `Vmar` come from the same frames as the pages. `OtherTables`
  are tables that other regions may or may not have taken before, so that
  allocating a table fails in some runs and succeeds in others.
* `Gaps` tells the children of a region apart by their first page: objects are
  interchangeable and two linked children never overlap. `RbTree` writes each
  case of the code once for a side and its mirror image, where the C code writes
  it twice.
* `EarlyMem` counts in pages. The memory map is what the boot protocol promises
  (sorted, disjoint, no empty entry: `EarlyAssumption`, with `Entry` an entry's
  fields); permissions are left out.
* `Sched` numbers no ticks: there is no timer preemption in the tree. Parking
  and `scheduler_try_unpark` are not in the tree either; they are modelled from
  the transitions listed in `thread.h` and the comments of
  `scheduler_finish_park`, and are marked external in the map. `CanPark = FALSE`
  removes them. An unpark comes from a running thread or from an interrupt on
  an idle core.
* The locks that creating and freeing a thread take are not variables of `Sched`.
  Wherever another core may have one, or stopped with one, the operation may stop
  (`ObjectPutHalts`, `CreateHalts`). A `thread_create` that gets no memory for the
  object writes through a null pointer, which stops it too.
* `Boot` has what tss_init does for a stack as sequences of lock steps, one per
  branch. Which branch is taken depends on slabs and memory, so any may be.
* `DebugBuild` says whether `DEBUG_ASSERT` is compiled in.

Definitions introduced by a comment such as "Mutant: ..." or "A slab that was
full ... left in the full list", placed just before the definition they vary,
are plausible mistakes in that code. `PROJECT.json` pairs each with the property
that TLC finds violated when the mistake replaces the definition. No
specification uses them.

## The runs

All bounds are in the `.cfg` files.

| Run | Instance | Checks | Why the bounds reach the interesting cases |
|---|---|---|---|
| `accounting` | 3 cores, 2 pages, words modulo 4; 110,890 states | AcctTypeOK, NoUnderflow, CommittedWithinTotal, EveryPageCounted, ImplementsLedger | three half-done operations at once, memory exhausted, an underflow would wrap; the proofs lift every bound |
| `phys` | 2 cores, 3 levels, 2 pages of two minimal blocks above two that are not RAM, regions meeting inside a large block; 102,339 states | NoPanic, BlocksDisjoint, FullyMerged, ZeroedOnAlloc, PromisesBacked, CommittedExact, and UsesAccounting: seen from the counters it is a behaviour of `Accounting`, so the theorems carry over | sizes below, at and above a page (a reserved allocation asks for one page or two), and one too large; splits and merges through the page level; one core in accounting outside the lock while the other allocates |
| `vmar` | 2 cores, 3 vmars, 2 virtual pages, 3 frames, one of which another region's page table may take; 1,409,836 states | NoPanic, NoUseAfterFree, RefCountExact, ReservationsExact, FramesConserved, NoEntryWithoutMapping, LockedIsGlobal | a region with a child mapping next to another; a fault, a populate, a pin and an unmap of the same mapping overlap; memory ends at the reservation and at the one table (running out between two tables is left to the proof) |
| `sched` | 2 cores, 3 threads, 3 stack regions, parking on; 145,190 states | OneCorePerThread, StacksMapped, QueuedOnce, NoLostThread, ThreadRefExact, DeadIsPut | two threads move between cores while a third queues; objects are freed and allocated again; a core stops at each place of a put |
| `slab` | 2 cores, 2 slabs of 3 objects; 27,220 states | ListsExact, ObjectsExact, HandedOutZeroed | slabs are empty, partial and full, in every combination |
| `boot` | boot core and 3 secondary cores, one interrupt stack each; 834,949 states | OwnTss, RwExact, StartUpEnds | a reader loads, two others change the word, the reader swaps; three cores in tss_init together, in every pair of pieces of a stack allocation, its error paths too; a second stack repeats the same calls |
| `gaps` | a region of 9 pages, children of 1, 2 and 4 pages; 20,897 states | RedBlack, LinksInOrder, GapsExact, FirstFit, LookupExact | every set of children, up to nine, in the shapes insertion and removal give: every case of both rebalancing loops fires |
| `early` | 20 pages of memory in up to 4 entries, tables of 8 entries in 3 levels; 3,468 memory maps, 94,256 states | EarlyPagesApart, NoMemoryLost, BitmapCovers, DirectMapExact | an entry runs out in the middle of each phase; holes, unaligned ends; memory ends everywhere it can, and 997 maps reach the end |
| `boot_slow_path` | boot core and 2 secondary cores, 2 interrupt stacks each | NoSlowPath, violated | |
| `sched_queue` | 1 core, 2 threads | QueuedRuns, violated | |
| `sched_stack` | 1 core, 2 threads | StackReleased, violated | |
| `sched_yield` | 1 core, 2 threads, debug build | YieldsInterruptible, violated | |

`accounting`, `phys` and `gaps` check for deadlock. The others do not: in them
every core may end in a lock's slow path, the machine may run out of threads or
memory, or the start up is over.

### Fairness

* `sched`: weak fairness of the scheduler's own steps on each core. It runs with
  interrupts off and waits for nothing. It need not get through: the cleanup frees
  a dead thread, and a lock that another core has stops it for good
  (`CleanupHalts`), which `DeadIsPut` names as its exception. That an interrupt
  ever ends a `hlt`, or that a thread ever yields or exits, is not assumed.
* `sched_queue`: moreover the running thread yields or exits again and again
  (strong fairness). Even cooperative threads starve each other, without any core
  having stopped.
* `boot`: weak fairness of the start up as a whole: some core that can go on
  does. Less is assumed than the hardware gives, which runs every core: each step
  is progress (a turn of the spinning loop is no step), so neither a slow core nor
  an unfair TSS spinlock keeps the start up from its end. A core may still stop:
  in the slow path of `m_vmar_lock`, of the slab's or
  the physical allocator's mutex, or in the assertion that `stack_alloc`
  succeeds. `StartUpEnds` excepts these and nothing else.

## What the runs show about the code

The safety properties hold. Four statements of the repository do not:

1. `boot/entry.c:77` says the cores are started one by one so that no lock takes
   its slow path. The loop releases them without waiting, and two cores meet in
   `m_vmar_lock` or in one of the mutexes (`boot_slow_path`).
2. `thread/runq.c:10` calls the run queue "just a queue per core". It puts in
   front and takes from the front; a thread that yields is chosen again
   (`sched_queue`).
3. `mem/vmar.h:183` says a child must be put when done. `thread_free` unmaps the
   stack region but keeps the reference `stack_alloc` returned, so a `vmar_t`
   leaks with each thread (`sched_stack`).
4. `thread/thread.c:91` asserts that interrupts are enabled in `thread_yield`. A
   new thread is entered with interrupts disabled and nothing enables them
   (`sched_yield`).

A fifth concerns code that is not written yet. `thread/thread.h:52` lets
`scheduler_try_unpark` turn a PARKING thread READY to abort its park, and
`scheduler_schedule` has no case for READY: when the unpark comes before its load
(`thread/sched.c:148`) it asserts (`thread/sched.c:171`), and the thread is on no
queue. Only an unpark after the load is handled. The model of `sched` reaches that
assertion (`panic_state`). `NoLostThread` says how far it goes: from the load on no
thread is lost (`KeptFromTheLoad`), nothing but such an unpark makes the assertion
fail, and without parking, as the tree stands, nothing does (`OnlyUnparkAsserts`).

## The proofs

`AccountingProofs` proves, for any finite set of cores, any number of pages and
any word size that can count them:

* `AcctTypeCorrect`: the counters stay between zero and the pages that exist;
* `AcctNoUnderflow`: the assertion in `checked_atomic_sub` never fails;
* `AcctWithinTotal`: committed + reserved ≤ total in every intermediate state;
* `AcctImplementsLedger`: the interleaved instructions implement the atomic
  ledger;
* `AcctEveryPageCounted`: every page is in one counter or on its way to one, and
  each counter covers what callers hold.

Assumptions, declared in `Accounting`: the set of cores is finite
(`CpusAssumption`), the pages are a natural number (`PagesAssumption`) that a
`size_t` can hold (`WordAssumption`). Callers give back only what they hold;
that is the guard of `Call`.

None of the properties is inductive: a counter alone does not say how many pages
half-done operations have in flight. The inductive invariant `AcctInv` adds what
is in flight:

* `Conservation`: the three counters, and what has been debited and not yet
  credited, sum to the total;
* `Backed`: a counter equals what callers hold plus what they have asked to give
  back and not yet debited;
* the shape of each frame (`FrameOK`), types and `NoUnderflow`.

From `Backed` a pending debit is covered by its counter, so no debit underflows;
from `Conservation` the bounds follow. "In flight" is a sum over cores.
`FiniteSums` defines a sum as a cardinality, the number of pairs <<x, k>> with k
in 1..f[x], so that the library's facts on finite sets apply and no induction is
needed; `AccountingProofs` first proves what it uses of sums, above all that
changing one summand changes the sum by the difference. The proof of the step has
one lemma per instruction (call, load and compare-and-swap, debit, grow, credit). The
refinement maps an account to its counter plus what is on its way there, so
that a transfer takes effect with its first instruction and the second is a
stutter.

`PhysProofs` proves, for any finite set of cores, any number of levels and
minimal blocks, any page level and any regions of memory:

* `PhysNoPanic`: no assertion of `mem/phys.c` fails. A search for reserved pages
  finds a block, its commit is granted, and a merge stays inside the levels;
* `PhysBlocksDisjoint`, `PhysFullyMerged`, `PhysZeroedOnAlloc`, as in the run;
* `PhysPromisesBacked`: the counters promise only pages that are free;
* `PhysCommittedExact`: at rest they know of every one of them;
* `PhysUsesAccounting`: seen from the counters it is a behaviour of
  `Accounting`, so everything that `AccountingProofs` proves is true of it.

Assumptions, declared in `Phys`: a page is one of the levels (`LevelAssumption`);
boot hands over whole pages, each once, no more than the counters can hold
(`RegionAssumption`, which is what `boot/virt.c` makes of a sorted memory map of
disjoint entries, see `EarlyApart`); the boot core is a core, and nobody asks for
more pages than a word can say (`BootAssumption`). Callers free only what they
own and turn into pages only what they reserved; these are guards of the model.

The properties depend on each other, so one invariant, `PhysInv`, carries all of
them. That a reserved allocation does not fail is a fact about the freelists, the
counters and the calls of all cores at once. Its parts, next to `AcctInv`:

* `BuddyOK`: each free block is aligned, on the freelist of its level once, with
  its level in its header, zeros behind it and its bit set, and its buddy is not
  free at the same level; no two blocks overlap, free or out; a block that is out
  has a clear bit at its head. Bits inside a block may be stale, but none is set
  outside all blocks. That is enough for the test of the merge loop to find
  exactly the free buddy of the same level (`MergeableExact`): a set bit at the
  head of the buddy lies in some block; a larger one would contain the block
  that is being freed as well, so the bit is at the head of a block, and as it
  is set there the block is free and its header tells its level;
* `BuddyInv`: the free blocks and those that are out make up exactly the memory
  added so far, so that nothing leaks in a split or a merge. `LockOK` and
  `HandsOK` say which core is in the critical section and what it has in hand (a
  core that halted at the mutex keeps its block for ever), `BootOK` follows
  `phys_add_memory`;
* `FramesOK`: an accounting call a core is in fits the step of the allocator that
  made it; `ClaimsOK`: a search for reserved pages has them reserved still;
* `PagesExact`: the pages that are free as a whole and those that callers have
  committed are all the pages there are. Between the commit and the moment the
  block leaves its freelist (`Granted`) the sum is too large by the pages of that
  commit, and one core at most is there.

From `PagesExact` and `AcctInv` a reservation is backed by a free page, a free
page lies in a free block of at least the page level, and so the search on its
behalf finds one. Splits and merges need laws of powers of two. The provers know
no recursion for them; it comes from the library's theorem on the number of
subsets (`PowStep`), and where a law would take an induction, the least level
that breaks it is refuted instead, which exists because the order of the naturals
is well-founded. Pages are counted as the cardinality of a set (`PagesIn`), so that
disjoint blocks add up by the library's facts on finite sets.

`BootProofs` proves, for any finite set of cores:

* `RwLockExact` and `BootRwExact`: readers and writers exclude each other and the
  lock word counts exactly the cores that hold it, for the lock under any use and
  for the cores that start up;
* `BootOwnTss`: each core loads its own TSS through the one descriptor, and no
  `ltr` finds it busy.

The assumptions are that the cores are finitely many (`RwAssumption`) and that
the boot core is one of them (`BootAssumption`). For the lock the invariant
`RwInv` adds to `RwExact` that a word a reader has loaded and not yet swapped had
no writer in it: a swap that succeeds finds the same word, so no writer is in
now. For the TSS, `TssInv` says that one core at most is between taking the
spinlock and releasing it, and that from the write to the `ltr` the descriptor
is that core's and not busy. `Boot` takes steps of `m_vmar_lock` only through
`RwLock` (`CallStepSteps`), so the lemma about a lock step serves both.

`SchedProofs` proves, for any finite sets of cores and threads, parking or not
(`SchedAssumption`: each core has an idle thread of its own):

* `SchedOneCorePerThread`: no thread runs on two cores;
* `SchedQueuedOnce`, `SchedNoLostThread`: a ready thread is in one queue, once,
  or in the hands of one core that will queue it, from the moment the scheduler
  has read its state; an unpark after that loses none;
* `SchedOnlyUnparkAsserts`: the scheduler's assertion on the state fails only on a
  thread unparked before that read, and never while nobody parks;
* `SchedStacksMapped`: a core never stands on a stack that was unmapped;
* `SchedThreadRefExact`: the count is the number of references.

The last two hold also when a core stops in the middle of freeing a thread.

What makes them inductive is who has a thread. `SchedInv` calls a thread held by
a core that queues it, runs it, or has it to clean up after a switch, and says
that one core at most holds it (`Exclusive`). Then, per core: what a queue may
contain (`QueueOK`), what the current thread may be at each place of the code
(`CurrentOK`), what is left to do about the last one (`LastOK`) and the idle
thread (`IdleOK`). `Kept` says more than `NoLostThread`: a thread that is PARKING
is kept as well, or the unpark that makes it READY would lose it. `RefOK` and
`StackOK` follow a thread from its creation to the last put; stacks are distinct,
so freeing one thread's stack leaves the others mapped. A core that stopped in a
put has dropped the last reference, and the stack of that thread may be mapped or
not: `LastOK` and `StackOK` say so, and that no handle to the thread is left. For a
tree without parking `NobodyParks` adds that a core finds the thread it runs
running or dead.

`SlabProofs` proves, for any number of cores, slabs and objects per slab
(`SlabAssumption`: at least one object fits, as a `static_assert` demands):

* `SlabListsExact`, `SlabObjectsExact`, `SlabHandedOutZeroed`, as in the run;
* `SlabNoPanic`: a slab that is chosen has a free object, and one that takes an
  object back had one in use, so neither `ASSERT` fails.

`SlabInv` says that the one core inside an operation has the lock (`LockHeld`),
that the lists agree with the counts (`Listed`), that a slab's free list holds
objects of that slab, each once and nobody's, as many as are not in use
(`FreeListed`), and that what users hold or give back is not in it
(`HeldKnown`). The second assertion follows by counting: an object that is out
is missing from the list, so the list is shorter than the slab.

`EarlyMemProofs` proves, for every memory map, image, size of the region, depth
of the page tables and size of a block (`EarlyAssumption`):

* `EarlyApart`: tables, bitmap and what the buddy allocator gets share no page,
  and all of it is usable memory;
* `EarlyNothingLost`: at the end every usable page was handed out, and as many
  are counted;
* `EarlyBitmapCovers`: the bits of every block the buddy allocator may touch are
  mapped;
* `EarlyDirectMapExact`: no entry of a page table is written twice, the bitmap
  finds a place, and from the switch of the tables on the direct map shows
  exactly the usable and the reclaimable memory, with every table, every page of
  the bitmap and all that the buddy allocator gets.

The last one needs the layout to be possible at all (`LayoutAssumption`): the
linker keeps the sections of the image apart, and the kernel's region of 128 TB
has room for the direct map of all memory and for its bitmap.

The invariant `EarlyInv` rests on one observation: what was handed out so far is
all the usable memory below the allocator's top (`PagesCounted`), and no usable
entry reaches across the top except the one pages are being cut from
(`AllocatorOK`). The bitmap's place is apart from what is mapped before it
(`BitmapApart`), so no page of it is skipped as present already (`BitmapMapped`).
The rest is arithmetic of alignment, and the existence of a least entry above
the top, which comes from the order of the naturals being well-founded. For the
direct map `MapInv` says page by page what the loops have reached: entries they
have passed hold their frame, all others are empty, so that the assertion in
`early_virt_map` holds; entries of the memory map are disjoint, and so are
the image, the direct map and the bitmap.

`VmarProofs` proves, for any number of cores, objects, pages and frames
(`VmarAssumption`: finite sets of cores, pages, frames and tables; the root is not
an object of the pool, "no vmar" is no vmar and "no frame" no frame):

* `VmarNoUseAfterFree`: whatever a handle, the tree, a fault past its unlock or a
  call in progress can reach is alive;
* `VmarRefCountExact`: a count is the number of references.

Neither is inductive, and neither is about page tables: `ObjInv` speaks of
objects, the rwlock and the calls only, and holds whatever assertion fails. Its
parts are the lock word against the cores inside, where a core that halted keeps
its share (`LockOK`); what a call keeps of its arguments (`ShapeOK`); that a vmar
being made is known to nobody else (`MakingOK`); that the tree consists of living
objects and what is not in it was unmapped (`TreeAlive`); and that a core with
the exclusive lock works on what is linked, as did one that stopped there, after
which nobody unlinks anything (`WorkOK`). `vmar_unmap` goes down to a leaf and
back up to where it began, so `WorkOK` also says that it works below the vmar
it was called for; `Below` is the intersection of all sets closed under parents,
which needs no recursion. The three kinds of put, of a handle, of a fault and of
the tree, share one lemma (`DropRef`).

The second part of `VmarProofs` proves, on top of `ObjInv` and under the same
assumption, the other safety properties of the run: `VmarNoPanic`, `VmarReservationsExact`,
`VmarFramesConserved`, `VmarNoEntryWithoutMapping` and `VmarLockedIsGlobal`. They
depend on each other (the populate gets its page because reservations are exact,
they are exact because no page belongs to two mappings), so one invariant,
`MemInv`, carries all of them:

* `MutexOK`: one core at most holds the mutex of a mapping, and none does once
  the mapping is about to be unlinked. A fault that has dropped the rwlock is
  such a core: `vmar_unmap` stops at the mutex instead of taking its page tables;
* `RangesOK`: ranges nest as the tree does, what is not above or below is apart.
  With that two linked mappings share no page (`MappingsApart`), so that one
  mutex guards each entry, and a place the tree offers is free of entries;
* `UseOK`, `DownOK`: what a call may rely on at each place, above all that the
  vmars under one being unmapped are not pinned and that a mapping leaves the
  tree with empty entries;
* `EntriesOK`: an entry that keeps an address without being present exists only
  between the two passes of `virt_free`;
* `ResvOK`: reservations are exact and no more than the frames that are free, so
  that a page table is never taken from what is promised;
* `PinOK`: the pages of a locked mapping are global, or the core in `vmar_lock`
  has yet to visit it, or that core stopped with the rwlock and nobody will take
  it again. A populate that read the flag before it was set still holds the
  mutex that `virt_make_global` needs, so it ends before or stops the pin.

Callers' contracts are guards of the model: nobody unmaps what is pinned, and
what is pinned is mapped.

Only model checked:

* `RbTree` with `Gaps`, whose loops are recursive operators: what a recursion
  computes takes an induction over data that the prover does not do;
* liveness under fairness (`DeadIsPut`, `StartUpEnds`), which is beyond it too.

## Not modelled

* TLBs: `tlb_invl_commit` tells no other core (`mem/virt.c:196`, a TODO). There
  is no protocol to check yet; the two passes of `virt_free` around it are
  separate steps in `Vmar`, ready for one.
* Special mappings (fixed physical ranges that are never faulted in); dumps.
* In the trees: the cached variant, `rb_replace_node` and the latch free lookups,
  which nothing calls. Lists are sequences in the components that use them.
* The PARKED bits of the locks, which nothing sets. `Vmar` takes the rwlock in
  one step: by `RwLockExact` a swap that succeeds is as good as one, and a core
  whose swap fails halts, which to the safety properties is a core that takes no
  more steps.
* The areas for core locals (`sync/smp.c`).
* Interrupt vectors, APIC, CPU features, GDT layout, random numbers: registers
  with no state a model would tell apart.
* String, formatting and trace helpers; `boot/limine.h` is the boot protocol.
* The failures of a page fault (`CHECK_KILL` in `virt_page_fault_handler`: no
  mapping, a protection fault): they release what the fault took, as a fault that
  populates does, or the kernel stops.

## Plan

Done: (1) `Ledger`, `Accounting`, its proofs, `Phys`; (2) `Vmar`; (3) `Sched`,
`Slab`, `Boot`; (4) `RwLock` and its proofs; (5) `RbTree` and `Gaps`; (6)
`EarlyMem`; (7) the proofs of `Sched`; (8) of `Slab`; (9) of `EarlyMem`; (10) of the
objects of `Vmar`; (11) of its page tables; (12) of `Phys`, with its use of the
accounting; (13) of the direct map of `EarlyMem`.

A model of the TLBs on top of `Vmar` follows the code: once `tlb_invl_commit`
tells the other cores, what a core may still see after `virt_free` is to be held
against "no core should be able to see these pages anymore" (`mem/virt.c:235`).
