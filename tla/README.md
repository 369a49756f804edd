# Verification of BareMetalRAM

TLA+ specifications, TLC model checks and TLAPS proofs for the Arduino kernel in
`src/`: software paging with an L1 cache over an external SPI SRAM (23LC1024), a
second, classic heap on the same chip, timed tasks and processes. Paths below are
relative to the repository (`src/PageCache.cpp` is the file of that name in its
`src` directory, `README.md:11` its README).

## 1. Inventory

The program is single-threaded: `loop()` calls `PM.schedule()` and
`TaskScheduler::checkAll()` for ever, each function runs to its return, and the only
asynchronous part is the Timer1 interrupt. So what is hard here is seldom an
interleaving of two actors; it is long sequences of legal calls, bookkeeping kept in
two places, arithmetic that wraps, and loops that fail half-way.

| Component | State | Operations | Talks to | Correct when |
|---|---|---|---|---|
| Physical pages and page tables, `PageCache.cpp` 108-315 | `phys_pages` (state, owner, reference count), `page_table` (frame, valid, dirty) | `allocatePhysicalPage`, `freePhysicalPage`, `mapPage`, `unmapPage`, `translateAddress` | drops the cache lines of a page it takes or unmaps | counts agree with the tables; no frame belongs to two processes |
| Paged allocator, 641-795 | none of its own: a block is the run of mapped pages behind its address | `pagedMalloc`, `pagedFree`, `pagedRealloc` | calls the page functions page by page, copies through the cache | all or nothing; a block stays mapped until it is freed; frames come back |
| L1 cache, 317-635 | `cache_sets`, `logical_clock`, the dirty bits | byte and typed reads and writes, `invalidateLine`, `invalidateProcessCache`, `flushCache`, `flushProcessCache`, `invalidateAll` | reads and writes the SRAM | coherent with the SRAM, no line twice, LRU |
| Statistics and printing, 801-1049 | `CacheStats`, page counters | `getFreePages`, `getUsedPages`, `getProcessPages`, `getProcessMemory`, `getHitRate`, `print*` | reads everything, changes counters only | the page counts agree with the tables |
| Timed tasks, `TimedTask.cpp` | `previous`, `interval`, `active`; the table `tasks` | `check`, `isDue`, setters, `registerTask`, `checkAll` | reads the clock several times in a call | a task runs again and again, late by a bounded time only, and early at most once for each wrap of the clock |
| System timer, `TimerSys.cpp` | `g_micros_counter`, Timer1 | `init`, the interrupt, `getMicros`, `getMillis` | hardware | no period lost; each reading is the true count of one instant |
| Classic heap, `ExtSRAMHeap.cpp` | block headers inside the SRAM | `init`, `malloc`, `free`, `defrag`, `getFree`, `getUsed`, `walk` | the same SRAM as the frames | blocks tile the heap; a block in use is left alone |
| Processes, `Process.cpp` | tree of children, reference counts, state | `addChild`, `removeChild`, `prepareForDeath`, `countChildren` | the process manager; the clean-up callback | the list of a process is its children; counts agree with the tree (both only for a manager that keeps rules the code does not check) |
| Process manager, `ProcessManager.h` | table of processes | declared only: `ProcessManager.cpp` is empty at this commit | | |
| SPI driver, `SRAMsimple.cpp` | chip select, the chip's mode | `begin`; reads and writes of six types and of arrays of them | the chip | a block is moved as a whole, and a value read is the value written |
| Start-up and sketch, `BareMetalRAM.cpp`, `.ino` | `proc_mem` | `begin`, tasks with their clean-up, `loop` | everything | what a task accesses is mapped; what dies leaves nothing behind |

`PROJECT.json` lists the hazards of each part at the line where they bite, with the
properties that cover them or the reason why none does.

## 2. Modules

| Module | Models | Extends |
|---|---|---|
| `PageTable` | frames, page tables, the paged allocator | |
| `PageCache` | the cache, the SRAM, the clock; every function of `PageTable` with its effect on them | `PageTable` |
| `TypedBytes` | the layout of the C types in bytes | |
| `TypedAccess` | the accessors of arrays, integers and floats through the cache | `PageCache`, `TypedBytes` |
| `ProcessMemory` | abstract: one private memory for each process; `PageCache` implements it | |
| `TypedMemory` | abstract: the same, read and written by whole values; `TypedAccess` implements it | `ProcessMemory` |
| `Recency` | `PageCache` with the order of the last accesses | `PageCache` |
| `PagedBlocks` | callers that keep to the rules of malloc | `PageTable` |
| `Process` | the tree of processes, under two managers | |
| `Sketch` | the tasks, their records and clean-up, over allocator and tree | `PageTable`, `Process` |
| `TimedTask` | tasks and scheduler against a wrapping clock | |
| `TimerSys` | `getMicros`, the timer and its interrupt | |
| `Clock` | abstract: the clock `TimedTask` takes for granted; `TimerSys` implements it | |
| `ExtHeap` | the classic heap and its callers | |
| `SharedSRAM` | classic heap and paged allocator on one chip | `ExtHeap`, instance of `PageTable` |
| `SRAMsimple` | the SPI driver and the chip | `TypedBytes` |
| `ByteStore` | abstract: a memory read and written by blocks; `SRAMsimple` implements it | |
| `PageTable_proofs`, `PageCache_proofs`, `Recency_proofs`, `ExtHeap_proofs`, `TimerSys_proofs`, `TimedTask_proofs`, `Sketch_proofs`, `SRAMsimple_proofs` | theorems | |
| `MC*` | the instances TLC checks | |

The refinements form a chain: `SRAMsimple` implements the byte store that `PageCache`
uses as `sram`, `PageCache` the private memories, `TypedAccess` the memories of values
that the tasks of `Sketch` are written for; beside it `TimerSys` implements the clock of
`TimedTask`.

Definitions named *Mutant of X* are X with a plausible mistake: each property is
known to fail when its mutant takes the place of the definition. They are used by no
specification.

### PageTable

`phys_pages` and `page_table` are the arrays of the code; an entry with `valid = 0` is
`Unmapped`. `allocatePhysicalPage`, `freePhysicalPage`, `mapPage` and `unmapPage` are
one step each. `pagedMalloc`, `pagedFree` and `pagedRealloc` are followed one loop
iteration at a time: `call` holds their locals and where they are (`malloc`, its
roll-back `undo`, `copy`, `free`), and every public function waits for it to be idle,
because nothing else runs. The scans that change nothing are sets: `FirstFit` is the
scan of `pagedMalloc`, `MappedRun` that of `pagedFree` and `pagedRealloc`.

*Left out*: `access_count`, `last_access`, `access_time` and the counters. Only
`findVictimPage` reads one of them, to choose among its candidates; the choice is left
open (`Victims`), and `NoVictimAlways` proves that there is never a candidate. `init`
is `Init`: it is called once, from `BMRAM.begin`. `pagedRealloc` gets valid process
numbers only, since it indexes the table before any check (a hazard in the list). Every
other function also gets the first process number, page and frame that its checks reject
(`AnyPid`, `AnyLP`, `AnyFrame`), so the early returns of `mapPage`, `unmapPage` and
`freePhysicalPage` are taken, and so are those of `invalidateProcessCache` and
`flushProcessCache` in `PageCache`; `allocatePhysicalPage`, which does not check its owner,
takes the invalid one for an owner. `LogicalPage` is the page number of an
address at the width the code gives it, `uint16_t`: an address of `PAGE_NUMBERS` pages or
more means a low page again (lines 322, 722, 763). `getFreePages`, `getUsedPages`, `getProcessPages`
and `getProcessMemory` change nothing, nothing but the output reads them, and they are left out.

`Spec` allows every public function in any order, `PagedSpec` the paged allocator alone
(what the sketch uses), with any arguments.

### PageCache

The SRAM is seen by lines. `ReadByte` and `WriteByte` are `cacheReadByte` and
`cacheWriteByte` whole: translate, look the line up, else take an invalid way or the
least recently used one, write it back if dirty, fill it, use it, write through, tick
the clock (`WayFor`, `MakeRoom`, `Fetched`). `CachedMallocPage`, `CachedUnmapNext` and their like complete the steps of
`PageTable`, and `CopyRead`/`CopyWrite` are the two halves of an iteration of the copy
of `pagedRealloc`. An invalidated line is the one value `InvalidLine`: the code leaves
stale fields behind and reads none of them before it fills the line again.
`invalidateLine` is called by lines, as every caller does.

### ProcessMemory

What README.md:11-12 promises: a page of a process keeps the bytes last written to it
for as long as it is mapped and no other process can change or see them. `PrivateMemory`
maps the program's state to it: a page exists if it is mapped, and its bytes are those a
read *past the cache* would give, so the refinement says that what reads return through
the cache is what was written. A refinement alone would be content with a read of some
process's byte: `AccessesOwnByte`, the other half of `PrivateMemory`, says that
`cacheReadByte(pid, addr)` is `Read(pid, addr)` of the abstract memory and
`cacheWriteByte(pid, addr, b)` is `Write(pid, addr, b)`, that the copy of `pagedRealloc` reads
and writes the byte it is at, and that a read that faults returns 0.

### TypedAccess, TypedBytes, TypedMemory

The accessors of lines 466-549 are loops over `cacheReadByte` and `cacheWriteByte`, and
each byte is a step (`NextByte`), because each can miss the cache and evict the line of the
byte before. `cacheWrite` and `cacheRead` enter one, `AccessReturns` puts the value
together. The types differ only in `TypedBytes`: `BytesOf` and `ValueOf` do what the
shifts and casts do, with `BYTE` values for a byte in place of 256, so an `int` has
`BYTE`<sup>2</sup> values and a sign; a float is its bytes. Between accessors the
allocator and the functions on lines (flushes and invalidations) run, so this is also the
instance in which the refinement of `ProcessMemory` is checked.

`TypedMemory` has one step for a whole value. Bytes outside the mapped pages are lost when
written and 0 when read. `ValuesAtOnce` refines it with the memory as it was when the
accessor began (`before`, history), so no step of an accessor may let a half-written value
be seen, and no byte but the value's may change, however the value lies in lines and pages.

### TimedTask

Each reading of the clock is a step of its own, since the clock goes on between two of
them: `CheckElapsed`, then `Run`, or the comparison with a clock behind `previous`
(`NotBehind`, `CorrectPrevious`, `LongBehind`). The clock is external and wraps at
`CLOCK_MOD`; two history variables tell the true time since `previous` was last set
from the clock, and whether `check` has changed it by its rule for a wrapped clock. The
tasks begin with any `previous` and active or not, as the second constructor leaves them;
`SketchTaskSpec` of `MCTimedTask` is those of the first, which the sketch uses. A
task is polled through `isDue` or registered, not both. The functions executed are taken
to make no calls on tasks, as `stats_task` of the sketch.

### ExtHeap

`heap` maps the addresses that hold a header to it. `malloc`, `defrag` and `getFree` walk
it, one iteration a step; `held` is what the callers hold. A header that is absorbed
by `defrag` is forgotten although its bytes are still there: `Tiled` shows that no walk
gets to them. Holders write inside their data only, so headers change by the heap's own
hand. `getUsed` is `getFree` subtracted from a constant; `walk` prints. Callers free
what they hold, once.

### PagedBlocks

The program keeps no record of its blocks, so the module adds `blocks`. In `ClientSpec` a
process asks for blocks, up to `MaxBlocks` at a time (a bound of the model), and frees or
reallocates each by its address; the steps of the calls are those of `PageTable`. The address
0 is a failure to it, as to the sketch.

### TimerSys, Clock

`getMicros` masks the interrupt and reads `g_micros_counter`, `TCNT1` and the flag
`OCF1A`, a step each; the timer ticks between any two of them, goes back to 0, raises the
flag, and the interrupt is taken whenever it is enabled. `TimerTick` is hardware. Two
counters bound it: the interrupt waits less than half a period (`MaxLatency`), and a call
takes at most half a period (`MaxCall`). The code relies on this: `tcnt < OCR1A / 2` is
its only way to tell a reading of `TCNT1` before the wrap from one after. `init` leaves the
flag as it finds it, so `TimerInit` takes it up or down; a flag that is up counts a period that
has not passed, and all later readings are ahead by it (`now` counts from there). A period is 1000
ticks, 500 µs at 16 MHz (a tick is then 0.5 µs, `TimerSys.cpp:8`); `getMicros` takes a
few dozen instructions and nothing else under `src/` masks interrupts. `getMicros` is
called with interrupts enabled, so restoring `SREG` enables them. `MicrosAtOneInstant` refines
`Clock`: what a call returns was the true count at the instant it read `TCNT1`.

### Process

Each function is one step over `state`, `ref_count`, `first_child`, `next_sibling` and
`parent`; `Visited` is where a loop along the list goes, `WalkEnds` that it ends; a function
whose loop would not end is no step. The process manager, the only possible caller, has no
code, and `Process.cpp` checks nothing of what it is called with. So there are two
specifications:

- `LegalSpec`: a living process takes a child without a parent, a child is taken from its
  parent, a process dies once. This is what `attachChild(parent, child)` and
  `detachChild(child)` of `ProcessManager.h` suggest, and it is not enough. A child detached
  from the front or the middle of a list and attached again brings its old siblings along
  (`tree_reattach`); a child of a dead parent that is detached loses the reference that the
  death has already taken (`RefCounts` fails after attach, death, detach);
- `RuledSpec`, with two more rules (`CanAttach`, `CanDetach`): a child that was taken from a
  list is attached again only if it was the last of that list, so that it brings no
  `next_sibling` along, and a child is taken from its parent only while the parent lives.
  Here lists and counts are right, which the run `sketch` checks for three processes and
  `Sketch_proofs` proves for any number, wherever in its list the child is. The rules are a
  specification for the missing code, not a fact about the present one.

Neither takes a process from one that is not its parent: `removeChild` would take a reference
from it all the same (`Process.cpp:66`, a hazard in the list).

### Sketch

One task runs at a time, to its return (`turn`): `RunTask` starts it and calls
`pagedMalloc` if it has no block, `TaskHasBlock` is its test of the address, `TaskUses`
its accesses, whose addresses `TaskAddrs` names. `prepareForDeath` of a process calls
`cleanup_paginado` if the process has it (`CleanUpSensor`, `CleanUpData`,
`CleanUpReturns`), then leaves its children (`Dies`). The iterations of the allocator are
those of `PageTable`. Which process is next, which die and who is whose child is any
choice of `RuledSpec`, since `PM.schedule` has no code. `PM.create` is not
given a clean-up (`.ino:228-230`), `PM.spawn` is: `Cleaned` are the processes that have
it, and both kinds are in the run. A process that is `ZOMBIE` is not run again.

### SRAMsimple, ByteStore

Each function selects the chip, sends a command, three address bytes and its data, and
deselects it: `Call`, `Transfer` for each byte, `Deselect`. The functions differ in the
type and number of their values, so `write` and `read` take these as parameters; a scalar
is an array of one. The chip (`Receive`, `Answer`, `NextCell`) is external: it starts
anew when selected, and in its sequential mode, which `begin` sets, goes from byte to byte
and round at its end. It may come up in either mode. `ByteStore` reads or writes a block
in one step; `BlocksAtOnce` is the refinement.

### SharedSRAM

`ExtHeap` and `PageTable` over one chip, as `BareMetalRAM::begin` starts them: page `f` is
the bytes from `f * PAGE_SIZE` on, a header of the heap the bytes from its address on.
`ProcessWrites` writes a byte to a page the process has mapped. *Bound*: of a header
only the magic byte is written, which suffices to lose the block.

## 3. Runs

All passing runs search the whole state space of their instance. Deadlock is checked in each,
so a turn of `Sketch` or a call of the driver that got stuck would be found.

| Run | Instance | Shows |
|---|---|---|
| `page_table_paged` | 5 frames, 2 processes, 4 pages, sizes and addresses to 7 | the allocator alone: `Isolation`, `PagedRefCount`, `FramesNeverFreed`, `MallocAllOrNothing`, `ReallocKeepsOldBlock`, `MappedPrefix`, and that calls return |
| `cache_api` | 1 frame of 3 lines, 2 pages, 2 ways, clock to 16 | every public function but the allocator's, in any order: types, `FreeIffUnreferenced`, `RefBound` (a count is at most one more than the mappings, so 16 bits suffice), `Coherent`, `UniqueTag`, and `EvictsLeastRecent` from the history of accesses |
| `cache_paged` | 3 frames, 2 processes, 3 pages of one line, 1 way | the allocator and the accessors through the cache: `PrivateMemory` (refinement of `ProcessMemory`, each access to its own byte), `DirtyLinesTracked`, `ValuesAtOnce` (refinement of `TypedMemory`, the copy of `pagedRealloc` included, where each byte evicts the line before) |
| `sketch` | 3 frames, 3 processes, 3 pages of 256 | the sketch: `KnownOrPageZero`, `AccessesMapped`, `CleanedUp`; no turn gets stuck; for the calls of `RuledSpec` `ListIsChildren` and `RefCounts` |
| `heap` | 13 units, headers of 2, sizes to 4 | `Tiled`, `WalkOnHeader`, `HeldIntact`, `OnlyFirstLeaks`, `FailsOnlyWhenFull`, `DefragComplete`, `FreeCounted`, calls return |
| `timed_check` | 1 task, room for 2, clock of 16 ticks, intervals 2 and 5 | `EarlyOnlyOnWrap`, `NoRunMissed`, `IsDueExact`, `KeepsRunning` |
| `timer_micros` | a period of 10 ticks, clock of 23 | `CountKept`, `MicrosAtOneInstant` (refinement of `Clock`) |
| `driver` | a chip of 8 bytes, bytes of 2 values, 16 kinds of call | `BlocksAtOnce` (refinement of `ByteStore`), `TypedResult` |

**Why the bounds are enough.** `page_table_paged`: with five frames and eight logical
pages the callers run out of logical pages before frames and of frames before logical
pages, in the first and in a later iteration of the loop; `MaxSize` goes to the whole
table, `MaxAddr` to its last address. `cache_api`: two pages on one frame give every
pattern of double mapping, remapping and double freeing of a frame; three lines that
compete for two ways are the least for which LRU differs from any other order; `AnyPid`
holds the first invalid process and `MaxAddr` reaches into the second page.
`cache_paged`: the cache is one line of two bytes, so every access to another line is an
eviction, and an array of three bytes or a `long` of four crosses two or three lines and as many
pages; address 1 begins within page 0, 15 is the last byte of the last page number and goes on
at page 0, and a page behind the first one may be mapped or not. Two processes take frames from
a pool of three until it is empty, and `MaxClock` = 9 leaves time for two allocations, a write of
the one and a read of the other. `int`, `unsigned int` and `float` differ from `long` in
`TypedBytes` only, and `driver` has all six types. The addresses of `realloc` go to the last of
the table. `MaxClock` is
the only bound on the behaviours of the cache: no call begins once the clock is past it,
the call in progress goes on. In `cache_api` and `cache_paged` this keeps the clock from
wrapping; the proofs of coherence do without. `sketch`: one process for each task, two
with the clean-up; frames for one page of each, while each needs two, so tasks fail and try
again; in its trees the first and the last of a list of two are taken, and the middle of a longer
one is left to the theorem. `heap`: room for
three blocks of the smallest size besides the first, so that merges of two and three
neighbours, splits, blocks too small to split and a full heap all occur. `timed_check`:
the clock wraps several times, the intervals are small against a turn and `MaxGap`, the
ticks between two steps of `checkAll`, is as long as the shorter interval; the same task
may be registered twice. `timer_micros`: the clock wraps inside a period, as 2^32 does, and
latency and call together are longer than half a period, so the flag may be raised
before, between and after the readings. `driver`: addresses before, at and past the end of
the chip, and arrays of each length from 0 to 3; negative and largest values of each type.

### What the code does not do

Four runs look for a behaviour that the documentation, a comment or a caller rules out,
and find it (`findings` in `PROJECT.json` has the quotations).

| Run | Violates | Because |
|---|---|---|
| `blocks` | `BlocksMapped` | the new block of a growing `pagedRealloc` lies directly behind the old one (`MappedPrefix`), and the `pagedFree` of the old one (`PageCache.cpp:793`) unmaps all that is mapped behind its address (`:731`), the new block included: *every* `pagedRealloc` that moves a block returns an address that is not mapped (`ReallocLosesBlockAlways`) |
| `shared` | `HeapBesidePages` | the heap and the frames both begin at address 0 of the SRAM: a process that writes to a page of its own destroys the header of a block in use |
| `timed_wrap` | `RunsOnlyWhenDue` | README.md:15 calls the scheduler tolerant of the overflow; a task that waits across the wrap of the clock has `previous` set to a time still to come and is run at the next check, early |
| `tree_reattach` | `ListIsChildren` | a detached child keeps its `next_sibling`: attached again, it brings the rest of its old list along, or closes a ring |

The instances are the smallest that show it; `timed_wrap` runs the sketch's own kind of
task (`SketchTaskSpec`). `blocks` allows a process one block at a time; with two (`MaxBlocks` = 2)
a caller that frees the first of two neighbouring blocks loses the second with it, in fewer steps.

Two findings are about what a passing run states of the code as it is:

- README.md:16 promises the eviction of a page when no frame is free. Every frame that is not free
  is referenced, so `findVictimPage` never finds one (`NoVictimAlways`) and the code behind it is
  dead: the allocation fails and is rolled back (`MallocAllOrNothing`).
- The first block of a process is at logical address 0, which is also the failure code: the
  caller thinks that the call has failed, the page stays mapped, and `pagedFree(pid, 0)` refuses
  it. Every process of the sketch loses page 0 that way, and no more (`KnownOrPageZero`).

Other disagreements come out of the passing runs and the proofs, stated as what the code
does instead:

- a frame once used is never free again: allocation and mapping count two references,
  `unmapPage` gives one back (`FramesNeverFreedAlways`);
- a task runs early, after a wrap of the clock, and at most once for each wrap
  (`EarlyOnlyOnWrap`);
- README.md:12 promises LRU by a logical clock; once the clock has wrapped, the line used last has
  the least time stamp and is evicted (`EvictsLeastRecent` and its theorem end at the wrap;
  `cache_api` with `MaxClock` = 15 violates it);
- `KILL_PENDING` is not reached by the death of a parent, since a process holds a
  reference of its own (`RefCounts`: within the rules no count falls below 1);
- the first block of the classic heap is never freed (`OnlyFirstLeaks` excepts it);
- the 16-bit sums of `ExtSRAMHeap.cpp:42` and `PageCache.cpp:646` wrap for sizes next to
  65535 (hazards with no property: the models keep such sizes out).

### Fairness

`FairSpec` and `HeapSpec` have weak fairness on the step of the call in progress: nothing
else uses the processor until it returns. `TimedSpec` has weak fairness on the clock,
which is hardware, and on `Check`, as `loop()` is called for ever and `checkAll` has no
blocking call. No fairness is assumed of callers. The other specifications state none.

## 4. Proofs

TLAPS proves the following for every value of the constants that satisfies the
assumptions of the modules (`ConstantsOK`, `CacheConstantsOK`, `SketchConstantsOK`,
`HeapConstantsOK`, `TimerConstantsOK`, `TimedConstantsOK`, `ByteOK`, `DriverConstantsOK`),
which TLC evaluates in its runs. They say no more than that the sizes are positive, that
lines divide pages (256 and 32 in the code), that a process has no more pages than there
are page numbers of 16 bits, that a logger's block fits in a page (64 and 256), that sizes
asked of the classic heap stay clear of the 16-bit wrap above, that an interrupt waits less
than half a period, that intervals are values of the clock, that a byte has an even number
of values, and that three bytes of address name every byte of the chip and a call moves no
more than it holds.

- **`PageTable_proofs`.** `TypeCorrect` carries the bounds of the allocator's loops.
  `FreeIffUnreferencedAlways` is inductive relative to it, because `Claim`, `Release` and
  `Reference` are the only ways a descriptor changes; with it a victim, in use and
  unreferenced, is a contradiction (`NoVictimAlways`). `RefBoundAlways` counts the entries
  that map a frame: mapping adds one to both sides, everything else lowers the count at least
  as much as the entries. For the allocator alone, `PagedInv`
  joins `Isolation`, `OwnerMatches` and `PagedRefCount`, none of which is inductive by
  itself: a new mapping is exclusive only if a free frame is mapped nowhere, which the
  count says, and the count stays right only if an entry is the sole mapping of its frame.
  `FramesNeverFreed` follows: releasing a mapped frame takes 2 to 1.
  What the loops leave mapped comes last. `MappedPrefix` holds between calls only. Its
  strengthening `Stack` says which pages of the calling process are mapped in the middle of
  each loop: those before `start`, and those the loop has reached or not yet left; for
  `pagedRealloc` also that the old block lies before the new one (`OldBelow`). From it come
  `MallocAllOrNothing` and `ReallocKeepsOldBlock`, and, with what a `pagedRealloc` knows of
  the block it has got (`Moving`), `ReallocLosesBlockAlways`: the free begins below the new
  block and does not end before it is through.
- **`PageCache_proofs`.** `CacheInv` is `TypeOK`, `CacheTypeOK`, `Coherent` and
  `UniqueTag`: a write keeps a second copy of a line from going stale only because there
  is none, and a write-back changes nothing only because the line is coherent. The lemmas
  treat one access, one write-back and one invalidation; each public function is then a
  few of them. `CacheImplementsPaged` shows that the cache leaves the tables alone, so the
  theorems about `PagedSpec` hold of the two together. `DirtyLinesTracked` is inductive
  because only a write makes a line dirty, and it makes its entry dirty as well
  (`NoNewDirt` is what every other step keeps to). `PrivateMemoryHolds` maps the SRAM to
  the spaces of the processes byte by byte (`Cells`): with `Coherent`, a read through the
  cache is one past it; with `Isolation`, a write to a frame is a write to one page of one
  process; every other step leaves each mapped page as it was or takes it away. That the
  byte read or written is the one of the call's process and address is shown on the way
  (`MemoryReads`, `MemoryWrites`, `OwnByte`).
  `ReallocCopiesAlways` carries `Moves`: the copy goes from its block to one in later pages
  that is long enough, and the byte that was read has yet to be written. It ends where the free
  begins: see `ReallocLosesBlockAlways` for what comes after.
- **`Recency_proofs`.** `OrderInv`: the time stamps of the lines of a set are distinct and in
  the order of `recent`, and none is later than the clock. An access gives its line a stamp
  later than all; nothing else gives one. `EvictsLeastRecentAlways` assumes `NoWrap`, that no
  call begins so late that the clock wraps in it, as the instance of `cache_api` does: past
  the wrap the order is lost (Section 3).
- **`Sketch_proofs`.** The tree first: `HasList` says that following `next_sibling` from
  `first_child` gives a finite sequence of the children, each once. From it `Visited`, a
  recursive function, is shown by induction to collect these children and `WalkEnds`
  to hold; each call of `RuledSpec` keeps it, a child's removal because the loop stops exactly
  in front of the child (`StopsBefore`). `ListIsChildrenAlways` and `RefCountsAlways` are
  theorems of `RuledSpec`: under its rules, and for any number of processes. Then the blocks: `BlockInv` says what each
  process has mapped at every point of a turn or a death: nothing or page 0 (`Bare`) or
  pages 0 and 1 (`Full`), whichever its record says (`Settled`), and in the middle of
  `pagedMalloc` and `pagedFree` what their loops have reached, for which the lemmas of
  `PageTable_proofs` are used. The four theorems of `SketchSpec` read off their conjuncts.
- **`ExtHeap_proofs`.** `HeapInv` joins `HeapTypeOK` and the four invariants of the run with three helpers:
  no two blocks held have one address, the sum of `getFree` does not exceed the address
  reached, a walking `malloc` asks for at least 1. The core is that splitting and merging
  keep the chain of headers a tiling; everything else rests on it. `WalkInv` adds what a
  walk has established of the blocks behind it: none fits (`NoneFits`), no two neighbours
  are free (`NoPair`), their free bytes are summed (`Counted`); at the end of the heap that
  is `FailsOnlyWhenFull`, `DefragComplete` and `FreeCounted`.
- **`TimerSys_proofs`.** `TimerInv` joins `TimerTypeOK` and `CountKept` with what makes
  them inductive: interrupts are masked exactly during a call, a raised flag makes TCNT1 the
  time it has been pending, and the locals of the call match the registers. Sums on the
  counters wrap at most twice and are proved by cases. A step of the timer then maps to a
  step of `Clock`, and a result is a count the clock had during the call.
- **`TimedTask_proofs`.** `TimedInv` says that, until `check` corrects `previous`, the clock
  shows the true time since it was set (`Measured`), that only registered tasks are
  corrected, and that a task about to run has waited or was corrected (`RunsInTime`, which
  holds however the clock goes on between the readings). `EarlyOnlyOnWrap` and `IsDueExact`
  follow, because either formula of the code is the comparison of that time with the
  interval. `NoRunMissed` needs `CorrectedLate`: a correction happens only after a wrap of the
  clock, and moves `previous` on by at most the longest interval and a tick.
- **`SRAMsimple_proofs`.** First the bytes: a number is its digits to the base `BYTE`
  (`TwoDigits`, `FourDigits`), so the shifts of a read undo those of a write, also for
  negative values (`BytesOfValue`), and for arrays by induction along their values
  (`ValuesRoundTrip`). Then the driver: `DriverInv` says, from the number of bytes sent,
  where the chip is (`ChipInStep`: command, address so far, cell), what is left to send
  (`TailLeft`) and what the block has become (`BlockInStep`). The address arrives a byte at
  a time and is reduced to the chip's size each time (`PointerNext`); that no byte of a block
  overwrites another one needs that the block fits in the chip (`CellsDistinct`). At
  `Deselect` the whole block has been moved, which is the step of `ByteStore`
  (`BlocksAtOnceHolds`).

The type invariants `OwnerMatches`, `CacheTypeOK`, `HeapTypeOK`, `TimerTypeOK`,
`TimedTypeOK`, `SketchTypeOK` and `DriverTypeOK` are proved and have no run of their own, nor
have `NoVictim` and `ReallocCopies`.

The library's induction theorems take an operator as a parameter, which the provers cannot
instantiate. Where an induction is needed (`Visited`, `FlattenSeq`) it is `NatSetInduction`, a statement about a set of numbers, which follows from
`Nat` being well founded; a recursive function is shown to be the one that its equation
defines.

**Only model-checked**: liveness (`CallReturns`, `KeepsRunning`, `HeapCallReturns`), out of
the prover's reach; and the refinement `ValuesAtOnce` of the typed accessors, whose proof is
still to be written.

## 5. Not modelled

- The hit and miss counters and the printing (`PageCache.cpp` 801-807, 841-1049), the
  output of the tasks, `stats_task`: nothing reads what they change.
- `ProcessManager`: `ProcessManager.cpp` is empty. Its scheduling, its priorities, its
  garbage collector and the end of a process object are declarations without code.
- `getMillis`, which nothing calls, and the pin and SPI set-up of `begin`.
- Physical effects: a transfer that fails, a loss of power. The code handles neither: it
  reads back nothing and keeps nothing across a reset (`init` clears all tables).
- `pagedRealloc` with an invalid process number, and sizes for which the 16-bit sum of
  `ExtSRAMHeap.cpp:42` wraps: both are undefined by the code's own standards.

## 6. Plan

1. *Done*: page tables and paged allocator, cache, private memory, classic heap, timed
   tasks, with the theorems above; then the system timer, processes and sketch, the typed
   accessors, the SPI driver and the shared SRAM, and the theorems about timer and tasks.
2. *Done*: the safety properties of the allocator, the cache, the tree, the sketch, the
   classic heap, the tasks and the driver as theorems, `PrivateMemory` and `BlocksAtOnce` as
   proved refinements.
3. **Proof** to come: `ValuesAtOnce` as a refinement (what an accessor has moved so far is the
   value with its first bytes, as for the driver).
