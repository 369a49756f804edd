----------------------------- MODULE PageCache -----------------------------
(***************************************************************************)
(* The L1 cache of PageCacheManager (src/PageCache.cpp) on top of the page *)
(* tables: a set-associative, physically tagged, write-through cache of    *)
(* the external SRAM with a dirty bit and LRU replacement.  Each function  *)
(* of PageTable that reaches the cache is completed here.                  *)
(*                                                                         *)
(* The SRAM is seen by lines: sram[t][o] is the byte at the physical       *)
(* address t * CACHE_LINE_SIZE + o.  An invalid line is InvalidLine: the   *)
(* code leaves its other fields as they were and reads none of them before *)
(* it fills the line again.  The statistics are left out.                  *)
(***************************************************************************)
EXTENDS PageTable

CONSTANTS
  CACHE_LINE_SIZE, \* bytes of a line
  CACHE_NUM_SETS,
  CACHE_NUM_WAYS,
  Bytes,           \* what a byte of the SRAM may hold
  CLOCK_MOD,       \* logical_clock is a uint32_t: 2^32
  MaxClock         \* bound of the model: no call begins after this tick

ASSUME CacheConstantsOK ==
  /\ CACHE_LINE_SIZE \in Nat \ {0}
  /\ CACHE_NUM_SETS \in Nat \ {0}
  /\ CACHE_NUM_WAYS \in Nat \ {0}
  /\ CLOCK_MOD \in Nat \ {0}
  /\ MaxClock \in Nat
  /\ 0 \in Bytes
  /\ PAGE_SIZE % CACHE_LINE_SIZE = 0
  /\ MAX_PAGES_PER_PROC <= PAGE_NUMBERS

VARIABLES
  cache_sets,    \* set |-> way |-> CacheLine
  sram,          \* the 23LC1024, line by line
  pte_dirty,     \* the dirty field of the page table entries
  logical_clock,
  out,           \* what the last cacheReadByte returned
  copying        \* pagedRealloc has read a byte and not yet written it

cacheVars == <<cache_sets, sram, pte_dirty, logical_clock, out, copying>>
allVars == <<vars, cacheVars>>

LINES_PER_PAGE == PAGE_SIZE \div CACHE_LINE_SIZE

Sets    == 0 .. CACHE_NUM_SETS - 1
Ways    == 0 .. CACHE_NUM_WAYS - 1
Offsets == 0 .. CACHE_LINE_SIZE - 1
Tags    == 0 .. MAX_PHYSICAL_PAGES * LINES_PER_PAGE - 1

InvalidLine == [valid |-> FALSE, dirty |-> FALSE, tag |-> 0,
                data |-> [o \in Offsets |-> 0], last_access |-> 0]

CacheInit ==
  /\ Init
  /\ cache_sets = [s \in Sets |-> [w \in Ways |-> InvalidLine]]
  /\ sram = [t \in Tags |-> [o \in Offsets |-> 0]]
  /\ pte_dirty = [p \in Pids |-> [lp \in LPs |-> FALSE]]
  /\ logical_clock = 0
  /\ out = 0
  /\ copying = FALSE

SetOf(t) == t % CACHE_NUM_SETS

\* The n-th tick from now.
Tick(n) == (logical_clock + n) % CLOCK_MOD

\* The clock after an operation that takes n ticks.
Ticks(n) == logical_clock' = Tick(n)

-----------------------------------------------------------------------------
(***************************************************************************)
(* Lookup, replacement and the bytes.                                      *)
(***************************************************************************)

Holds(s, w, t) == cache_sets[s][w].valid /\ cache_sets[s][w].tag = t

\* The way the search for line t stops at.
Found(s, t) ==
  {w \in Ways : Holds(s, w, t) /\ \A v \in 0 .. w - 1 : ~ Holds(s, v, t)}

\* findFreeLine: the first invalid way, if any.
FreeWay(s) ==
  {w \in Ways : /\ ~ cache_sets[s][w].valid
                /\ \A v \in 0 .. w - 1 : cache_sets[s][v].valid}

\* findLRULine: the first way with the least last_access.
LRUWay(s) ==
  {w \in Ways : \A v \in Ways :
     \/ cache_sets[s][w].last_access < cache_sets[s][v].last_access
     \/ cache_sets[s][w].last_access = cache_sets[s][v].last_access /\ w <= v}

\* Mutant of WayFor: an invalid way is taken before the line is looked for.
WayForFreeFirst(s, t) ==
  IF FreeWay(s) # {} THEN FreeWay(s)
  ELSE IF Found(s, t) # {} THEN Found(s, t) ELSE LRUWay(s)

\* The way an access to line t uses.
WayFor(s, t) ==
  IF Found(s, t) # {} THEN Found(s, t)
  ELSE IF FreeWay(s) # {} THEN FreeWay(s) ELSE LRUWay(s)

\* Mutant of MakeRoom: the old line is written where the new one is read.
MakeRoomAtNew(s, w, t) ==
  LET line == cache_sets[s][w]
  IN  IF ~ Holds(s, w, t) /\ line.valid /\ line.dirty
      THEN [sram EXCEPT ![t] = line.data]
      ELSE sram

\* The SRAM once way w of set s has made room for line t.
MakeRoom(s, w, t) ==
  LET line == cache_sets[s][w]
  IN  IF ~ Holds(s, w, t) /\ line.valid /\ line.dirty
      THEN [sram EXCEPT ![line.tag] = line.data]
      ELSE sram

\* Mutant of Fetched: a hit does not renew last_access.
FetchedFIFO(s, w, t) ==
  IF Holds(s, w, t)
  THEN cache_sets[s][w]
  ELSE [valid |-> TRUE, dirty |-> FALSE, tag |-> t,
        data |-> MakeRoom(s, w, t)[t], last_access |-> Tick(1)]

\* Way w of set s once it holds line t: used again, or filled from the SRAM.
Fetched(s, w, t) ==
  IF Holds(s, w, t)
  THEN [cache_sets[s][w] EXCEPT !.last_access = Tick(1)]
  ELSE [valid |-> TRUE, dirty |-> FALSE, tag |-> t,
        data |-> MakeRoom(s, w, t)[t], last_access |-> Tick(1)]

\* translateAddress does not fault.
IsMapped(pid, addr) ==
  /\ pid \in Pids /\ LogicalPage(addr) \in LPs
  /\ page_table[pid][LogicalPage(addr)] # Unmapped

translateAddress(pid, addr) ==
  page_table[pid][LogicalPage(addr)] * PAGE_SIZE + (addr % PAGE_SIZE)

\* cacheReadByte returns out'.  touchPage ticks twice.
ReadByte(pid, addr) ==
  IF ~ IsMapped(pid, addr)
  THEN out' = 0 /\ UNCHANGED <<cache_sets, sram, logical_clock>>
  ELSE LET pa == translateAddress(pid, addr)
           t  == pa \div CACHE_LINE_SIZE
           s  == SetOf(t)
       IN  \E w \in WayFor(s, t) :
             /\ sram' = MakeRoom(s, w, t)
             /\ cache_sets' = [cache_sets EXCEPT ![s][w] = Fetched(s, w, t)]
             /\ out' = Fetched(s, w, t).data[pa % CACHE_LINE_SIZE]
             /\ Ticks(3)

\* Mutant of WriteByte: the byte is not written through to the SRAM.
WriteByteBack(pid, addr, b) ==
  IF ~ IsMapped(pid, addr)
  THEN UNCHANGED <<cache_sets, sram, pte_dirty, logical_clock>>
  ELSE LET pa == translateAddress(pid, addr)
           t  == pa \div CACHE_LINE_SIZE
           s  == SetOf(t)
       IN  \E w \in WayFor(s, t) :
             /\ sram' = MakeRoom(s, w, t)
             /\ cache_sets' = [cache_sets EXCEPT ![s][w] =
                  [Fetched(s, w, t) EXCEPT !.data[pa % CACHE_LINE_SIZE] = b, !.dirty = TRUE]]
             /\ pte_dirty' = [pte_dirty EXCEPT ![pid][LogicalPage(addr)] = TRUE]
             /\ Ticks(3)

\* cacheWriteByte: the line, the SRAM and the page table entry.
WriteByte(pid, addr, b) ==
  IF ~ IsMapped(pid, addr)
  THEN UNCHANGED <<cache_sets, sram, pte_dirty, logical_clock>>
  ELSE LET pa == translateAddress(pid, addr)
           t  == pa \div CACHE_LINE_SIZE
           o  == pa % CACHE_LINE_SIZE
           s  == SetOf(t)
       IN  /\ pte_dirty' = [pte_dirty EXCEPT ![pid][LogicalPage(addr)] = TRUE]
           /\ \E w \in WayFor(s, t) :
                /\ sram' = [MakeRoom(s, w, t) EXCEPT ![t][o] = b]
                /\ cache_sets' = [cache_sets EXCEPT ![s][w] =
                     [Fetched(s, w, t) EXCEPT !.data[o] = b, !.dirty = TRUE]]
           /\ Ticks(3)

-----------------------------------------------------------------------------
(***************************************************************************)
(* Write-back and invalidation.                                            *)
(***************************************************************************)

PageLines(f) == f * LINES_PER_PAGE .. (f + 1) * LINES_PER_PAGE - 1

\* The lines of the pages mapped by process pid: none if it is out of range.
ProcessLines(pid) ==
  UNION {PageLines(page_table[pid][lp]) :
           lp \in {l \in LPs : pid \in Pids /\ page_table[pid][l] # Unmapped}}

\* The search for one of the lines T stops at way w of set s.
Selected(s, w, T) ==
  LET t == cache_sets[s][w].tag
  IN  t \in T /\ SetOf(t) = s /\ w \in Found(s, t)

\* The SRAM once the dirty lines among T are written back.
WrittenBack(T) ==
  [t \in Tags |->
     LET s == SetOf(t)
         W == {w \in Ways : Selected(s, w, T \cap {t}) /\ cache_sets[s][w].dirty}
     IN  IF W = {} THEN sram[t] ELSE cache_sets[s][CHOOSE w \in W : TRUE].data]

\* The cache once the lines T are invalid.
Invalidated(T) ==
  [s \in Sets |-> [w \in Ways |->
     IF Selected(s, w, T) THEN InvalidLine ELSE cache_sets[s][w]]]

\* The lines T, one after the other, through invalidateLine.
Invalidate(T) == sram' = WrittenBack(T) /\ cache_sets' = Invalidated(T)

\* Line t, given by the address of its first byte, as every caller in the code does.
invalidateLine(t) ==
  /\ Idle
  /\ Invalidate({t})
  /\ UNCHANGED <<vars, pte_dirty, logical_clock, out, copying>>

invalidateProcessCache(pid) ==
  /\ Idle
  /\ Invalidate(ProcessLines(pid))
  /\ UNCHANGED <<vars, pte_dirty, logical_clock, out, copying>>

flushCache ==
  /\ Idle
  /\ sram' = WrittenBack(Tags)
  /\ cache_sets' = [s \in Sets |-> [w \in Ways |-> InvalidLine]]
  /\ UNCHANGED <<vars, pte_dirty, logical_clock, out, copying>>

\* The lines stay valid.
flushProcessCache(pid) ==
  /\ Idle
  /\ sram' = WrittenBack(ProcessLines(pid))
  /\ cache_sets' = [s \in Sets |-> [w \in Ways |->
       IF Selected(s, w, ProcessLines(pid))
       THEN [cache_sets[s][w] EXCEPT !.dirty = FALSE] ELSE cache_sets[s][w]]]
  /\ pte_dirty' = [p \in Pids |-> [lp \in LPs |->
       pte_dirty[p][lp] /\ (p = pid => page_table[p][lp] = Unmapped)]]
  /\ UNCHANGED <<vars, logical_clock, out, copying>>

\* Nothing is written back.
invalidateAll ==
  /\ Idle
  /\ cache_sets' = [s \in Sets |-> [w \in Ways |-> InvalidLine]]
  /\ UNCHANGED <<vars, sram, pte_dirty, logical_clock, out, copying>>
-----------------------------------------------------------------------------
(***************************************************************************)
(* The public functions on bytes, and the functions of PageTable with what *)
(* they do to the cache.                                                   *)
(***************************************************************************)

\* Bound of the model: no call begins once the clock is past MaxClock.
MayCall == Idle /\ logical_clock <= MaxClock

cacheReadByte(pid, addr) ==
  /\ MayCall
  /\ UNCHANGED <<vars, pte_dirty, copying>>
  /\ ReadByte(pid, addr)

cacheWriteByte(pid, addr, b) ==
  /\ MayCall
  /\ UNCHANGED <<vars, out, copying>>
  /\ WriteByte(pid, addr, b)

\* allocatePhysicalPage on page f: a victim leaves the cache and its page table
\* entries lose their dirty bits.
TakePage(f) ==
  IF phys_pages[f].state = "FREE" THEN UNCHANGED <<cache_sets, sram>>
  ELSE Invalidate(PageLines(f))

DirtyAfterEvict(f) ==
  IF phys_pages[f].state = "FREE" THEN pte_dirty
  ELSE [p \in Pids |-> [lp \in LPs |-> pte_dirty[p][lp] /\ page_table[p][lp] # f]]

\* Mutant of DropPage: the lines of the page stay in the cache.
DropPageKeepsLines(pid, lp) ==
  /\ UNCHANGED <<cache_sets, sram>>
  /\ pte_dirty' = [pte_dirty EXCEPT ![pid][lp] = FALSE]

\* unmapPage drops the lines of the page, but only if the entry is dirty.
DropPage(pid, lp) ==
  /\ IF page_table[pid][lp] # Unmapped /\ pte_dirty[pid][lp]
     THEN Invalidate(PageLines(page_table[pid][lp]))
     ELSE UNCHANGED <<cache_sets, sram>>
  /\ pte_dirty' = [pte_dirty EXCEPT ![pid][lp] = FALSE]

CachedAllocate(owner, f) ==
  /\ MayCall
  /\ allocatePhysicalPage(owner, f)
  /\ TakePage(f)
  /\ pte_dirty' = DirtyAfterEvict(f)
  /\ Ticks(1)
  /\ UNCHANGED <<out, copying>>

\* A mapPage that refuses does not tick.
CachedMap(pid, lp, f) ==
  /\ MayCall
  /\ mapPage(pid, lp, f)
  /\ IF ret'.val = 0 THEN UNCHANGED <<pte_dirty, logical_clock>>
     ELSE pte_dirty' = [pte_dirty EXCEPT ![pid][lp] = FALSE] /\ Ticks(2)
  /\ UNCHANGED <<cache_sets, sram, out, copying>>

CachedUnmap(pid, lp) ==
  /\ unmapPage(pid, lp)
  /\ IF pid \in Pids /\ lp \in LPs THEN DropPage(pid, lp)
     ELSE UNCHANGED <<cache_sets, sram, pte_dirty>>
  /\ UNCHANGED <<logical_clock, out, copying>>

\* One iteration of the loop of pagedMalloc.
CachedMallocPage(f) ==
  /\ MallocPage(f)
  /\ TakePage(f)
  /\ pte_dirty' = [DirtyAfterEvict(f) EXCEPT ![call.pid][call.start + call.i] = FALSE]
  /\ Ticks(3)
  /\ UNCHANGED <<out, copying>>

\* One iteration of the loops that unmap.
CachedUnmapNext ==
  /\ UnmapNext
  /\ DropPage(call.pid, call.start + call.j)
  /\ UNCHANGED <<logical_clock, out, copying>>

\* One iteration of the copy of pagedRealloc: a byte is read, then written.
CopyRead ==
  /\ call.pc = "copy" /\ call.j < call.len /\ ~ copying
  /\ ReadByte(call.pid, call.old + call.j)
  /\ copying' = TRUE
  /\ UNCHANGED <<vars, pte_dirty>>

CopyWrite ==
  /\ copying
  /\ WriteByte(call.pid, call.new + call.j, out)
  /\ CopyByte
  /\ copying' = FALSE
  /\ UNCHANGED out

-----------------------------------------------------------------------------
(***************************************************************************)
(* The specifications.                                                     *)
(***************************************************************************)

\* The public functions that leave the page tables as they are.
ByteCall ==
  \/ \E pid \in AnyPid, addr \in Addrs : cacheReadByte(pid, addr)
  \/ \E pid \in AnyPid, addr \in Addrs, b \in Bytes : cacheWriteByte(pid, addr, b)

LineCall ==
  \/ \E t \in Tags : invalidateLine(t)
  \/ \E pid \in AnyPid : invalidateProcessCache(pid)
  \/ \E pid \in AnyPid : flushProcessCache(pid)
  \/ flushCache
  \/ invalidateAll

CachedFrameCall ==
  \/ \E pid \in AnyPid, f \in Frames : CachedAllocate(pid, f)
  \/ \E pid \in AnyPid, lp \in AnyLP, f \in AnyFrame : CachedMap(pid, lp, f)
  \/ \E pid \in AnyPid, lp \in AnyLP : CachedUnmap(pid, lp)
  \/ /\ \/ \E pid \in AnyPid : AllocationFails(pid)
        \/ \E f \in AnyFrame : freePhysicalPage(f)
     /\ UNCHANGED cacheVars

CachedPagedCall == MayCall /\ PagedCall /\ UNCHANGED cacheVars

CachedStep ==
  \/ \E f \in Frames : CachedMallocPage(f)
  \/ CachedUnmapNext
  \/ CopyRead
  \/ CopyWrite
  \/ /\ MallocOutOfFrames \/ MallocReturns \/ UnmapReturns \/ CopyReturns
     /\ UNCHANGED cacheVars

\* Every public function but pagedMalloc, pagedFree and pagedRealloc.
ApiNext == ByteCall \/ LineCall \/ CachedFrameCall
ApiSpec == CacheInit /\ [][ApiNext]_allVars

\* The paged allocator, the bytes and the lines.
PagedCacheNext == ByteCall \/ LineCall \/ CachedPagedCall \/ CachedStep
PagedCacheSpec == CacheInit /\ [][PagedCacheNext]_allVars

\* Every public function.
CacheNext == ApiNext \/ PagedCacheNext
CacheSpec == CacheInit /\ [][CacheNext]_allVars

-----------------------------------------------------------------------------
(***************************************************************************)
(* Properties.                                                             *)
(***************************************************************************)

Lines == [valid : BOOLEAN, dirty : BOOLEAN, tag : Tags,
          data : [Offsets -> Bytes], last_access : 0 .. CLOCK_MOD - 1]

\* The cache, the SRAM and the dirty bits hold values of their types
\* (PageCache.h:73-96).
CacheTypeOK ==
  /\ cache_sets \in [Sets -> [Ways -> Lines]]
  /\ sram \in [Tags -> [Offsets -> Bytes]]
  /\ pte_dirty \in [Pids -> [LPs -> BOOLEAN]]
  /\ logical_clock \in 0 .. CLOCK_MOD - 1
  /\ out \in Bytes
  /\ copying \in BOOLEAN

\* A valid line is in the set of its tag and holds the bytes of the SRAM, dirty
\* or not: so no write-back ever changes a byte, and invalidateAll, which drops
\* dirty lines, loses nothing (PageCache.cpp:427, 456 and 628-635).
Coherent ==
  \A s \in Sets, w \in Ways :
    cache_sets[s][w].valid =>
      /\ SetOf(cache_sets[s][w].tag) = s
      /\ cache_sets[s][w].data = sram[cache_sets[s][w].tag]

\* No line is cached twice, so the searches, which stop at the first way that
\* matches, never leave a second copy behind.
UniqueTag ==
  \A s \in Sets : \A v, w \in Ways :
    Holds(s, v, cache_sets[s][w].tag) /\ cache_sets[s][w].valid => v = w

\* With the paged allocator a dirty line belongs to a page that some process
\* maps by a dirty entry: unmapPage, which looks at the cache only when the
\* entry is dirty (PageCache.cpp:290), leaves no dirty line of a page it frees.
DirtyLinesTracked ==
  \A s \in Sets, w \in Ways :
    cache_sets[s][w].valid /\ cache_sets[s][w].dirty =>
      \E p \in Pids, lp \in LPs :
        /\ pte_dirty[p][lp]
        /\ page_table[p][lp] = cache_sets[s][w].tag \div LINES_PER_PAGE

\* Byte o of physical page f.
FrameByte(f, o) ==
  LET pa == f * PAGE_SIZE + o
  IN  sram[pa \div CACHE_LINE_SIZE][pa % CACHE_LINE_SIZE]

\* What cacheReadByte(pid, addr) is to return.
ByteAt(pid, addr) ==
  IF ~ IsMapped(pid, addr) THEN 0
  ELSE FrameByte(page_table[pid][LogicalPage(addr)], addr % PAGE_SIZE)

\* The copy of pagedRealloc never overwrites a byte it has yet to read nor one
\* it has copied: the new block begins with the bytes of the old one, whatever
\* lines the copy evicts on its way (PageCache.cpp:787-791).
ReallocCopies ==
  call.pc = "copy" =>
    \A k \in 0 .. call.j - 1 :
      ByteAt(call.pid, call.new + k) = ByteAt(call.pid, call.old + k)

\* The space of each process as its reads see it, were the cache not there.
Space ==
  [p \in Pids |-> [lp \in LPs |->
     IF page_table[p][lp] = Unmapped THEN [o \in 0 .. PAGE_SIZE - 1 |-> 0]
     ELSE [o \in 0 .. PAGE_SIZE - 1 |-> FrameByte(page_table[p][lp], o)]]]

MappedPages == {x \in Pids \X LPs : page_table[x[1]][x[2]] # Unmapped}

Memory == INSTANCE ProcessMemory WITH mapped <- MappedPages, space <- Space

\* Each function on a byte, and each half of the copy of pagedRealloc, is the
\* access to the byte its caller named, in the space of the process it named;
\* where that is no page, it reads 0 or changes nothing.
AccessesOwnByte ==
  /\ UNCHANGED vars =>
       \A pid \in AnyPid, addr \in Addrs :
         IF IsMapped(pid, addr)
         THEN /\ cacheReadByte(pid, addr) => Memory!Read(pid, addr)
              /\ \A b \in Bytes : cacheWriteByte(pid, addr, b) => Memory!Write(pid, addr, b)
         ELSE cacheReadByte(pid, addr) => out' = 0
  /\ CopyRead => Memory!Read(call.pid, call.old + call.j)
  /\ CopyWrite => Memory!Write(call.pid, call.new + call.j, out)

\* The paged allocator and the cache implement ProcessMemory: each process reads
\* back, at each address, what it wrote there last, through every eviction,
\* write-back, flush and invalidation, and never sees another process
\* (README.md:11).
PrivateMemory == Memory!Spec /\ [][AccessesOwnByte]_allVars
=============================================================================
