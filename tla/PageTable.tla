----------------------------- MODULE PageTable -----------------------------
(***************************************************************************)
(* The software MMU and the paged allocator of PageCacheManager            *)
(* (src/PageCache.cpp): the table of physical pages, the page tables of    *)
(* the processes and the loops of pagedMalloc, pagedFree and pagedRealloc. *)
(*                                                                         *)
(* The program is single-threaded: a public function runs to its return    *)
(* before the next one is called.  The allocator's loops are followed one  *)
(* iteration at a time; the variable call holds the locals of the function *)
(* in progress, and every public function waits for it to be idle.         *)
(*                                                                         *)
(* Left out, because nothing here reads them: access_count, last_access    *)
(* and the statistics.  access_time is read by findVictimPage only; the    *)
(* choice among its candidates is left open.  The cache lines are added by *)
(* module PageCache, which extends this one.                               *)
(***************************************************************************)
EXTENDS Integers, FiniteSetsExt

CONSTANTS
  MAX_PHYSICAL_PAGES, \* physical pages (frames) of the external SRAM
  MAX_PROCESSES,      \* rows of the page table
  MAX_PAGES_PER_PROC, \* logical pages of a process
  PAGE_SIZE,          \* bytes of a page
  PAGE_NUMBERS,       \* a page number is a uint16_t: 2^16
  MaxSize,            \* largest size a caller passes (a uint16_t)
  MaxAddr             \* largest logical address a caller passes

ASSUME ConstantsOK ==
  /\ MAX_PHYSICAL_PAGES \in Nat \ {0}
  /\ MAX_PROCESSES \in Nat \ {0}
  /\ MAX_PAGES_PER_PROC \in Nat \ {0}
  /\ PAGE_SIZE \in Nat \ {0}
  /\ PAGE_NUMBERS \in Nat \ {0}
  /\ MaxSize \in Nat
  /\ MaxAddr \in Nat

VARIABLES
  phys_pages, \* frame |-> its PhysicalPageDescriptor
  page_table, \* pid |-> logical page |-> frame, or Unmapped for valid = 0
  call,       \* the allocator function in progress, with its locals
  ret         \* what the last function that returned gave its caller

vars == <<phys_pages, page_table, call, ret>>

Frames   == 0 .. MAX_PHYSICAL_PAGES - 1
Pids     == 0 .. MAX_PROCESSES - 1
LPs      == 0 .. MAX_PAGES_PER_PROC - 1
Unmapped == -1

\* What a caller may pass: pids, pages and frames up to the first one the checks
\* reject.
AnyPid   == 0 .. MAX_PROCESSES
AnyLP    == 0 .. MAX_PAGES_PER_PROC
AnyFrame == 0 .. MAX_PHYSICAL_PAGES
Sizes    == 0 .. MaxSize
Addrs    == 0 .. MaxAddr

FreePage == [state |-> "FREE", owner_pid |-> 0, ref_count |-> 0]

\* pc: idle, or the loop of pagedMalloc (malloc), its roll-back (undo), the
\* copy of pagedRealloc (copy) or the loop of pagedFree (free).
NoCall == [pc |-> "idle", op |-> "none", pid |-> 0, start |-> 0, n |-> 0,
           i |-> 0, j |-> 0, old |-> 0, len |-> 0, new |-> 0]

NoRet == [op |-> "none", pid |-> 0, val |-> 0]

Idle == call.pc = "idle"

\* The function op returns val to its caller, the process pid.
Return(op, pid, val) ==
  /\ call' = NoCall
  /\ ret' = [op |-> op, pid |-> pid, val |-> val]

\* A function on pages returns val; 0 where it returns nothing.
Answer(val) ==
  /\ call' = NoCall
  /\ ret' = [NoRet EXCEPT !.val = val]

Init ==
  /\ phys_pages = [f \in Frames |-> FreePage]
  /\ page_table = [p \in Pids |-> [lp \in LPs |-> Unmapped]]
  /\ call = NoCall
  /\ ret = NoRet

-----------------------------------------------------------------------------
(***************************************************************************)
(* Physical pages.                                                         *)
(***************************************************************************)

\* Mutant of Victims: pages that are mapped are taken as well.
VictimsReferenced == {f \in Frames : /\ phys_pages[f].state # "FREE"
                                     /\ phys_pages[f].ref_count <= 2}

\* findVictimPage: pages in use that nobody references.
Victims == {f \in Frames : /\ phys_pages[f].state # "FREE"
                           /\ phys_pages[f].ref_count = 0}

\* The page allocatePhysicalPage takes: the first free one, else a victim.
Available ==
  LET free == {f \in Frames : phys_pages[f].state = "FREE"}
  IN  IF free # {} THEN {f \in free : \A g \in free : f <= g} ELSE Victims

\* The descriptors once page f is handed to owner.
Claim(pages, f, owner) ==
  [pages EXCEPT ![f] =
     [state     |-> IF @.state = "FREE" THEN "ALLOCATED" ELSE @.state,
      owner_pid |-> owner,
      ref_count |-> 1]]

\* The page tables once page f is taken: taking a victim unmaps it everywhere.
Evict(table, f) ==
  IF phys_pages[f].state = "FREE" THEN table
  ELSE [p \in Pids |-> [lp \in LPs |->
          IF table[p][lp] = f THEN Unmapped ELSE table[p][lp]]]

\* Mutant of Release: the count goes below zero.
ReleaseUnguarded(pages, f) == [pages EXCEPT ![f].ref_count = @ - 1]

\* Mutant of Release: the last reference leaves the state as it is.
ReleaseKeepsState(pages, f) ==
  IF pages[f].ref_count > 1
  THEN [pages EXCEPT ![f].ref_count = @ - 1]
  ELSE [pages EXCEPT ![f].ref_count = 0]

\* freePhysicalPage: the descriptors once a reference to page f is given back.
Release(pages, f) ==
  IF pages[f].ref_count > 1
  THEN [pages EXCEPT ![f].ref_count = @ - 1]
  ELSE [pages EXCEPT ![f] = FreePage]

\* Mutant of Reference: the page that was mapped before is not released.
ReferenceKeepsOld(pages, old, f) ==
  [pages EXCEPT ![f].state = "MAPPED", ![f].ref_count = @ + 1]

\* Mutant of Reference: the mapping is not counted.
ReferenceUncounted(pages, old, f) ==
  LET released == IF old = Unmapped THEN pages ELSE Release(pages, old)
  IN  [released EXCEPT ![f].state = "MAPPED"]

\* mapPage: the descriptors once f replaces old in a page table entry.
Reference(pages, old, f) ==
  LET released == IF old = Unmapped THEN pages ELSE Release(pages, old)
  IN  [released EXCEPT ![f].state = "MAPPED", ![f].ref_count = @ + 1]

\* owner is not checked.
allocatePhysicalPage(owner, f) ==
  /\ Idle
  /\ f \in Available
  /\ phys_pages' = Claim(phys_pages, f, owner)
  /\ page_table' = Evict(page_table, f)
  /\ Answer(f)

AllocationFails(owner) ==
  /\ Idle
  /\ Available = {}
  /\ Answer(-1)
  /\ UNCHANGED <<phys_pages, page_table>>

freePhysicalPage(f) ==
  /\ Idle
  /\ phys_pages' = IF f \in Frames THEN Release(phys_pages, f) ELSE phys_pages
  /\ Answer(0)
  /\ UNCHANGED page_table

mapPage(pid, lp, f) ==
  /\ Idle
  /\ \/ /\ pid \in Pids /\ lp \in LPs /\ f \in Frames
        /\ phys_pages' = Reference(phys_pages, page_table[pid][lp], f)
        /\ page_table' = [page_table EXCEPT ![pid][lp] = f]
        /\ Answer(1)
     \/ /\ ~ (pid \in Pids /\ lp \in LPs /\ f \in Frames)
        /\ Answer(0)
        /\ UNCHANGED <<phys_pages, page_table>>

\* Mutant of Unmap: the reference of the allocation is given back too.
UnmapBoth(pid, lp) ==
  IF page_table[pid][lp] = Unmapped
  THEN UNCHANGED <<phys_pages, page_table>>
  ELSE /\ phys_pages' = LET f == page_table[pid][lp]
                        IN  Release(Release(phys_pages, f), f)
       /\ page_table' = [page_table EXCEPT ![pid][lp] = Unmapped]

\* unmapPage once its arguments are in range, as those of the loops below are.
Unmap(pid, lp) ==
  IF page_table[pid][lp] = Unmapped
  THEN UNCHANGED <<phys_pages, page_table>>
  ELSE /\ phys_pages' = Release(phys_pages, page_table[pid][lp])
       /\ page_table' = [page_table EXCEPT ![pid][lp] = Unmapped]

unmapPage(pid, lp) ==
  /\ Idle
  /\ \/ pid \in Pids /\ lp \in LPs /\ Unmap(pid, lp)
     \/ ~ (pid \in Pids /\ lp \in LPs) /\ UNCHANGED <<phys_pages, page_table>>
  /\ Answer(0)

-----------------------------------------------------------------------------
(***************************************************************************)
(* The paged allocator.                                                    *)
(***************************************************************************)

\* The page of a logical address, a uint32_t, cut to 16 bits: addresses that
\* are PAGE_NUMBERS pages apart are the same to every function.
LogicalPage(addr) == (addr \div PAGE_SIZE) % PAGE_NUMBERS

PagesNeeded(size) == (size + PAGE_SIZE - 1) \div PAGE_SIZE

\* The n pages from s are inside the table and not mapped.
FreeRun(pid, s, n) ==
  /\ s + n <= MAX_PAGES_PER_PROC
  /\ \A lp \in s .. s + n - 1 : page_table[pid][lp] = Unmapped

\* The scan of pagedMalloc: the first place for size bytes, if there is one.
FirstFit(pid, size) ==
  LET n == PagesNeeded(size)
  IN  IF pid \in Pids /\ size # 0 /\ n <= MAX_PAGES_PER_PROC
      THEN {s \in LPs : /\ FreeRun(pid, s, n)
                        /\ \A r \in 0 .. s - 1 : ~ FreeRun(pid, r, n)}
      ELSE {}

\* Mutant of MappedRun: the last page of the table is never counted.
MappedRunShort(pid, s) ==
  {c \in 1 .. MAX_PAGES_PER_PROC - 1 - s :
     /\ \A lp \in s .. s + c - 1 : page_table[pid][lp] # Unmapped
     /\ s + c < MAX_PAGES_PER_PROC - 1 => page_table[pid][s + c] = Unmapped}

\* The scan of pagedFree and pagedRealloc: how many mapped pages follow each
\* other from s on, if any; none when s is not a page of the table.
MappedRun(pid, s) ==
  {c \in 1 .. MAX_PAGES_PER_PROC - s :
     /\ \A lp \in s .. s + c - 1 : page_table[pid][lp] # Unmapped
     /\ s + c < MAX_PAGES_PER_PROC => page_table[pid][s + c] = Unmapped}

\* Mutant of FreedRun: the blocks up to the end of the first page are refused,
\* as the classic heap refuses its first one.
FreedRunPastFirst(pid, addr) ==
  IF pid \in Pids /\ addr > PAGE_SIZE THEN MappedRun(pid, LogicalPage(addr)) ELSE {}

\* The checks and the scan of pagedFree: the number of pages addr frees.
FreedRun(pid, addr) ==
  IF pid \in Pids /\ addr # 0 THEN MappedRun(pid, LogicalPage(addr)) ELSE {}

\* Entering pagedMalloc on behalf of op; old and len are the locals of
\* pagedRealloc.
EnterMalloc(op, pid, size, old, len) ==
  /\ \/ /\ FirstFit(pid, size) = {}
        /\ Return(op, pid, 0)
     \/ \E s \in FirstFit(pid, size) :
          /\ call' = [pc |-> "malloc", op |-> op, pid |-> pid, start |-> s,
                      n |-> PagesNeeded(size), i |-> 0, j |-> 0,
                      old |-> old, len |-> len, new |-> 0]
          /\ ret' = NoRet
  /\ UNCHANGED <<phys_pages, page_table>>

\* Entering pagedFree on behalf of op, which returns new at the end.
EnterFree(op, pid, addr, new) ==
  /\ \/ /\ FreedRun(pid, addr) = {}
        /\ Return(op, pid, new)
     \/ \E c \in FreedRun(pid, addr) :
          /\ call' = [NoCall EXCEPT !.pc = "free", !.op = op, !.pid = pid,
                        !.start = LogicalPage(addr), !.i = c, !.new = new]
          /\ ret' = NoRet
  /\ UNCHANGED <<phys_pages, page_table>>

pagedMalloc(pid, size) == Idle /\ EnterMalloc("pagedMalloc", pid, size, 0, 0)

pagedFree(pid, addr) == Idle /\ EnterFree("pagedFree", pid, addr, 0)

\* pid is not checked before page_table[pid] is read: callers pass a valid one.
pagedRealloc(pid, old, size) ==
  LET s == LogicalPage(old)
  IN  /\ Idle
      /\ \/ old = 0 /\ EnterMalloc("pagedMalloc", pid, size, 0, 0)
         \/ old # 0 /\ size = 0 /\ EnterFree("pagedRealloc", pid, old, 0)
         \/ /\ old # 0 /\ size # 0
            /\ MappedRun(pid, s) = {}
            /\ Return("pagedRealloc", pid, 0)
            /\ UNCHANGED <<phys_pages, page_table>>
         \/ /\ old # 0 /\ size # 0
            /\ \E c \in MappedRun(pid, s) :
                 IF size <= c * PAGE_SIZE
                 THEN /\ Return("pagedRealloc", pid, old)
                      /\ UNCHANGED <<phys_pages, page_table>>
                 ELSE EnterMalloc("pagedRealloc", pid, size, old, c * PAGE_SIZE)

\* Mutant of MallocPage: one physical page is allocated for the whole run.
MallocPageHoisted(f) ==
  LET g == IF call.i = 0 THEN f ELSE page_table[call.pid][call.start]
  IN  /\ call.pc = "malloc" /\ call.i < call.n
      /\ f \in Available
      /\ phys_pages' = Reference(IF call.i = 0 THEN Claim(phys_pages, f, call.pid)
                                 ELSE phys_pages, Unmapped, g)
      /\ page_table' = [page_table EXCEPT ![call.pid][call.start + call.i] = g]
      /\ call' = [call EXCEPT !.i = @ + 1]
      /\ UNCHANGED ret

\* One iteration of the loop of pagedMalloc: allocatePhysicalPage; mapPage.
\* mapPage cannot refuse: pid, start + i and f are in range.
MallocPage(f) ==
  LET lp      == call.start + call.i
      evicted == Evict(page_table, f)
      old     == evicted[call.pid][lp]
  IN  /\ call.pc = "malloc" /\ call.i < call.n
      /\ f \in Available
      /\ phys_pages' = Reference(Claim(phys_pages, f, call.pid), old, f)
      /\ page_table' = [evicted EXCEPT ![call.pid][lp] = f]
      /\ call' = [call EXCEPT !.i = @ + 1]
      /\ UNCHANGED ret

\* Mutant of MallocOutOfFrames: no roll-back.
MallocGivesUp ==
  /\ call.pc = "malloc" /\ call.i < call.n
  /\ Available = {}
  /\ Return(call.op, call.pid, 0)
  /\ UNCHANGED <<phys_pages, page_table>>

\* Mutant of MallocOutOfFrames: the roll-back begins at page 0.
MallocUndoesFromZero ==
  /\ call.pc = "malloc" /\ call.i < call.n
  /\ Available = {}
  /\ call' = [call EXCEPT !.pc = "undo", !.start = 0]
  /\ UNCHANGED <<phys_pages, page_table, ret>>

\* Mutant of MallocOutOfFrames: the loop tries again until a page is free.
MallocRetries ==
  /\ call.pc = "malloc" /\ call.i < call.n
  /\ Available = {}
  /\ UNCHANGED vars

\* allocatePhysicalPage gave -1: the pages mapped so far are to be unmapped.
MallocOutOfFrames ==
  /\ call.pc = "malloc" /\ call.i < call.n
  /\ Available = {}
  /\ call' = [call EXCEPT !.pc = "undo"]
  /\ UNCHANGED <<phys_pages, page_table, ret>>

\* All pages are mapped.  pagedRealloc takes the address 0 for a failure.
MallocReturns ==
  LET addr == call.start * PAGE_SIZE
  IN  /\ call.pc = "malloc" /\ call.i = call.n
      /\ IF call.op = "pagedRealloc" /\ addr # 0
         THEN call' = [call EXCEPT !.pc = "copy", !.new = addr] /\ UNCHANGED ret
         ELSE Return(call.op, call.pid, addr)
      /\ UNCHANGED <<phys_pages, page_table>>

\* One iteration of the loops that unmap the pages start .. start + i - 1.
UnmapNext ==
  /\ call.pc \in {"undo", "free"} /\ call.j < call.i
  /\ Unmap(call.pid, call.start + call.j)
  /\ call' = [call EXCEPT !.j = @ + 1]
  /\ UNCHANGED ret

UnmapReturns ==
  /\ call.pc \in {"undo", "free"} /\ call.j = call.i
  /\ Return(call.op, call.pid, IF call.pc = "undo" THEN 0 ELSE call.new)
  /\ UNCHANGED <<phys_pages, page_table>>

\* pagedRealloc copies the len bytes of the old block: no table changes.
CopyByte ==
  /\ call.pc = "copy" /\ call.j < call.len
  /\ call' = [call EXCEPT !.j = @ + 1]
  /\ UNCHANGED <<phys_pages, page_table, ret>>

CopyReturns ==
  /\ call.pc = "copy" /\ call.j = call.len
  /\ EnterFree("pagedRealloc", call.pid, call.old, call.new)

-----------------------------------------------------------------------------
(***************************************************************************)
(* The specifications differ in what the callers use.                      *)
(***************************************************************************)

\* The function in progress goes on.
Step ==
  \/ \E f \in Frames : MallocPage(f)
  \/ MallocOutOfFrames
  \/ MallocReturns
  \/ UnmapNext
  \/ UnmapReturns
  \/ CopyByte
  \/ CopyReturns

PagedCall ==
  \/ \E pid \in AnyPid, size \in Sizes : pagedMalloc(pid, size)
  \/ \E pid \in AnyPid, addr \in Addrs : pagedFree(pid, addr)
  \/ \E pid \in Pids, old \in Addrs, size \in Sizes : pagedRealloc(pid, old, size)

FrameCall ==
  \/ \E pid \in AnyPid, f \in Frames : allocatePhysicalPage(pid, f)
  \/ \E pid \in AnyPid : AllocationFails(pid)
  \/ \E f \in AnyFrame : freePhysicalPage(f)
  \/ \E pid \in AnyPid, lp \in AnyLP, f \in AnyFrame : mapPage(pid, lp, f)
  \/ \E pid \in AnyPid, lp \in AnyLP : unmapPage(pid, lp)

\* Every public function, called in any order with any arguments.
Next == PagedCall \/ FrameCall \/ Step
Spec == Init /\ [][Next]_vars

\* The functions the sketch uses: the paged allocator, with any arguments.
PagedNext == PagedCall \/ Step
PagedSpec == Init /\ [][PagedNext]_vars

\* A called function keeps running: nothing else uses the processor.
FairSpec == PagedSpec /\ WF_vars(Step)

-----------------------------------------------------------------------------
(***************************************************************************)
(* Properties.                                                             *)
(***************************************************************************)

Descriptors == [state : {"FREE", "ALLOCATED", "MAPPED"},
                owner_pid : AnyPid, ref_count : Nat]

PageTables == [Pids -> [LPs -> Frames \cup {Unmapped}]]

Functions == {"none", "pagedMalloc", "pagedFree", "pagedRealloc"}

Calls == [pc : {"idle", "malloc", "undo", "copy", "free"},
          op : Functions,
          pid : Pids, start : LPs, n : Nat, i : Nat, j : Nat,
          old : Nat, len : Nat, new : Nat]

\* The loops stay inside the page table.
LoopOK ==
  /\ call.pc = "malloc" => call.i <= call.n /\ call.j = 0
  /\ call.pc \in {"malloc", "undo", "copy"} =>
       /\ call.i <= call.n
       /\ call.start + call.n <= MAX_PAGES_PER_PROC
  /\ call.pc \in {"undo", "free"} =>
       /\ call.j <= call.i
       /\ call.start + call.i <= MAX_PAGES_PER_PROC

\* Every variable holds a value of its type: the descriptors and page tables of
\* PageCache.h:73-87 and the locals of the allocator's loops.
TypeOK ==
  /\ phys_pages \in [Frames -> Descriptors]
  /\ page_table \in PageTables
  /\ call \in Calls
  /\ LoopOK
  /\ ret \in [op : Functions, pid : AnyPid, val : Int]

\* A page is free exactly when nothing refers to it, whatever the order of the
\* calls of the public functions.
FreeIffUnreferenced ==
  \A f \in Frames : phys_pages[f].state = "FREE" <=> phys_pages[f].ref_count = 0

\* Hence findVictimPage (PageCache.cpp:151-164) never finds a page, and the
\* eviction in allocatePhysicalPage is never reached: README.md:16 promises
\* "eviction automática de páginas físicas cuando no hay marcos libres", and a
\* pagedMalloc that finds no frame free gives up instead (MallocOutOfFrames).
NoVictim == Victims = {}

Mappers(f) == {x \in Pids \X LPs : page_table[x[1]][x[2]] = f}

\* A page never counts more references than one for its allocation and one for
\* each page table entry that maps it, so the uint16_t ref_count cannot wrap.
RefBound ==
  \A f \in Frames : phys_pages[f].ref_count <= 1 + Cardinality(Mappers(f))

\* With the paged allocator, two page table entries never map one physical
\* page: a process never sees another one's bytes (README.md:11).
Isolation ==
  \A p, q \in Pids : \A l, m \in LPs :
    page_table[p][l] # Unmapped /\ page_table[p][l] = page_table[q][m]
      => p = q /\ l = m

\* With the paged allocator, a mapped page is in state MAPPED and its descriptor
\* names the process whose page table maps it.
OwnerMatches ==
  \A p \in Pids, l \in LPs :
    page_table[p][l] # Unmapped =>
      /\ phys_pages[page_table[p][l]].state = "MAPPED"
      /\ phys_pages[page_table[p][l]].owner_pid = p

\* With the paged allocator a page in use has one reference for its allocation,
\* which nothing ever gives back, and one more while it is mapped.
PagedRefCount ==
  \A f \in Frames :
    /\ phys_pages[f].state = "FREE" => Mappers(f) = {}
    /\ phys_pages[f].state # "FREE" =>
         phys_pages[f].ref_count = IF Mappers(f) = {} THEN 1 ELSE 2

\* Hence pagedFree gives no physical page back, nor does the roll-back of a
\* pagedMalloc that fails: a page once taken is never free again.
FramesNeverFreed ==
  [][\A f \in Frames : phys_pages[f].state # "FREE" => phys_pages'[f].state # "FREE"]_vars

\* The pages pagedMalloc has picked for the call in progress.
Run == call.start .. call.start + call.n - 1

\* pagedMalloc is all or nothing: it leaves its loop with every page of the run
\* mapped or, rolled back, with none; no other page table entry moves.
MallocAllOrNothing ==
  [][call.pc \in {"malloc", "undo"} =>
       /\ \A p \in Pids, l \in LPs :
            page_table'[p][l] # page_table[p][l] => p = call.pid /\ l \in Run
       /\ call.pc = "malloc" /\ call'.pc \in {"idle", "copy"} =>
            \A l \in Run : page_table'[call.pid][l] # Unmapped
       /\ call.pc = "undo" /\ call'.pc = "idle" =>
            \A l \in Run : page_table'[call.pid][l] = Unmapped]_vars

\* Until pagedRealloc frees it, the old block stays mapped, so a realloc that
\* fails loses nothing and the copy reads the bytes of the block.  What the free
\* then takes with the old block is told by ReallocLosesBlock.
ReallocKeepsOldBlock ==
  call.op = "pagedRealloc" /\ call.pc \in {"malloc", "undo", "copy"} =>
    \A k \in 0 .. (call.len \div PAGE_SIZE) - 1 :
      page_table[call.pid][LogicalPage(call.old) + k] # Unmapped

\* With the paged allocator the mapped pages of a process are always its first
\* ones: pagedFree takes with a block all that is mapped after it
\* (PageCache.cpp:731-751), so no hole is ever left for the scan of pagedMalloc
\* to find, and the allocator is a stack.
MappedPrefix ==
  Idle =>
    \A p \in Pids, l \in LPs :
      page_table[p][l] # Unmapped => \A k \in 0 .. l : page_table[p][k] # Unmapped

\* Every call of the paged allocator returns.
CallReturns == ~ Idle ~> Idle

\* A pagedRealloc that has moved a block hands out a page that is not mapped: the
\* pagedFree of the old block (PageCache.cpp:793) runs on through the new one
\* behind it.
ReallocLosesBlock ==
  [][call.op = "pagedRealloc" /\ call.pc \in {"copy", "free"} /\ call'.pc = "idle" =>
       (ret'.val # 0 => page_table'[ret'.pid][LogicalPage(ret'.val)] = Unmapped)]_vars
=============================================================================
