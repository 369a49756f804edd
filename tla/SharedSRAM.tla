----------------------------- MODULE SharedSRAM -----------------------------
(***************************************************************************)
(* The classic heap and the paged memory on the one SRAM they are given:   *)
(* ExtHeap lays its blocks out from address 0 on (src/ExtSRAMHeap.h:14-17) *)
(* and page f of PageCache is the bytes from f * PAGE_SIZE on, both over   *)
(* the whole chip (src/BareMetalRAM.cpp:13-19).  Modules ExtHeap and       *)
(* PageTable are composed here; one call runs at a time.                   *)
(*                                                                         *)
(* A process writes through the cache, which writes through to the SRAM at *)
(* once, so a byte of a page is a byte of the SRAM.                        *)
(***************************************************************************)
EXTENDS ExtHeap

CONSTANTS
  MAGIC_OFFSET, \* where in a header its magic is
  MAX_PHYSICAL_PAGES, MAX_PROCESSES, MAX_PAGES_PER_PROC,
  PAGE_SIZE, PAGE_NUMBERS, MaxAddr

VARIABLES phys_pages, page_table, call, pageRet

Pages == INSTANCE PageTable WITH ret <- pageRet

pageVars == <<phys_pages, page_table, call, pageRet>>
sharedVars == <<heapVars, pageVars>>

SharedInit == HeapInit /\ Pages!Init

\* cacheWriteByte of a byte other than the magic, at the physical address pa.
\* Bound of the model: of the bytes of a header only the magic is written.
StoreByte(pa) ==
  /\ \A a \in DOMAIN heap : pa \in a .. a + HEADER_SIZE - 1 => pa = a + MAGIC_OFFSET
  /\ heap' = [a \in {b \in DOMAIN heap : pa # b + MAGIC_OFFSET} |-> heap[a]]

\* A process writes to a page it has mapped; not to page 0, whose address it
\* takes for a failure.
ProcessWrites(pid, lp, o) ==
  /\ NoCall /\ Pages!Idle
  /\ lp # 0 /\ page_table[pid][lp] # Pages!Unmapped
  /\ StoreByte(page_table[pid][lp] * PAGE_SIZE + o)
  /\ UNCHANGED <<walk, ret, held, pageVars>>

SharedNext ==
  \/ Pages!Idle /\ HeapNext /\ UNCHANGED pageVars
  \/ NoCall /\ Pages!PagedNext /\ UNCHANGED heapVars
  \/ \E pid \in Pages!Pids, lp \in Pages!LPs, o \in 0 .. PAGE_SIZE - 1 :
       ProcessWrites(pid, lp, o)

SharedSpec == SharedInit /\ [][SharedNext]_sharedVars

-----------------------------------------------------------------------------

\* README.md:17 offers the heap as one more allocator on the same SRAM, beside
\* the paged one: the header of a block in use stays as malloc wrote it,
\* whatever the processes do to pages of their own.
HeapBesidePages == HeldIntact
=============================================================================
