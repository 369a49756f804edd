-------------------------- MODULE PageTable_proofs --------------------------
(***************************************************************************)
(* Proofs about module PageTable, for every number of pages, of processes  *)
(* and every page size: the types, the counts of the pages, what maps      *)
(* them, and what the loops of the paged allocator leave mapped.           *)
(***************************************************************************)
EXTENDS PageTable, FiniteSetTheorems, TLAPS

-----------------------------------------------------------------------------
(***************************************************************************)
(* Arithmetic and the scans.                                               *)
(***************************************************************************)

\* The page of an address and the pages of a size are natural numbers.
LEMMA DivNat ==
  ASSUME NEW a \in Nat
  PROVE  a \div PAGE_SIZE \in Nat
  BY ConstantsOK

LEMMA LogicalPageNat ==
  ASSUME NEW a \in Nat
  PROVE  LogicalPage(a) \in Nat
  BY DivNat, ConstantsOK DEF LogicalPage

LEMMA PagesNeededNat ==
  ASSUME NEW size \in Nat
  PROVE  PagesNeeded(size) \in Nat
<1>1. size + PAGE_SIZE - 1 \in Nat
  BY ConstantsOK
<1> QED
  BY <1>1, DivNat DEF PagesNeeded

\* What the scan of pagedMalloc finds is a run of unmapped pages of the table.
LEMMA FirstFitOK ==
  ASSUME NEW pid, NEW size \in Nat, NEW s \in FirstFit(pid, size)
  PROVE  /\ pid \in Pids /\ s \in LPs
         /\ PagesNeeded(size) \in Nat
         /\ s + PagesNeeded(size) <= MAX_PAGES_PER_PROC
         /\ \A lp \in s .. s + PagesNeeded(size) - 1 : page_table[pid][lp] = Unmapped
  BY PagesNeededNat DEF FirstFit, FreeRun

\* What the scan of pagedFree finds is a run of mapped pages of the table.
LEMMA MappedRunOK ==
  ASSUME NEW pid, NEW s \in Nat, NEW c \in MappedRun(pid, s)
  PROVE  /\ s \in LPs /\ c \in Nat \ {0}
         /\ s + c <= MAX_PAGES_PER_PROC
         /\ \A lp \in s .. s + c - 1 : page_table[pid][lp] # Unmapped
  BY ConstantsOK DEF MappedRun, LPs
(***************************************************************************)
(* What the helpers on descriptors and page tables return.                 *)
(***************************************************************************)

LEMMA PidsAny == Pids \subseteq AnyPid
  BY ConstantsOK DEF Pids, AnyPid

LEMMA ClaimType ==
  ASSUME NEW pages \in [Frames -> Descriptors], NEW f \in Frames, NEW owner \in AnyPid
  PROVE  Claim(pages, f, owner) \in [Frames -> Descriptors]
  BY DEF Claim, Descriptors

LEMMA ReleaseType ==
  ASSUME NEW pages \in [Frames -> Descriptors], NEW f \in Frames
  PROVE  Release(pages, f) \in [Frames -> Descriptors]
  BY ConstantsOK DEF Release, FreePage, Descriptors, AnyPid

LEMMA ReferenceType ==
  ASSUME NEW pages \in [Frames -> Descriptors], NEW f \in Frames,
         NEW old \in Frames \cup {Unmapped}
  PROVE  Reference(pages, old, f) \in [Frames -> Descriptors]
<1> DEFINE released == IF old = Unmapped THEN pages ELSE Release(pages, old)
<1>1. released \in [Frames -> Descriptors]
  BY ReleaseType
<1>2. [released EXCEPT ![f].state = "MAPPED", ![f].ref_count = @ + 1]
        \in [Frames -> Descriptors]
  BY <1>1 DEF Descriptors
<1> QED
  BY <1>2 DEF Reference

LEMMA EvictType ==
  ASSUME NEW table \in PageTables, NEW f \in Frames
  PROVE  Evict(table, f) \in PageTables
  BY DEF Evict, PageTables

\* unmapPage with arguments in range.
LEMMA UnmapType ==
  ASSUME phys_pages \in [Frames -> Descriptors], page_table \in PageTables,
         NEW pid \in Pids, NEW lp \in LPs, Unmap(pid, lp)
  PROVE  phys_pages' \in [Frames -> Descriptors] /\ page_table' \in PageTables
<1>1. CASE page_table[pid][lp] = Unmapped
  BY <1>1 DEF Unmap
<1>2. CASE page_table[pid][lp] # Unmapped
  <2>1. page_table[pid][lp] \in Frames
    BY <1>2 DEF PageTables
  <2>2. phys_pages' \in [Frames -> Descriptors]
    BY <1>2, <2>1, ReleaseType DEF Unmap
  <2>3. page_table' \in PageTables
    BY <1>2 DEF Unmap, PageTables
  <2> QED
    BY <2>2, <2>3
<1> QED
  BY <1>1, <1>2

(***************************************************************************)
(* The type invariant.                                                     *)
(***************************************************************************)

LEMMA TypeInit == Init => TypeOK
  BY ConstantsOK DEF Init, TypeOK, FreePage, Descriptors, PageTables, Calls, NoCall,
     NoRet, LoopOK, Pids, AnyPid, LPs, Functions

\* A function that returns leaves its caller's process and an integer in ret.
LEMMA ReturnType ==
  ASSUME NEW op \in Functions, NEW pid \in AnyPid, NEW val \in Int,
         Return(op, pid, val)
  PROVE  /\ call' \in Calls /\ LoopOK'
         /\ ret' \in [op : Functions, pid : AnyPid, val : Int]
<1>1. call' = NoCall /\ NoCall \in Calls
  BY ConstantsOK DEF Return, NoCall, Calls, Functions, Pids, LPs
<1>2. LoopOK'
  BY <1>1 DEF NoCall, LoopOK
<1> QED
  BY <1>1, <1>2 DEF Return

LEMMA AnswerType ==
  ASSUME NEW val \in Int, Answer(val)
  PROVE  /\ call' \in Calls /\ LoopOK'
         /\ ret' \in [op : Functions, pid : AnyPid, val : Int]
<1>1. call' = NoCall /\ NoCall \in Calls
  BY ConstantsOK DEF Answer, NoCall, Calls, Functions, Pids, LPs
<1>2. LoopOK'
  BY <1>1 DEF NoCall, LoopOK
<1>3. ret' = [op |-> "none", pid |-> 0, val |-> val] /\ 0 \in AnyPid
  BY ConstantsOK DEF Answer, NoRet, AnyPid
<1> QED
  BY <1>1, <1>2, <1>3 DEF Functions

\* The functions on physical pages.
LEMMA TypeFrameCall == TypeOK /\ FrameCall => TypeOK'
<1> SUFFICES ASSUME TypeOK, FrameCall PROVE TypeOK'
  OBVIOUS
<1>0. Frames \subseteq Int /\ -1 \in Int
  BY ConstantsOK DEF Frames
<1>1. ASSUME NEW pid \in AnyPid, NEW f \in Frames, allocatePhysicalPage(pid, f)
      PROVE  TypeOK'
  <2>1. phys_pages' \in [Frames -> Descriptors] /\ page_table' \in PageTables
    BY <1>1, ClaimType, EvictType DEF allocatePhysicalPage, TypeOK
  <2> QED
    BY <1>0, <1>1, <2>1, AnswerType DEF allocatePhysicalPage, TypeOK
<1>2. ASSUME NEW pid \in AnyPid, AllocationFails(pid) PROVE TypeOK'
  BY <1>0, <1>2, AnswerType DEF AllocationFails, TypeOK
<1>3. ASSUME NEW f \in AnyFrame, freePhysicalPage(f) PROVE TypeOK'
  <2>1. phys_pages' \in [Frames -> Descriptors] /\ page_table' \in PageTables
    BY <1>3, ReleaseType DEF freePhysicalPage, TypeOK
  <2> QED
    BY <1>3, <2>1, AnswerType DEF freePhysicalPage, TypeOK
<1>4. ASSUME NEW pid \in AnyPid, NEW lp \in AnyLP, NEW f \in AnyFrame, mapPage(pid, lp, f)
      PROVE  TypeOK'
  <2>1. CASE pid \in Pids /\ lp \in LPs /\ f \in Frames
    <3>1. page_table[pid][lp] \in Frames \cup {Unmapped}
      BY <2>1 DEF TypeOK, PageTables
    <3>2. /\ phys_pages' = Reference(phys_pages, page_table[pid][lp], f)
          /\ page_table' = [page_table EXCEPT ![pid][lp] = f]
          /\ Answer(1)
      BY <1>4, <2>1 DEF mapPage
    <3>3. phys_pages' \in [Frames -> Descriptors]
      BY <2>1, <3>1, <3>2, ReferenceType DEF TypeOK
    <3>4. page_table' \in PageTables
      BY <2>1, <3>2 DEF TypeOK, PageTables
    <3> QED
      BY <3>2, <3>3, <3>4, AnswerType DEF TypeOK
  <2>2. CASE ~ (pid \in Pids /\ lp \in LPs /\ f \in Frames)
    BY <1>4, <2>2, AnswerType DEF mapPage, TypeOK
  <2> QED
    BY <2>1, <2>2
<1>5. ASSUME NEW pid \in AnyPid, NEW lp \in AnyLP, unmapPage(pid, lp) PROVE TypeOK'
  <2>1. phys_pages' \in [Frames -> Descriptors] /\ page_table' \in PageTables
    BY <1>5, UnmapType DEF unmapPage, TypeOK
  <2> QED
    BY <1>5, <2>1, AnswerType DEF unmapPage, TypeOK
<1> QED
  BY <1>1, <1>2, <1>3, <1>4, <1>5 DEF FrameCall
\* Entering the loop of pagedMalloc.
LEMMA EnterMallocType ==
  ASSUME TypeOK, NEW op \in {"pagedMalloc", "pagedRealloc"}, NEW pid \in AnyPid,
         NEW size \in Nat, NEW old \in Nat, NEW len \in Nat,
         EnterMalloc(op, pid, size, old, len)
  PROVE  TypeOK'
<1>1. CASE FirstFit(pid, size) = {} /\ Return(op, pid, 0)
  BY <1>1, ReturnType DEF EnterMalloc, TypeOK, Functions
<1>2. ASSUME NEW s \in FirstFit(pid, size),
             call' = [pc |-> "malloc", op |-> op, pid |-> pid, start |-> s,
                      n |-> PagesNeeded(size), i |-> 0, j |-> 0,
                      old |-> old, len |-> len, new |-> 0],
             ret' = NoRet
      PROVE  TypeOK'
  <2>1. /\ pid \in Pids /\ s \in LPs /\ PagesNeeded(size) \in Nat
        /\ s + PagesNeeded(size) <= MAX_PAGES_PER_PROC
    BY FirstFitOK
  <2>2. call' \in Calls
    BY <1>2, <2>1 DEF Calls, Functions
  <2>3. LoopOK'
    BY <1>2, <2>1 DEF LoopOK
  <2>4. ret' \in [op : Functions, pid : AnyPid, val : Int]
    BY <1>2, ConstantsOK DEF NoRet, Functions, AnyPid
  <2> QED
    BY <2>2, <2>3, <2>4 DEF EnterMalloc, TypeOK
<1> QED
  BY <1>1, <1>2 DEF EnterMalloc

\* Entering the loop of pagedFree.
LEMMA EnterFreeType ==
  ASSUME TypeOK, NEW op \in {"pagedFree", "pagedRealloc"}, NEW pid \in AnyPid,
         NEW addr \in Nat, NEW new \in Nat, EnterFree(op, pid, addr, new)
  PROVE  TypeOK'
<1>1. CASE FreedRun(pid, addr) = {} /\ Return(op, pid, new)
  BY <1>1, ReturnType DEF EnterFree, TypeOK, Functions
<1>2. ASSUME NEW c \in FreedRun(pid, addr),
             call' = [NoCall EXCEPT !.pc = "free", !.op = op, !.pid = pid,
                        !.start = LogicalPage(addr), !.i = c, !.new = new],
             ret' = NoRet
      PROVE  TypeOK'
  <2>1. pid \in Pids /\ c \in MappedRun(pid, LogicalPage(addr))
    BY <1>2 DEF FreedRun
  <2>2. /\ LogicalPage(addr) \in LPs /\ c \in Nat
        /\ LogicalPage(addr) + c <= MAX_PAGES_PER_PROC
    BY <2>1, LogicalPageNat, MappedRunOK
  <2>3. call' \in Calls
    BY <1>2, <2>1, <2>2 DEF Calls, Functions, NoCall
  <2>4. LoopOK'
    BY <1>2, <2>2 DEF LoopOK, NoCall
  <2>5. ret' \in [op : Functions, pid : AnyPid, val : Int]
    BY <1>2, ConstantsOK DEF NoRet, Functions, AnyPid
  <2> QED
    BY <2>3, <2>4, <2>5 DEF EnterFree, TypeOK
<1> QED
  BY <1>1, <1>2 DEF EnterFree

\* The call itself changes no table: its loops do.
LEMMA PagedCallTables == PagedCall => UNCHANGED <<phys_pages, page_table>>
<1>1. ASSUME NEW pid, NEW size, pagedMalloc(pid, size)
      PROVE  UNCHANGED <<phys_pages, page_table>>
  BY <1>1 DEF pagedMalloc, EnterMalloc
<1>2. ASSUME NEW pid, NEW addr, pagedFree(pid, addr)
      PROVE  UNCHANGED <<phys_pages, page_table>>
  BY <1>2 DEF pagedFree, EnterFree
<1>3. ASSUME NEW pid, NEW old, NEW size, pagedRealloc(pid, old, size)
      PROVE  UNCHANGED <<phys_pages, page_table>>
  <2>1. ASSUME NEW op, NEW len, EnterMalloc(op, pid, size, old, len)
        PROVE  UNCHANGED <<phys_pages, page_table>>
    BY <2>1 DEF EnterMalloc
  <2>2. EnterMalloc("pagedMalloc", pid, size, 0, 0) => UNCHANGED <<phys_pages, page_table>>
    BY DEF EnterMalloc
  <2>3. EnterFree("pagedRealloc", pid, old, 0) => UNCHANGED <<phys_pages, page_table>>
    BY DEF EnterFree
  <2> QED
    BY <1>3, <2>1, <2>2, <2>3 DEF pagedRealloc
<1> QED
  BY <1>1, <1>2, <1>3 DEF PagedCall

\* The calls of the paged allocator.
LEMMA TypePagedCall == TypeOK /\ PagedCall => TypeOK'
<1> SUFFICES ASSUME TypeOK, PagedCall PROVE TypeOK'
  OBVIOUS
<1>0. Pids \subseteq AnyPid /\ Sizes \subseteq Nat /\ Addrs \subseteq Nat
  BY ConstantsOK DEF Pids, AnyPid, Sizes, Addrs
<1>1. ASSUME NEW pid \in AnyPid, NEW size \in Sizes, pagedMalloc(pid, size)
      PROVE  TypeOK'
  BY <1>0, <1>1, EnterMallocType DEF pagedMalloc
<1>2. ASSUME NEW pid \in AnyPid, NEW addr \in Addrs, pagedFree(pid, addr)
      PROVE  TypeOK'
  BY <1>0, <1>2, EnterFreeType DEF pagedFree
<1>3. ASSUME NEW pid \in Pids, NEW old \in Addrs, NEW size \in Sizes,
             pagedRealloc(pid, old, size)
      PROVE  TypeOK'
  <2>1. ASSUME EnterMalloc("pagedMalloc", pid, size, 0, 0) PROVE TypeOK'
    BY <1>0, <2>1, EnterMallocType
  <2>2. ASSUME EnterFree("pagedRealloc", pid, old, 0) PROVE TypeOK'
    BY <1>0, <2>2, EnterFreeType
  <2>3. ASSUME NEW val \in Nat, Return("pagedRealloc", pid, val),
               UNCHANGED <<phys_pages, page_table>>
        PROVE  TypeOK'
    BY <1>0, <2>3, ReturnType DEF TypeOK, Functions
  <2>4. ASSUME NEW c \in MappedRun(pid, LogicalPage(old)),
               EnterMalloc("pagedRealloc", pid, size, old, c * PAGE_SIZE)
        PROVE  TypeOK'
    <3>1. c \in Nat
      BY <1>0, LogicalPageNat, MappedRunOK
    <3>2. c * PAGE_SIZE \in Nat
      BY <3>1, ConstantsOK
    <3> QED
      BY <1>0, <2>4, <3>2, EnterMallocType
  <2> QED
    BY <1>0, <1>3, <2>1, <2>2, <2>3, <2>4 DEF pagedRealloc
<1> QED
  BY <1>1, <1>2, <1>3 DEF PagedCall

\* One more step of the function in progress.
LEMMA TypeStep == TypeOK /\ Step => TypeOK'
<1> SUFFICES ASSUME TypeOK, Step PROVE TypeOK'
  OBVIOUS
<1>0. /\ call.pid \in Pids /\ call.pid \in AnyPid /\ call.start \in LPs
      /\ call.op \in Functions
      /\ call.n \in Nat /\ call.i \in Nat /\ call.j \in Nat
      /\ call.new \in Nat /\ call.old \in Nat
  BY ConstantsOK DEF TypeOK, Calls, Pids, AnyPid, Functions
<1>1. ASSUME NEW f \in Frames, MallocPage(f) PROVE TypeOK'
  <2> DEFINE lp == call.start + call.i
             evicted == Evict(page_table, f)
  <2>1. lp \in LPs
    BY <1>0, <1>1, ConstantsOK DEF MallocPage, TypeOK, LoopOK, LPs
  <2>2. evicted \in PageTables
    BY EvictType DEF TypeOK
  <2>3. evicted[call.pid][lp] \in Frames \cup {Unmapped}
    BY <1>0, <2>1, <2>2 DEF PageTables
  <2>4. phys_pages' \in [Frames -> Descriptors]
    BY <1>0, <1>1, <2>3, ClaimType, ReferenceType DEF MallocPage, TypeOK
  <2>5. page_table' = [evicted EXCEPT ![call.pid][lp] = f]
    BY <1>1 DEF MallocPage
  <2>6. page_table' \in PageTables
    BY <1>0, <2>1, <2>2, <2>5 DEF PageTables
  <2>7. call' \in Calls /\ LoopOK'
    BY <1>0, <1>1 DEF MallocPage, TypeOK, Calls, LoopOK
  <2> QED
    BY <1>1, <2>4, <2>6, <2>7 DEF MallocPage, TypeOK
<1>2. CASE MallocOutOfFrames
  BY <1>0, <1>2, ConstantsOK DEF MallocOutOfFrames, TypeOK, Calls, LoopOK, LPs
<1>3. CASE MallocReturns
  <2>1. call.start * PAGE_SIZE \in Nat
    BY <1>0, ConstantsOK DEF LPs
  <2>2. CASE call.op = "pagedRealloc" /\ call.start * PAGE_SIZE # 0
    BY <1>0, <1>3, <2>1, <2>2 DEF MallocReturns, TypeOK, Calls, LoopOK
  <2>3. CASE ~ (call.op = "pagedRealloc" /\ call.start * PAGE_SIZE # 0)
    BY <1>0, <1>3, <2>1, <2>3, ReturnType DEF MallocReturns, TypeOK
  <2> QED
    BY <2>2, <2>3
<1>4. CASE UnmapNext
  <2>1. call.start + call.j \in LPs
    BY <1>0, <1>4, ConstantsOK DEF UnmapNext, TypeOK, LoopOK, LPs
  <2>2. phys_pages' \in [Frames -> Descriptors] /\ page_table' \in PageTables
    BY <1>0, <1>4, <2>1, UnmapType DEF UnmapNext, TypeOK
  <2>3. call' \in Calls /\ LoopOK'
    BY <1>0, <1>4 DEF UnmapNext, TypeOK, Calls, LoopOK
  <2> QED
    BY <1>4, <2>2, <2>3 DEF UnmapNext, TypeOK
<1>5. CASE UnmapReturns
  BY <1>0, <1>5, ReturnType DEF UnmapReturns, TypeOK
<1>6. CASE CopyByte
  BY <1>0, <1>6 DEF CopyByte, TypeOK, Calls, LoopOK
<1>7. CASE CopyReturns
  BY <1>0, <1>7, EnterFreeType DEF CopyReturns
<1> QED
  BY <1>1, <1>2, <1>3, <1>4, <1>5, <1>6, <1>7 DEF Step

LEMMA TypeNext == TypeOK /\ [Next]_vars => TypeOK'
<1>1. TypeOK /\ UNCHANGED vars => TypeOK'
  BY DEF vars, TypeOK, LoopOK
<1> QED
  BY <1>1, TypeFrameCall, TypePagedCall, TypeStep DEF Next

\* Every variable keeps its type, whatever functions the callers use: no loop of
\* the allocator leaves the page table (PageCache.cpp:641-795).
THEOREM TypeCorrect == Spec => []TypeOK
  BY TypeInit, TypeNext, PTL DEF Spec
(***************************************************************************)
(* A page is free exactly when its count is 0.                             *)
(***************************************************************************)

Counted(pages) == \A f \in Frames : pages[f].state = "FREE" <=> pages[f].ref_count = 0

LEMMA ClaimCounted ==
  ASSUME NEW pages \in [Frames -> Descriptors], Counted(pages), NEW f \in Frames,
         NEW owner
  PROVE  Counted(Claim(pages, f, owner))
  BY DEF Claim, Counted, Descriptors

LEMMA ReleaseCounted ==
  ASSUME NEW pages \in [Frames -> Descriptors], Counted(pages), NEW f \in Frames
  PROVE  Counted(Release(pages, f))
  BY DEF Release, FreePage, Counted, Descriptors

LEMMA ReferenceCounted ==
  ASSUME NEW pages \in [Frames -> Descriptors], Counted(pages), NEW f \in Frames,
         NEW old \in Frames \cup {Unmapped}
  PROVE  Counted(Reference(pages, old, f))
<1> DEFINE released == IF old = Unmapped THEN pages ELSE Release(pages, old)
<1>1. released \in [Frames -> Descriptors] /\ Counted(released)
  BY ReleaseType, ReleaseCounted
<1>2. Counted([released EXCEPT ![f].state = "MAPPED", ![f].ref_count = @ + 1])
  BY <1>1 DEF Counted, Descriptors
<1> QED
  BY <1>2 DEF Reference

LEMMA CountedNext ==
  TypeOK /\ FreeIffUnreferenced /\ [Next]_vars => FreeIffUnreferenced'
<1> SUFFICES ASSUME TypeOK, Counted(phys_pages), [Next]_vars
             PROVE  Counted(phys_pages)'
  BY DEF FreeIffUnreferenced, Counted
<1>0. phys_pages \in [Frames -> Descriptors]
  BY DEF TypeOK
<1>1. ASSUME UNCHANGED phys_pages PROVE Counted(phys_pages)'
  BY <1>1 DEF Counted
<1>2. ASSUME NEW pid \in Pids, NEW lp \in LPs, Unmap(pid, lp)
      PROVE  Counted(phys_pages)'
  <2>1. CASE page_table[pid][lp] = Unmapped
    BY <1>1, <1>2, <2>1 DEF Unmap
  <2>2. CASE page_table[pid][lp] # Unmapped
    <3>1. page_table[pid][lp] \in Frames
      BY <2>2 DEF TypeOK, PageTables
    <3>2. Counted(Release(phys_pages, page_table[pid][lp]))
      BY <1>0, <3>1, ReleaseCounted
    <3> QED
      BY <1>2, <2>2, <3>2 DEF Unmap, Counted
  <2> QED
    BY <2>1, <2>2
<1>3. ASSUME FrameCall PROVE Counted(phys_pages)'
  <2>1. ASSUME NEW pid \in AnyPid, NEW f \in Frames, allocatePhysicalPage(pid, f)
        PROVE  Counted(phys_pages)'
    <3>1. Counted(Claim(phys_pages, f, pid))
      BY <1>0, ClaimCounted
    <3> QED
      BY <2>1, <3>1 DEF allocatePhysicalPage, Counted
  <2>2. ASSUME NEW pid \in AnyPid, AllocationFails(pid) PROVE Counted(phys_pages)'
    BY <1>1, <2>2 DEF AllocationFails
  <2>3. ASSUME NEW f \in AnyFrame, freePhysicalPage(f) PROVE Counted(phys_pages)'
    <3>1. f \in Frames => Counted(Release(phys_pages, f))
      BY <1>0, ReleaseCounted
    <3> QED
      BY <2>3, <3>1 DEF freePhysicalPage, Counted
  <2>4. ASSUME NEW pid \in AnyPid, NEW lp \in AnyLP, NEW f \in AnyFrame, mapPage(pid, lp, f)
        PROVE  Counted(phys_pages)'
    <3>1. CASE pid \in Pids /\ lp \in LPs /\ f \in Frames
      <4>1. page_table[pid][lp] \in Frames \cup {Unmapped}
        BY <3>1 DEF TypeOK, PageTables
      <4>2. Counted(Reference(phys_pages, page_table[pid][lp], f))
        BY <1>0, <3>1, <4>1, ReferenceCounted
      <4> QED
        BY <2>4, <3>1, <4>2 DEF mapPage, Counted
    <3>2. CASE ~ (pid \in Pids /\ lp \in LPs /\ f \in Frames)
      BY <1>1, <2>4, <3>2 DEF mapPage
    <3> QED
      BY <3>1, <3>2
  <2>5. ASSUME NEW pid \in AnyPid, NEW lp \in AnyLP, unmapPage(pid, lp)
        PROVE  Counted(phys_pages)'
    BY <1>1, <1>2, <2>5 DEF unmapPage
  <2> QED
    BY <1>3, <2>1, <2>2, <2>3, <2>4, <2>5 DEF FrameCall
<1>4. ASSUME PagedCall PROVE Counted(phys_pages)'
  BY <1>1, <1>4, PagedCallTables
<1>5. ASSUME NEW f \in Frames, MallocPage(f) PROVE Counted(phys_pages)'
  <2> DEFINE claimed == Claim(phys_pages, f, call.pid)
             old     == Evict(page_table, f)[call.pid][call.start + call.i]
  <2>1. call.pid \in Pids /\ call.start + call.i \in LPs
    BY <1>5, ConstantsOK DEF MallocPage, TypeOK, Calls, LoopOK, LPs
  <2>2. old \in Frames \cup {Unmapped}
    BY <2>1, EvictType DEF TypeOK, PageTables
  <2>3. claimed \in [Frames -> Descriptors] /\ Counted(claimed)
    BY <1>0, <2>1, PidsAny, ClaimType, ClaimCounted
  <2>4. Counted(Reference(claimed, old, f))
    BY <2>2, <2>3, ReferenceCounted
  <2> QED
    BY <1>5, <2>4 DEF MallocPage, Counted
<1>6. ASSUME UnmapNext PROVE Counted(phys_pages)'
  <2>1. call.pid \in Pids /\ call.start + call.j \in LPs
    BY <1>6, ConstantsOK DEF UnmapNext, TypeOK, Calls, LoopOK, LPs
  <2> QED
    BY <1>2, <1>6, <2>1 DEF UnmapNext
<1>7. ASSUME \/ MallocOutOfFrames \/ MallocReturns \/ UnmapReturns
             \/ CopyByte \/ CopyReturns \/ UNCHANGED vars
      PROVE  Counted(phys_pages)'
  BY <1>1, <1>7 DEF MallocOutOfFrames, MallocReturns, UnmapReturns, CopyByte,
     CopyReturns, EnterFree, vars
<1> QED
  BY <1>3, <1>4, <1>5, <1>6, <1>7 DEF Next, Step

\* A page is free exactly when nothing refers to it, in whatever order
\* allocatePhysicalPage, freePhysicalPage, mapPage, unmapPage and the paged
\* allocator are called (PageCache.cpp:166-315).
THEOREM FreeIffUnreferencedAlways == Spec => []FreeIffUnreferenced
<1>1. Init => FreeIffUnreferenced
  BY DEF Init, FreeIffUnreferenced, FreePage
<1> QED
  BY <1>1, CountedNext, TypeCorrect, PTL DEF Spec

\* findVictimPage never finds a page: the eviction of README.md:16 cannot happen
\* (PageCache.cpp:177-213 is dead code).
THEOREM NoVictimAlways == Spec => []NoVictim
<1>1. FreeIffUnreferenced => NoVictim
  BY DEF FreeIffUnreferenced, NoVictim, Victims
<1> QED
  BY <1>1, FreeIffUnreferencedAlways, PTL

-----------------------------------------------------------------------------
(***************************************************************************)
(* The references a page counts, whatever functions are called.            *)
(***************************************************************************)

\* The entries of table that map f.
Maps(table, f) == {x \in Pids \X LPs : table[x[1]][x[2]] = f}

Bounded(pages, table) ==
  \A f \in Frames : pages[f].ref_count <= 1 + Cardinality(Maps(table, f))

LEMMA MapsCount ==
  ASSUME NEW table, NEW f
  PROVE  IsFiniteSet(Maps(table, f)) /\ Cardinality(Maps(table, f)) \in Nat
<1>1. IsFiniteSet(Pids) /\ IsFiniteSet(LPs)
  BY ConstantsOK, FS_Interval DEF Pids, LPs
<1>2. IsFiniteSet(Pids \X LPs)
  BY <1>1, FS_Product
<1> QED
  BY <1>2, FS_Subset, FS_CardinalityType DEF Maps

Changed(table, pid, lp, g) == [table EXCEPT ![pid][lp] = g]

\* An entry that is changed is one mapping less of the page it held, one more of
\* the page it holds.
LEMMA MapsMove ==
  ASSUME NEW table \in PageTables, NEW pid \in Pids, NEW lp \in LPs,
         NEW g \in Frames \cup {Unmapped},
         NEW old, old = table[pid][lp],
         NEW new, new = Changed(table, pid, lp, g)
  PROVE  /\ \A f : f # old /\ f # g => Maps(new, f) = Maps(table, f)
         /\ g = old => \A f : Maps(new, f) = Maps(table, f)
         /\ g # old => /\ Cardinality(Maps(new, g)) = Cardinality(Maps(table, g)) + 1
                       /\ Cardinality(Maps(new, old)) = Cardinality(Maps(table, old)) - 1
<1> DEFINE x == <<pid, lp>>
<1>1. x \in Pids \X LPs /\ x[1] = pid /\ x[2] = lp
  OBVIOUS
<1>2. ASSUME NEW y \in Pids \X LPs
      PROVE  new[y[1]][y[2]] = IF y = x THEN g ELSE table[y[1]][y[2]]
  <2>1. y[1] \in Pids /\ y[2] \in LPs /\ (y = x <=> y[1] = pid /\ y[2] = lp)
    OBVIOUS
  <2> QED
    BY <2>1 DEF PageTables, Changed
<1>3. x \in Maps(table, old) /\ (g # old => x \notin Maps(table, g))
  BY <1>1 DEF Maps
<1> HIDE DEF x
<1>4. ASSUME NEW f, f # old, f # g PROVE Maps(new, f) = Maps(table, f)
  BY <1>1, <1>2, <1>4 DEF Maps
<1>5. ASSUME g = old, NEW f PROVE Maps(new, f) = Maps(table, f)
  BY <1>1, <1>2, <1>5 DEF Maps
<1>6. ASSUME g # old PROVE Maps(new, g) = Maps(table, g) \cup {x}
  BY <1>1, <1>2, <1>6 DEF Maps
<1>7. ASSUME g # old PROVE Maps(new, old) = Maps(table, old) \ {x}
  BY <1>1, <1>2, <1>7 DEF Maps
<1>8. g # old => Cardinality(Maps(new, g)) = Cardinality(Maps(table, g)) + 1
  BY <1>3, <1>6, MapsCount, FS_AddElement
<1>9. g # old => Cardinality(Maps(new, old)) = Cardinality(Maps(table, old)) - 1
  BY <1>3, <1>7, MapsCount, FS_RemoveElement
<1> QED
  BY <1>4, <1>5, <1>8, <1>9

LEMMA ClaimBounded ==
  ASSUME NEW pages \in [Frames -> Descriptors], NEW table, Bounded(pages, table),
         NEW f \in Frames, NEW owner
  PROVE  Bounded(Claim(pages, f, owner), table)
BY MapsCount DEF Bounded, Claim, Descriptors

LEMMA ReleaseBounded ==
  ASSUME NEW pages \in [Frames -> Descriptors], NEW table, Bounded(pages, table),
         NEW f \in Frames
  PROVE  Bounded(Release(pages, f), table)
BY MapsCount DEF Bounded, Release, FreePage, Descriptors

\* unmapPage gives a reference back with the mapping.
LEMMA UnmapBounded ==
  ASSUME NEW pages \in [Frames -> Descriptors], NEW table \in PageTables,
         Bounded(pages, table), NEW pid \in Pids, NEW lp \in LPs,
         NEW f \in Frames, f = table[pid][lp]
  PROVE  Bounded(Release(pages, f), Changed(table, pid, lp, Unmapped))
<1> DEFINE new == Changed(table, pid, lp, Unmapped)
<1>1. f # Unmapped
  BY DEF Frames, Unmapped
<1>2. /\ \A g \in Frames : g # f => Maps(new, g) = Maps(table, g)
      /\ Cardinality(Maps(new, f)) = Cardinality(Maps(table, f)) - 1
  <2>1. \A g \in Frames : g # Unmapped
    BY DEF Frames, Unmapped
  <2> QED
    BY <1>1, <2>1, MapsMove
<1>3. \A g \in Frames : /\ pages[g].ref_count \in Nat
                        /\ pages[g].ref_count <= 1 + Cardinality(Maps(table, g))
                        /\ Cardinality(Maps(table, g)) \in Nat
                        /\ Cardinality(Maps(new, g)) \in Nat
  BY MapsCount DEF Bounded, Descriptors
<1> HIDE DEF new
<1>4. ASSUME NEW g \in Frames
      PROVE  Release(pages, f)[g].ref_count <= 1 + Cardinality(Maps(new, g))
  <2>1. CASE g = f
    BY <1>2, <1>3, <2>1 DEF Release, FreePage, Descriptors
  <2>2. CASE g # f
    BY <1>2, <1>3, <2>2 DEF Release
  <2> QED
    BY <2>1, <2>2
<1> QED
  BY <1>4 DEF Bounded, new

\* mapPage takes one with the mapping.
LEMMA ReferenceBounded ==
  ASSUME NEW pages \in [Frames -> Descriptors], NEW table \in PageTables,
         Bounded(pages, table), NEW pid \in Pids, NEW lp \in LPs, NEW g \in Frames
  PROVE  Bounded(Reference(pages, table[pid][lp], g), Changed(table, pid, lp, g))
<1> DEFINE old == table[pid][lp]
           new == Changed(table, pid, lp, g)
           released == IF old = Unmapped THEN pages ELSE Release(pages, old)
<1>1. old \in Frames \cup {Unmapped} /\ Unmapped \notin Frames
  BY DEF PageTables, Frames, Unmapped
<1>2. released \in [Frames -> Descriptors]
  BY <1>1, ReleaseType
<1>3. /\ \A f : f # old /\ f # g => Maps(new, f) = Maps(table, f)
      /\ g = old => \A f : Maps(new, f) = Maps(table, f)
      /\ g # old => /\ Cardinality(Maps(new, g)) = Cardinality(Maps(table, g)) + 1
                    /\ Cardinality(Maps(new, old)) = Cardinality(Maps(table, old)) - 1
  <2>1. g \in Frames \cup {Unmapped} /\ old = table[pid][lp] /\ new = Changed(table, pid, lp, g)
    OBVIOUS
  <2> HIDE DEF old, new
  <2> QED
    BY <2>1, MapsMove
<1>4. \A f \in Frames : /\ pages[f].ref_count \in Nat
                        /\ pages[f].ref_count <= 1 + Cardinality(Maps(table, f))
                        /\ Cardinality(Maps(table, f)) \in Nat
                        /\ Cardinality(Maps(new, f)) \in Nat
  BY MapsCount DEF Bounded, Descriptors
<1>5. \A f \in Frames : f # old => released[f] = pages[f]
  BY DEF Release
<1>6. old \in Frames =>
        released[old].ref_count = IF pages[old].ref_count > 1 THEN pages[old].ref_count - 1 ELSE 0
  BY <1>1 DEF Release, FreePage, Descriptors
<1> HIDE DEF new, released, old
<1>7. ASSUME NEW f \in Frames
      PROVE  [released EXCEPT ![g].state = "MAPPED", ![g].ref_count = @ + 1][f].ref_count
               <= 1 + Cardinality(Maps(new, f))
  <2>1. [released EXCEPT ![g].state = "MAPPED", ![g].ref_count = @ + 1][f].ref_count
          = IF f = g THEN released[g].ref_count + 1 ELSE released[f].ref_count
    BY <1>2 DEF Descriptors
  <2>2. CASE f = g /\ g = old
    BY <1>3, <1>4, <1>6, <2>1, <2>2
  <2>3. CASE f = g /\ g # old
    BY <1>3, <1>4, <1>5, <2>1, <2>3
  <2>4. CASE f # g /\ f = old
    BY <1>3, <1>4, <1>6, <2>1, <2>4
  <2>5. CASE f # g /\ f # old
    BY <1>3, <1>4, <1>5, <2>1, <2>5
  <2> QED
    BY <2>2, <2>3, <2>4, <2>5
<1> QED
  BY <1>7 DEF Bounded, Reference, new, released, old

LEMMA BoundedNext ==
  TypeOK /\ FreeIffUnreferenced /\ RefBound /\ [Next]_vars => RefBound'
<1> SUFFICES ASSUME TypeOK, FreeIffUnreferenced, Bounded(phys_pages, page_table), [Next]_vars
             PROVE  Bounded(phys_pages', page_table')
  BY DEF RefBound, Bounded, Mappers, Maps
<1>0. phys_pages \in [Frames -> Descriptors] /\ page_table \in PageTables
  BY DEF TypeOK
<1>1. ASSUME UNCHANGED <<phys_pages, page_table>> PROVE Bounded(phys_pages', page_table')
  BY <1>1
<1>2. ASSUME NEW pid \in Pids, NEW lp \in LPs, Unmap(pid, lp)
      PROVE  Bounded(phys_pages', page_table')
  <2>1. CASE page_table[pid][lp] = Unmapped
    BY <1>1, <1>2, <2>1 DEF Unmap
  <2>2. CASE page_table[pid][lp] # Unmapped
    <3>1. page_table[pid][lp] \in Frames
      BY <2>2 DEF TypeOK, PageTables
    <3> QED
      BY <1>0, <1>2, <2>2, <3>1, UnmapBounded DEF Unmap, Changed
  <2> QED
    BY <2>1, <2>2
<1>3. ASSUME NEW f \in Available
      PROVE  f \in Frames /\ Evict(page_table, f) = page_table
  BY <1>3 DEF Available, Victims, FreeIffUnreferenced, Evict
<1>4. ASSUME FrameCall PROVE Bounded(phys_pages', page_table')
  <2>1. ASSUME NEW pid \in AnyPid, NEW f \in Frames, allocatePhysicalPage(pid, f)
        PROVE  Bounded(phys_pages', page_table')
    BY <1>0, <1>3, <2>1, ClaimBounded DEF allocatePhysicalPage
  <2>2. ASSUME NEW pid \in AnyPid, AllocationFails(pid)
        PROVE  Bounded(phys_pages', page_table')
    BY <1>1, <2>2 DEF AllocationFails
  <2>3. ASSUME NEW f \in AnyFrame, freePhysicalPage(f)
        PROVE  Bounded(phys_pages', page_table')
    <3>1. CASE f \in Frames
      BY <1>0, <2>3, <3>1, ReleaseBounded DEF freePhysicalPage
    <3>2. CASE f \notin Frames
      BY <1>1, <2>3, <3>2 DEF freePhysicalPage
    <3> QED
      BY <3>1, <3>2
  <2>4. ASSUME NEW pid \in AnyPid, NEW lp \in AnyLP, NEW f \in AnyFrame, mapPage(pid, lp, f)
        PROVE  Bounded(phys_pages', page_table')
    <3>1. CASE pid \in Pids /\ lp \in LPs /\ f \in Frames
      BY <1>0, <2>4, <3>1, ReferenceBounded DEF mapPage, Changed
    <3>2. CASE ~ (pid \in Pids /\ lp \in LPs /\ f \in Frames)
      BY <1>1, <2>4, <3>2 DEF mapPage
    <3> QED
      BY <3>1, <3>2
  <2>5. ASSUME NEW pid \in AnyPid, NEW lp \in AnyLP, unmapPage(pid, lp)
        PROVE  Bounded(phys_pages', page_table')
    BY <1>1, <1>2, <2>5 DEF unmapPage
  <2> QED
    BY <1>4, <2>1, <2>2, <2>3, <2>4, <2>5 DEF FrameCall
<1>5. ASSUME PagedCall PROVE Bounded(phys_pages', page_table')
  BY <1>1, <1>5, PagedCallTables
<1>6. ASSUME NEW f \in Frames, MallocPage(f) PROVE Bounded(phys_pages', page_table')
  <2> DEFINE claimed == Claim(phys_pages, f, call.pid)
             lp      == call.start + call.i
  <2>1. call.pid \in Pids /\ lp \in LPs
    BY <1>6, ConstantsOK DEF MallocPage, TypeOK, Calls, LoopOK, LPs
  <2>2. Evict(page_table, f) = page_table
    BY <1>3, <1>6 DEF MallocPage
  <2>3. claimed \in [Frames -> Descriptors] /\ Bounded(claimed, page_table)
    BY <1>0, <2>1, PidsAny, ClaimType, ClaimBounded
  <2>4. Bounded(Reference(claimed, page_table[call.pid][lp], f),
                Changed(page_table, call.pid, lp, f))
    BY <1>0, <2>1, <2>3, ReferenceBounded
  <2> QED
    BY <1>6, <2>2, <2>4 DEF MallocPage, Changed
<1>7. ASSUME UnmapNext PROVE Bounded(phys_pages', page_table')
  <2>1. call.pid \in Pids /\ call.start + call.j \in LPs
    BY <1>7, ConstantsOK DEF UnmapNext, TypeOK, Calls, LoopOK, LPs
  <2> QED
    BY <1>2, <1>7, <2>1 DEF UnmapNext
<1>8. ASSUME \/ MallocOutOfFrames \/ MallocReturns \/ UnmapReturns
             \/ CopyByte \/ CopyReturns \/ UNCHANGED vars
      PROVE  Bounded(phys_pages', page_table')
  BY <1>1, <1>8 DEF MallocOutOfFrames, MallocReturns, UnmapReturns, CopyByte,
     CopyReturns, EnterFree, vars
<1> QED
  BY <1>4, <1>5, <1>6, <1>7, <1>8 DEF Next, Step

\* A page counts at most one reference for its allocation and one for each page
\* table entry that maps it, whatever functions are called in what order, so the
\* uint16_t ref_count (PageCache.h:77) does not wrap.
THEOREM RefBoundAlways == Spec => []RefBound
<1>1. Init => RefBound
  <2>1. \A f : Mappers(f) = Maps(page_table, f)
    BY DEF Mappers, Maps
  <2> QED
    BY <2>1, MapsCount DEF Init, RefBound, FreePage
<1> QED
  BY <1>1, BoundedNext, TypeCorrect, FreeIffUnreferencedAlways, PTL DEF Spec

-----------------------------------------------------------------------------
(***************************************************************************)
(* The paged allocator: who maps which page, and how often it is counted.  *)
(***************************************************************************)

PagedInv ==
  /\ TypeOK
  /\ FreeIffUnreferenced
  /\ Isolation
  /\ OwnerMatches
  /\ PagedRefCount

\* A page nobody maps is one that no page table entry holds.
LEMMA MappersEmpty ==
  ASSUME NEW f
  PROVE  Mappers(f) = {} <=> \A p \in Pids, l \in LPs : page_table[p][l] # f
<1>1. ASSUME NEW p \in Pids, NEW l \in LPs, page_table[p][l] = f
      PROVE  <<p, l>> \in Mappers(f)
  BY <1>1 DEF Mappers
<1>2. ASSUME NEW x \in Mappers(f)
      PROVE  x[1] \in Pids /\ x[2] \in LPs /\ page_table[x[1]][x[2]] = f
  BY DEF Mappers
<1> QED
  BY <1>1, <1>2

LEMMA MappersEmptyNext ==
  ASSUME NEW f
  PROVE  Mappers(f)' = {} <=> \A p \in Pids, l \in LPs : page_table'[p][l] # f
<1>1. ASSUME NEW p \in Pids, NEW l \in LPs, page_table'[p][l] = f
      PROVE  <<p, l>> \in Mappers(f)'
  BY <1>1 DEF Mappers
<1>2. ASSUME NEW x \in Mappers(f)'
      PROVE  x[1] \in Pids /\ x[2] \in LPs /\ page_table'[x[1]][x[2]] = f
  BY DEF Mappers
<1> QED
  BY <1>1, <1>2

\* The page that is taken is free and unmapped.
LEMMA AvailableFree ==
  ASSUME PagedInv, NEW f \in Available
  PROVE  /\ f \in Frames /\ phys_pages[f].state = "FREE"
         /\ \A p \in Pids, l \in LPs : page_table[p][l] # f
<1>1. f \in Frames /\ phys_pages[f].state = "FREE"
  BY DEF Available, Victims, PagedInv, FreeIffUnreferenced
<1> QED
  BY <1>1, MappersEmpty DEF PagedInv, PagedRefCount

\* A mapped page is counted twice and nobody else maps it.
LEMMA MappedOnce ==
  ASSUME PagedInv, NEW pid \in Pids, NEW lp \in LPs, page_table[pid][lp] # Unmapped
  PROVE  /\ page_table[pid][lp] \in Frames
         /\ phys_pages[page_table[pid][lp]].state # "FREE"
         /\ phys_pages[page_table[pid][lp]].ref_count = 2
         /\ \A p \in Pids, l \in LPs :
              page_table[p][l] = page_table[pid][lp] => p = pid /\ l = lp
<1> DEFINE f == page_table[pid][lp]
<1>1. f \in Frames
  BY DEF PagedInv, TypeOK, PageTables
<1>2. Mappers(f) # {}
  BY MappersEmpty
<1>3. phys_pages[f].state # "FREE" /\ phys_pages[f].ref_count = 2
  BY <1>1, <1>2 DEF PagedInv, PagedRefCount
<1>4. \A p \in Pids, l \in LPs : page_table[p][l] = f => p = pid /\ l = lp
  BY DEF PagedInv, Isolation
<1> QED
  BY <1>1, <1>3, <1>4

\* Descriptor d is descriptor c with n references.
WithCount(d, c, n) ==
  d.state = c.state /\ d.owner_pid = c.owner_pid /\ d.ref_count = n

\* A reference given back to a mapped page leaves it in use, counted once.
LEMMA ReleaseMapped ==
  ASSUME NEW pages \in [Frames -> Descriptors], NEW f \in Frames, pages[f].ref_count = 2
  PROVE  /\ DOMAIN Release(pages, f) = Frames
         /\ WithCount(Release(pages, f)[f], pages[f], 1)
         /\ \A g \in Frames \ {f} : Release(pages, f)[g] = pages[g]
  BY DEF Release, Descriptors, WithCount

\* An iteration of the loop of pagedMalloc: page f becomes the page of an entry
\* that held old.
LEMMA MallocPageFacts ==
  ASSUME PagedInv, NEW f \in Frames, MallocPage(f)
  PROVE  LET lp  == call.start + call.i
             old == page_table[call.pid][lp]
         IN  /\ call.pid \in Pids /\ lp \in LPs
             /\ phys_pages[f].state = "FREE" /\ old # f
             /\ \A p \in Pids, l \in LPs : page_table[p][l] # f
             /\ page_table' = [page_table EXCEPT ![call.pid][lp] = f]
             /\ phys_pages'[f] = [state |-> "MAPPED", owner_pid |-> call.pid,
                                  ref_count |-> 2]
             /\ \A g \in Frames \ {f} :
                  IF g = old THEN WithCount(phys_pages'[g], phys_pages[g], 1)
                  ELSE phys_pages'[g] = phys_pages[g]
<1> DEFINE lp      == call.start + call.i
           old     == page_table[call.pid][lp]
           claimed == Claim(phys_pages, f, call.pid)
           rest    == IF old = Unmapped THEN claimed ELSE Release(claimed, old)
<1>1. call.pid \in Pids /\ lp \in LPs
  BY ConstantsOK DEF MallocPage, PagedInv, TypeOK, Calls, LoopOK, LPs
<1>2. /\ phys_pages[f].state = "FREE"
      /\ \A p \in Pids, l \in LPs : page_table[p][l] # f
  BY AvailableFree DEF MallocPage
<1>3. old # f
  BY <1>1, <1>2
<1>4. Evict(page_table, f) = page_table
  BY <1>2 DEF Evict
<1>5. /\ phys_pages' = Reference(claimed, old, f)
      /\ page_table' = [page_table EXCEPT ![call.pid][lp] = f]
  BY <1>4 DEF MallocPage
<1>6. phys_pages \in [Frames -> Descriptors]
  BY DEF PagedInv, TypeOK
<1>7. /\ claimed \in [Frames -> Descriptors]
      /\ claimed[f] = [state |-> "ALLOCATED", owner_pid |-> call.pid, ref_count |-> 1]
      /\ \A g \in Frames \ {f} : claimed[g] = phys_pages[g]
  BY <1>1, <1>2, <1>6, PidsAny DEF Claim, Descriptors
<1>8. /\ DOMAIN rest = Frames
      /\ rest[f] = claimed[f]
      /\ \A g \in Frames \ {f} :
           IF g = old THEN WithCount(rest[g], phys_pages[g], 1)
           ELSE rest[g] = phys_pages[g]
  <2>1. CASE old = Unmapped
    <3>1. Unmapped \notin Frames
      BY ConstantsOK DEF Unmapped, Frames
    <3> QED
      BY <1>7, <2>1, <3>1
  <2>2. CASE old # Unmapped
    <3>1. old \in Frames /\ phys_pages[old].ref_count = 2
      BY <1>1, <2>2, MappedOnce
    <3>2. claimed[old] = phys_pages[old]
      BY <1>3, <1>7, <3>1
    <3> QED
      BY <1>3, <1>7, <2>2, <3>1, <3>2, ReleaseMapped
  <2> QED
    BY <2>1, <2>2
<1>9. phys_pages' = [rest EXCEPT ![f].state = "MAPPED", ![f].ref_count = @ + 1]
  BY <1>5 DEF Reference
<1>10. rest[f] = [state |-> "ALLOCATED", owner_pid |-> call.pid, ref_count |-> 1]
  BY <1>7, <1>8
<1> HIDE DEF lp, old, claimed, rest
<1>11. phys_pages'[f] = [state |-> "MAPPED", owner_pid |-> call.pid, ref_count |-> 2]
  BY <1>7, <1>8, <1>9, <1>10
<1>12. \A g \in Frames \ {f} : phys_pages'[g] = rest[g]
  BY <1>8, <1>9
<1> QED
  BY <1>1, <1>2, <1>3, <1>5, <1>8, <1>11, <1>12 DEF lp, old

\* The body of unmapPage.
LEMMA UnmapFacts ==
  ASSUME PagedInv, NEW pid \in Pids, NEW lp \in LPs, Unmap(pid, lp),
         page_table[pid][lp] # Unmapped
  PROVE  LET old == page_table[pid][lp]
         IN  /\ old \in Frames
             /\ page_table' = [page_table EXCEPT ![pid][lp] = Unmapped]
             /\ WithCount(phys_pages'[old], phys_pages[old], 1)
             /\ \A g \in Frames \ {old} : phys_pages'[g] = phys_pages[g]
  BY MappedOnce, ReleaseMapped DEF Unmap, PagedInv, TypeOK
LEMMA PagedMallocPage ==
  ASSUME PagedInv, NEW f \in Frames, MallocPage(f)
  PROVE  Isolation' /\ OwnerMatches' /\ PagedRefCount'
<1> DEFINE pid == call.pid
           lp  == call.start + call.i
           old == page_table[pid][lp]
<1>1. /\ pid \in Pids /\ lp \in LPs
      /\ phys_pages[f].state = "FREE" /\ old # f
      /\ \A p \in Pids, l \in LPs : page_table[p][l] # f
      /\ page_table' = [page_table EXCEPT ![pid][lp] = f]
      /\ phys_pages'[f] = [state |-> "MAPPED", owner_pid |-> pid, ref_count |-> 2]
      /\ \A g \in Frames \ {f} :
           IF g = old THEN WithCount(phys_pages'[g], phys_pages[g], 1)
           ELSE phys_pages'[g] = phys_pages[g]
  BY MallocPageFacts
<1>2. page_table \in PageTables /\ Unmapped \notin Frames
  BY ConstantsOK DEF PagedInv, TypeOK, Unmapped, Frames
<1> HIDE DEF pid, lp, old
<1>3. /\ page_table'[pid][lp] = f
      /\ \A p \in Pids, l \in LPs :
           p # pid \/ l # lp => page_table'[p][l] = page_table[p][l]
  BY <1>1, <1>2 DEF PageTables
<1>4. Isolation'
  BY <1>1, <1>3 DEF PagedInv, Isolation
<1>5. \A p \in Pids, l \in LPs :
        page_table[p][l] # Unmapped /\ (p # pid \/ l # lp) => page_table[p][l] # old
  BY <1>1, MappedOnce DEF old
<1>6. OwnerMatches'
  <2> SUFFICES ASSUME NEW p \in Pids, NEW l \in LPs, page_table'[p][l] # Unmapped
               PROVE  /\ phys_pages'[page_table'[p][l]].state = "MAPPED"
                      /\ phys_pages'[page_table'[p][l]].owner_pid = p
    BY DEF OwnerMatches
  <2>1. CASE p = pid /\ l = lp
    BY <1>1, <1>3, <2>1
  <2>2. CASE p # pid \/ l # lp
    <3>1. /\ page_table'[p][l] = page_table[p][l]
          /\ page_table[p][l] \in Frames \ {f, old}
      BY <1>1, <1>2, <1>3, <1>5, <2>2 DEF PageTables
    <3> QED
      BY <1>1, <3>1 DEF PagedInv, OwnerMatches
  <2> QED
    BY <2>1, <2>2
<1>7. PagedRefCount'
  <2> SUFFICES ASSUME NEW g \in Frames
               PROVE  /\ phys_pages'[g].state = "FREE" => Mappers(g)' = {}
                      /\ phys_pages'[g].state # "FREE" =>
                           phys_pages'[g].ref_count = IF Mappers(g)' = {} THEN 1 ELSE 2
    BY DEF PagedRefCount
  <2>1. CASE g = f
    <3>1. Mappers(g)' # {}
      BY <1>1, <1>3, <2>1, MappersEmptyNext
    <3> QED
      BY <1>1, <2>1, <3>1
  <2>2. CASE g # f /\ g = old
    <3>1. Mappers(g)' = {}
      <4> SUFFICES ASSUME NEW p \in Pids, NEW l \in LPs PROVE page_table'[p][l] # g
        BY MappersEmptyNext
      <4> QED
        BY <1>2, <1>3, <1>5, <2>2
    <3> QED
      BY <1>1, <2>2, <3>1 DEF WithCount
  <2>3. CASE g # f /\ g # old
    <3>1. Mappers(g)' = {} <=> Mappers(g) = {}
      BY <1>1, <1>3, <2>3, MappersEmpty, MappersEmptyNext DEF old
    <3>2. phys_pages'[g] = phys_pages[g]
      BY <1>1, <2>3
    <3> QED
      BY <3>1, <3>2 DEF PagedInv, PagedRefCount
  <2> QED
    BY <2>1, <2>2, <2>3
<1> QED
  BY <1>4, <1>6, <1>7

LEMMA PagedUnmap ==
  ASSUME PagedInv, NEW pid \in Pids, NEW lp \in LPs, Unmap(pid, lp)
  PROVE  Isolation' /\ OwnerMatches' /\ PagedRefCount'
<1>1. CASE page_table[pid][lp] = Unmapped
  BY <1>1 DEF Unmap, PagedInv, Isolation, OwnerMatches, PagedRefCount, Mappers
<1>2. CASE page_table[pid][lp] # Unmapped
  <2> DEFINE old == page_table[pid][lp]
  <2>1. /\ old \in Frames
        /\ page_table' = [page_table EXCEPT ![pid][lp] = Unmapped]
        /\ WithCount(phys_pages'[old], phys_pages[old], 1)
        /\ \A g \in Frames \ {old} : phys_pages'[g] = phys_pages[g]
    BY <1>2, UnmapFacts
  <2>2. page_table \in PageTables /\ Unmapped \notin Frames
    BY ConstantsOK DEF PagedInv, TypeOK, Unmapped, Frames
  <2>3. \A p \in Pids, l \in LPs : page_table[p][l] = old => p = pid /\ l = lp
    BY <1>2, MappedOnce
  <2>4. phys_pages[old].state # "FREE"
    BY <1>2, MappedOnce
  <2> HIDE DEF old
  <2>5. /\ page_table'[pid][lp] = Unmapped
        /\ \A p \in Pids, l \in LPs :
             p # pid \/ l # lp => page_table'[p][l] = page_table[p][l]
    BY <2>1, <2>2 DEF PageTables
  <2>6. Isolation'
    BY <2>5 DEF PagedInv, Isolation
  <2>7. OwnerMatches'
    <3> SUFFICES ASSUME NEW p \in Pids, NEW l \in LPs, page_table'[p][l] # Unmapped
                 PROVE  /\ phys_pages'[page_table'[p][l]].state = "MAPPED"
                        /\ phys_pages'[page_table'[p][l]].owner_pid = p
      BY DEF OwnerMatches
    <3>1. /\ page_table'[p][l] = page_table[p][l]
          /\ page_table[p][l] \in Frames \ {old}
      BY <2>2, <2>3, <2>5 DEF PageTables
    <3> QED
      BY <2>1, <3>1 DEF PagedInv, OwnerMatches
  <2>8. PagedRefCount'
    <3> SUFFICES ASSUME NEW g \in Frames
                 PROVE  /\ phys_pages'[g].state = "FREE" => Mappers(g)' = {}
                        /\ phys_pages'[g].state # "FREE" =>
                             phys_pages'[g].ref_count = IF Mappers(g)' = {} THEN 1 ELSE 2
      BY DEF PagedRefCount
    <3>1. CASE g = old
      <4>1. Mappers(g)' = {}
        BY <2>2, <2>3, <2>5, <3>1, MappersEmptyNext
      <4> QED
        BY <2>1, <2>4, <3>1, <4>1 DEF WithCount
    <3>2. CASE g # old
      <4>1. Mappers(g)' = {} <=> Mappers(g) = {}
        BY <2>2, <2>5, <3>2, MappersEmpty, MappersEmptyNext DEF old
      <4>2. phys_pages'[g] = phys_pages[g]
        BY <2>1, <3>2
      <4> QED
        BY <4>1, <4>2 DEF PagedInv, PagedRefCount
    <3> QED
      BY <3>1, <3>2
  <2> QED
    BY <2>6, <2>7, <2>8
<1> QED
  BY <1>1, <1>2

LEMMA PagedInvNext == PagedInv /\ [PagedNext]_vars => PagedInv'
<1> SUFFICES ASSUME PagedInv, [PagedNext]_vars PROVE PagedInv'
  OBVIOUS
<1>1. TypeOK' /\ FreeIffUnreferenced'
  BY TypeNext, CountedNext DEF PagedInv, PagedNext, Next
<1>2. Isolation' /\ OwnerMatches' /\ PagedRefCount'
  <2>1. ASSUME UNCHANGED <<phys_pages, page_table>>
        PROVE  Isolation' /\ OwnerMatches' /\ PagedRefCount'
    BY <2>1 DEF PagedInv, Isolation, OwnerMatches, PagedRefCount, Mappers
  <2>2. CASE UnmapNext
    <3>1. call.pid \in Pids /\ call.start + call.j \in LPs
      BY <2>2, ConstantsOK DEF UnmapNext, PagedInv, TypeOK, Calls, LoopOK, LPs
    <3> QED
      BY <2>2, <3>1, PagedUnmap DEF UnmapNext
  <2>3. CASE \/ MallocOutOfFrames \/ MallocReturns \/ UnmapReturns
             \/ CopyByte \/ CopyReturns \/ UNCHANGED vars
    BY <2>1, <2>3 DEF MallocOutOfFrames, MallocReturns, UnmapReturns, CopyByte,
       CopyReturns, EnterFree, vars
  <2> QED
    BY <2>1, <2>2, <2>3, PagedMallocPage, PagedCallTables DEF PagedNext, Step
<1> QED
  BY <1>1, <1>2 DEF PagedInv

LEMMA PagedInvInit == Init => PagedInv
<1> SUFFICES ASSUME Init PROVE PagedInv
  OBVIOUS
<1>1. \A p \in Pids, l \in LPs : page_table[p][l] = Unmapped
  BY DEF Init
<1>2. \A f \in Frames : phys_pages[f].state = "FREE" /\ phys_pages[f].ref_count = 0
  BY DEF Init, FreePage
<1>3. \A f \in Frames : Mappers(f) = {}
  BY <1>1, MappersEmpty, ConstantsOK DEF Unmapped, Frames
<1> QED
  BY <1>1, <1>2, <1>3, TypeInit
  DEF PagedInv, FreeIffUnreferenced, Isolation, OwnerMatches, PagedRefCount

LEMMA PagedInvAlways == PagedSpec => []PagedInv
  BY PagedInvInit, PagedInvNext, PTL DEF PagedSpec

\* Two page table entries never map one physical page: with the paged allocator
\* a process reaches no byte of another one (README.md:11, PageCache.h:11).
THEOREM IsolationAlways == PagedSpec => []Isolation
<1>1. PagedInv => Isolation
  BY DEF PagedInv
<1> QED
  BY <1>1, PagedInvAlways, PTL

\* The descriptor of a mapped page names the process that maps it
\* (PageCache.cpp:171, 273).
THEOREM OwnerMatchesAlways == PagedSpec => []OwnerMatches
<1>1. PagedInv => OwnerMatches
  BY DEF PagedInv
<1> QED
  BY <1>1, PagedInvAlways, PTL

\* A page in use has one reference that pagedFree never gives back
\* (PageCache.cpp:172, 274, 310).
THEOREM PagedRefCountAlways == PagedSpec => []PagedRefCount
<1>1. PagedInv => PagedRefCount
  BY DEF PagedInv
<1> QED
  BY <1>1, PagedInvAlways, PTL

\* So the pages that pagedMalloc takes are lost to everybody for good: the pool
\* of free pages only shrinks.
THEOREM FramesNeverFreedAlways == PagedSpec => FramesNeverFreed
<1>1. ASSUME PagedInv, [PagedNext]_vars, NEW g \in Frames, phys_pages[g].state # "FREE"
      PROVE  phys_pages'[g].state # "FREE"
  <2>1. CASE UNCHANGED phys_pages
    BY <1>1, <2>1
  <2>2. ASSUME NEW f \in Frames, MallocPage(f) PROVE phys_pages'[g].state # "FREE"
    BY <1>1, <2>2, MallocPageFacts DEF WithCount
  <2>3. CASE UnmapNext
    <3>1. call.pid \in Pids /\ call.start + call.j \in LPs
      BY <1>1, <2>3, ConstantsOK DEF UnmapNext, PagedInv, TypeOK, Calls, LoopOK, LPs
    <3>2. CASE page_table[call.pid][call.start + call.j] = Unmapped
      BY <2>1, <2>3, <3>2 DEF UnmapNext, Unmap
    <3>3. CASE page_table[call.pid][call.start + call.j] # Unmapped
      BY <1>1, <2>3, <3>1, <3>3, UnmapFacts DEF UnmapNext, WithCount
    <3> QED
      BY <3>2, <3>3
  <2>4. CASE \/ MallocOutOfFrames \/ MallocReturns \/ UnmapReturns
             \/ CopyByte \/ CopyReturns \/ UNCHANGED vars
    BY <2>1, <2>4 DEF MallocOutOfFrames, MallocReturns, UnmapReturns, CopyByte,
       CopyReturns, EnterFree, vars
  <2> QED
    BY <1>1, <2>1, <2>2, <2>3, <2>4, PagedCallTables DEF PagedNext, Step
<1>2. PagedInv /\ [PagedNext]_vars =>
        [\A f \in Frames : phys_pages[f].state # "FREE" => phys_pages'[f].state # "FREE"]_vars
  BY <1>1
<1> QED
  BY <1>2, PagedInvAlways, PTL DEF PagedSpec, FramesNeverFreed

-----------------------------------------------------------------------------
(***************************************************************************)
(* The paged allocator is a stack: the mapped pages of a process are its   *)
(* first ones, because pagedFree takes a block with all that follows it.   *)
(* What the loops of the allocator leave mapped follows from it.           *)
(***************************************************************************)

Mapped(p, l) == page_table[p][l] # Unmapped

Prefix(p) == \A l \in LPs : Mapped(p, l) => \A k \in 0 .. l : Mapped(p, k)

Busy(p) == ~ Idle /\ p = call.pid

\* The pages of the block that pagedRealloc moves come before the new block.
OldBelow ==
  \A k \in 0 .. (call.len \div PAGE_SIZE) - 1 :
    /\ LogicalPage(call.old) + k \in LPs
    /\ LogicalPage(call.old) + k < call.start

\* A process that is not in a call has its first pages mapped; one that is has,
\* besides those before start, the pages its loop has reached or not left.
Stack ==
  /\ \A p \in Pids : ~ Busy(p) => Prefix(p)
  /\ call.pc = "malloc" =>
       \A l \in LPs : Mapped(call.pid, l) <=> l < call.start + call.i
  /\ call.pc = "copy" =>
       \A l \in LPs : Mapped(call.pid, l) <=> l < call.start + call.n
  /\ call.pc \in {"undo", "free"} =>
       \A l \in LPs : Mapped(call.pid, l) <=>
         l < call.start \/ (call.start + call.j <= l /\ l < call.start + call.i)
  /\ call.op = "pagedRealloc" /\ call.pc \in {"malloc", "undo", "copy"} => OldBelow

StackInv == PagedInv /\ Stack

LEMMA DivMul ==
  ASSUME NEW c \in Nat, NEW k \in 0 .. ((c * PAGE_SIZE) \div PAGE_SIZE) - 1
  PROVE  k < c
<1> DEFINE q == (c * PAGE_SIZE) \div PAGE_SIZE
<1>1. q \in Nat /\ q * PAGE_SIZE <= c * PAGE_SIZE
  BY ConstantsOK
<1>2. q <= c
  BY <1>1, ConstantsOK
<1> QED
  BY <1>1, <1>2

\* A size that is not 0 needs a page.
LEMMA NeedsPage ==
  ASSUME NEW size \in Nat \ {0}
  PROVE  PagesNeeded(size) \in Nat \ {0}
<1>1. size + PAGE_SIZE - 1 \in Nat /\ size + PAGE_SIZE - 1 >= PAGE_SIZE
  BY ConstantsOK
<1>2. (size + PAGE_SIZE - 1) \div PAGE_SIZE >= 1
  BY <1>1, ConstantsOK
<1> QED
  BY <1>2, PagesNeededNat DEF PagesNeeded

\* The first place that is free is where the mapped pages end.
LEMMA FirstFitEnd ==
  ASSUME NEW pid, NEW size \in Nat, NEW s \in FirstFit(pid, size), Prefix(pid)
  PROVE  \A l \in LPs : Mapped(pid, l) <=> l < s
<1> DEFINE n == PagesNeeded(size)
<1>1. /\ s \in LPs /\ n \in Nat /\ s + n <= MAX_PAGES_PER_PROC
      /\ \A lp \in s .. s + n - 1 : page_table[pid][lp] = Unmapped
  BY FirstFitOK
<1>2. n # 0
  BY NeedsPage DEF FirstFit
<1>3. \A r \in 0 .. s - 1 : ~ FreeRun(pid, r, n)
  BY DEF FirstFit
<1> HIDE DEF n
<1>4. ~ Mapped(pid, s)
  BY <1>1, <1>2 DEF Mapped, LPs
<1>5. ASSUME NEW l \in LPs, l >= s PROVE ~ Mapped(pid, l)
  BY <1>1, <1>4, <1>5 DEF Prefix, LPs
<1>6. ASSUME NEW l \in LPs, l < s PROVE Mapped(pid, l)
  <2>1. SUFFICES ASSUME ~ Mapped(pid, l) PROVE FALSE
    OBVIOUS
  <2>2. \A m \in LPs : m >= l => ~ Mapped(pid, m)
    BY <2>1 DEF Prefix, LPs
  <2>3. l + n <= MAX_PAGES_PER_PROC
    BY <1>1, <1>6, ConstantsOK DEF LPs
  <2>4. \A m \in l .. l + n - 1 : m \in LPs /\ m >= l
    BY <1>1, <2>3, ConstantsOK DEF LPs
  <2>5. FreeRun(pid, l, n)
    BY <2>2, <2>3, <2>4 DEF FreeRun, Mapped
  <2> QED
    BY <1>1, <1>3, <1>6, <2>5 DEF LPs
<1> QED
  BY <1>1, <1>5, <1>6 DEF LPs

\* The run that pagedFree frees is where the mapped pages end.
LEMMA MappedRunEnd ==
  ASSUME NEW pid, NEW s \in Nat, NEW c \in MappedRun(pid, s), Prefix(pid)
  PROVE  \A l \in LPs : Mapped(pid, l) <=> l < s + c
<1>1. /\ s \in LPs /\ c \in Nat \ {0} /\ s + c <= MAX_PAGES_PER_PROC
      /\ \A lp \in s .. s + c - 1 : page_table[pid][lp] # Unmapped
  BY MappedRunOK
<1>2. s + c < MAX_PAGES_PER_PROC => ~ Mapped(pid, s + c)
  BY DEF MappedRun, Mapped
<1>3. ASSUME NEW l \in LPs, l >= s + c PROVE ~ Mapped(pid, l)
  BY <1>1, <1>2, <1>3, ConstantsOK DEF Prefix, LPs
<1>4. ASSUME NEW l \in LPs, l < s + c PROVE Mapped(pid, l)
  <2>1. s + c - 1 \in LPs /\ Mapped(pid, s + c - 1)
    BY <1>1, ConstantsOK DEF LPs, Mapped
  <2>2. l \in 0 .. s + c - 1
    BY <1>1, <1>4 DEF LPs
  <2> QED
    BY <2>1, <2>2 DEF Prefix
<1> QED
  BY <1>1, <1>3, <1>4 DEF LPs

(***************************************************************************)
(* What each kind of step does to the stacks.                              *)
(***************************************************************************)

LEMMA EnterMallocStack ==
  ASSUME \A p \in Pids : Prefix(p), NEW op, NEW pid, NEW size \in Nat, NEW old, NEW len,
         EnterMalloc(op, pid, size, old, len),
         op = "pagedRealloc" => \A k \in 0 .. (len \div PAGE_SIZE) - 1 :
           /\ LogicalPage(old) + k \in LPs
           /\ Mapped(pid, LogicalPage(old) + k)
  PROVE  Stack'
<1>1. /\ page_table' = page_table
      /\ \A p \in Pids : Prefix(p)'
  BY DEF EnterMalloc, Prefix, Mapped
<1>2. CASE Return(op, pid, 0)
  BY <1>1, <1>2 DEF Return, NoCall, Stack
<1>3. ASSUME NEW s \in FirstFit(pid, size),
             call' = [pc |-> "malloc", op |-> op, pid |-> pid, start |-> s,
                      n |-> PagesNeeded(size), i |-> 0, j |-> 0,
                      old |-> old, len |-> len, new |-> 0]
      PROVE  Stack'
  <2>1. pid \in Pids /\ s \in LPs
    BY FirstFitOK
  <2>2. \A l \in LPs : Mapped(pid, l) <=> l < s
    BY <2>1, FirstFitEnd
  <2>3. \A l \in LPs : Mapped(pid, l)' <=> l < s + 0
    BY <1>1, <2>1, <2>2 DEF Mapped, LPs
  <2>4. op = "pagedRealloc" => OldBelow'
    BY <1>3, <2>2 DEF OldBelow
  <2> QED
    BY <1>1, <1>3, <2>3, <2>4 DEF Stack, Mapped
<1> QED
  BY <1>2, <1>3 DEF EnterMalloc

LEMMA EnterFreeStack ==
  ASSUME \A p \in Pids : Prefix(p), NEW op, NEW pid, NEW addr \in Nat, NEW new,
         EnterFree(op, pid, addr, new)
  PROVE  Stack'
<1>1. /\ page_table' = page_table
      /\ \A p \in Pids : Prefix(p)'
  BY DEF EnterFree, Prefix, Mapped
<1>2. CASE Return(op, pid, new)
  BY <1>1, <1>2 DEF Return, NoCall, Stack
<1>3. ASSUME NEW c \in FreedRun(pid, addr),
             call' = [NoCall EXCEPT !.pc = "free", !.op = op, !.pid = pid,
                        !.start = LogicalPage(addr), !.i = c, !.new = new]
      PROVE  Stack'
  <2> DEFINE s == LogicalPage(addr)
  <2>1. pid \in Pids /\ s \in Nat /\ c \in MappedRun(pid, s)
    BY LogicalPageNat DEF FreedRun
  <2>2. s \in LPs /\ c \in Nat
    BY <2>1, MappedRunOK
  <2>3. \A l \in LPs : Mapped(pid, l) <=> l < s + c
    BY <2>1, MappedRunEnd
  <2>4. /\ call'.pc = "free" /\ call'.pid = pid /\ call'.start = s
        /\ call'.i = c /\ call'.j = 0
    BY <1>3 DEF NoCall
  <2> HIDE DEF s
  <2>5. \A l \in LPs : Mapped(pid, l)' <=> l < s \/ (s + 0 <= l /\ l < s + c)
    BY <1>1, <2>2, <2>3 DEF Mapped, LPs
  <2> QED
    BY <1>1, <2>4, <2>5 DEF Stack, Mapped
<1> QED
  BY <1>2, <1>3 DEF EnterFree

\* Between calls every stack is a stack.
LEMMA IdleStack ==
  ASSUME Stack, Idle
  PROVE  \A p \in Pids : Prefix(p)
  BY DEF Stack, Busy

LEMMA StackCall == StackInv /\ PagedCall => Stack'
<1> SUFFICES ASSUME StackInv, PagedCall PROVE Stack'
  OBVIOUS
<1>0. Sizes \subseteq Nat /\ Addrs \subseteq Nat
  BY ConstantsOK DEF Sizes, Addrs
<1>1. ASSUME NEW pid \in AnyPid, NEW size \in Sizes, pagedMalloc(pid, size)
      PROVE  Stack'
  BY <1>0, <1>1, IdleStack, EnterMallocStack DEF pagedMalloc, StackInv
<1>2. ASSUME NEW pid \in AnyPid, NEW addr \in Addrs, pagedFree(pid, addr)
      PROVE  Stack'
  BY <1>0, <1>2, IdleStack, EnterFreeStack DEF pagedFree, StackInv
<1>3. ASSUME NEW pid \in Pids, NEW old \in Addrs, NEW size \in Sizes,
             pagedRealloc(pid, old, size)
      PROVE  Stack'
  <2>0. \A p \in Pids : Prefix(p)
    BY <1>3, IdleStack DEF pagedRealloc, StackInv
  <2>1. ASSUME EnterMalloc("pagedMalloc", pid, size, 0, 0) PROVE Stack'
    BY <1>0, <2>0, <2>1, EnterMallocStack
  <2>2. ASSUME EnterFree("pagedRealloc", pid, old, 0) PROVE Stack'
    BY <1>0, <2>0, <2>2, EnterFreeStack
  <2>3. ASSUME NEW val, Return("pagedRealloc", pid, val),
               UNCHANGED <<phys_pages, page_table>>
        PROVE  Stack'
    BY <2>0, <2>3 DEF Return, NoCall, Stack, Prefix, Mapped
  <2>4. ASSUME NEW c \in MappedRun(pid, LogicalPage(old)),
               EnterMalloc("pagedRealloc", pid, size, old, c * PAGE_SIZE)
        PROVE  Stack'
    <3> DEFINE s == LogicalPage(old)
    <3>1. /\ s \in LPs /\ c \in Nat /\ s + c <= MAX_PAGES_PER_PROC
          /\ \A lp \in s .. s + c - 1 : Mapped(pid, lp)
      BY <1>0, LogicalPageNat, MappedRunOK DEF Mapped
    <3>2. ASSUME NEW k \in 0 .. ((c * PAGE_SIZE) \div PAGE_SIZE) - 1
          PROVE  s + k \in LPs /\ Mapped(pid, s + k)
      <4> HIDE DEF s
      <4>1. k \in Nat /\ k < c
        BY <3>1, DivMul
      <4>2. s + k \in LPs /\ s + k \in s .. s + c - 1
        BY <3>1, <4>1, ConstantsOK DEF LPs
      <4> QED
        BY <3>1, <4>2
    <3> QED
      BY <1>0, <2>0, <2>4, <3>2, EnterMallocStack
  <2> QED
    BY <1>3, <2>1, <2>2, <2>3, <2>4 DEF pagedRealloc
<1> QED
  BY <1>1, <1>2, <1>3 DEF PagedCall

\* The types of what the loops use.
LEMMA LoopTypes ==
  ASSUME StackInv, ~ Idle
  PROVE  /\ call.pid \in Pids /\ call.start \in Nat
         /\ call.n \in Nat /\ call.i \in Nat /\ call.j \in Nat
         /\ call.pc = "malloc" => call.j = 0
         /\ call.pc \in {"malloc", "undo", "copy"} =>
              call.i <= call.n /\ call.start + call.n <= MAX_PAGES_PER_PROC
         /\ call.pc \in {"undo", "free"} =>
              call.j <= call.i /\ call.start + call.i <= MAX_PAGES_PER_PROC
  BY DEF StackInv, PagedInv, TypeOK, Calls, LoopOK, LPs

LEMMA OldBelowKept ==
  ASSUME OldBelow, call'.len = call.len, call'.old = call.old, call'.start = call.start
  PROVE  OldBelow'
  BY DEF OldBelow

LEMMA StackMallocPage ==
  ASSUME StackInv, NEW f \in Frames, MallocPage(f)
  PROVE  Stack'
<1> DEFINE lp == call.start + call.i
<1>1. /\ lp \in LPs /\ f # Unmapped
      /\ page_table' = [page_table EXCEPT ![call.pid][lp] = f]
  BY MallocPageFacts DEF StackInv, Frames, Unmapped
<1>2. /\ call.pc = "malloc" /\ ~ Idle
      /\ call'.pc = "malloc" /\ call'.pid = call.pid /\ call'.op = call.op
      /\ call'.start = call.start /\ call'.i = call.i + 1
      /\ call'.old = call.old /\ call'.len = call.len
  BY DEF MallocPage, Idle, StackInv, PagedInv, TypeOK, Calls
<1>3. /\ \A p \in Pids \ {call.pid}, l \in LPs : page_table'[p][l] = page_table[p][l]
      /\ \A l \in LPs \ {lp} : page_table'[call.pid][l] = page_table[call.pid][l]
      /\ page_table'[call.pid][lp] = f
  <2>1. page_table \in [Pids -> [LPs -> Frames \cup {Unmapped}]] /\ call.pid \in Pids
    BY <1>2, LoopTypes DEF StackInv, PagedInv, TypeOK, PageTables
  <2> HIDE DEF lp
  <2> QED
    BY <1>1, <2>1
<1>4. ASSUME NEW l \in LPs
      PROVE  Mapped(call.pid, l)' <=> l < call.start + (call.i + 1)
  <2>1. Mapped(call.pid, l) <=> l < call.start + call.i
    BY <1>2 DEF StackInv, Stack
  <2>2. Mapped(call.pid, l)' <=> page_table'[call.pid][l] # Unmapped
    BY <1>2 DEF Mapped
  <2>3. CASE l = lp
    BY <1>1, <1>2, <1>3, <2>2, <2>3, LoopTypes
  <2>4. CASE l # lp
    BY <1>2, <1>3, <2>1, <2>2, <2>4, LoopTypes DEF Mapped, LPs
  <2> QED
    BY <2>3, <2>4
<1>5. ASSUME NEW p \in Pids, p # call.pid PROVE Prefix(p)'
  <2>1. Prefix(p)
    BY <1>5 DEF StackInv, Stack, Busy
  <2> QED
    BY <1>3, <1>5, <2>1, ConstantsOK DEF Prefix, LPs, Mapped
<1>6. call.op = "pagedRealloc" => OldBelow'
  BY <1>2, OldBelowKept DEF StackInv, Stack
<1> HIDE DEF lp
<1> QED
  BY <1>2, <1>4, <1>5, <1>6 DEF Stack, Busy, Idle, Mapped

LEMMA StackUnmapNext ==
  ASSUME StackInv, UnmapNext
  PROVE  Stack'
<1> DEFINE lp == call.start + call.j
<1>1. /\ call.pc \in {"undo", "free"} /\ ~ Idle /\ call.j < call.i
      /\ call'.pc = call.pc /\ call'.pid = call.pid /\ call'.op = call.op
      /\ call'.start = call.start /\ call'.i = call.i /\ call'.j = call.j + 1
      /\ call'.old = call.old /\ call'.len = call.len
  BY DEF UnmapNext, Idle, StackInv, PagedInv, TypeOK, Calls
<1>2. lp \in LPs /\ call.pid \in Pids
  BY <1>1, LoopTypes, ConstantsOK DEF LPs
<1>3. Mapped(call.pid, lp)
  BY <1>1, <1>2, LoopTypes DEF StackInv, Stack
<1>4. page_table' = [page_table EXCEPT ![call.pid][lp] = Unmapped]
  BY <1>3 DEF UnmapNext, Unmap, Mapped
<1>5. /\ \A p \in Pids \ {call.pid}, l \in LPs : page_table'[p][l] = page_table[p][l]
      /\ \A l \in LPs \ {lp} : page_table'[call.pid][l] = page_table[call.pid][l]
      /\ page_table'[call.pid][lp] = Unmapped
  <2>1. page_table \in [Pids -> [LPs -> Frames \cup {Unmapped}]]
    BY DEF StackInv, PagedInv, TypeOK, PageTables
  <2> HIDE DEF lp
  <2> QED
    BY <1>2, <1>4, <2>1
<1>6. ASSUME NEW l \in LPs
      PROVE  Mapped(call.pid, l)' <=>
               l < call.start \/ (call.start + (call.j + 1) <= l /\ l < call.start + call.i)
  <2>1. Mapped(call.pid, l) <=>
          l < call.start \/ (call.start + call.j <= l /\ l < call.start + call.i)
    BY <1>1 DEF StackInv, Stack
  <2>2. Mapped(call.pid, l)' <=> page_table'[call.pid][l] # Unmapped
    BY <1>1 DEF Mapped
  <2>3. CASE l = lp
    BY <1>1, <1>5, <2>2, <2>3, LoopTypes
  <2>4. CASE l # lp
    BY <1>1, <1>5, <2>1, <2>2, <2>4, LoopTypes DEF Mapped, LPs
  <2> QED
    BY <2>3, <2>4
<1>7. ASSUME NEW p \in Pids, p # call.pid PROVE Prefix(p)'
  <2>1. Prefix(p)
    BY <1>7 DEF StackInv, Stack, Busy
  <2> QED
    BY <1>5, <1>7, <2>1, ConstantsOK DEF Prefix, LPs, Mapped
<1>8. call.op = "pagedRealloc" /\ call.pc = "undo" => OldBelow'
  BY <1>1, OldBelowKept DEF StackInv, Stack
<1> HIDE DEF lp
<1> QED
  BY <1>1, <1>6, <1>7, <1>8 DEF Stack, Busy, Idle, Mapped

\* A loop that is done leaves the first pages mapped.
LEMMA LoopDone ==
  ASSUME StackInv, ~ Idle,
         \/ call.pc = "malloc"
         \/ call.pc = "copy"
         \/ call.pc \in {"undo", "free"} /\ call.j = call.i
  PROVE  \A p \in Pids : Prefix(p)
<1>1. ASSUME NEW k, \A l \in LPs : Mapped(call.pid, l) <=> l < k, k \in Nat
      PROVE  Prefix(call.pid)
  BY <1>1, ConstantsOK DEF Prefix, LPs
<1>2. call.start \in Nat /\ call.start + call.i \in Nat /\ call.start + call.n \in Nat
  BY LoopTypes
<1>3. CASE call.pc = "malloc"
  BY <1>1, <1>2, <1>3 DEF StackInv, Stack, Busy
<1>4. CASE call.pc = "copy"
  BY <1>1, <1>2, <1>4 DEF StackInv, Stack, Busy
<1>5. CASE call.pc \in {"undo", "free"} /\ call.j = call.i
  <2>1. \A l \in LPs : Mapped(call.pid, l) <=> l < call.start
    BY <1>2, <1>5, LoopTypes DEF StackInv, Stack, LPs
  <2> QED
    BY <1>1, <1>2, <2>1 DEF StackInv, Stack, Busy
<1> QED
  BY <1>3, <1>4, <1>5

\* A call that returns leaves the tables as its loop left them.
LEMMA ReturnStack ==
  ASSUME \A p \in Pids : Prefix(p), page_table' = page_table, call' = NoCall
  PROVE  Stack'
  BY DEF Stack, Prefix, Mapped, NoCall

LEMMA StackStep == StackInv /\ Step => Stack'
<1> SUFFICES ASSUME StackInv, Step PROVE Stack'
  OBVIOUS
<1>1. CASE MallocOutOfFrames
  <2>1. /\ call.pc = "malloc" /\ ~ Idle /\ page_table' = page_table
        /\ call'.pc = "undo" /\ call'.pid = call.pid /\ call'.op = call.op
        /\ call'.start = call.start /\ call'.i = call.i /\ call'.j = call.j
        /\ call'.old = call.old /\ call'.len = call.len
    BY <1>1 DEF MallocOutOfFrames, Idle, StackInv, PagedInv, TypeOK, Calls
  <2>2. ASSUME NEW l \in LPs
        PROVE  Mapped(call.pid, l)' <=>
                 l < call.start \/ (call.start + call.j <= l /\ l < call.start + call.i)
    BY <2>1, LoopTypes DEF StackInv, Stack, LPs, Mapped
  <2>3. call.op = "pagedRealloc" => OldBelow'
    BY <2>1, OldBelowKept DEF StackInv, Stack
  <2> QED
    BY <2>1, <2>2, <2>3 DEF StackInv, Stack, Busy, Idle, Prefix, Mapped
<1>2. CASE MallocReturns
  <2>1. call.pc = "malloc" /\ ~ Idle /\ page_table' = page_table /\ call.i = call.n
    BY <1>2 DEF MallocReturns, Idle
  <2>2. CASE call' = NoCall
    BY <2>1, <2>2, LoopDone, ReturnStack
  <2>3. CASE call' = [call EXCEPT !.pc = "copy", !.new = call.start * PAGE_SIZE]
    <3>1. /\ call'.pc = "copy" /\ call'.pid = call.pid /\ call'.op = call.op
          /\ call'.start = call.start /\ call'.n = call.n
          /\ call'.old = call.old /\ call'.len = call.len
      BY <2>3 DEF StackInv, PagedInv, TypeOK, Calls
    <3>2. call.op = "pagedRealloc" => OldBelow'
      BY <2>1, <3>1, OldBelowKept DEF StackInv, Stack
    <3> QED
      BY <2>1, <3>1, <3>2 DEF StackInv, Stack, Busy, Idle, Prefix, Mapped
  <2> QED
    BY <1>2, <2>2, <2>3 DEF MallocReturns, Return
<1>3. CASE UnmapReturns
  BY <1>3, LoopDone, ReturnStack DEF UnmapReturns, Return, Idle
<1>4. CASE CopyByte
  <2>1. /\ call.pc = "copy" /\ ~ Idle /\ page_table' = page_table
        /\ call'.pc = "copy" /\ call'.pid = call.pid /\ call'.op = call.op
        /\ call'.start = call.start /\ call'.n = call.n
        /\ call'.old = call.old /\ call'.len = call.len
    BY <1>4 DEF CopyByte, Idle, StackInv, PagedInv, TypeOK, Calls
  <2>2. call.op = "pagedRealloc" => OldBelow'
    BY <2>1, OldBelowKept DEF StackInv, Stack
  <2> QED
    BY <2>1, <2>2 DEF StackInv, Stack, Busy, Idle, Prefix, Mapped
<1>5. CASE CopyReturns
  <2>1. call.old \in Nat
    BY DEF StackInv, PagedInv, TypeOK, Calls
  <2> QED
    BY <1>5, <2>1, LoopDone, EnterFreeStack DEF CopyReturns, Idle
<1> QED
  BY <1>1, <1>2, <1>3, <1>4, <1>5, StackMallocPage, StackUnmapNext DEF Step

LEMMA StackInvAlways == PagedSpec => []StackInv
<1>1. Init => StackInv
  <2>1. Init => Stack
    BY DEF Init, NoCall, Stack, Prefix, Mapped
  <2> QED
    BY <2>1, PagedInvInit DEF StackInv
<1>2. StackInv /\ [PagedNext]_vars => StackInv'
  <2>1. StackInv /\ UNCHANGED vars => Stack'
    BY DEF vars, StackInv, Stack, Busy, Idle, Prefix, Mapped, OldBelow
  <2> QED
    BY <2>1, StackCall, StackStep, PagedInvNext DEF StackInv, PagedNext
<1> QED
  BY <1>1, <1>2, PTL DEF PagedSpec

\* Between calls the mapped pages of a process are its first ones: pagedFree
\* takes a block with all that is mapped after it (PageCache.cpp:731-751).
THEOREM MappedPrefixAlways == PagedSpec => []MappedPrefix
<1>1. StackInv => MappedPrefix
  BY IdleStack DEF StackInv, MappedPrefix, Prefix, Mapped
<1> QED
  BY <1>1, StackInvAlways, PTL

\* A pagedRealloc that fails has unmapped no page of the block, and the copy
\* reads only pages that are mapped (PageCache.cpp:782-793).
THEOREM ReallocKeepsOldBlockAlways == PagedSpec => []ReallocKeepsOldBlock
<1>1. StackInv => ReallocKeepsOldBlock
  <2> SUFFICES ASSUME StackInv, call.op = "pagedRealloc",
                      call.pc \in {"malloc", "undo", "copy"},
                      NEW k \in 0 .. (call.len \div PAGE_SIZE) - 1
               PROVE  Mapped(call.pid, LogicalPage(call.old) + k)
    BY DEF ReallocKeepsOldBlock, Mapped
  <2> DEFINE l == LogicalPage(call.old) + k
  <2>1. l \in LPs /\ l < call.start
    BY DEF StackInv, Stack, OldBelow
  <2>2. /\ call.start \in Nat /\ call.n \in Nat /\ call.i \in Nat
    BY LoopTypes DEF Idle
  <2> HIDE DEF l
  <2>3. Mapped(call.pid, l)
    BY <2>1, <2>2 DEF StackInv, Stack, LPs
  <2> QED
    BY <2>3 DEF l
<1> QED
  BY <1>1, StackInvAlways, PTL

\* pagedMalloc maps the whole of its run or leaves none of it mapped, and touches
\* nothing else (PageCache.cpp:680-699).
THEOREM MallocAllOrNothingAlways == PagedSpec => MallocAllOrNothing
<1> DEFINE Moves == \A p \in Pids, l \in LPs :
             page_table'[p][l] # page_table[p][l] => p = call.pid /\ l \in Run
           Whole == call.pc = "malloc" /\ call'.pc \in {"idle", "copy"} =>
             \A l \in Run : page_table'[call.pid][l] # Unmapped
           None == call.pc = "undo" /\ call'.pc = "idle" =>
             \A l \in Run : page_table'[call.pid][l] = Unmapped
<1>1. ASSUME StackInv, [PagedNext]_vars, call.pc \in {"malloc", "undo"}
      PROVE  Moves /\ Whole /\ None
  <2>0. /\ ~ Idle
        /\ call.pid \in Pids /\ call.start \in Nat /\ call.n \in Nat /\ call.i \in Nat
        /\ call.i <= call.n /\ call.start + call.n <= MAX_PAGES_PER_PROC
        /\ \A l \in Run : l \in LPs /\ call.start <= l /\ l < call.start + call.n
    BY <1>1, LoopTypes, ConstantsOK DEF Idle, Run, LPs
  <2>1. page_table \in [Pids -> [LPs -> Frames \cup {Unmapped}]] /\ call \in Calls
    BY <1>1 DEF StackInv, PagedInv, TypeOK, PageTables
  <2>2. ASSUME NEW f \in Frames, MallocPage(f) PROVE Moves /\ Whole /\ None
    <3>1. /\ call.pc = "malloc" /\ call'.pc = "malloc" /\ call.i < call.n
      BY <2>1, <2>2 DEF MallocPage, Calls
    <3>2. page_table' = [page_table EXCEPT ![call.pid][call.start + call.i] = f]
      BY <1>1, <2>2, MallocPageFacts DEF StackInv
    <3>3. call.start + call.i \in Run
      BY <2>0, <3>1 DEF Run
    <3>4. Moves
      BY <2>0, <2>1, <3>2, <3>3
    <3> QED
      BY <3>1, <3>4
  <2>3. CASE UnmapNext
    <3>1. /\ call.pc = "undo" /\ call'.pc = "undo" /\ call.j < call.i /\ call.j \in Nat
      BY <1>1, <2>1, <2>3 DEF UnmapNext, Calls
    <3>2. \/ page_table' = page_table
          \/ page_table' = [page_table EXCEPT ![call.pid][call.start + call.j] = Unmapped]
      BY <2>3 DEF UnmapNext, Unmap
    <3>3. call.start + call.j \in Run
      BY <2>0, <3>1 DEF Run
    <3>4. Moves
      BY <2>0, <2>1, <3>2, <3>3
    <3> QED
      BY <3>1, <3>4
  <2>4. CASE MallocReturns
    <3>1. call.pc = "malloc" /\ call.i = call.n /\ page_table' = page_table
      BY <2>4 DEF MallocReturns
    <3>2. Whole
      BY <1>1, <2>0, <3>1 DEF StackInv, Stack, Mapped
    <3> QED
      BY <3>1, <3>2
  <2>5. CASE UnmapReturns
    <3>1. call.pc = "undo" /\ call.j = call.i /\ page_table' = page_table
      BY <1>1, <2>5 DEF UnmapReturns
    <3>2. None
      BY <1>1, <2>0, <3>1 DEF StackInv, Stack, Mapped, LPs
    <3> QED
      BY <3>1, <3>2
  <2>6. CASE MallocOutOfFrames
    BY <2>1, <2>6 DEF MallocOutOfFrames, Calls
  <2>7. CASE UNCHANGED vars
    BY <1>1, <2>7 DEF vars
  <2>8. ~ CopyByte /\ ~ CopyReturns /\ ~ PagedCall
    <3>1. PagedCall => Idle
      BY DEF PagedCall, pagedMalloc, pagedFree, pagedRealloc
    <3> QED
      BY <1>1, <2>0, <3>1 DEF CopyByte, CopyReturns
  <2> QED
    BY <1>1, <2>2, <2>3, <2>4, <2>5, <2>6, <2>7, <2>8 DEF PagedNext, Step
<1>2. StackInv /\ [PagedNext]_vars =>
        [call.pc \in {"malloc", "undo"} => Moves /\ Whole /\ None]_vars
  BY <1>1
<1> QED
  BY <1>2, StackInvAlways, PTL DEF PagedSpec, MallocAllOrNothing

-----------------------------------------------------------------------------
(***************************************************************************)
(* What the free at the end of pagedRealloc takes with it.                 *)
(***************************************************************************)

\* The block that is moved begins before the new one, and is freed from there on.
Moving ==
  /\ call.op = "pagedRealloc" /\ call.pc \in {"malloc", "undo", "copy"} =>
       call.old # 0 /\ LogicalPage(call.old) \in LPs /\ LogicalPage(call.old) < call.start
  /\ call.pc = "copy" => call.op = "pagedRealloc" /\ call.new = call.start * PAGE_SIZE
  /\ call.pc = "free" /\ call.new # 0 =>
       LogicalPage(call.new) \in LPs /\ call.start <= LogicalPage(call.new)

\* The page of the address of page s is s, if the table is no longer than the
\* numbers of pages.
LEMMA PageOfStart ==
  ASSUME MAX_PAGES_PER_PROC <= PAGE_NUMBERS, NEW s \in LPs
  PROVE  LogicalPage(s * PAGE_SIZE) = s
<1>1. PAGE_SIZE \in Nat \ {0} /\ PAGE_NUMBERS \in Nat \ {0} /\ s \in Nat /\ s < PAGE_NUMBERS
  BY ConstantsOK DEF LPs
<1>2. (s * PAGE_SIZE) \div PAGE_SIZE = s
  <2>1. s * PAGE_SIZE \in Nat /\ (s * PAGE_SIZE) \div PAGE_SIZE \in Nat
    BY <1>1
  <2>2. /\ PAGE_SIZE * ((s * PAGE_SIZE) \div PAGE_SIZE) <= s * PAGE_SIZE
        /\ s * PAGE_SIZE < PAGE_SIZE * ((s * PAGE_SIZE) \div PAGE_SIZE) + PAGE_SIZE
    BY <1>1, <2>1
  <2> QED
    BY <1>1, <2>1, <2>2
<1>3. s % PAGE_NUMBERS = s
  BY <1>1
<1> QED
  BY <1>2, <1>3 DEF LogicalPage

LEMMA MovingCall == StackInv /\ PagedCall => Moving'
<1> SUFFICES ASSUME StackInv, PagedCall PROVE Moving'
  OBVIOUS
<1>0. Sizes \subseteq Nat /\ Addrs \subseteq Nat /\ 0 \in Nat
  BY ConstantsOK DEF Sizes, Addrs
<1>1. ASSUME call' = NoCall PROVE Moving'
  BY <1>1 DEF Moving, NoCall
<1>2. ASSUME NEW pid, NEW size \in Nat, EnterMalloc("pagedMalloc", pid, size, 0, 0)
      PROVE  Moving'
  BY <1>1, <1>2 DEF EnterMalloc, Return, Moving
<1>3. ASSUME NEW op, NEW pid, NEW addr \in Nat, EnterFree(op, pid, addr, 0)
      PROVE  Moving'
  BY <1>1, <1>3 DEF EnterFree, Return, NoCall, Moving
<1>4. ASSUME NEW pid \in Pids, NEW old \in Addrs, NEW size \in Sizes,
             pagedRealloc(pid, old, size), old # 0,
             NEW c \in MappedRun(pid, LogicalPage(old)),
             EnterMalloc("pagedRealloc", pid, size, old, c * PAGE_SIZE)
      PROVE  Moving'
  <2> DEFINE s == LogicalPage(old)
  <2>1. s \in LPs /\ Mapped(pid, s)
    <3>1. /\ s \in LPs /\ c \in Nat \ {0}
          /\ \A lp \in s .. s + c - 1 : page_table[pid][lp] # Unmapped
      BY <1>0, LogicalPageNat, MappedRunOK
    <3> HIDE DEF s
    <3>2. s \in s .. s + c - 1
      BY <3>1 DEF LPs
    <3> QED
      BY <3>1, <3>2 DEF Mapped
  <2>2. Prefix(pid)
    BY <1>4, IdleStack DEF pagedRealloc, StackInv
  <2>3. CASE call' = NoCall
    BY <1>1, <2>3
  <2>4. ASSUME NEW t \in FirstFit(pid, size),
               call' = [pc |-> "malloc", op |-> "pagedRealloc", pid |-> pid, start |-> t,
                        n |-> PagesNeeded(size), i |-> 0, j |-> 0,
                        old |-> old, len |-> c * PAGE_SIZE, new |-> 0]
        PROVE  Moving'
    <3>1. s < t
      BY <1>0, <2>1, <2>2, FirstFitEnd
    <3>2. /\ call'.op = "pagedRealloc" /\ call'.pc = "malloc" /\ call'.old = old
          /\ call'.start = t
      BY <2>4
    <3> QED
      BY <1>4, <2>1, <3>1, <3>2 DEF Moving
  <2> QED
    BY <1>4, <2>3, <2>4 DEF EnterMalloc, Return
<1>5. ASSUME NEW pid \in Pids, NEW old \in Addrs, NEW size \in Sizes,
             pagedRealloc(pid, old, size)
      PROVE  Moving'
  BY <1>0, <1>1, <1>2, <1>3, <1>4, <1>5 DEF pagedRealloc, Return
<1> QED
  BY <1>0, <1>2, <1>3, <1>5 DEF PagedCall, pagedMalloc, pagedFree

\* The free of the old block takes its run, which ends behind the new block.
LEMMA CopyFrees ==
  ASSUME StackInv, Moving, CopyReturns
  PROVE  /\ call'.pc = "free" /\ call'.op = "pagedRealloc" /\ call'.new = call.new
         /\ call'.start = LogicalPage(call.old) /\ call'.pid = call.pid
<1> DEFINE s   == LogicalPage(call.old)
           end == call.start + call.n
<1>1. /\ call.pc = "copy" /\ ~ Idle /\ call.op = "pagedRealloc" /\ call.old # 0
      /\ s \in LPs /\ s < call.start
  BY DEF CopyReturns, Idle, Moving
<1>2. /\ call.pid \in Pids /\ call.start \in Nat /\ call.n \in Nat
      /\ end <= MAX_PAGES_PER_PROC
  BY <1>1, LoopTypes
<1>3. \A l \in LPs : page_table[call.pid][l] # Unmapped <=> l < end
  BY <1>1 DEF StackInv, Stack, Mapped
<1>4. end - s \in MappedRun(call.pid, s)
  <2> DEFINE c == end - s
  <2> HIDE DEF s
  <2>1. c \in 1 .. MAX_PAGES_PER_PROC - s /\ s + c = end
    BY <1>1, <1>2, ConstantsOK DEF LPs
  <2>2. \A lp \in s .. s + c - 1 : page_table[call.pid][lp] # Unmapped
    BY <1>1, <1>2, <1>3, <2>1, ConstantsOK DEF LPs
  <2>3. s + c < MAX_PAGES_PER_PROC => page_table[call.pid][s + c] = Unmapped
    BY <1>2, <1>3, <2>1, ConstantsOK DEF LPs
  <2> HIDE DEF c
  <2>4. c \in MappedRun(call.pid, s)
    BY <2>1, <2>2, <2>3 DEF MappedRun
  <2> QED
    BY <2>4 DEF c
<1>5. FreedRun(call.pid, call.old) # {}
  BY <1>1, <1>2, <1>4 DEF FreedRun
<1>6. PICK c \in FreedRun(call.pid, call.old) :
        call' = [NoCall EXCEPT !.pc = "free", !.op = "pagedRealloc", !.pid = call.pid,
                   !.start = LogicalPage(call.old), !.i = c, !.new = call.new]
  BY <1>5 DEF CopyReturns, EnterFree
<1> QED
  BY <1>6 DEF NoCall

LEMMA MovingStep ==
  ASSUME MAX_PAGES_PER_PROC <= PAGE_NUMBERS, StackInv, Moving, Step
  PROVE  Moving'
<1>0. call \in Calls
  BY DEF StackInv, PagedInv, TypeOK
<1>1. ASSUME NEW f \in Frames, MallocPage(f) PROVE Moving'
  BY <1>0, <1>1 DEF MallocPage, Calls, Moving
<1>2. CASE MallocOutOfFrames
  BY <1>0, <1>2 DEF MallocOutOfFrames, Calls, Moving
<1>3. CASE MallocReturns
  <2>1. CASE call' = NoCall
    BY <2>1 DEF NoCall, Moving
  <2>2. CASE call' # NoCall
    <3>1. /\ call.pc = "malloc" /\ call.op = "pagedRealloc"
          /\ call' = [call EXCEPT !.pc = "copy", !.new = call.start * PAGE_SIZE]
      BY <1>3, <2>2 DEF MallocReturns, Return
    <3>2. /\ call'.pc = "copy" /\ call'.op = call.op /\ call'.old = call.old
          /\ call'.start = call.start /\ call'.new = call.start * PAGE_SIZE
      BY <1>0, <3>1 DEF Calls
    <3> QED
      BY <3>1, <3>2 DEF Moving
  <2> QED
    BY <2>1, <2>2
<1>4. CASE UnmapNext
  BY <1>0, <1>4 DEF UnmapNext, Calls, Moving
<1>5. CASE UnmapReturns
  BY <1>5 DEF UnmapReturns, Return, NoCall, Moving
<1>6. CASE CopyByte
  BY <1>0, <1>6 DEF CopyByte, Calls, Moving
<1>7. CASE CopyReturns
  <2>1. /\ call'.pc = "free" /\ call'.new = call.new
        /\ call'.start = LogicalPage(call.old)
    BY <1>7, CopyFrees
  <2>2. /\ call.start \in LPs /\ LogicalPage(call.old) \in LPs
        /\ LogicalPage(call.old) < call.start /\ call.new = call.start * PAGE_SIZE
    BY <1>0, <1>7 DEF CopyReturns, Moving, Calls
  <2>3. LogicalPage(call.new) = call.start
    BY <2>2, PageOfStart
  <2>4. LogicalPage(call.old) <= call.start
    BY <2>2 DEF LPs
  <2> QED
    BY <2>1, <2>2, <2>3, <2>4 DEF Moving
<1> QED
  BY <1>1, <1>2, <1>3, <1>4, <1>5, <1>6, <1>7 DEF Step

LEMMA MovingAlways ==
  ASSUME MAX_PAGES_PER_PROC <= PAGE_NUMBERS
  PROVE  PagedSpec => [](StackInv /\ Moving)
<1>1. Init => Moving
  BY DEF Init, NoCall, Moving
<1>2. StackInv /\ Moving /\ [PagedNext]_vars => Moving'
  <2>1. Moving /\ UNCHANGED vars => Moving'
    BY DEF vars, Moving
  <2> QED
    BY <2>1, MovingCall, MovingStep DEF PagedNext
<1> QED
  BY <1>1, <1>2, StackInvAlways, PTL DEF PagedSpec

\* Every pagedRealloc that moves a block loses it: the free of the old block
\* (PageCache.cpp:793) takes the new one with it, so the address that is returned
\* is not mapped.  The run of PagedBlocks shows one; this is all of them.
THEOREM ReallocLosesBlockAlways ==
  ASSUME MAX_PAGES_PER_PROC <= PAGE_NUMBERS
  PROVE  PagedSpec => ReallocLosesBlock
<1>1. ASSUME StackInv, Moving, [PagedNext]_vars,
             call.op = "pagedRealloc" /\ call.pc \in {"copy", "free"},
             call'.pc = "idle" /\ ret'.val # 0
      PROVE  page_table'[ret'.pid][LogicalPage(ret'.val)] = Unmapped
  <2>1. ~ Idle
    BY <1>1 DEF Idle
  <2>2. UnmapReturns
    <3>1. ~ PagedCall
      BY <2>1 DEF PagedCall, pagedMalloc, pagedFree, pagedRealloc
    <3>2. ~ UNCHANGED vars
      BY <1>1 DEF vars
    <3>3. call \in Calls
      BY <1>1 DEF StackInv, PagedInv, TypeOK
    <3>4. /\ ~ MallocOutOfFrames /\ ~ MallocReturns
          /\ \A f \in Frames : ~ MallocPage(f)
      BY <1>1 DEF MallocOutOfFrames, MallocReturns, MallocPage
    <3>5. ~ UnmapNext /\ ~ CopyByte
      BY <1>1, <3>3 DEF UnmapNext, CopyByte, Calls
    <3>6. ~ CopyReturns
      BY <1>1, CopyFrees
    <3> QED
      BY <1>1, <3>1, <3>2, <3>4, <3>5, <3>6 DEF PagedNext, Step
  <2>3. /\ call.pc = "free" /\ call.j = call.i /\ page_table' = page_table
        /\ ret'.pid = call.pid /\ ret'.val = call.new
    BY <1>1, <2>2 DEF UnmapReturns, Return
  <2>4. LogicalPage(call.new) \in LPs /\ call.start <= LogicalPage(call.new)
    BY <1>1, <2>3 DEF Moving
  <2>5. call.start \in Nat /\ call.i \in Nat
    BY <1>1, <2>1, LoopTypes
  <2>6. ~ Mapped(call.pid, LogicalPage(call.new))
    <3> DEFINE l == LogicalPage(call.new)
    <3>1. l \in LPs /\ call.start <= l
      BY <2>4
    <3>2. Mapped(call.pid, l) <=>
            l < call.start \/ (call.start + call.i <= l /\ l < call.start + call.i)
      BY <1>1, <2>3, <2>4 DEF StackInv, Stack
    <3> HIDE DEF l
    <3>3. ~ Mapped(call.pid, l)
      BY <2>5, <3>1, <3>2 DEF LPs
    <3> QED
      BY <3>3 DEF l
  <2> QED
    BY <2>3, <2>6 DEF Mapped
<1>2. StackInv /\ Moving /\ [PagedNext]_vars =>
        [call.op = "pagedRealloc" /\ call.pc \in {"copy", "free"} /\ call'.pc = "idle" =>
         (ret'.val # 0 => page_table'[ret'.pid][LogicalPage(ret'.val)] = Unmapped)]_vars
  BY <1>1
<1>3. PagedSpec => [](StackInv /\ Moving)
  BY MovingAlways
<1> QED
  BY <1>2, <1>3, PTL DEF PagedSpec, ReallocLosesBlock
=============================================================================
