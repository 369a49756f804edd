------------------------------ MODULE ExtHeap ------------------------------
(***************************************************************************)
(* The classic heap of ExtSRAM (src/ExtSRAMHeap.cpp): a first-fit          *)
(* allocator whose block headers lie in the external SRAM, each in front   *)
(* of its data.  malloc, defrag and getFree walk from header to header;    *)
(* one iteration of their loops is one step here.                          *)
(*                                                                         *)
(* heap maps the addresses that hold a BlockHeader to it.  A header that   *)
(* is written over, or that defrag absorbs, is gone; an address outside    *)
(* DOMAIN heap holds bytes with another magic.  The variable held is what  *)
(* the callers have been given and not yet freed; the program keeps no     *)
(* such record.                                                            *)
(***************************************************************************)
EXTENDS Integers, FiniteSetsExt

CONSTANTS
  HEAP_TOTAL_SIZE,
  HEADER_SIZE,
  MIN_SPLIT, \* the 4 of "size + HEADER_SIZE + 4"
  SIZE_MOD,  \* that sum is computed in unsigned int: 2^16 on the AVR
  MaxSize,   \* bound of the model: the largest size asked for
  Owners

HEAP_START_ADDR == 0

\* MaxSize stays clear of the sizes for which the 16-bit sum wraps.
ASSUME HeapConstantsOK ==
  /\ HEADER_SIZE \in Nat \ {0}
  /\ HEAP_TOTAL_SIZE \in Nat /\ HEAP_TOTAL_SIZE >= HEADER_SIZE
  /\ MIN_SPLIT \in Nat /\ SIZE_MOD \in Nat /\ MaxSize \in Nat
  /\ MaxSize + HEADER_SIZE + MIN_SPLIT < SIZE_MOD
  /\ 0 \in Owners

VARIABLES
  heap,  \* address |-> BlockHeader
  walk,  \* the call in progress and where its loop is
  ret,   \* what the last call returned
  held   \* [addr, size, owner] of the blocks given out

heapVars == <<heap, walk, ret, held>>

Header(size, free, owner) == [size |-> size, free |-> free, owner |-> owner]

NoWalk == [op |-> "none", curr |-> 0, size |-> 0, owner |-> 0, total |-> 0]

HeapInit ==
  /\ heap = [a \in {HEAP_START_ADDR} |->
               Header(HEAP_TOTAL_SIZE - HEADER_SIZE, TRUE, 0)]
  /\ walk = NoWalk
  /\ ret = [op |-> "none", val |-> 0]
  /\ held = {}

NoCall == walk.op = "none"

\* Where the block behind the header at address a ends.
End(a) == a + HEADER_SIZE + heap[a].size

\* heap once header h is written at address a, over the headers it overlaps.
Written(a, h) ==
  [b \in {c \in DOMAIN heap : c + HEADER_SIZE <= a \/ a + HEADER_SIZE <= c} \cup {a} |->
     IF b = a THEN h ELSE heap[b]]

\* The loop is at a header of the heap; elsewhere every walk stops.
AtHeader == walk.curr < HEAP_START_ADDR + HEAP_TOTAL_SIZE /\ walk.curr \in DOMAIN heap

Begin(op, size, owner) ==
  /\ NoCall
  /\ walk' = [op |-> op, curr |-> HEAP_START_ADDR, size |-> size,
              owner |-> owner, total |-> 0]
  /\ UNCHANGED <<heap, ret, held>>

\* Mutant of Advance: the size of the header is forgotten.
AdvanceShort == walk' = [walk EXCEPT !.curr = End(walk.curr) - HEADER_SIZE]

\* Mutant of Advance: the block behind is passed over.
AdvanceTwo ==
  walk' = [walk EXCEPT !.curr =
    IF End(walk.curr) \in DOMAIN heap THEN End(End(walk.curr)) ELSE End(walk.curr)]

Advance == walk' = [walk EXCEPT !.curr = End(walk.curr)]

Returns(val) == walk' = NoWalk /\ ret' = [op |-> walk.op, val |-> val]

-----------------------------------------------------------------------------
(***************************************************************************)
(* malloc                                                                  *)
(***************************************************************************)
malloc(size, owner) ==
  IF size = 0
  THEN NoCall /\ ret' = [op |-> "malloc", val |-> 0] /\ UNCHANGED <<heap, walk, held>>
  ELSE Begin("malloc", size, owner)

Fits(a) == heap[a].free /\ heap[a].size >= walk.size

Splits(a) == heap[a].size > (walk.size + HEADER_SIZE + MIN_SPLIT) % SIZE_MOD

\* Mutant of Placed: the block keeps its old size when it is split.
PlacedWhole(a) ==
  LET rest == a + HEADER_SIZE + walk.size
      used == Header(heap[a].size, FALSE, walk.owner)
  IN  IF Splits(a)
      THEN [Written(rest, Header(heap[a].size - walk.size - HEADER_SIZE, TRUE, 0))
              EXCEPT ![a] = used]
      ELSE [heap EXCEPT ![a] = used]

\* heap once the block at a is given out, split if its rest is worth it.
Placed(a) ==
  LET rest == a + HEADER_SIZE + walk.size
  IN  IF Splits(a)
      THEN [Written(rest, Header(heap[a].size - walk.size - HEADER_SIZE, TRUE, 0))
              EXCEPT ![a] = Header(walk.size, FALSE, walk.owner)]
      ELSE [heap EXCEPT ![a] = Header(heap[a].size, FALSE, walk.owner)]

MallocFits ==
  /\ walk.op = "malloc" /\ AtHeader /\ Fits(walk.curr)
  /\ heap' = Placed(walk.curr)
  /\ held' = held \cup {[addr |-> walk.curr + HEADER_SIZE, size |-> walk.size,
                         owner |-> walk.owner]}
  /\ Returns(walk.curr + HEADER_SIZE)

MallocSkips ==
  /\ walk.op = "malloc" /\ AtHeader /\ ~ Fits(walk.curr)
  /\ Advance
  /\ UNCHANGED <<heap, ret, held>>

\* The end of the heap, or bytes that are no header.
MallocFails ==
  /\ walk.op = "malloc" /\ ~ AtHeader
  /\ Returns(0)
  /\ UNCHANGED <<heap, held>>

-----------------------------------------------------------------------------
(***************************************************************************)
(* free                                                                    *)
(***************************************************************************)

\* Mutant of Freeable: the address of the data is taken for the header's.
FreeableAtData(addr) == addr \in DOMAIN heap /\ ~ heap[addr].free

\* The data of the first block is at HEAP_START_ADDR + HEADER_SIZE: refused.
Freeable(addr) ==
  /\ addr # 0 /\ addr > HEAP_START_ADDR + HEADER_SIZE
  /\ addr - HEADER_SIZE \in DOMAIN heap
  /\ ~ heap[addr - HEADER_SIZE].free

\* A caller frees a block it holds.
free(b) ==
  /\ NoCall
  /\ heap' = IF Freeable(b.addr)
             THEN LET h == b.addr - HEADER_SIZE
                  IN  [heap EXCEPT ![h] = Header(heap[h].size, TRUE, 0)]
             ELSE heap
  /\ held' = held \ {b}
  /\ ret' = [op |-> "free", val |-> 0]
  /\ UNCHANGED walk

-----------------------------------------------------------------------------
(***************************************************************************)
(* defrag and getFree                                                      *)
(***************************************************************************)
defrag == Begin("defrag", 0, 0)

\* Mutant of Mergeable: the block behind may be in use.
MergeableUsed(a) == heap[a].free /\ End(a) < HEAP_TOTAL_SIZE /\ End(a) \in DOMAIN heap

\* The free block at a has a free block behind it.
Mergeable(a) ==
  /\ heap[a].free
  /\ End(a) < HEAP_START_ADDR + HEAP_TOTAL_SIZE /\ End(a) \in DOMAIN heap
  /\ heap[End(a)].free

\* Mutant of DefragMerges: the walk goes on behind the merged block.
DefragMergesOnce ==
  /\ walk.op = "defrag" /\ AtHeader /\ Mergeable(walk.curr)
  /\ LET a == walk.curr
         next == End(a)
     IN  /\ heap' = [b \in DOMAIN heap \ {next} |->
                       IF b = a
                       THEN [heap[a] EXCEPT !.size = @ + HEADER_SIZE + heap[next].size]
                       ELSE heap[b]]
         /\ walk' = [walk EXCEPT !.curr = End(next)]
  /\ UNCHANGED <<ret, held>>

\* Mutant of DefragMerges: the new size is not written to the SRAM.
DefragMergesCopy ==
  /\ walk.op = "defrag" /\ AtHeader /\ Mergeable(walk.curr)
  /\ UNCHANGED heapVars

\* The block stays the current one: it may have another free block behind it.
DefragMerges ==
  /\ walk.op = "defrag" /\ AtHeader /\ Mergeable(walk.curr)
  /\ LET a == walk.curr
         next == End(a)
     IN  heap' = [b \in DOMAIN heap \ {next} |->
                    IF b = a
                    THEN [heap[a] EXCEPT !.size = @ + HEADER_SIZE + heap[next].size]
                    ELSE heap[b]]
  /\ UNCHANGED <<walk, ret, held>>

DefragSkips ==
  /\ walk.op = "defrag" /\ AtHeader /\ ~ Mergeable(walk.curr)
  /\ Advance
  /\ UNCHANGED <<heap, ret, held>>

DefragReturns ==
  /\ walk.op = "defrag" /\ ~ AtHeader
  /\ Returns(0)
  /\ UNCHANGED <<heap, held>>

getFree == Begin("getFree", 0, 0)

\* Mutant of GetFreeAdds: the blocks in use are added too.
GetFreeAddsAll ==
  /\ walk.op = "getFree" /\ AtHeader
  /\ walk' = [walk EXCEPT !.curr = End(walk.curr), !.total = @ + heap[walk.curr].size]
  /\ UNCHANGED <<heap, ret, held>>

GetFreeAdds ==
  /\ walk.op = "getFree" /\ AtHeader
  /\ walk' = [walk EXCEPT !.curr = End(walk.curr),
                          !.total = IF heap[walk.curr].free
                                    THEN @ + heap[walk.curr].size ELSE @]
  /\ UNCHANGED <<heap, ret, held>>

GetFreeReturns ==
  /\ walk.op = "getFree" /\ ~ AtHeader
  /\ Returns(walk.total)
  /\ UNCHANGED <<heap, held>>

-----------------------------------------------------------------------------

HeapCall ==
  \/ \E size \in 0 .. MaxSize, owner \in Owners : malloc(size, owner)
  \/ \E b \in held : free(b)
  \/ defrag
  \/ getFree

\* An iteration of the loop of the call in progress.
HeapStep ==
  \/ MallocFits \/ MallocSkips \/ MallocFails
  \/ DefragMerges \/ DefragSkips \/ DefragReturns
  \/ GetFreeAdds \/ GetFreeReturns

HeapNext == HeapCall \/ HeapStep

\* A function that was called keeps running: nothing else runs meanwhile.
HeapSpec == HeapInit /\ [][HeapNext]_heapVars /\ WF_heapVars(HeapStep)

-----------------------------------------------------------------------------
(***************************************************************************)
(* Properties.                                                             *)
(***************************************************************************)
Addresses == HEAP_START_ADDR .. HEAP_START_ADDR + HEAP_TOTAL_SIZE

BlockHeader == [size : 0 .. HEAP_TOTAL_SIZE, free : BOOLEAN, owner : Owners]

Walks == [op : {"none", "malloc", "defrag", "getFree"}, curr : Addresses,
          size : 0 .. MaxSize, owner : Owners, total : 0 .. HEAP_TOTAL_SIZE]

HeldBlock == [addr : Addresses, size : 1 .. MaxSize, owner : Owners]

HeapTypeOK ==
  /\ DOMAIN heap \subseteq Addresses
  /\ \A a \in DOMAIN heap : heap[a] \in BlockHeader
  /\ walk \in Walks
  /\ held \subseteq HeldBlock

\* The blocks tile the heap: from HEAP_START_ADDR on, each ends where the next
\* one begins and the last one ends with the heap, so no walk ever reads bytes
\* that are not a header, in the middle of a call or between two.
Tiled ==
  /\ HEAP_START_ADDR \in DOMAIN heap
  /\ \A a \in DOMAIN heap :
       End(a) \in DOMAIN heap \cup {HEAP_START_ADDR + HEAP_TOTAL_SIZE}
  /\ \A a, b \in DOMAIN heap : a < b => End(a) <= b

\* The loops stop at headers and at the end of the heap only.
WalkOnHeader ==
  NoCall \/ AtHeader \/ walk.curr = HEAP_START_ADDR + HEAP_TOTAL_SIZE

\* A block that was given out and not freed keeps its header, in use, with its
\* owner and at least the size asked for, through every split and merge around
\* it; with Tiled, no two of them share a byte.
HeldIntact ==
  \A b \in held :
    /\ b.addr - HEADER_SIZE \in DOMAIN heap
    /\ LET h == heap[b.addr - HEADER_SIZE]
       IN  ~ h.free /\ h.size >= b.size /\ h.owner = b.owner

\* Nothing leaks but the first block, which free refuses (ExtSRAMHeap.cpp:65).
OnlyFirstLeaks ==
  \A a \in DOMAIN heap \ {HEAP_START_ADDR} :
    ~ heap[a].free => \E b \in held : b.addr = a + HEADER_SIZE

\* malloc fails only if no free block is large enough.
FailsOnlyWhenFull ==
  [][MallocFails => \A a \in DOMAIN heap : ~ Fits(a)]_heapVars

\* When defrag returns, no two neighbouring blocks are free.
DefragComplete ==
  [][DefragReturns =>
       \A a \in DOMAIN heap : heap[a].free => End(a) \notin DOMAIN heap \/ ~ heap[End(a)].free
    ]_heapVars

\* getFree returns what is left of the heap besides headers and blocks in use.
FreeCounted ==
  [][GetFreeReturns =>
       ret'.val = HEAP_TOTAL_SIZE
         - MapThenSumSet(LAMBDA a : HEADER_SIZE + (IF heap[a].free THEN 0 ELSE heap[a].size),
                         DOMAIN heap)]_heapVars

\* Every call returns, defrag and its "continue" included.
HeapCallReturns == ~ NoCall ~> NoCall
=============================================================================
