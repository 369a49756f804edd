---------------------------- MODULE PagedBlocks ----------------------------
(***************************************************************************)
(* The paged allocator seen by callers that keep to the rules of malloc: a *)
(* block is freed or reallocated by the address it was given out at, by    *)
(* the process that holds it; 0 is a failure.  The variable blocks is what *)
(* the callers hold; the program keeps no such record.                     *)
(***************************************************************************)
EXTENDS PageTable

CONSTANT MaxBlocks \* bound of the model: the blocks a process holds at a time

VARIABLE blocks \* the blocks the callers hold: n pages of pid from start on

Blocks == [pid : Pids, start : LPs, n : LPs \cup {MAX_PAGES_PER_PROC}]

blockVars == <<vars, blocks>>

BlocksInit == Init /\ blocks = {}

Addr(b) == b.start * PAGE_SIZE

PagesOf(b) == b.start .. b.start + b.n - 1

Block(pid, start, n) == [pid |-> pid, start |-> start, n |-> n]

HeldBy(pid) == {b \in blocks : b.pid = pid}

ClientMalloc(pid, size) ==
  /\ Cardinality(HeldBy(pid)) < MaxBlocks
  /\ pagedMalloc(pid, size)
  /\ UNCHANGED blocks

\* The block is given up when pagedFree is called.
ClientFree(b) ==
  /\ pagedFree(b.pid, Addr(b))
  /\ blocks' = blocks \ {b}

\* A pagedRealloc that need not move the block returns at once.
ClientRealloc(b, size) ==
  /\ size # 0
  /\ pagedRealloc(b.pid, Addr(b), size)
  /\ blocks' = IF ret'.val = Addr(b)
               THEN (blocks \ {b}) \cup {Block(b.pid, b.start, PagesNeeded(size))}
               ELSE blocks

\* A malloc that succeeds gives its caller a block, in place of the old one if
\* it is that of pagedRealloc.
ClientMallocReturns ==
  /\ MallocReturns
  /\ blocks' = IF call.start = 0 THEN blocks
               ELSE {b \in blocks : ~ (/\ call.op = "pagedRealloc"
                                       /\ b.pid = call.pid /\ Addr(b) = call.old)}
                    \cup {Block(call.pid, call.start, call.n)}

ClientStep ==
  \/ /\ \/ \E f \in Frames : MallocPage(f)
        \/ MallocOutOfFrames
        \/ UnmapNext
        \/ UnmapReturns
        \/ CopyByte
        \/ CopyReturns
     /\ UNCHANGED blocks
  \/ ClientMallocReturns

ClientNext ==
  \/ \E pid \in Pids, size \in Sizes : ClientMalloc(pid, size)
  \/ \E b \in blocks : ClientFree(b)
  \/ \E b \in blocks, size \in Sizes : ClientRealloc(b, size)
  \/ ClientStep

ClientSpec == BlocksInit /\ [][ClientNext]_blockVars

-----------------------------------------------------------------------------

\* Between calls, every page of a block is mapped: README.md:16 offers memory of
\* one's own by pagedMalloc and pagedRealloc, which is there until its holder
\* frees it.
BlocksMapped ==
  Idle => \A b \in blocks : \A lp \in PagesOf(b) : page_table[b.pid][lp] # Unmapped
=============================================================================
