--------------------------- MODULE ExtHeap_proofs ---------------------------
(***************************************************************************)
(* Proofs about module ExtHeap, for every size of the heap and of the      *)
(* headers: the blocks always tile the heap, so no walk leaves the chain   *)
(* of headers, and the blocks given out stay as they were given; malloc    *)
(* overlooks no block, defrag no pair of free blocks, and getFree no byte. *)
(***************************************************************************)
EXTENDS ExtHeap, FiniteSetTheorems, WellFoundedInduction, TLAPS

HeapEnd == HEAP_START_ADDR + HEAP_TOTAL_SIZE

\* No two blocks are given out at one address.
HeldOnce == \A b, c \in held : b.addr = c.addr => b = c

\* What getFree has added up lies behind it.
TotalBehind == walk.total <= walk.curr

\* malloc walks for a size that is not 0.
MallocSize == walk.op = "malloc" => walk.size >= 1

HeapInv ==
  /\ HeapTypeOK /\ Tiled /\ WalkOnHeader
  /\ HeldIntact /\ OnlyFirstLeaks /\ HeldOnce /\ TotalBehind /\ MallocSize

LEMMA HeaderFields ==
  ASSUME NEW n \in 0 .. HEAP_TOTAL_SIZE, NEW o \in Owners
  PROVE  /\ Header(n, TRUE, o) \in BlockHeader /\ Header(n, FALSE, o) \in BlockHeader
         /\ Header(n, TRUE, o).size = n /\ Header(n, FALSE, o).size = n
         /\ Header(n, TRUE, o).owner = o /\ Header(n, FALSE, o).owner = o
         /\ Header(n, TRUE, o).free /\ ~ Header(n, FALSE, o).free
  BY DEF Header, BlockHeader

\* What the invariant says of the blocks: they have a place in the heap and the
\* walk goes on to another one.
LEMMA BlockPlace ==
  ASSUME HeapInv, NEW a \in DOMAIN heap
  PROVE  /\ a \in Nat /\ heap[a].size \in Nat /\ HEADER_SIZE \in Nat \ {0}
         /\ End(a) \in Addresses /\ a < End(a) /\ a + HEADER_SIZE <= End(a)
         /\ a < HeapEnd
  BY HeapConstantsOK
  DEF HeapInv, HeapTypeOK, BlockHeader, Tiled, Addresses, End, HEAP_START_ADDR, HeapEnd

LEMMA HeapInvInit == HeapInit => HeapInv
<1> SUFFICES ASSUME HeapInit PROVE HeapInv
  OBVIOUS
<1>1. DOMAIN heap = {0} /\ heap[0] = Header(HEAP_TOTAL_SIZE - HEADER_SIZE, TRUE, 0)
  BY DEF HeapInit, HEAP_START_ADDR
<1>2. /\ HEAP_TOTAL_SIZE - HEADER_SIZE \in 0 .. HEAP_TOTAL_SIZE
      /\ 0 \in Addresses /\ 0 \in 0 .. MaxSize /\ 0 \in 0 .. HEAP_TOTAL_SIZE
      /\ 0 \in Owners
  BY HeapConstantsOK DEF Addresses, HEAP_START_ADDR
<1>3. HeapTypeOK /\ Tiled
  <2>1. walk = NoWalk /\ held = {}
    BY DEF HeapInit
  <2>2. walk \in Walks
    BY <1>2, <2>1 DEF NoWalk, Walks
  <2>3. heap[0] \in BlockHeader /\ heap[0].size = HEAP_TOTAL_SIZE - HEADER_SIZE
    BY <1>1, <1>2 DEF Header, BlockHeader
  <2>4. End(0) = HEAP_TOTAL_SIZE
    BY <2>3, HeapConstantsOK DEF End
  <2>5. HeapTypeOK
    BY <1>1, <1>2, <2>1, <2>2, <2>3 DEF HeapTypeOK
  <2>6. Tiled
    BY <1>1, <2>4, HeapConstantsOK DEF Tiled, HEAP_START_ADDR
  <2> QED
    BY <2>5, <2>6
<1>4. WalkOnHeader /\ TotalBehind /\ MallocSize
  BY DEF HeapInit, WalkOnHeader, NoCall, NoWalk, TotalBehind, MallocSize
<1>5. HeldIntact /\ OnlyFirstLeaks /\ HeldOnce
  BY <1>1 DEF HeapInit, HeldIntact, OnlyFirstLeaks, HeldOnce, HEAP_START_ADDR
<1> QED
  BY <1>3, <1>4, <1>5 DEF HeapInv

-----------------------------------------------------------------------------
(***************************************************************************)
(* Steps that leave the heap and the blocks held as they are.              *)
(***************************************************************************)
WalkOK ==
  /\ walk \in Walks
  /\ WalkOnHeader
  /\ TotalBehind /\ MallocSize

LEMMA WalkStep ==
  ASSUME HeapInv, UNCHANGED <<heap, held>>, WalkOK'
  PROVE  HeapInv'
<1>1. HeapTypeOK'
  BY DEF HeapInv, HeapTypeOK, WalkOK
<1>2. Tiled' /\ HeldIntact' /\ OnlyFirstLeaks' /\ HeldOnce'
  BY DEF HeapInv, Tiled, End, HeldIntact, OnlyFirstLeaks, HeldOnce
<1> QED
  BY <1>1, <1>2 DEF HeapInv, WalkOK

LEMMA BeginOK ==
  ASSUME HeapInv, NEW op \in {"malloc", "defrag", "getFree"}, NEW size \in 0 .. MaxSize,
         NEW owner \in Owners, op = "malloc" => size >= 1, Begin(op, size, owner)
  PROVE  HeapInv'
<1>1. /\ walk' = [op |-> op, curr |-> HEAP_START_ADDR, size |-> size,
                  owner |-> owner, total |-> 0]
      /\ UNCHANGED <<heap, held>>
  BY DEF Begin
<1>2. HEAP_START_ADDR \in DOMAIN heap /\ HEAP_START_ADDR < HeapEnd
  BY BlockPlace DEF HeapInv, Tiled
<1>3. WalkOK'
  BY <1>1, <1>2, HeapConstantsOK
  DEF WalkOK, WalkOnHeader, NoCall, AtHeader, TotalBehind, MallocSize, Walks, Addresses, HEAP_START_ADDR, HeapEnd
<1> QED
  BY <1>1, <1>3, WalkStep

LEMMA AdvanceOK ==
  ASSUME HeapInv, AtHeader, UNCHANGED <<heap, held>>,
         NEW total \in Nat, total <= walk.total + heap[walk.curr].size,
         walk' = [walk EXCEPT !.curr = End(walk.curr), !.total = total]
  PROVE  HeapInv'
<1> DEFINE a == walk.curr
<1>1. a \in DOMAIN heap
  BY DEF AtHeader
<1>2. /\ a \in Nat /\ heap[a].size \in Nat /\ HEADER_SIZE \in Nat \ {0}
      /\ End(a) \in Addresses /\ a + HEADER_SIZE <= End(a)
  BY <1>1, BlockPlace
<1>3. walk.total \in Nat /\ walk.total <= a
  BY DEF HeapInv, TotalBehind, HeapTypeOK, Walks
<1>4. total <= End(a) /\ total \in 0 .. HEAP_TOTAL_SIZE
  BY <1>2, <1>3, HeapConstantsOK DEF End, Addresses, HEAP_START_ADDR
<1>5. End(a) \in DOMAIN heap \cup {HeapEnd}
  BY <1>1 DEF HeapInv, Tiled, HeapEnd
<1>6. End(a) \in DOMAIN heap => End(a) < HeapEnd
  BY BlockPlace
<1>7. /\ walk'.op = walk.op /\ walk'.curr = End(a) /\ walk'.total = total
      /\ walk'.size = walk.size /\ walk' \in Walks
  BY <1>2, <1>4 DEF HeapInv, HeapTypeOK, Walks
<1>8. WalkOnHeader'
  BY <1>5, <1>6, <1>7 DEF WalkOnHeader, AtHeader, HeapEnd
<1>9. WalkOK'
  BY <1>4, <1>7, <1>8 DEF WalkOK, TotalBehind, MallocSize, HeapInv, Addresses
<1> QED
  BY <1>9, WalkStep

LEMMA ReturnOK ==
  ASSUME HeapInv, UNCHANGED <<heap, held>>, walk' = NoWalk
  PROVE  HeapInv'
<1>1. WalkOK'
  BY HeapConstantsOK DEF WalkOK, WalkOnHeader, NoCall, NoWalk, TotalBehind, MallocSize, Walks, Addresses, HEAP_START_ADDR
<1> QED
  BY <1>1, WalkStep

-----------------------------------------------------------------------------
(***************************************************************************)
(* Steps that change the heap.                                             *)
(***************************************************************************)

\* Tiled, and the types of the headers, of a heap f.
Tiles(f) ==
  /\ HEAP_START_ADDR \in DOMAIN f
  /\ \A a \in DOMAIN f : a + HEADER_SIZE + f[a].size \in DOMAIN f \cup {HeapEnd}
  /\ \A a, b \in DOMAIN f : a < b => a + HEADER_SIZE + f[a].size <= b

Typed(f) == DOMAIN f \subseteq Addresses /\ \A a \in DOMAIN f : f[a] \in BlockHeader

LEMMA TilesTyped ==
  /\ Tiled <=> Tiles(heap)
  /\ HeapTypeOK <=> Typed(heap) /\ walk \in Walks /\ held \subseteq HeldBlock
  BY DEF Tiled, Tiles, End, HeapEnd, HeapTypeOK, Typed

\* A block changes but keeps its size.
LEMMA SameSize ==
  ASSUME HeapInv, NEW a \in DOMAIN heap, NEW h \in BlockHeader, h.size = heap[a].size
  PROVE  LET f == [heap EXCEPT ![a] = h] IN Tiles(f) /\ Typed(f)
<1> DEFINE f == [heap EXCEPT ![a] = h]
<1>1. DOMAIN f = DOMAIN heap /\ f[a] = h /\ \A b \in DOMAIN heap \ {a} : f[b] = heap[b]
  OBVIOUS
<1>2. \A b \in DOMAIN heap : f[b].size = heap[b].size
  BY <1>1
<1>3. Tiles(heap) /\ Typed(heap)
  BY TilesTyped DEF HeapInv
<1>4. Tiles(f)
  BY <1>1, <1>2, <1>3 DEF Tiles
<1>5. Typed(f)
  BY <1>1, <1>3 DEF Typed
<1> HIDE DEF f
<1> QED
  BY <1>4, <1>5 DEF f

\* The sum of malloc does not wrap.
LEMMA SplitsPlain ==
  ASSUME HeapInv, NEW a, Splits(a)
  PROVE  heap[a].size > walk.size + HEADER_SIZE + MIN_SPLIT
<1>1. ASSUME NEW x \in Nat, NEW m \in Nat, x < m PROVE x % m = x
  BY <1>1
<1>2. /\ walk.size + HEADER_SIZE + MIN_SPLIT \in Nat
      /\ walk.size + HEADER_SIZE + MIN_SPLIT < SIZE_MOD
  BY HeapConstantsOK DEF HeapInv, HeapTypeOK, Walks
<1> QED
  BY <1>1, <1>2, HeapConstantsOK DEF Splits

\* What malloc makes of the block it gives out and of its rest.
LEMMA PlacedOK ==
  ASSUME HeapInv, walk.op = "malloc", AtHeader, Fits(walk.curr)
  PROVE  LET a == walk.curr
             f == Placed(a)
         IN  /\ Tiles(f) /\ Typed(f)
             /\ a \in DOMAIN f /\ ~ f[a].free /\ f[a].size >= walk.size
             /\ f[a].owner = walk.owner
             /\ \A b \in DOMAIN heap \ {a} : b \in DOMAIN f /\ f[b] = heap[b]
             /\ \A b \in DOMAIN f \ DOMAIN heap : f[b].free
<1> DEFINE a == walk.curr
           n == walk.size
           rest == a + HEADER_SIZE + n
           f == Placed(a)
<1>1. /\ a \in DOMAIN heap /\ heap[a].free /\ heap[a].size >= n
      /\ n \in 0 .. MaxSize /\ walk.owner \in Owners
  BY DEF AtHeader, Fits, HeapInv, HeapTypeOK, Walks
<1>2. /\ a \in Nat /\ heap[a].size \in Nat /\ HEADER_SIZE \in Nat \ {0}
      /\ End(a) \in Addresses /\ a + HEADER_SIZE <= End(a) /\ a < HeapEnd
  BY <1>1, BlockPlace
<1>3. heap[a].size \in 0 .. HEAP_TOTAL_SIZE
  BY <1>1 DEF HeapInv, HeapTypeOK, BlockHeader
<1>4. Tiles(heap) /\ Typed(heap)
  BY TilesTyped DEF HeapInv
<1>5. CASE ~ Splits(a)
  <2> DEFINE h == Header(heap[a].size, FALSE, walk.owner)
  <2>1. f = [heap EXCEPT ![a] = h]
    BY <1>5 DEF Placed
  <2>2. h \in BlockHeader /\ h.size = heap[a].size /\ ~ h.free /\ h.owner = walk.owner
    BY <1>1, <1>3, HeaderFields
  <2>3. Tiles(f) /\ Typed(f)
    BY <1>1, <2>1, <2>2, SameSize
  <2>4. DOMAIN f = DOMAIN heap /\ f[a] = h /\ \A b \in DOMAIN heap \ {a} : f[b] = heap[b]
    BY <1>1, <2>1
  <2> HIDE DEF h, f
  <2> QED
    BY <1>1, <2>2, <2>3, <2>4 DEF f
<1>6. CASE Splits(a)
  <2> DEFINE h == Header(n, FALSE, walk.owner)
             m == heap[a].size - n - HEADER_SIZE
             r == Header(m, TRUE, 0)
             w == Written(rest, r)
  <2>1. heap[a].size > n + HEADER_SIZE + MIN_SPLIT /\ MIN_SPLIT \in Nat
    BY <1>6, SplitsPlain, HeapConstantsOK
  <2>2. /\ m \in 0 .. HEAP_TOTAL_SIZE /\ n \in 0 .. HEAP_TOTAL_SIZE
        /\ rest \in Nat /\ a < rest /\ rest + HEADER_SIZE <= End(a)
        /\ rest + HEADER_SIZE + m = End(a)
    BY <1>1, <1>2, <1>3, <2>1, HeapConstantsOK DEF End
  <2>3. /\ h \in BlockHeader /\ h.size = n /\ ~ h.free /\ h.owner = walk.owner
        /\ r \in BlockHeader /\ r.size = m /\ r.free
    BY <1>1, <2>2, HeaderFields, HeapConstantsOK
  <2>4. ASSUME NEW c \in DOMAIN heap
        PROVE  c # rest /\ (c + HEADER_SIZE <= rest \/ rest + HEADER_SIZE <= c)
    <3>1. c \in Nat
      BY BlockPlace
    <3>2. c <= a \/ End(a) <= c
      BY <1>1, <1>2, <3>1 DEF HeapInv, Tiled
    <3> QED
      BY <1>1, <1>2, <2>2, <3>1, <3>2 DEF End
  <2>5. w = [b \in DOMAIN heap \cup {rest} |-> IF b = rest THEN r ELSE heap[b]]
    BY <2>4 DEF Written
  <2>6. f = [w EXCEPT ![a] = h]
    BY <1>6 DEF Placed
  <2>7. /\ DOMAIN f = DOMAIN heap \cup {rest}
        /\ f[a] = h /\ f[rest] = r
        /\ \A b \in DOMAIN heap \ {a} : f[b] = heap[b]
    <3> HIDE DEF h, r, w, f, rest
    <3> QED
      BY <1>1, <2>2, <2>4, <2>5, <2>6
  <2> HIDE DEF h, r, w, f, rest, m
  <2>8. rest \in Addresses
    BY <1>2, <2>2, HeapConstantsOK DEF Addresses, HEAP_START_ADDR
  <2>9. Typed(f)
    BY <1>1, <1>4, <2>3, <2>7, <2>8 DEF Typed
  <2>10. Tiles(f)
    <3>1. a + HEADER_SIZE + f[a].size = rest
      BY <2>3, <2>7 DEF rest
    <3>2. rest + HEADER_SIZE + f[rest].size = End(a)
      BY <2>2, <2>3, <2>7
    <3>3. End(a) \in DOMAIN heap \cup {HeapEnd}
      BY <1>1 DEF HeapInv, Tiled, HeapEnd
    <3>4. \A b \in DOMAIN f : b + HEADER_SIZE + f[b].size \in DOMAIN f \cup {HeapEnd}
      BY <1>4, <2>7, <3>1, <3>2, <3>3 DEF Tiles
    <3>5. ASSUME NEW b \in DOMAIN f, NEW c \in DOMAIN f, b < c
          PROVE  b + HEADER_SIZE + f[b].size <= c
      <4>1. \A x \in DOMAIN heap : x \in Nat
        BY BlockPlace
      <4>2. CASE b = a
        <5>1. c = rest \/ (c \in DOMAIN heap /\ End(a) <= c)
          BY <1>1, <2>7, <3>5, <4>2 DEF HeapInv, Tiled
        <5> QED
          BY <1>2, <2>2, <3>1, <4>1, <4>2, <5>1
      <4>3. CASE b = rest
        <5>1. c \in DOMAIN heap /\ a < c
          BY <1>2, <2>2, <2>7, <3>5, <4>1, <4>3
        <5>2. End(a) <= c
          BY <1>1, <5>1 DEF HeapInv, Tiled
        <5> QED
          BY <3>2, <4>3, <5>2
      <4>4. CASE b \in DOMAIN heap \ {a} /\ c \in DOMAIN heap
        BY <1>4, <2>7, <3>5, <4>4 DEF Tiles
      <4>5. CASE b \in DOMAIN heap \ {a} /\ c = rest
        <5>1. b < a
          <6>1. ASSUME a < b PROVE FALSE
            <7>1. End(a) <= b
              BY <1>1, <4>5, <6>1 DEF HeapInv, Tiled
            <7> QED
              BY <1>2, <2>2, <3>5, <4>1, <4>5, <7>1
          <6> QED
            BY <1>2, <4>1, <4>5, <6>1
        <5>2. End(b) <= a
          BY <1>1, <4>5, <5>1 DEF HeapInv, Tiled
        <5>3. f[b] = heap[b] /\ heap[b].size \in Nat
          BY <2>7, <4>5, BlockPlace
        <5> QED
          BY <1>2, <2>2, <4>1, <4>5, <5>2, <5>3 DEF End
      <4> QED
        BY <2>7, <4>2, <4>3, <4>4, <4>5
    <3> QED
      BY <1>4, <2>7, <3>4, <3>5 DEF Tiles
  <2>11. f[a].size >= n
    BY <1>1, <2>3, <2>7, HeapConstantsOK
  <2> QED
    BY <1>1, <2>3, <2>7, <2>9, <2>10, <2>11 DEF f
<1> QED
  BY <1>5, <1>6

LEMMA MallocFitsOK == HeapInv /\ MallocFits => HeapInv'
<1> SUFFICES ASSUME HeapInv, MallocFits PROVE HeapInv'
  OBVIOUS
<1> DEFINE a == walk.curr
           f == Placed(a)
           new == [addr |-> a + HEADER_SIZE, size |-> walk.size, owner |-> walk.owner]
<1>1. /\ walk.op = "malloc" /\ AtHeader /\ Fits(a)
      /\ heap' = f /\ held' = held \cup {new} /\ walk' = NoWalk
  BY DEF MallocFits, Returns
<1>2. /\ Tiles(f) /\ Typed(f)
      /\ a \in DOMAIN f /\ ~ f[a].free /\ f[a].size >= walk.size
      /\ f[a].owner = walk.owner
      /\ \A b \in DOMAIN heap \ {a} : b \in DOMAIN f /\ f[b] = heap[b]
      /\ \A b \in DOMAIN f \ DOMAIN heap : f[b].free
  BY <1>1, PlacedOK
<1> HIDE DEF f
<1>3. /\ a \in DOMAIN heap /\ heap[a].free /\ a \in Nat
      /\ a + HEADER_SIZE \in Addresses /\ HEADER_SIZE \in Nat
  <2>1. a \in DOMAIN heap /\ heap[a].free
    BY <1>1 DEF AtHeader, Fits
  <2>2. End(a) \in Addresses /\ a + HEADER_SIZE <= End(a) /\ a \in Nat
    BY <2>1, BlockPlace
  <2> QED
    BY <2>1, <2>2, HeapConstantsOK DEF Addresses, HEAP_START_ADDR
<1>4. new \in HeldBlock /\ new.addr = a + HEADER_SIZE /\ new.size = walk.size
      /\ new.owner = walk.owner /\ new.addr - HEADER_SIZE = a
  BY <1>1, <1>3 DEF HeldBlock, HeapInv, HeapTypeOK, Walks, MallocSize
<1>5. ASSUME NEW b \in held
      PROVE  b.addr \in Nat /\ b.addr - HEADER_SIZE \in DOMAIN heap \ {a}
  <2>1. b.addr - HEADER_SIZE \in DOMAIN heap /\ ~ heap[b.addr - HEADER_SIZE].free
    BY DEF HeapInv, HeldIntact
  <2>2. b.addr \in Nat
    BY HeapConstantsOK DEF HeapInv, HeapTypeOK, HeldBlock, Addresses, HEAP_START_ADDR
  <2> QED
    BY <1>3, <2>1, <2>2
<1> HIDE DEF new
<1>6. WalkOK'
  BY <1>1, HeapConstantsOK
  DEF WalkOK, WalkOnHeader, NoCall, NoWalk, TotalBehind, MallocSize, Walks, Addresses, HEAP_START_ADDR
<1>7. HeapTypeOK' /\ Tiled'
  <2>1. held' \subseteq HeldBlock
    BY <1>1, <1>4 DEF HeapInv, HeapTypeOK
  <2>2. walk' \in Walks
    BY <1>6 DEF WalkOK
  <2> QED
    BY <1>1, <1>2, <2>1, <2>2 DEF HeapTypeOK, Typed, Tiled, Tiles, End, HeapEnd
<1>8. HeldIntact'
  <2>1. ASSUME NEW b \in held
        PROVE  /\ b.addr - HEADER_SIZE \in DOMAIN f
               /\ f[b.addr - HEADER_SIZE] = heap[b.addr - HEADER_SIZE]
    BY <1>2, <1>5
  <2> QED
    BY <1>1, <1>2, <1>4, <2>1 DEF HeldIntact, HeapInv
<1>9. OnlyFirstLeaks'
  <2> SUFFICES ASSUME NEW x \in DOMAIN f \ {HEAP_START_ADDR}, ~ f[x].free
               PROVE  \E b \in held \cup {new} : b.addr = x + HEADER_SIZE
    BY <1>1 DEF OnlyFirstLeaks
  <2>1. CASE x = a
    BY <1>4, <2>1
  <2>2. CASE x # a
    <3>1. x \in DOMAIN heap /\ ~ heap[x].free
      BY <1>2, <2>2
    <3> QED
      BY <3>1 DEF HeapInv, OnlyFirstLeaks
  <2> QED
    BY <2>1, <2>2
<1>10. HeldOnce'
  BY <1>1, <1>4, <1>5 DEF HeapInv, HeldOnce
<1> QED
  BY <1>6, <1>7, <1>8, <1>9, <1>10 DEF HeapInv, WalkOK

LEMMA FreeOK ==
  ASSUME HeapInv, NEW b \in held, free(b)
  PROVE  HeapInv'
<1> DEFINE x == b.addr - HEADER_SIZE
           h == Header(heap[x].size, TRUE, 0)
<1>1. /\ x \in DOMAIN heap /\ b.addr \in Nat /\ HEADER_SIZE \in Nat \ {0} /\ 0 \in Owners
      /\ ~ heap[x].free
  BY HeapConstantsOK DEF HeapInv, HeldIntact, HeapTypeOK, HeldBlock, Addresses, HEAP_START_ADDR
<1>2. NoCall /\ walk' = walk /\ held' = held \ {b}
  BY DEF free
<1>3. \A c \in held \ {b} : c.addr \in Nat /\ c.addr # b.addr
  BY DEF HeapInv, HeldOnce, HeapTypeOK, HeldBlock, Addresses, HEAP_START_ADDR
<1>4. WalkOK'
  BY <1>2 DEF HeapInv, HeapTypeOK, WalkOK, WalkOnHeader, NoCall, TotalBehind, MallocSize
<1>5. CASE ~ Freeable(b.addr)
  <2>1. heap' = heap
    BY <1>5 DEF free
  <2>2. x = HEAP_START_ADDR
    BY <1>1, <1>5, BlockPlace DEF Freeable, HEAP_START_ADDR
  <2>3. HeapTypeOK' /\ Tiled'
    BY <1>2, <1>4, <2>1 DEF HeapInv, HeapTypeOK, WalkOK, Tiled, End
  <2>4. HeldIntact' /\ HeldOnce'
    BY <1>2, <2>1 DEF HeapInv, HeldIntact, HeldOnce
  <2>5. OnlyFirstLeaks'
    <3> SUFFICES ASSUME NEW y \in DOMAIN heap \ {HEAP_START_ADDR}, ~ heap[y].free
                 PROVE  \E c \in held \ {b} : c.addr = y + HEADER_SIZE
      BY <1>2, <2>1 DEF OnlyFirstLeaks
    <3>1. PICK c \in held : c.addr = y + HEADER_SIZE
      BY DEF HeapInv, OnlyFirstLeaks
    <3>2. y \in Nat
      BY BlockPlace
    <3> QED
      BY <1>1, <2>2, <3>1, <3>2
  <2> QED
    BY <1>4, <2>3, <2>4, <2>5 DEF HeapInv, WalkOK
<1>6. CASE Freeable(b.addr)
  <2>1. heap' = [heap EXCEPT ![x] = h]
    BY <1>6 DEF free
  <2>2. heap[x].size \in 0 .. HEAP_TOTAL_SIZE
    BY <1>1 DEF HeapInv, HeapTypeOK, BlockHeader
  <2>3. h \in BlockHeader /\ h.size = heap[x].size /\ h.free
    BY <1>1, <2>2, HeaderFields
  <2>4. Tiles(heap') /\ Typed(heap')
    BY <1>1, <2>1, <2>3, SameSize
  <2>5. /\ DOMAIN heap' = DOMAIN heap /\ heap'[x].free
        /\ \A y \in DOMAIN heap \ {x} : heap'[y] = heap[y]
    BY <1>1, <2>1, <2>3
  <2>6. HeapTypeOK' /\ Tiled'
    BY <1>2, <1>4, <2>4 DEF HeapInv, HeapTypeOK, Typed, WalkOK, Tiled, Tiles, End, HeapEnd
  <2>7. HeldIntact' /\ HeldOnce'
    <3>1. \A c \in held \ {b} : c.addr - HEADER_SIZE # x
      BY <1>1, <1>3
    <3> QED
      BY <1>2, <2>5, <3>1 DEF HeapInv, HeldIntact, HeldOnce
  <2>8. OnlyFirstLeaks'
    <3> SUFFICES ASSUME NEW y \in DOMAIN heap \ {HEAP_START_ADDR}, ~ heap'[y].free
                 PROVE  \E c \in held \ {b} : c.addr = y + HEADER_SIZE
      BY <1>2, <2>5 DEF OnlyFirstLeaks
    <3>1. y # x /\ ~ heap[y].free /\ y \in Nat
      BY <2>5, BlockPlace
    <3>2. PICK c \in held : c.addr = y + HEADER_SIZE
      BY <3>1 DEF HeapInv, OnlyFirstLeaks
    <3> QED
      BY <1>1, <3>1, <3>2
  <2> QED
    BY <1>4, <2>6, <2>7, <2>8 DEF HeapInv, WalkOK
<1> QED
  BY <1>5, <1>6

\* The heap once defrag has merged a block with the one behind it.
LEMMA MergedOK ==
  ASSUME HeapInv, AtHeader, Mergeable(walk.curr), DefragMerges
  PROVE  LET a == walk.curr
             next == End(a)
         IN  /\ Tiles(heap') /\ Typed(heap')
             /\ next \in DOMAIN heap /\ a < next /\ a \in DOMAIN heap
             /\ DOMAIN heap' = DOMAIN heap \ {next}
             /\ heap[a].free /\ heap[next].free /\ heap'[a].free
             /\ \A b \in DOMAIN heap \ {a, next} : heap'[b] = heap[b]
<1> DEFINE a == walk.curr
           next == End(a)
           h == [heap[a] EXCEPT !.size = @ + HEADER_SIZE + heap[next].size]
<1>1. /\ a \in DOMAIN heap /\ next \in DOMAIN heap
      /\ heap[a].free /\ heap[next].free
  BY DEF AtHeader, Mergeable
<1>2. /\ a \in Nat /\ next \in Nat /\ HEADER_SIZE \in Nat \ {0} /\ a < next
      /\ heap[a].size \in Nat /\ heap[next].size \in Nat
      /\ next < End(next) /\ End(next) \in Addresses
  BY <1>1, BlockPlace
<1>3. heap' = [b \in DOMAIN heap \ {next} |-> IF b = a THEN h ELSE heap[b]]
  BY DEF DefragMerges
<1>4. heap[a] \in BlockHeader /\ Tiles(heap) /\ Typed(heap)
  BY <1>1, TilesTyped DEF HeapInv, HeapTypeOK
<1>5. h.size = heap[a].size + HEADER_SIZE + heap[next].size
  BY <1>4 DEF BlockHeader
<1>6. a + HEADER_SIZE + h.size = End(next)
  BY <1>2, <1>5 DEF End
<1>7. h \in BlockHeader /\ h.free = heap[a].free
  <2>1. h.size \in 0 .. HEAP_TOTAL_SIZE
    BY <1>2, <1>5, <1>6, HeapConstantsOK DEF Addresses, HEAP_START_ADDR
  <2> QED
    BY <1>4, <1>5, <2>1 DEF BlockHeader
<1> HIDE DEF h
<1>8. /\ DOMAIN heap' = DOMAIN heap \ {next} /\ heap'[a] = h
      /\ \A b \in DOMAIN heap \ {a, next} : heap'[b] = heap[b]
  BY <1>1, <1>2, <1>3
<1>9. \A b \in DOMAIN heap : b \in Nat /\ b < End(b)
  BY BlockPlace
<1>10. ASSUME NEW b \in DOMAIN heap, NEW c \in DOMAIN heap, b < c PROVE End(b) <= c
  BY <1>10 DEF HeapInv, Tiled
<1>11. \A b \in DOMAIN heap : End(b) \in DOMAIN heap \cup {HeapEnd}
  BY DEF HeapInv, Tiled, HeapEnd
<1>12. Typed(heap')
  BY <1>4, <1>7, <1>8 DEF Typed
<1>13. HEAP_START_ADDR \in DOMAIN heap'
  BY <1>2, <1>4, <1>8 DEF Tiles, HEAP_START_ADDR
<1>14. ASSUME NEW b \in DOMAIN heap'
       PROVE  b + HEADER_SIZE + heap'[b].size \in DOMAIN heap' \cup {HeapEnd}
  <2>1. CASE b = a
    <3>1. b + HEADER_SIZE + heap'[b].size = End(next)
      BY <1>6, <1>8, <2>1
    <3>2. End(next) \in DOMAIN heap \cup {HeapEnd} /\ End(next) # next
      BY <1>1, <1>9, <1>11
    <3> QED
      BY <1>8, <3>1, <3>2
  <2>2. CASE b # a
    <3>1. b \in DOMAIN heap /\ b # next /\ b + HEADER_SIZE + heap'[b].size = End(b)
      BY <1>8, <2>2 DEF End
    <3>2. End(b) # next
      <4>1. CASE b < a
        <5>1. End(b) <= a
          BY <1>1, <1>10, <3>1, <4>1
        <5> QED
          BY <1>2, <5>1, <3>1, <1>9
      <4>2. CASE a < b
        <5>1. next <= b
          BY <1>1, <1>10, <3>1, <4>2
        <5> QED
          BY <1>2, <1>9, <3>1, <5>1
      <4> QED
        BY <1>2, <1>9, <2>2, <3>1, <4>1, <4>2
    <3> QED
      BY <1>8, <1>11, <3>1, <3>2
  <2> QED
    BY <2>1, <2>2
<1>15. ASSUME NEW b \in DOMAIN heap', NEW c \in DOMAIN heap', b < c
       PROVE  b + HEADER_SIZE + heap'[b].size <= c
  <2>1. b \in DOMAIN heap /\ c \in DOMAIN heap /\ c # next
    BY <1>8
  <2>2. CASE b = a
    <3>1. next <= c
      BY <1>1, <1>10, <1>15, <2>1, <2>2
    <3>2. next < c
      BY <1>2, <1>9, <2>1, <3>1
    <3>3. End(next) <= c
      BY <1>1, <1>10, <2>1, <3>2
    <3> QED
      BY <1>6, <1>8, <2>2, <3>3
  <2>3. CASE b # a
    BY <1>8, <1>10, <1>15, <2>1, <2>3 DEF End
  <2> QED
    BY <2>2, <2>3
<1>16. Tiles(heap')
  BY <1>13, <1>14, <1>15 DEF Tiles
<1> QED
  BY <1>1, <1>2, <1>7, <1>8, <1>12, <1>16

LEMMA DefragMergesOK == HeapInv /\ DefragMerges => HeapInv'
<1> SUFFICES ASSUME HeapInv, DefragMerges PROVE HeapInv'
  OBVIOUS
<1> DEFINE a == walk.curr
           next == End(a)
<1>1. AtHeader /\ Mergeable(a) /\ walk' = walk /\ held' = held
  BY DEF DefragMerges
<1>2. /\ Tiles(heap') /\ Typed(heap')
      /\ next \in DOMAIN heap /\ a < next /\ a \in DOMAIN heap
      /\ DOMAIN heap' = DOMAIN heap \ {next}
      /\ heap[a].free /\ heap[next].free /\ heap'[a].free
      /\ \A b \in DOMAIN heap \ {a, next} : heap'[b] = heap[b]
  BY <1>1, MergedOK
<1> HIDE DEF next
<1>3. HeapTypeOK' /\ Tiled'
  BY <1>1, <1>2 DEF HeapInv, HeapTypeOK, Typed, Tiled, Tiles, End, HeapEnd
<1>4. WalkOnHeader' /\ TotalBehind' /\ MallocSize'
  <2>1. a < HeapEnd /\ a \in DOMAIN heap'
    BY <1>2, BlockPlace
  <2> QED
    BY <1>1, <2>1 DEF HeapInv, WalkOnHeader, AtHeader, HeapEnd, TotalBehind, MallocSize
<1>5. HeldIntact' /\ HeldOnce'
  BY <1>1, <1>2 DEF HeapInv, HeldIntact, HeldOnce
<1>6. OnlyFirstLeaks'
  BY <1>1, <1>2 DEF HeapInv, OnlyFirstLeaks
<1> QED
  BY <1>3, <1>4, <1>5, <1>6 DEF HeapInv

LEMMA MallocOK ==
  ASSUME HeapInv, NEW size \in 0 .. MaxSize, NEW owner \in Owners, malloc(size, owner)
  PROVE  HeapInv'
<1>1. CASE size = 0
  <2>1. UNCHANGED <<heap, held, walk>>
    BY <1>1 DEF malloc
  <2>2. WalkOK'
    BY <2>1 DEF HeapInv, HeapTypeOK, WalkOK, WalkOnHeader, NoCall, AtHeader, TotalBehind, MallocSize
  <2> QED
    BY <2>1, <2>2, WalkStep
<1>2. CASE size # 0
  <2>1. Begin("malloc", size, owner) /\ size >= 1
    BY <1>2, HeapConstantsOK DEF malloc
  <2> QED
    BY <2>1, BeginOK
<1> QED
  BY <1>1, <1>2

\* A step that only moves the walk on.
LEMMA SkipOK ==
  ASSUME HeapInv, AtHeader, Advance, UNCHANGED <<heap, held>>
  PROVE  HeapInv'
<1>1. walk \in Walks
  BY DEF HeapInv, HeapTypeOK
<1>2. walk' = [walk EXCEPT !.curr = End(walk.curr), !.total = walk.total]
  BY <1>1 DEF Advance, Walks
<1>3. walk.total \in Nat /\ walk.total <= walk.total + heap[walk.curr].size
  BY <1>1, BlockPlace DEF Walks, AtHeader
<1> QED
  BY <1>2, <1>3, AdvanceOK

LEMMA HeapInvNext == HeapInv /\ [HeapNext]_heapVars => HeapInv'
<1> SUFFICES ASSUME HeapInv, [HeapNext]_heapVars PROVE HeapInv'
  OBVIOUS
<1>1. CASE HeapCall
  <2>1. ASSUME NEW size \in 0 .. MaxSize, NEW owner \in Owners, malloc(size, owner)
        PROVE  HeapInv'
    BY <2>1, MallocOK
  <2>2. ASSUME NEW b \in held, free(b) PROVE HeapInv'
    BY <2>2, FreeOK
  <2>3. CASE defrag \/ getFree
    <3>1. 0 \in Owners /\ 0 \in 0 .. MaxSize
      BY HeapConstantsOK
    <3>2. Begin("defrag", 0, 0) \/ Begin("getFree", 0, 0)
      BY <2>3 DEF defrag, getFree
    <3> QED
      BY <3>1, <3>2, BeginOK
  <2> QED
    BY <1>1, <2>1, <2>2, <2>3 DEF HeapCall
<1>2. CASE MallocFits \/ DefragMerges
  BY <1>2, MallocFitsOK, DefragMergesOK
<1>3. CASE MallocSkips \/ DefragSkips
  BY <1>3, SkipOK DEF MallocSkips, DefragSkips
<1>4. CASE MallocFails \/ DefragReturns \/ GetFreeReturns
  BY <1>4, ReturnOK DEF MallocFails, DefragReturns, GetFreeReturns, Returns
<1>5. CASE GetFreeAdds
  <2> DEFINE a == walk.curr
             total == IF heap[a].free THEN walk.total + heap[a].size ELSE walk.total
  <2>1. AtHeader /\ UNCHANGED <<heap, held>>
    BY <1>5 DEF GetFreeAdds
  <2>2. heap[a].size \in Nat /\ walk.total \in Nat
    BY <2>1, BlockPlace DEF AtHeader, HeapInv, HeapTypeOK, Walks
  <2>3. walk' = [walk EXCEPT !.curr = End(a), !.total = total]
    BY <1>5 DEF GetFreeAdds
  <2>4. total \in Nat /\ total <= walk.total + heap[a].size
    BY <2>2
  <2> HIDE DEF total
  <2> QED
    BY <2>1, <2>3, <2>4, AdvanceOK
<1>6. CASE UNCHANGED heapVars
  <2>1. UNCHANGED <<heap, held, walk>>
    BY <1>6 DEF heapVars
  <2>2. WalkOK'
    BY <2>1 DEF HeapInv, HeapTypeOK, WalkOK, WalkOnHeader, NoCall, AtHeader, TotalBehind, MallocSize
  <2> QED
    BY <2>1, <2>2, WalkStep
<1> QED
  BY <1>1, <1>2, <1>3, <1>4, <1>5, <1>6 DEF HeapNext, HeapStep

\* The headers, the walk and the blocks held keep their types: no size is ever
\* computed below 0 or beyond the heap (ExtSRAMHeap.cpp:42-56, 91-99).
THEOREM HeapTypeCorrect == HeapSpec => []HeapTypeOK
<1>1. HeapInv => HeapTypeOK
  BY DEF HeapInv
<1> QED
  BY <1>1, HeapInvInit, HeapInvNext, PTL DEF HeapSpec

\* The blocks tile the heap at every moment of every sequence of calls, for every
\* size of heap and headers (ExtSRAMHeap.cpp:30-61, 83-103).
THEOREM TiledAlways == HeapSpec => []Tiled
<1>1. HeapInv => Tiled
  BY DEF HeapInv
<1> QED
  BY <1>1, HeapInvInit, HeapInvNext, PTL DEF HeapSpec

\* No walk ever reads a header where there is none: the checks of hdr.magic in
\* malloc, defrag and getFree never fail (ExtSRAMHeap.cpp:34, 87, 112).
THEOREM WalkOnHeaderAlways == HeapSpec => []WalkOnHeader
<1>1. HeapInv => WalkOnHeader
  BY DEF HeapInv
<1> QED
  BY <1>1, HeapInvInit, HeapInvNext, PTL DEF HeapSpec

\* A block in a caller's hands keeps its header, its size and its owner.
THEOREM HeldIntactAlways == HeapSpec => []HeldIntact
<1>1. HeapInv => HeldIntact
  BY DEF HeapInv
<1> QED
  BY <1>1, HeapInvInit, HeapInvNext, PTL DEF HeapSpec

\* Only the first block can be in use with nobody holding it (ExtSRAMHeap.cpp:65).
THEOREM OnlyFirstLeaksAlways == HeapSpec => []OnlyFirstLeaks
<1>1. HeapInv => OnlyFirstLeaks
  BY DEF HeapInv
<1> QED
  BY <1>1, HeapInvInit, HeapInvNext, PTL DEF HeapSpec

-----------------------------------------------------------------------------
(***************************************************************************)
(* What the walks have found out about the blocks behind them.             *)
(***************************************************************************)
Behind(a) == a \in DOMAIN heap /\ a < walk.curr

\* malloc has passed no block that fits.
NoneFits == walk.op = "malloc" => \A a : Behind(a) => ~ Fits(a)

\* defrag has left no pair of free blocks.
NoPair == walk.op = "defrag" => \A a : Behind(a) => ~ Mergeable(a)

\* The bytes of a block that getFree does not count, and those of the blocks in s.
Cost(a) == HEADER_SIZE + (IF heap[a].free THEN 0 ELSE heap[a].size)

Bytes(s) == {b \in 0 .. HEAP_TOTAL_SIZE : \E a \in s : a <= b /\ b < a + Cost(a)}

\* What getFree has added up is what the bytes of the others leave.
Counted ==
  walk.op = "getFree" =>
    walk.total + Cardinality(Bytes({a \in DOMAIN heap : Behind(a)})) = walk.curr

WalkInv == HeapInv /\ NoneFits /\ NoPair /\ Counted

LEMMA BytesCount ==
  ASSUME NEW s
  PROVE  IsFiniteSet(Bytes(s)) /\ Cardinality(Bytes(s)) \in Nat
<1>1. IsFiniteSet(0 .. HEAP_TOTAL_SIZE)
  BY HeapConstantsOK, FS_Interval
<1> QED
  BY <1>1, FS_Subset, FS_CardinalityType DEF Bytes

LEMMA CostOK ==
  ASSUME HeapInv, NEW a \in DOMAIN heap
  PROVE  Cost(a) \in Nat \ {0} /\ a \in Nat /\ a + Cost(a) <= End(a) /\ End(a) <= HEAP_TOTAL_SIZE
  BY BlockPlace, HeapConstantsOK DEF Cost, End, Addresses, HEAP_START_ADDR

\* Two blocks share no byte.
LEMMA BytesSplit ==
  ASSUME HeapInv, NEW s \in SUBSET (DOMAIN heap), NEW x \in s
  PROVE  Cardinality(Bytes(s)) = Cost(x) + Cardinality(Bytes(s \ {x}))
<1>1. \A a \in s : /\ Cost(a) \in Nat \ {0} /\ a \in Nat /\ a + Cost(a) <= End(a)
                   /\ End(a) \in Int /\ End(a) <= HEAP_TOTAL_SIZE
  BY CostOK, BlockPlace, HeapConstantsOK DEF Addresses, HEAP_START_ADDR
<1>2. Bytes({x}) = x .. x + Cost(x) - 1
  BY <1>1, HeapConstantsOK DEF Bytes
<1>3. Cardinality(Bytes({x})) = Cost(x)
  <2> DEFINE last == x + Cost(x) - 1
  <2>1. x \in Int /\ last \in Int /\ ~ (x > last) /\ last - x + 1 = Cost(x)
    BY <1>1
  <2> HIDE DEF last
  <2>2. Cardinality(x .. last) = Cost(x)
    BY <2>1, FS_Interval
  <2> QED
    BY <1>2, <2>2 DEF last
<1>4. Bytes(s) = Bytes({x}) \cup Bytes(s \ {x})
  BY DEF Bytes
<1>5. Bytes({x}) \cap Bytes(s \ {x}) = {}
  <2> SUFFICES ASSUME NEW b \in 0 .. HEAP_TOTAL_SIZE, NEW a \in s \ {x},
                      x <= b, b < x + Cost(x), a <= b, b < a + Cost(a)
               PROVE  FALSE
    BY DEF Bytes
  <2>1. a < x => End(a) <= x
    BY DEF HeapInv, Tiled
  <2>2. x < a => End(x) <= a
    BY DEF HeapInv, Tiled
  <2> QED
    BY <1>1, <2>1, <2>2
<1>6. Cardinality(Bytes({x}) \cup Bytes(s \ {x})) =
        Cardinality(Bytes({x})) + Cardinality(Bytes(s \ {x}))
          - Cardinality(Bytes({x}) \cap Bytes(s \ {x}))
  BY BytesCount, FS_Union
<1>7. Cardinality(Bytes({x}) \cap Bytes(s \ {x})) = 0
  BY <1>5, FS_EmptySet
<1> QED
  BY <1>1, <1>3, <1>4, <1>6, <1>7, BytesCount

Pick(s) == CHOOSE x \in s : TRUE

\* The sum over the headers is the number of those bytes.
LEMMA SumOfCosts ==
  ASSUME HeapInv
  PROVE  MapThenSumSet(LAMBDA a : HEADER_SIZE + (IF heap[a].free THEN 0 ELSE heap[a].size),
                       DOMAIN heap)
           = Cardinality(Bytes(DOMAIN heap))
<1> DEFINE D == DOMAIN heap
           After(c, s) == IF s = {} THEN 0 ELSE Cost(Pick(s)) + c[s \ {Pick(s)}]
           Sum(c) == c = [s \in SUBSET D |-> After(c, s)]
           g == [s \in SUBSET D |-> Cardinality(Bytes(s))]
           c == CHOOSE c : Sum(c)
<1>1. MapThenSumSet(LAMBDA a : HEADER_SIZE + (IF heap[a].free THEN 0 ELSE heap[a].size), D)
        = c[D]
  BY DEF MapThenSumSet, MapThenFoldSet, Pick, Cost
<1>2. \A s : s # {} => Pick(s) \in s
  BY DEF Pick
<1>3. ASSUME NEW s \in SUBSET D PROVE g[s] = After(g, s)
  <2>1. CASE s = {}
    <3>1. Bytes(s) = {}
      BY <2>1 DEF Bytes
    <3> QED
      BY <2>1, <3>1, FS_EmptySet
  <2>2. CASE s # {}
    <3>1. Pick(s) \in s /\ s \ {Pick(s)} \in SUBSET D
      BY <1>2, <2>2
    <3>2. Cardinality(Bytes(s)) = Cost(Pick(s)) + Cardinality(Bytes(s \ {Pick(s)}))
      BY <3>1, BytesSplit
    <3> QED
      BY <2>2, <3>1, <3>2
  <2> QED
    BY <2>1, <2>2
<1>4. Sum(g)
  BY <1>3
<1>5. Sum(c)
  <2> HIDE DEF Sum, g
  <2> QED
    BY <1>4
<1>6. \A s \in SUBSET D : c[s] = After(c, s)
  <2> HIDE DEF c, After
  <2> QED
    BY <1>5
<1>7. IsFiniteSet(D)
  <2>1. D \subseteq 0 .. HEAP_TOTAL_SIZE
    BY HeapConstantsOK DEF HeapInv, HeapTypeOK, Addresses, HEAP_START_ADDR
  <2>2. IsFiniteSet(0 .. HEAP_TOTAL_SIZE)
    BY HeapConstantsOK, FS_Interval
  <2> QED
    BY <2>1, <2>2, FS_Subset
<1> DEFINE Wrong == {s \in SUBSET D : c[s] # g[s]}
<1> HIDE DEF c, g, D
<1>8. Wrong = {}
  <2> SUFFICES ASSUME Wrong # {} PROVE FALSE
    OBVIOUS
  <2>1. IsWellFoundedOn(StrictSubsetOrdering(D), SUBSET D)
    BY <1>7, FS_StrictSubsetOrderingWellFounded, FS_FiniteSubsetsOfFinite
  <2>2. Wrong \subseteq SUBSET D
    OBVIOUS
  <2>3. PICK s \in Wrong : \A r \in Wrong : ~ (<<r, s>> \in StrictSubsetOrdering(D))
    <3> HIDE DEF Wrong
    <3> QED
      BY <2>1, <2>2, WFMin
  <2>4. s \in SUBSET D /\ c[s] # g[s]
    OBVIOUS
  <2>5. s # {} /\ c[s \ {Pick(s)}] # g[s \ {Pick(s)}]
    BY <1>3, <1>6, <2>4
  <2>6. Pick(s) \in s /\ s \ {Pick(s)} \in Wrong
    BY <1>2, <2>4, <2>5
  <2>7. <<s \ {Pick(s)}, s>> \in StrictSubsetOrdering(D)
    BY <2>4, <2>6 DEF StrictSubsetOrdering
  <2> QED
    BY <2>3, <2>6, <2>7
<1>9. c[D] = g[D]
  BY <1>8
<1> QED
  BY <1>1, <1>9 DEF g, D

\* A walk that goes on leaves the block it was at behind.
LEMMA Passes ==
  ASSUME HeapInv, AtHeader, heap' = heap, walk'.curr = End(walk.curr)
  PROVE  \A a : Behind(a)' <=> Behind(a) \/ a = walk.curr
<1> DEFINE c == walk.curr
<1>1. c \in DOMAIN heap /\ \A a \in DOMAIN heap : a \in Nat /\ a < End(a) /\ End(a) \in Nat
  BY BlockPlace, HeapConstantsOK DEF AtHeader, Addresses, HEAP_START_ADDR
<1>2. \A a \in DOMAIN heap : c < a => End(c) <= a
  BY <1>1 DEF HeapInv, Tiled
<1>3. \A a \in DOMAIN heap : a < End(c) <=> a < c \/ a = c
  BY <1>1, <1>2
<1> QED
  BY <1>1, <1>3 DEF Behind

\* A walk that has ended has everything behind it.
LEMMA AllBehind ==
  ASSUME HeapInv, ~ NoCall, ~ AtHeader
  PROVE  walk.curr = HEAP_TOTAL_SIZE /\ \A a \in DOMAIN heap : Behind(a)
<1>1. walk.curr = HEAP_START_ADDR + HEAP_TOTAL_SIZE
  BY DEF HeapInv, WalkOnHeader
<1> QED
  BY <1>1, BlockPlace, HeapConstantsOK DEF Behind, HEAP_START_ADDR, HeapEnd

LEMMA WalkInvInit == HeapInit => WalkInv
  BY HeapInvInit DEF HeapInit, NoWalk, WalkInv, NoneFits, NoPair, Counted

\* What was found out stays when nothing changes.
LEMMA FoundOutStays ==
  ASSUME WalkInv, UNCHANGED <<heap, walk>>
  PROVE  NoneFits' /\ NoPair' /\ Counted'
<1>1. Bytes({a \in DOMAIN heap : Behind(a)})' = Bytes({a \in DOMAIN heap : Behind(a)})
  BY DEF Bytes, Behind, Cost
<1> QED
  BY <1>1 DEF WalkInv, NoneFits, NoPair, Counted, Behind, Fits, Mergeable, End

LEMMA BeginFindsOut ==
  ASSUME HeapInv', NEW op, NEW size, NEW owner, Begin(op, size, owner)
  PROVE  NoneFits' /\ NoPair' /\ Counted'
<1>1. walk'.curr = HEAP_START_ADDR /\ walk'.total = 0
  BY DEF Begin
<1>2. \A a : ~ Behind(a)'
  BY <1>1, HeapConstantsOK DEF HeapInv, HeapTypeOK, Addresses, HEAP_START_ADDR, Behind
<1>3. Cardinality(Bytes({a \in DOMAIN heap : Behind(a)}))' = 0
  <2>1. {a \in DOMAIN heap : Behind(a)}' = {}
    BY <1>2
  <2>2. Bytes({})' = {}
    BY DEF Bytes
  <2> QED
    BY <2>1, <2>2, FS_EmptySet
<1> QED
  BY <1>1, <1>2, <1>3 DEF NoneFits, NoPair, Counted, HEAP_START_ADDR

LEMMA WalkInvNext == WalkInv /\ [HeapNext]_heapVars => WalkInv'
<1> SUFFICES ASSUME WalkInv, [HeapNext]_heapVars PROVE WalkInv'
  OBVIOUS
<1>1. HeapInv /\ HeapInv'
  BY HeapInvNext DEF WalkInv
<1>2. ASSUME walk' = NoWalk PROVE WalkInv'
  BY <1>1, <1>2 DEF WalkInv, NoneFits, NoPair, Counted, NoWalk
<1>3. ASSUME UNCHANGED <<heap, walk>> PROVE WalkInv'
  BY <1>1, <1>3, FoundOutStays DEF WalkInv
<1>4. ASSUME NEW op, NEW size, NEW owner, Begin(op, size, owner) PROVE WalkInv'
  BY <1>1, <1>4, BeginFindsOut DEF WalkInv
<1>5. CASE HeapCall
  <2>1. ASSUME NEW size, NEW owner, malloc(size, owner) PROVE WalkInv'
    BY <1>3, <1>4, <2>1 DEF malloc
  <2>2. ASSUME NEW b \in held, free(b) PROVE WalkInv'
    BY <1>1, <2>2 DEF free, NoCall, WalkInv, NoneFits, NoPair, Counted
  <2> QED
    BY <1>4, <1>5, <2>1, <2>2 DEF HeapCall, defrag, getFree
<1>6. CASE MallocFits \/ MallocFails \/ DefragReturns \/ GetFreeReturns
  BY <1>2, <1>6 DEF MallocFits, MallocFails, DefragReturns, GetFreeReturns, Returns
<1>7. CASE MallocSkips
  <2>1. /\ walk.op = "malloc" /\ AtHeader /\ ~ Fits(walk.curr) /\ heap' = heap
        /\ walk'.op = "malloc" /\ walk'.size = walk.size /\ walk'.curr = End(walk.curr)
    BY <1>1, <1>7 DEF MallocSkips, Advance, HeapInv, HeapTypeOK, Walks
  <2>2. \A a : Fits(a)' <=> Fits(a)
    BY <2>1 DEF Fits
  <2>3. NoneFits'
    BY <1>1, <2>1, <2>2, Passes DEF WalkInv, NoneFits
  <2> QED
    BY <1>1, <2>1, <2>3 DEF WalkInv, NoPair, Counted
<1>8. CASE DefragSkips
  <2>1. /\ walk.op = "defrag" /\ AtHeader /\ ~ Mergeable(walk.curr) /\ heap' = heap
        /\ walk'.op = "defrag" /\ walk'.curr = End(walk.curr)
    BY <1>1, <1>8 DEF DefragSkips, Advance, HeapInv, HeapTypeOK, Walks
  <2>2. \A a : Mergeable(a)' <=> Mergeable(a)
    BY <2>1 DEF Mergeable, End
  <2>3. NoPair'
    BY <1>1, <2>1, <2>2, Passes DEF WalkInv, NoPair
  <2> QED
    BY <1>1, <2>1, <2>3 DEF WalkInv, NoneFits, Counted
<1>9. CASE DefragMerges
  <2> DEFINE c == walk.curr
             next == End(c)
  <2>1. walk.op = "defrag" /\ AtHeader /\ Mergeable(c) /\ walk' = walk
    BY <1>9 DEF DefragMerges
  <2>2. /\ next \in DOMAIN heap /\ c < next /\ c \in DOMAIN heap
        /\ DOMAIN heap' = DOMAIN heap \ {next}
        /\ heap[c].free
        /\ \A b \in DOMAIN heap \ {c, next} : heap'[b] = heap[b]
    BY <1>1, <1>9, <2>1, MergedOK
  <2>3. ASSUME NEW a, Behind(a)' PROVE ~ Mergeable(a)'
    <3>1. a \in DOMAIN heap /\ a # next /\ a < c /\ a # c
      BY <2>1, <2>2, <2>3, BlockPlace, <1>1 DEF Behind
    <3>2. heap'[a] = heap[a] /\ End(a)' = End(a)
      BY <2>2, <3>1 DEF End
    <3>3. ~ Mergeable(a)
      BY <2>1, <3>1 DEF WalkInv, NoPair, Behind
    <3>4. End(a) <= c
      BY <1>1, <2>2, <3>1 DEF HeapInv, Tiled
    <3>5. End(a) # c \/ ~ heap[a].free
      BY <1>1, <2>2, <3>3, BlockPlace DEF Mergeable, HeapEnd
    <3>6. End(a) # c /\ End(a) \in DOMAIN heap' => heap'[End(a)] = heap[End(a)]
      BY <2>2
    <3> QED
      BY <2>2, <3>2, <3>3, <3>5, <3>6 DEF Mergeable
  <2> QED
    BY <1>1, <2>1, <2>3 DEF WalkInv, NoneFits, NoPair, Counted
<1>10. CASE GetFreeAdds
  <2> DEFINE c == walk.curr
             s == {a \in DOMAIN heap : Behind(a)}
             t == s \cup {c}
  <2>1. /\ walk.op = "getFree" /\ AtHeader /\ heap' = heap /\ c \in DOMAIN heap
        /\ walk'.op = "getFree" /\ walk'.curr = End(c)
        /\ walk'.total = IF heap[c].free THEN walk.total + heap[c].size ELSE walk.total
    BY <1>1, <1>10 DEF GetFreeAdds, AtHeader, HeapInv, HeapTypeOK, Walks
  <2>2. /\ c \in Nat /\ heap[c].size \in Nat /\ HEADER_SIZE \in Nat /\ walk.total \in Nat
    BY <1>1, <2>1, BlockPlace DEF HeapInv, HeapTypeOK, Walks
  <2>3. {a \in DOMAIN heap : Behind(a)}' = t
    BY <1>1, <2>1, Passes
  <2>4. t \in SUBSET (DOMAIN heap) /\ c \in t /\ t \ {c} = s
    BY <2>1, <2>2 DEF Behind
  <2>5. Cardinality(Bytes(t)) = Cost(c) + Cardinality(Bytes(s))
    <3> HIDE DEF s, t, c
    <3> QED
      BY <1>1, <2>4, BytesSplit
  <2>6. Bytes({a \in DOMAIN heap : Behind(a)})' = Bytes(t)
    <3> HIDE DEF t
    <3> QED
      BY <2>1, <2>3 DEF Bytes, Cost
  <2>7. walk.total + Cardinality(Bytes(s)) = c
    BY <2>1 DEF WalkInv, Counted
  <2>8. Counted'
    <3> HIDE DEF s, t
    <3> QED
      BY <2>1, <2>2, <2>5, <2>6, <2>7, BytesCount DEF Counted, Cost, End
  <2> QED
    BY <1>1, <2>1, <2>8 DEF WalkInv, NoneFits, NoPair
<1> QED
  BY <1>3, <1>5, <1>6, <1>7, <1>8, <1>9, <1>10 DEF HeapNext, HeapStep, heapVars

LEMMA WalkInvAlways == HeapSpec => []WalkInv
  BY WalkInvInit, WalkInvNext, PTL DEF HeapSpec

\* malloc fails only when no free block is large enough (ExtSRAMHeap.cpp:30-61).
THEOREM FailsOnlyWhenFullAlways == HeapSpec => FailsOnlyWhenFull
<1>1. ASSUME WalkInv, MallocFails, NEW a \in DOMAIN heap PROVE ~ Fits(a)
  <2>1. walk.op = "malloc" /\ Behind(a)
    BY <1>1, AllBehind DEF MallocFails, NoCall, WalkInv
  <2> QED
    BY <1>1, <2>1 DEF WalkInv, NoneFits
<1>2. WalkInv => [MallocFails => \A a \in DOMAIN heap : ~ Fits(a)]_heapVars
  BY <1>1
<1> QED
  BY <1>2, WalkInvAlways, PTL DEF FailsOnlyWhenFull

\* defrag leaves no two neighbouring blocks free (ExtSRAMHeap.cpp:83-103).
THEOREM DefragCompleteAlways == HeapSpec => DefragComplete
<1>1. ASSUME WalkInv, DefragReturns, NEW a \in DOMAIN heap, heap[a].free
      PROVE  End(a) \notin DOMAIN heap \/ ~ heap[End(a)].free
  <2>1. walk.op = "defrag" /\ Behind(a)
    BY <1>1, AllBehind DEF DefragReturns, NoCall, WalkInv
  <2>2. ~ Mergeable(a)
    BY <1>1, <2>1 DEF WalkInv, NoPair
  <2>3. End(a) \in DOMAIN heap => End(a) < HEAP_START_ADDR + HEAP_TOTAL_SIZE
    BY <1>1, BlockPlace DEF WalkInv, HeapEnd
  <2> QED
    BY <1>1, <2>2, <2>3 DEF Mergeable
<1>2. WalkInv =>
        [DefragReturns =>
           \A a \in DOMAIN heap : heap[a].free => End(a) \notin DOMAIN heap \/ ~ heap[End(a)].free
        ]_heapVars
  BY <1>1
<1> QED
  BY <1>2, WalkInvAlways, PTL DEF DefragComplete

\* getFree returns what the headers and the blocks in use leave of the heap
\* (ExtSRAMHeap.cpp:106-123).
THEOREM FreeCountedAlways == HeapSpec => FreeCounted
<1>1. ASSUME WalkInv, GetFreeReturns
      PROVE  ret'.val = HEAP_TOTAL_SIZE
               - MapThenSumSet(LAMBDA a : HEADER_SIZE + (IF heap[a].free THEN 0 ELSE heap[a].size),
                               DOMAIN heap)
  <2>1. HeapInv /\ walk.op = "getFree" /\ ~ AtHeader /\ ~ NoCall /\ ret'.val = walk.total
    BY <1>1 DEF WalkInv, GetFreeReturns, Returns, NoCall
  <2>2. walk.curr = HEAP_TOTAL_SIZE /\ {a \in DOMAIN heap : Behind(a)} = DOMAIN heap
    BY <2>1, AllBehind
  <2>3. walk.total + Cardinality(Bytes(DOMAIN heap)) = HEAP_TOTAL_SIZE /\ walk.total \in Nat
    BY <1>1, <2>1, <2>2 DEF WalkInv, Counted, HeapInv, HeapTypeOK, Walks
  <2>4. walk.total = HEAP_TOTAL_SIZE - Cardinality(Bytes(DOMAIN heap))
    BY <2>3, BytesCount, HeapConstantsOK
  <2> QED
    BY <2>1, <2>4, SumOfCosts
<1>2. WalkInv =>
        [GetFreeReturns =>
           ret'.val = HEAP_TOTAL_SIZE
             - MapThenSumSet(LAMBDA a : HEADER_SIZE + (IF heap[a].free THEN 0 ELSE heap[a].size),
                             DOMAIN heap)]_heapVars
  BY <1>1
<1> QED
  BY <1>2, WalkInvAlways, PTL DEF FreeCounted
=============================================================================
