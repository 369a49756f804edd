-------------------------- MODULE PageCache_proofs --------------------------
(***************************************************************************)
(* Proofs about module PageCache, for every geometry of the cache: what    *)
(* the lines and the dirty bits agree on, the copy of pagedRealloc, and    *)
(* that the whole implements ProcessMemory.                                *)
(***************************************************************************)
EXTENDS PageCache, PageTable_proofs, WellFoundedInduction

(***************************************************************************)
(* Arithmetic on addresses.                                                *)
(***************************************************************************)

LEMMA DivLess ==
  ASSUME NEW a \in Nat, NEW b \in Nat, NEW n \in Nat \ {0}, a < b * n
  PROVE  a \div n \in 0 .. b - 1
<1>1. a \div n \in Nat /\ a = n * (a \div n) + (a % n) /\ a % n \in Nat
  OBVIOUS
<1>2. ASSUME NEW q \in Nat, q >= b PROVE n * q >= b * n
  BY <1>2
<1> QED
  BY <1>1, <1>2

LEMMA DivModUnique ==
  ASSUME NEW n \in Nat \ {0}, NEW q \in Nat, NEW r \in 0 .. n - 1
  PROVE  (n * q + r) \div n = q /\ (n * q + r) % n = r
<1> DEFINE a == n * q + r
           d == a \div n
           m == a % n
<1>1. n * q \in Nat
  OBVIOUS
<1>2. a \in Nat /\ a = n * q + r
  BY <1>1
<1> HIDE DEF a
<1>3. d \in Nat /\ m \in 0 .. n - 1 /\ a = n * d + m
  BY <1>2
<1> HIDE DEF d, m
<1>4. ASSUME d > q PROVE FALSE
  <2>1. n * d >= n * (q + 1)
    BY <1>3, <1>4
  <2>2. n * (q + 1) = n * q + n
    OBVIOUS
  <2>3. n * d \in Nat
    BY <1>3
  <2> QED
    BY <1>1, <1>2, <1>3, <2>1, <2>2, <2>3
<1>5. ASSUME q > d PROVE FALSE
  <2>1. n * q >= n * (d + 1)
    BY <1>3, <1>5
  <2>2. n * (d + 1) = n * d + n
    BY <1>3
  <2>3. n * d \in Nat
    BY <1>3
  <2> QED
    BY <1>1, <1>2, <1>3, <2>1, <2>2, <2>3
<1>6. d = q
  BY <1>3, <1>4, <1>5
<1>7. m = r
  BY <1>1, <1>2, <1>3, <1>6
<1> QED
  BY <1>6, <1>7 DEF a, d, m

LEMMA DivMod ==
  ASSUME NEW n \in Nat \ {0}, NEW a \in Nat
  PROVE  a \div n \in Nat /\ a % n \in 0 .. n - 1 /\ a = n * (a \div n) + (a % n)
  OBVIOUS

LEMMA LinesPerPage ==
  LINES_PER_PAGE \in Nat \ {0} /\ PAGE_SIZE = LINES_PER_PAGE * CACHE_LINE_SIZE
<1>1. /\ PAGE_SIZE \div CACHE_LINE_SIZE \in Nat
      /\ PAGE_SIZE = CACHE_LINE_SIZE * (PAGE_SIZE \div CACHE_LINE_SIZE)
                       + (PAGE_SIZE % CACHE_LINE_SIZE)
  BY ConstantsOK, CacheConstantsOK
<1>2. PAGE_SIZE = CACHE_LINE_SIZE * (PAGE_SIZE \div CACHE_LINE_SIZE)
  BY <1>1, CacheConstantsOK, ConstantsOK
<1> QED
  BY <1>1, <1>2, ConstantsOK, CacheConstantsOK DEF LINES_PER_PAGE

\* The line of a byte lies in the page of the byte.
LEMMA LineOfPage ==
  ASSUME NEW f \in Nat, NEW o \in 0 .. PAGE_SIZE - 1
  PROVE  ((f * PAGE_SIZE + o) \div CACHE_LINE_SIZE) \div LINES_PER_PAGE = f
<1> DEFINE n == CACHE_LINE_SIZE
           q == o \div n
           r == o % n
<1>1. n \in Nat \ {0} /\ LINES_PER_PAGE \in Nat \ {0} /\ o \in Nat
      /\ PAGE_SIZE = LINES_PER_PAGE * n
  BY CacheConstantsOK, ConstantsOK, LinesPerPage
<1>2. q \in Nat /\ r \in 0 .. n - 1 /\ o = n * q + r
  BY <1>1, DivMod
<1>3. q \in 0 .. LINES_PER_PAGE - 1
  BY <1>1, ConstantsOK, DivLess
<1> HIDE DEF n, q, r
<1>4. f * PAGE_SIZE + o = n * (LINES_PER_PAGE * f + q) + r
  BY <1>1, <1>2
<1>5. LINES_PER_PAGE * f + q \in Nat
  BY <1>1, <1>2
<1>6. (f * PAGE_SIZE + o) \div n = LINES_PER_PAGE * f + q
  BY <1>1, <1>2, <1>4, <1>5, DivModUnique
<1> QED
  BY <1>1, <1>3, <1>6, DivModUnique DEF n

\* The lines of a page are those whose number leads back to it.
LEMMA LinesOfPage ==
  ASSUME NEW t \in Nat
  PROVE  t \in PageLines(t \div LINES_PER_PAGE)
<1> DEFINE n == LINES_PER_PAGE
           q == t \div n
           r == t % n
<1>1. n \in Nat \ {0} /\ q \in Nat /\ r \in 0 .. n - 1 /\ t = n * q + r
  BY LinesPerPage, DivMod
<1> HIDE DEF q, r, n
<1>2. t \in q * n .. (q + 1) * n - 1
  <2>1. q * n = n * q /\ (q + 1) * n = n * q + n /\ n * q \in Nat
    BY <1>1
  <2> QED
    BY <1>1, <2>1
<1> QED
  BY <1>2 DEF PageLines, q, n

LEMMA CacheSets ==
  /\ 0 \in Tags /\ 0 \in Offsets
  /\ \A t \in Tags : t \in Nat /\ SetOf(t) \in Sets
  /\ \A n \in Nat : n % CACHE_LINE_SIZE \in Offsets
  /\ \A n \in Nat : n % CLOCK_MOD \in 0 .. CLOCK_MOD - 1
<1>1. MAX_PHYSICAL_PAGES * LINES_PER_PAGE \in Nat \ {0}
  BY LinesPerPage, ConstantsOK
<1>2. 0 \in Tags /\ Tags \subseteq Nat
  BY <1>1 DEF Tags
<1>3. ASSUME NEW a \in Nat, NEW n \in Nat \ {0} PROVE a % n \in 0 .. n - 1
  OBVIOUS
<1> QED
  BY <1>2, <1>3, CacheConstantsOK DEF Offsets, Sets, SetOf

\* A byte of a page is in a line of the SRAM.
LEMMA PhysicalOK ==
  ASSUME NEW f \in Frames, NEW o \in 0 .. PAGE_SIZE - 1
  PROVE  /\ f * PAGE_SIZE + o \in Nat
         /\ (f * PAGE_SIZE + o) \div CACHE_LINE_SIZE \in Tags
         /\ (f * PAGE_SIZE + o) % CACHE_LINE_SIZE \in Offsets
<1>1. f * PAGE_SIZE + o \in Nat
  BY ConstantsOK DEF Frames
<1>2. f * PAGE_SIZE + o < MAX_PHYSICAL_PAGES * PAGE_SIZE
  <2>1. (f + 1) * PAGE_SIZE <= MAX_PHYSICAL_PAGES * PAGE_SIZE
    BY ConstantsOK DEF Frames
  <2>2. (f + 1) * PAGE_SIZE = f * PAGE_SIZE + PAGE_SIZE
    BY ConstantsOK DEF Frames
  <2> QED
    BY <2>1, <2>2, ConstantsOK DEF Frames
<1>3. MAX_PHYSICAL_PAGES * PAGE_SIZE = (MAX_PHYSICAL_PAGES * LINES_PER_PAGE) * CACHE_LINE_SIZE
  BY LinesPerPage, ConstantsOK, CacheConstantsOK
<1>4. (f * PAGE_SIZE + o) \div CACHE_LINE_SIZE \in Tags
  BY <1>1, <1>2, <1>3, DivLess, LinesPerPage, ConstantsOK, CacheConstantsOK DEF Tags
<1> QED
  BY <1>1, <1>4, CacheSets

\* A mapped address is in a line of the SRAM.
LEMMA AddressOK ==
  ASSUME TypeOK, NEW pid, NEW addr \in Nat, IsMapped(pid, addr)
  PROVE  /\ translateAddress(pid, addr) \in Nat
         /\ translateAddress(pid, addr) \div CACHE_LINE_SIZE \in Tags
         /\ translateAddress(pid, addr) % CACHE_LINE_SIZE \in Offsets
<1>1. page_table[pid][LogicalPage(addr)] \in Frames
  BY DEF IsMapped, TypeOK, PageTables
<1>2. addr % PAGE_SIZE \in 0 .. PAGE_SIZE - 1
  BY ConstantsOK
<1> QED
  BY <1>1, <1>2, PhysicalOK DEF translateAddress

\* A set of natural numbers has a least element: a search that stops at the first
\* match finds one when there is one.
LEMMA LeastNat ==
  ASSUME NEW S \in SUBSET Nat, S # {}
  PROVE  \E m \in S : \A k \in S : m <= k
<1> DEFINE R == OpToRel(<, Nat)
<1>1. IsWellFoundedOn(R, Nat)
  BY NatLessThanWellFounded
<1>2. PICK m \in S : \A k \in S : <<k, m>> \notin R
  <2> HIDE DEF R
  <2> QED
    BY <1>1, WFMin
<1>3. ASSUME NEW k \in S PROVE m <= k
  <2>1. <<k, m>> \notin R
    BY <1>2
  <2>2. <<k, m>> \in Nat \X Nat
    BY <1>2
  <2> QED
    BY <2>1, <2>2 DEF OpToRel
<1> QED
  BY <1>2, <1>3

(***************************************************************************)
(* One access to a line.                                                   *)
(***************************************************************************)

CacheInv ==
  /\ TypeOK
  /\ CacheTypeOK
  /\ Coherent
  /\ UniqueTag

\* The search finds line t if some way of the set holds it.
LEMMA FoundSome ==
  ASSUME NEW s \in Sets, NEW t, Found(s, t) = {}
  PROVE  \A v \in Ways : ~ Holds(s, v, t)
<1> DEFINE H == {v \in Ways : Holds(s, v, t)}
<1>1. ASSUME H # {} PROVE FALSE
  <2>1. H \in SUBSET Nat
    BY CacheConstantsOK DEF Ways
  <2> HIDE DEF H
  <2>2. PICK m \in H : \A k \in H : m <= k
    BY <1>1, <2>1, LeastNat
  <2>3. m \in Ways /\ Holds(s, m, t)
    BY <2>2 DEF H
  <2>4. \A v \in 0 .. m - 1 : ~ Holds(s, v, t)
    BY <2>2, <2>3, CacheConstantsOK DEF H, Ways
  <2> QED
    BY <2>3, <2>4 DEF Found
<1> QED
  BY <1>1

\* The way an access uses: it writes back nothing new, then holds the line and
\* is the only one to.
LEMMA AccessOK ==
  ASSUME CacheInv, NEW t \in Tags, NEW w \in WayFor(SetOf(t), t)
  PROVE  LET s == SetOf(t)
         IN  /\ s \in Sets /\ w \in Ways
             /\ MakeRoom(s, w, t) = sram
             /\ Fetched(s, w, t) \in Lines
             /\ Fetched(s, w, t).valid
             /\ Fetched(s, w, t).tag = t
             /\ Fetched(s, w, t).data = sram[t]
             /\ \A v \in Ways \ {w} : ~ Holds(s, v, t)
<1> DEFINE s == SetOf(t)
<1>1. s \in Sets
  BY CacheSets
<1>2. w \in Ways
  BY DEF WayFor, Found, FreeWay, LRUWay
<1>3. cache_sets[s][w] \in Lines /\ sram \in [Tags -> [Offsets -> Bytes]]
  BY <1>1, <1>2 DEF CacheInv, CacheTypeOK
<1>4. MakeRoom(s, w, t) = sram
  BY <1>1, <1>2, <1>3 DEF MakeRoom, CacheInv, Coherent
<1>5. Tick(1) \in 0 .. CLOCK_MOD - 1
  BY CacheSets, CacheConstantsOK DEF Tick, CacheInv, CacheTypeOK
<1>6. CASE Holds(s, w, t)
  <2>1. \A v \in Ways \ {w} : ~ Holds(s, v, t)
    BY <1>1, <1>2, <1>6 DEF CacheInv, UniqueTag, Holds
  <2>2. cache_sets[s][w].data = sram[t]
    BY <1>1, <1>2, <1>6 DEF CacheInv, Coherent, Holds
  <2>3. Fetched(s, w, t) = [cache_sets[s][w] EXCEPT !.last_access = Tick(1)]
    BY <1>6 DEF Fetched
  <2> QED
    BY <1>1, <1>2, <1>3, <1>4, <1>5, <1>6, <2>1, <2>2, <2>3 DEF Holds, Lines
<1>7. CASE ~ Holds(s, w, t)
  <2>1. Found(s, t) = {}
    BY <1>7 DEF WayFor, Found
  <2>2. \A v \in Ways : ~ Holds(s, v, t)
    BY <1>1, <2>1, FoundSome
  <2>3. Fetched(s, w, t) = [valid |-> TRUE, dirty |-> FALSE, tag |-> t,
                            data |-> sram[t], last_access |-> Tick(1)]
    BY <1>4, <1>7 DEF Fetched
  <2> QED
    BY <1>1, <1>2, <1>3, <1>4, <1>5, <2>2, <2>3 DEF Lines
<1> QED
  BY <1>6, <1>7
\* The part of the invariant about the lines and the SRAM.
LinesOK ==
  /\ cache_sets \in [Sets -> [Ways -> Lines]]
  /\ sram \in [Tags -> [Offsets -> Bytes]]
  /\ Coherent
  /\ UniqueTag

\* One line replaced by the one that holds t, in the cache and in the SRAM.
LEMMA ReplaceOK ==
  ASSUME CacheInv, NEW t \in Tags, NEW w \in Ways, NEW line \in Lines,
         line.tag = t, line.valid,
         \A v \in Ways \ {w} : ~ Holds(SetOf(t), v, t),
         cache_sets' = [cache_sets EXCEPT ![SetOf(t)][w] = line],
         sram' = [sram EXCEPT ![t] = line.data]
  PROVE  LinesOK'
<1> DEFINE s == SetOf(t)
<1>1. s \in Sets
  BY CacheSets
<1>2. /\ cache_sets \in [Sets -> [Ways -> Lines]]
      /\ sram \in [Tags -> [Offsets -> Bytes]]
  BY DEF CacheInv, CacheTypeOK
<1>3. line.data \in [Offsets -> Bytes]
  BY DEF Lines
<1>4. /\ cache_sets' \in [Sets -> [Ways -> Lines]]
      /\ sram' \in [Tags -> [Offsets -> Bytes]]
  BY <1>1, <1>2, <1>3
<1>5. /\ cache_sets'[s][w] = line
      /\ \A r \in Sets, v \in Ways :
           r # s \/ v # w => cache_sets'[r][v] = cache_sets[r][v]
      /\ sram'[t] = line.data
      /\ \A u \in Tags \ {t} : sram'[u] = sram[u]
  BY <1>1, <1>2
<1>6. ASSUME NEW r \in Sets, NEW v \in Ways, r # s \/ v # w, cache_sets[r][v].valid
      PROVE  cache_sets[r][v].tag # t
  BY <1>1, <1>6 DEF CacheInv, Coherent, Holds
<1>7. Coherent'
  <2> SUFFICES ASSUME NEW r \in Sets, NEW v \in Ways, cache_sets'[r][v].valid
               PROVE  /\ SetOf(cache_sets'[r][v].tag) = r
                      /\ cache_sets'[r][v].data = sram'[cache_sets'[r][v].tag]
    BY DEF Coherent, SetOf
  <2>1. CASE r = s /\ v = w
    BY <1>5, <2>1
  <2>2. CASE r # s \/ v # w
    <3>1. cache_sets[r][v].tag \in Tags \ {t}
      BY <1>2, <1>5, <1>6, <2>2 DEF Lines
    <3> QED
      BY <1>5, <2>2, <3>1 DEF CacheInv, Coherent
  <2> QED
    BY <2>1, <2>2
<1>8. UniqueTag'
  <2> SUFFICES ASSUME NEW r \in Sets, NEW u \in Ways, NEW v \in Ways, u # v,
                      cache_sets'[r][u].valid, cache_sets'[r][v].valid
               PROVE  cache_sets'[r][u].tag # cache_sets'[r][v].tag
    BY DEF UniqueTag, Holds
  <2>1. CASE r = s /\ u = w
    BY <1>5, <1>6, <2>1
  <2>2. CASE r = s /\ v = w
    BY <1>5, <1>6, <2>2
  <2>3. CASE r # s \/ (u # w /\ v # w)
    BY <1>5, <2>3 DEF CacheInv, UniqueTag, Holds
  <2> QED
    BY <2>1, <2>2, <2>3
<1> QED
  BY <1>4, <1>7, <1>8 DEF LinesOK

\* Lines may be dropped and cleaned.
LEMMA ShrinkOK ==
  ASSUME CacheInv, cache_sets' \in [Sets -> [Ways -> Lines]], sram' = sram,
         \A s \in Sets, w \in Ways :
           cache_sets'[s][w].valid =>
             /\ cache_sets[s][w].valid
             /\ cache_sets'[s][w].tag = cache_sets[s][w].tag
             /\ cache_sets'[s][w].data = cache_sets[s][w].data
  PROVE  LinesOK'
<1>1. Coherent'
  BY DEF CacheInv, Coherent, SetOf
<1>2. UniqueTag'
  BY DEF CacheInv, UniqueTag, Holds
<1> QED
  BY <1>1, <1>2 DEF LinesOK, CacheInv, CacheTypeOK

\* A write-back changes no byte.
LEMMA WrittenBackSame ==
  ASSUME CacheInv, NEW T
  PROVE  WrittenBack(T) = sram
<1>1. sram = [t \in Tags |-> sram[t]]
  BY DEF CacheInv, CacheTypeOK
<1>2. ASSUME NEW t \in Tags PROVE WrittenBack(T)[t] = sram[t]
  <2> DEFINE s == SetOf(t)
             W == {w \in Ways : Selected(s, w, T \cap {t}) /\ cache_sets[s][w].dirty}
  <2>1. CASE W = {}
    BY <2>1 DEF WrittenBack
  <2>2. CASE W # {}
    <3> DEFINE w == CHOOSE w \in W : TRUE
    <3>1. w \in W
      BY <2>2
    <3>2. w \in Ways /\ s \in Sets /\ Holds(s, w, t)
      BY <3>1, CacheSets DEF Selected, Found
    <3>3. cache_sets[s][w].data = sram[t]
      BY <3>2 DEF CacheInv, Coherent, Holds
    <3>4. WrittenBack(T)[t] = cache_sets[s][w].data
      BY <2>2 DEF WrittenBack
    <3> QED
      BY <3>3, <3>4
  <2> QED
    BY <2>1, <2>2
<1> QED
  BY <1>1, <1>2 DEF WrittenBack

(***************************************************************************)
(* What each kind of step does to the cache.                               *)
(***************************************************************************)

LEMMA TicksOK ==
  ASSUME CacheInv, NEW n \in Nat, Ticks(n)
  PROVE  logical_clock' \in 0 .. CLOCK_MOD - 1
<1>1. logical_clock \in Nat
  BY CacheConstantsOK DEF CacheInv, CacheTypeOK
<1>2. logical_clock + n \in Nat
  BY <1>1
<1> QED
  BY <1>2, CacheSets DEF Ticks, Tick

\* A read leaves the SRAM as it is and returns its byte.
LEMMA ReadOK ==
  ASSUME CacheInv, NEW pid, NEW addr \in Nat, ReadByte(pid, addr)
  PROVE  /\ LinesOK' /\ sram' = sram
         /\ out' \in Bytes /\ out' = ByteAt(pid, addr)
         /\ logical_clock' \in 0 .. CLOCK_MOD - 1
<1>1. CASE ~ IsMapped(pid, addr)
  <2>1. LinesOK'
    BY <1>1 DEF ReadByte, LinesOK, CacheInv, CacheTypeOK, Coherent, UniqueTag, Holds
  <2> QED
    BY <1>1, <2>1, CacheConstantsOK DEF ReadByte, ByteAt, CacheInv, CacheTypeOK
<1>2. CASE IsMapped(pid, addr)
  <2> DEFINE pa == translateAddress(pid, addr)
             t  == pa \div CACHE_LINE_SIZE
             o  == pa % CACHE_LINE_SIZE
             s  == SetOf(t)
  <2>1. t \in Tags /\ o \in Offsets
    BY <1>2, AddressOK DEF CacheInv
  <2>2. PICK w \in WayFor(s, t) :
          /\ sram' = MakeRoom(s, w, t)
          /\ cache_sets' = [cache_sets EXCEPT ![s][w] = Fetched(s, w, t)]
          /\ out' = Fetched(s, w, t).data[o]
          /\ Ticks(3)
    BY <1>2 DEF ReadByte
  <2> DEFINE line == Fetched(s, w, t)
  <2>3. ByteAt(pid, addr) = sram[t][o]
    BY <1>2 DEF ByteAt, FrameByte, translateAddress
  <2> HIDE DEF pa, t, o
  <2>4. /\ w \in Ways /\ line \in Lines /\ line.tag = t /\ line.valid
        /\ line.data = sram[t] /\ sram' = sram
        /\ \A v \in Ways \ {w} : ~ Holds(s, v, t)
    BY <2>1, <2>2, AccessOK
  <2>5. sram' = [sram EXCEPT ![t] = line.data]
    BY <2>1, <2>4 DEF CacheInv, CacheTypeOK
  <2>6. LinesOK'
    BY <2>1, <2>2, <2>4, <2>5, ReplaceOK
  <2>7. out' = sram[t][o] /\ sram[t][o] \in Bytes
    BY <2>1, <2>2, <2>4 DEF CacheInv, CacheTypeOK
  <2>8. logical_clock' \in 0 .. CLOCK_MOD - 1
    BY <2>2, TicksOK
  <2> QED
    BY <2>3, <2>4, <2>6, <2>7, <2>8
<1> QED
  BY <1>1, <1>2

\* A write changes one byte of the SRAM and the line that holds it.
LEMMA WriteOK ==
  ASSUME CacheInv, NEW pid, NEW addr \in Nat, NEW b \in Bytes, WriteByte(pid, addr, b)
  PROVE  /\ LinesOK'
         /\ pte_dirty' \in [Pids -> [LPs -> BOOLEAN]]
         /\ logical_clock' \in 0 .. CLOCK_MOD - 1
<1>1. CASE ~ IsMapped(pid, addr)
  <2>1. LinesOK'
    BY <1>1 DEF WriteByte, LinesOK, CacheInv, CacheTypeOK, Coherent, UniqueTag, Holds
  <2> QED
    BY <1>1, <2>1 DEF WriteByte, CacheInv, CacheTypeOK
<1>2. CASE IsMapped(pid, addr)
  <2> DEFINE pa == translateAddress(pid, addr)
             t  == pa \div CACHE_LINE_SIZE
             o  == pa % CACHE_LINE_SIZE
             s  == SetOf(t)
  <2>1. t \in Tags /\ o \in Offsets
    BY <1>2, AddressOK DEF CacheInv
  <2>2. PICK w \in WayFor(s, t) :
          /\ sram' = [MakeRoom(s, w, t) EXCEPT ![t][o] = b]
          /\ cache_sets' = [cache_sets EXCEPT ![s][w] =
               [Fetched(s, w, t) EXCEPT !.data[o] = b, !.dirty = TRUE]]
          /\ pte_dirty' = [pte_dirty EXCEPT ![pid][LogicalPage(addr)] = TRUE]
          /\ Ticks(3)
    BY <1>2 DEF WriteByte
  <2> DEFINE old  == Fetched(s, w, t)
             line == [old EXCEPT !.data[o] = b, !.dirty = TRUE]
  <2> HIDE DEF pa, t, o
  <2>3. /\ w \in Ways /\ old \in Lines /\ old.tag = t /\ old.valid
        /\ old.data = sram[t] /\ MakeRoom(s, w, t) = sram
        /\ \A v \in Ways \ {w} : ~ Holds(s, v, t)
    BY <2>1, AccessOK
  <2> HIDE DEF old
  <2>4. /\ line \in Lines /\ line.tag = t /\ line.valid
        /\ line.data = [sram[t] EXCEPT ![o] = b]
    BY <2>1, <2>3 DEF Lines
  <2>5. sram' = [sram EXCEPT ![t] = line.data]
    BY <2>1, <2>2, <2>3, <2>4 DEF CacheInv, CacheTypeOK
  <2>6. cache_sets' = [cache_sets EXCEPT ![s][w] = line]
    BY <2>2 DEF old
  <2> HIDE DEF line
  <2>7. LinesOK'
    BY <2>1, <2>3, <2>4, <2>5, <2>6, ReplaceOK
  <2>8. pte_dirty' \in [Pids -> [LPs -> BOOLEAN]]
    BY <2>2 DEF CacheInv, CacheTypeOK
  <2>9. logical_clock' \in 0 .. CLOCK_MOD - 1
    BY <2>2, TicksOK
  <2> QED
    BY <2>7, <2>8, <2>9
<1> QED
  BY <1>1, <1>2

LEMMA InvalidLineOK == InvalidLine \in Lines /\ ~ InvalidLine.valid
  BY CacheSets, CacheConstantsOK DEF InvalidLine, Lines

\* Invalidation of any lines.
LEMMA InvalidateOK ==
  ASSUME CacheInv, NEW T, cache_sets' = Invalidated(T), sram' = sram
  PROVE  LinesOK'
<1>1. ASSUME NEW s \in Sets, NEW w \in Ways
      PROVE  cache_sets'[s][w] = IF Selected(s, w, T) THEN InvalidLine ELSE cache_sets[s][w]
  BY DEF Invalidated
<1>2. cache_sets' \in [Sets -> [Ways -> Lines]]
  BY InvalidLineOK DEF Invalidated, CacheInv, CacheTypeOK
<1> QED
  BY <1>1, <1>2, InvalidLineOK, ShrinkOK

LEMMA InvalidatePageOK ==
  ASSUME CacheInv, NEW T, Invalidate(T)
  PROVE  LinesOK'
  BY WrittenBackSame, InvalidateOK DEF Invalidate

LEMMA UnchangedOK ==
  ASSUME CacheInv, UNCHANGED <<cache_sets, sram>>
  PROVE  LinesOK'
  BY DEF LinesOK, CacheInv, CacheTypeOK, Coherent, UniqueTag, Holds

LEMMA TakePageOK ==
  ASSUME CacheInv, NEW f, TakePage(f)
  PROVE  LinesOK' /\ DirtyAfterEvict(f) \in [Pids -> [LPs -> BOOLEAN]]
<1>1. LinesOK'
  BY InvalidatePageOK, UnchangedOK DEF TakePage
<1>2. pte_dirty \in [Pids -> [LPs -> BOOLEAN]]
  BY DEF CacheInv, CacheTypeOK
<1>3. DirtyAfterEvict(f) \in [Pids -> [LPs -> BOOLEAN]]
  BY <1>2 DEF DirtyAfterEvict
<1> QED
  BY <1>1, <1>3

LEMMA DropPageOK ==
  ASSUME CacheInv, NEW pid, NEW lp, DropPage(pid, lp)
  PROVE  LinesOK' /\ pte_dirty' \in [Pids -> [LPs -> BOOLEAN]]
<1>1. LinesOK'
  BY InvalidatePageOK, UnchangedOK DEF DropPage
<1>2. pte_dirty' \in [Pids -> [LPs -> BOOLEAN]]
  BY DEF DropPage, CacheInv, CacheTypeOK
<1> QED
  BY <1>1, <1>2
(***************************************************************************)
(* The invariant.                                                          *)
(***************************************************************************)

\* Module PageCache completes the actions of PageTable: it adds no step to them.
LEMMA CacheImplementsTable ==
  /\ [CacheNext]_allVars => [Next]_vars
  /\ [PagedCacheNext]_allVars => [PagedNext]_vars
<1>1. ByteCall => UNCHANGED vars
  BY DEF ByteCall, cacheReadByte, cacheWriteByte
<1>2. LineCall => UNCHANGED vars
  BY DEF LineCall, invalidateLine, invalidateProcessCache, flushProcessCache,
     flushCache, invalidateAll
<1>3. CachedFrameCall => FrameCall
  BY DEF CachedFrameCall, FrameCall, CachedAllocate, CachedMap, CachedUnmap
<1>4. CachedPagedCall => PagedCall
  BY DEF CachedPagedCall
<1>5. CachedStep => Step \/ UNCHANGED vars
  BY DEF CachedStep, Step, CachedMallocPage, CachedUnmapNext, CopyRead, CopyWrite
<1> QED
  BY <1>1, <1>2, <1>3, <1>4, <1>5
  DEF CacheNext, ApiNext, PagedCacheNext, Next, PagedNext, allVars

LEMMA CacheInvInit == CacheInit => CacheInv
<1> SUFFICES ASSUME CacheInit PROVE CacheInv
  OBVIOUS
<1>1. TypeOK
  BY TypeInit DEF CacheInit
<1>2. CacheTypeOK
  <2>1. cache_sets \in [Sets -> [Ways -> Lines]]
    BY InvalidLineOK DEF CacheInit
  <2>2. sram \in [Tags -> [Offsets -> Bytes]]
    BY CacheConstantsOK DEF CacheInit
  <2>3. pte_dirty \in [Pids -> [LPs -> BOOLEAN]]
    BY DEF CacheInit
  <2>4. logical_clock \in 0 .. CLOCK_MOD - 1
    BY CacheConstantsOK DEF CacheInit
  <2>5. out \in Bytes /\ copying \in BOOLEAN
    BY CacheConstantsOK DEF CacheInit
  <2> QED
    BY <2>1, <2>2, <2>3, <2>4, <2>5 DEF CacheTypeOK
<1>3. Coherent /\ UniqueTag
  BY InvalidLineOK DEF CacheInit, Coherent, UniqueTag, Holds
<1> QED
  BY <1>1, <1>2, <1>3 DEF CacheInv

\* What is left to show of each step, given LinesOK'.
Rest ==
  /\ pte_dirty \in [Pids -> [LPs -> BOOLEAN]]
  /\ logical_clock \in 0 .. CLOCK_MOD - 1
  /\ out \in Bytes
  /\ copying \in BOOLEAN

LEMMA CacheInvNext == CacheInv /\ [CacheNext]_allVars => CacheInv'
<1>a. CacheInv /\ [CacheNext]_allVars => TypeOK'
  <2>1. CacheInv => TypeOK
    BY DEF CacheInv
  <2> QED
    BY <2>1, CacheImplementsTable, TypeNext
<1>b. TypeOK' /\ LinesOK' /\ Rest' => CacheInv'
  BY DEF CacheInv, LinesOK, Rest, CacheTypeOK
<1> SUFFICES ASSUME CacheInv, [CacheNext]_allVars PROVE LinesOK' /\ Rest'
  BY <1>a, <1>b
<1>0. /\ Rest
      /\ Addrs \subseteq Nat /\ 1 \in Nat /\ 2 \in Nat /\ 3 \in Nat
  BY ConstantsOK DEF Rest, Addrs, CacheInv, CacheTypeOK
<1>1. CASE ByteCall
  <2>1. ASSUME NEW pid, NEW addr \in Addrs, cacheReadByte(pid, addr)
        PROVE  LinesOK' /\ Rest'
    BY <1>0, <2>1, ReadOK DEF cacheReadByte, Rest
  <2>2. ASSUME NEW pid, NEW addr \in Addrs, NEW b \in Bytes, cacheWriteByte(pid, addr, b)
        PROVE  LinesOK' /\ Rest'
    BY <1>0, <2>2, WriteOK DEF cacheWriteByte, Rest
  <2> QED
    BY <1>1, <2>1, <2>2 DEF ByteCall
<1>2. CASE LineCall
  <2>1. ASSUME NEW t \in Tags, invalidateLine(t) PROVE LinesOK' /\ Rest'
    <3>1. {t} \subseteq Tags
      BY <2>1
    <3> QED
      BY <1>0, <2>1, <3>1, InvalidatePageOK DEF invalidateLine, Rest
  <2>2. ASSUME NEW pid, invalidateProcessCache(pid) PROVE LinesOK' /\ Rest'
    BY <1>0, <2>2, InvalidatePageOK DEF invalidateProcessCache, Rest
  <2>3. ASSUME NEW pid, flushProcessCache(pid) PROVE LinesOK' /\ Rest'
    <3> DEFINE T == ProcessLines(pid)
    <3>1. sram' = sram
      BY <2>3, WrittenBackSame DEF flushProcessCache
    <3>2. cache_sets' = [s \in Sets |-> [w \in Ways |->
            IF Selected(s, w, T) THEN [cache_sets[s][w] EXCEPT !.dirty = FALSE]
            ELSE cache_sets[s][w]]]
      BY <2>3 DEF flushProcessCache
    <3> HIDE DEF T
    <3>3. ASSUME NEW line \in Lines
          PROVE  /\ [line EXCEPT !.dirty = FALSE] \in Lines
                 /\ [line EXCEPT !.dirty = FALSE].valid = line.valid
                 /\ [line EXCEPT !.dirty = FALSE].tag = line.tag
                 /\ [line EXCEPT !.dirty = FALSE].data = line.data
      BY DEF Lines
    <3>4. cache_sets \in [Sets -> [Ways -> Lines]]
      BY DEF CacheInv, CacheTypeOK
    <3>5. LinesOK'
      BY <3>1, <3>2, <3>3, <3>4, ShrinkOK
    <3>6. pte_dirty' \in [Pids -> [LPs -> BOOLEAN]]
      <4>1. \A p \in Pids, lp \in LPs :
              (pte_dirty[p][lp] /\ (p = pid => page_table[p][lp] = Unmapped)) \in BOOLEAN
        OBVIOUS
      <4> QED
        BY <2>3, <4>1 DEF flushProcessCache
    <3> QED
      BY <1>0, <2>3, <3>5, <3>6 DEF flushProcessCache, Rest
  <2>4. ASSUME flushCache \/ invalidateAll PROVE LinesOK' /\ Rest'
    <3>1. sram' = sram
      BY <2>4, WrittenBackSame DEF flushCache, invalidateAll
    <3>2. cache_sets' = [s \in Sets |-> [w \in Ways |-> InvalidLine]]
      BY <2>4 DEF flushCache, invalidateAll
    <3>3. LinesOK'
      BY <3>1, <3>2, InvalidLineOK, ShrinkOK
    <3> QED
      BY <1>0, <2>4, <3>3 DEF flushCache, invalidateAll, Rest
  <2> QED
    BY <1>2, <2>1, <2>2, <2>3, <2>4 DEF LineCall
<1>3. CASE CachedFrameCall
  <2>1. ASSUME NEW pid, NEW f \in Frames, CachedAllocate(pid, f)
        PROVE  LinesOK' /\ Rest'
    BY <1>0, <2>1, TakePageOK, TicksOK DEF CachedAllocate, Rest
  <2>2. ASSUME NEW pid, NEW lp, NEW f, CachedMap(pid, lp, f)
        PROVE  LinesOK' /\ Rest'
    <3>1. CASE ret'.val = 0
      BY <1>0, <2>2, <3>1, UnchangedOK DEF CachedMap, Rest
    <3>2. CASE ret'.val # 0
      <4>1. /\ LinesOK' /\ logical_clock' \in 0 .. CLOCK_MOD - 1
            /\ UNCHANGED <<out, copying>>
        BY <2>2, <3>2, UnchangedOK, TicksOK, 2 \in Nat DEF CachedMap
      <4>2. pte_dirty' = [pte_dirty EXCEPT ![pid][lp] = FALSE]
        BY <2>2, <3>2 DEF CachedMap
      <4>3. pid \in Pids
        BY <2>2, <3>2 DEF CachedMap, mapPage, Answer, NoRet
      <4> QED
        BY <1>0, <4>1, <4>2, <4>3 DEF Rest
    <3> QED
      BY <3>1, <3>2
  <2>3. ASSUME NEW pid, NEW lp, CachedUnmap(pid, lp)
        PROVE  LinesOK' /\ Rest'
    BY <1>0, <2>3, DropPageOK, UnchangedOK DEF CachedUnmap, Rest
  <2>4. ASSUME UNCHANGED cacheVars PROVE LinesOK' /\ Rest'
    BY <1>0, <2>4, UnchangedOK DEF cacheVars, Rest
  <2> QED
    BY <1>3, <2>1, <2>2, <2>3, <2>4 DEF CachedFrameCall
<1>4. CASE CachedStep
  <2>1. ASSUME NEW f \in Frames, CachedMallocPage(f) PROVE LinesOK' /\ Rest'
    BY <1>0, <2>1, TakePageOK, TicksOK DEF CachedMallocPage, Rest
  <2>2. CASE CachedUnmapNext
    BY <1>0, <2>2, DropPageOK DEF CachedUnmapNext, Rest
  <2>3. CASE CopyRead
    <3>1. call.old + call.j \in Nat
      BY DEF CacheInv, TypeOK, Calls
    <3> QED
      BY <1>0, <2>3, <3>1, ReadOK DEF CopyRead, Rest
  <2>4. CASE CopyWrite
    <3>1. call.new + call.j \in Nat
      BY DEF CacheInv, TypeOK, Calls
    <3> QED
      BY <1>0, <2>4, <3>1, WriteOK DEF CopyWrite, Rest
  <2>5. CASE UNCHANGED cacheVars
    BY <1>0, <2>5, UnchangedOK DEF cacheVars, Rest
  <2> QED
    BY <1>4, <2>1, <2>2, <2>3, <2>4, <2>5 DEF CachedStep
<1>5. CASE CachedPagedCall \/ UNCHANGED allVars
  BY <1>0, <1>5, UnchangedOK DEF CachedPagedCall, allVars, cacheVars, Rest
<1> QED
  BY <1>1, <1>2, <1>3, <1>4, <1>5 DEF CacheNext, ApiNext, PagedCacheNext

\* The lines, the SRAM, the clock and the dirty bits keep their types, and with
\* them the tables of module PageTable: no access leaves the SRAM or the cache.
THEOREM CacheTypeCorrect == CacheSpec => []CacheTypeOK
<1>1. CacheInv => CacheTypeOK
  BY DEF CacheInv
<1> QED
  BY <1>1, CacheInvInit, CacheInvNext, PTL DEF CacheSpec

\* Every valid line equals its bytes in the SRAM, whatever functions are called
\* in whatever order, in the middle of the loops of the allocator too
\* (PageCache.cpp:356-464, 555-635).
THEOREM CoherentAlways == CacheSpec => []Coherent
<1>1. CacheInv => Coherent
  BY DEF CacheInv
<1> QED
  BY <1>1, CacheInvInit, CacheInvNext, PTL DEF CacheSpec

\* No line is ever cached twice (PageCache.cpp:373-381, 419-437).
THEOREM UniqueTagAlways == CacheSpec => []UniqueTag
<1>1. CacheInv => UniqueTag
  BY DEF CacheInv
<1> QED
  BY <1>1, CacheInvInit, CacheInvNext, PTL DEF CacheSpec

\* The cache leaves the tables to the allocator: what is proved of PagedSpec holds
\* of the whole of PageCache.cpp, Isolation among it.
THEOREM CacheImplementsPaged == PagedCacheSpec => PagedSpec
<1>1. CacheInit => Init
  BY DEF CacheInit
<1> QED
  BY <1>1, CacheImplementsTable, PTL DEF PagedCacheSpec, PagedSpec

-----------------------------------------------------------------------------
(***************************************************************************)
(* The paged allocator and the cache: a dirty line has a dirty entry.      *)
(***************************************************************************)

DirtyLine(s, w) == cache_sets[s][w].valid /\ cache_sets[s][w].dirty

\* A step that makes no line dirty.
NoNewDirt ==
  \A s \in Sets, w \in Ways :
    DirtyLine(s, w)' => DirtyLine(s, w) /\ cache_sets'[s][w].tag = cache_sets[s][w].tag

\* In a cache without copies every search for a line finds all there is of it.
LEMMA SelectedAll ==
  ASSUME CacheInv, NEW s \in Sets, NEW w \in Ways, NEW T,
         cache_sets[s][w].valid, cache_sets[s][w].tag \in T
  PROVE  Selected(s, w, T)
<1> DEFINE t == cache_sets[s][w].tag
<1>1. SetOf(t) = s
  BY DEF CacheInv, Coherent
<1>2. \A v \in Ways : Holds(s, v, t) => v = w
  BY DEF CacheInv, UniqueTag
<1>3. \A v \in 0 .. w - 1 : v \in Ways /\ v # w
  BY CacheConstantsOK DEF Ways
<1>4. w \in Found(s, t)
  BY <1>2, <1>3 DEF Found, Holds
<1> QED
  BY <1>1, <1>4 DEF Selected

\* What is left of the lines T once they are invalid.
LEMMA InvalidateLeaves ==
  ASSUME CacheInv, NEW T, Invalidate(T)
  PROVE  /\ NoNewDirt
         /\ \A s \in Sets, w \in Ways : DirtyLine(s, w)' => cache_sets'[s][w].tag \notin T
<1>1. ASSUME NEW s \in Sets, NEW w \in Ways
      PROVE  cache_sets'[s][w] = IF Selected(s, w, T) THEN InvalidLine ELSE cache_sets[s][w]
  BY DEF Invalidate, Invalidated
<1>2. ASSUME NEW s \in Sets, NEW w \in Ways, DirtyLine(s, w)'
      PROVE  ~ Selected(s, w, T) /\ cache_sets'[s][w] = cache_sets[s][w]
  BY <1>1, <1>2, InvalidLineOK DEF DirtyLine
<1> QED
  BY <1>2, SelectedAll DEF NoNewDirt, DirtyLine

LEMMA ReadDirt ==
  ASSUME CacheInv, NEW pid, NEW addr \in Nat, ReadByte(pid, addr)
  PROVE  NoNewDirt
<1>1. CASE ~ IsMapped(pid, addr)
  BY <1>1 DEF ReadByte, NoNewDirt, DirtyLine
<1>2. CASE IsMapped(pid, addr)
  <2> DEFINE t == translateAddress(pid, addr) \div CACHE_LINE_SIZE
             s == SetOf(t)
  <2>1. t \in Tags
    BY <1>2, AddressOK DEF CacheInv
  <2>2. PICK w \in WayFor(s, t) :
          cache_sets' = [cache_sets EXCEPT ![s][w] = Fetched(s, w, t)]
    BY <1>2 DEF ReadByte
  <2> HIDE DEF t
  <2>3. s \in Sets /\ w \in Ways /\ cache_sets[s][w] \in Lines
        /\ cache_sets \in [Sets -> [Ways -> Lines]]
    BY <2>1, <2>2, AccessOK DEF CacheInv, CacheTypeOK
  <2>4. Fetched(s, w, t).dirty => DirtyLine(s, w) /\ Fetched(s, w, t).tag = cache_sets[s][w].tag
    BY <2>3 DEF Fetched, Holds, DirtyLine, Lines
  <2> DEFINE line == Fetched(s, w, t)
  <2> HIDE DEF line, s
  <2>5. cache_sets' = [cache_sets EXCEPT ![s][w] = line]
    BY <2>2 DEF line
  <2>6. ASSUME NEW r \in Sets, NEW v \in Ways
        PROVE  cache_sets'[r][v] = IF r = s /\ v = w THEN line ELSE cache_sets[r][v]
    BY <2>3, <2>5
  <2> QED
    BY <2>4, <2>6 DEF NoNewDirt, DirtyLine, line
<1> QED
  BY <1>1, <1>2

\* The page of the line an access uses is the page the entry maps.
LEMMA LineOfEntry ==
  ASSUME TypeOK, NEW pid, NEW addr \in Nat, IsMapped(pid, addr)
  PROVE  (translateAddress(pid, addr) \div CACHE_LINE_SIZE) \div LINES_PER_PAGE
           = page_table[pid][LogicalPage(addr)]
<1>1. page_table[pid][LogicalPage(addr)] \in Nat
  BY ConstantsOK DEF TypeOK, PageTables, IsMapped, Frames
<1>2. addr % PAGE_SIZE \in 0 .. PAGE_SIZE - 1
  BY ConstantsOK
<1> QED
  BY <1>1, <1>2, LineOfPage DEF translateAddress

LEMMA WriteDirt ==
  ASSUME CacheInv, NEW pid, NEW addr \in Nat, NEW b, WriteByte(pid, addr, b),
         DirtyLinesTracked, page_table' = page_table
  PROVE  DirtyLinesTracked'
<1>1. CASE ~ IsMapped(pid, addr)
  BY <1>1 DEF WriteByte, DirtyLinesTracked
<1>2. CASE IsMapped(pid, addr)
  <2> DEFINE t    == translateAddress(pid, addr) \div CACHE_LINE_SIZE
             o    == translateAddress(pid, addr) % CACHE_LINE_SIZE
             s    == SetOf(t)
             page == LogicalPage(addr)
  <2>1. t \in Tags /\ pid \in Pids /\ page \in LPs
        /\ t \div LINES_PER_PAGE = page_table[pid][page]
    BY <1>2, AddressOK, LineOfEntry DEF CacheInv, IsMapped
  <2>2. PICK w \in WayFor(s, t) :
          /\ cache_sets' = [cache_sets EXCEPT ![s][w] =
               [Fetched(s, w, t) EXCEPT !.data[o] = b, !.dirty = TRUE]]
          /\ pte_dirty' = [pte_dirty EXCEPT ![pid][page] = TRUE]
    BY <1>2 DEF WriteByte
  <2> DEFINE line == [Fetched(s, w, t) EXCEPT !.data[o] = b, !.dirty = TRUE]
  <2> HIDE DEF t, page
  <2>3. s \in Sets /\ w \in Ways /\ cache_sets \in [Sets -> [Ways -> Lines]]
        /\ Fetched(s, w, t).tag = t /\ pte_dirty \in [Pids -> [LPs -> BOOLEAN]]
        /\ Fetched(s, w, t) \in Lines
    BY <2>1, <2>2, AccessOK DEF CacheInv, CacheTypeOK
  <2>4. line.tag = t
    BY <2>3 DEF Lines
  <2> HIDE DEF line, s
  <2>5. cache_sets' = [cache_sets EXCEPT ![s][w] = line]
    BY <2>2 DEF line
  <2>6. ASSUME NEW r \in Sets, NEW v \in Ways
        PROVE  cache_sets'[r][v] = IF r = s /\ v = w THEN line ELSE cache_sets[r][v]
    BY <2>3, <2>5
  <2>7. /\ pte_dirty'[pid][page]
        /\ \A p \in Pids, lp \in LPs : pte_dirty[p][lp] => pte_dirty'[p][lp]
    BY <2>1, <2>2, <2>3
  <2>8. ASSUME NEW r \in Sets, NEW v \in Ways, cache_sets'[r][v].valid, cache_sets'[r][v].dirty
        PROVE  \E p \in Pids, lp \in LPs :
                 pte_dirty'[p][lp] /\ page_table[p][lp] = cache_sets'[r][v].tag \div LINES_PER_PAGE
    <3>1. CASE r = s /\ v = w
      BY <2>1, <2>4, <2>6, <2>7, <3>1
    <3>2. CASE ~ (r = s /\ v = w)
      BY <2>6, <2>7, <2>8, <3>2 DEF DirtyLinesTracked
    <3> QED
      BY <3>1, <3>2
  <2> QED
    BY <2>8 DEF DirtyLinesTracked, LINES_PER_PAGE
<1> QED
  BY <1>1, <1>2

\* Nothing dirties a line and no entry of a dirty line goes.
LEMMA NoNewDirtTracked ==
  ASSUME DirtyLinesTracked, NoNewDirt, UNCHANGED <<page_table, pte_dirty>>
  PROVE  DirtyLinesTracked'
  BY DEF DirtyLinesTracked, NoNewDirt, DirtyLine, LINES_PER_PAGE

LEMMA FlushTracked ==
  ASSUME CacheInv, NEW pid, flushProcessCache(pid), DirtyLinesTracked
  PROVE  DirtyLinesTracked'
<1> DEFINE T == ProcessLines(pid)
<1>1. page_table' = page_table
  BY DEF flushProcessCache, vars
<1>2. cache_sets \in [Sets -> [Ways -> Lines]] /\ pte_dirty \in [Pids -> [LPs -> BOOLEAN]]
  BY DEF CacheInv, CacheTypeOK
<1>3. ASSUME NEW s \in Sets, NEW w \in Ways, DirtyLine(s, w)'
      PROVE  ~ Selected(s, w, T) /\ cache_sets'[s][w] = cache_sets[s][w]
  <2>1. cache_sets'[s][w] = IF Selected(s, w, T) THEN [cache_sets[s][w] EXCEPT !.dirty = FALSE]
                            ELSE cache_sets[s][w]
    BY DEF flushProcessCache
  <2>2. cache_sets[s][w] \in Lines
    BY <1>2
  <2> HIDE DEF T
  <2> QED
    BY <1>3, <2>1, <2>2 DEF DirtyLine, Lines
<1>4. ASSUME NEW p \in Pids, NEW lp \in LPs, pte_dirty[p][lp],
             p # pid \/ page_table[p][lp] = Unmapped
      PROVE  pte_dirty'[p][lp]
  BY <1>2, <1>4 DEF flushProcessCache
<1>5. ASSUME NEW s \in Sets, NEW w \in Ways, DirtyLine(s, w)'
      PROVE  \E p \in Pids, lp \in LPs :
               /\ pte_dirty'[p][lp]
               /\ page_table[p][lp] = cache_sets[s][w].tag \div LINES_PER_PAGE
  <2>1. DirtyLine(s, w) /\ cache_sets[s][w].tag \notin T
    BY <1>3, <1>5, SelectedAll DEF DirtyLine
  <2>2. PICK p \in Pids, lp \in LPs :
          /\ pte_dirty[p][lp]
          /\ page_table[p][lp] = cache_sets[s][w].tag \div LINES_PER_PAGE
    BY <2>1 DEF DirtyLinesTracked, DirtyLine
  <2>3. cache_sets[s][w].tag \in Nat
    BY <1>2, CacheSets DEF Lines
  <2>4. cache_sets[s][w].tag \in PageLines(page_table[p][lp])
    BY <2>2, <2>3, LinesOfPage
  <2>5. p = pid => page_table[p][lp] = Unmapped
    BY <2>1, <2>4 DEF ProcessLines
  <2> QED
    BY <1>4, <2>2, <2>5
<1> QED
  BY <1>1, <1>3, <1>5 DEF DirtyLinesTracked, DirtyLine, LINES_PER_PAGE

\* A page that is taken was free, so it leaves the cache as it is.
LEMMA TakeFree ==
  ASSUME PagedInv, NEW f \in Available, TakePage(f)
  PROVE  UNCHANGED <<cache_sets, sram>> /\ DirtyAfterEvict(f) = pte_dirty
  BY AvailableFree DEF TakePage, DirtyAfterEvict

LEMMA MallocTracked ==
  ASSUME CacheInv, StackInv, NEW f \in Frames, CachedMallocPage(f), DirtyLinesTracked
  PROVE  DirtyLinesTracked'
<1> DEFINE pid == call.pid
           page == call.start + call.i
<1>1. /\ pid \in Pids /\ page \in LPs
      /\ page_table' = [page_table EXCEPT ![pid][page] = f]
  BY MallocPageFacts DEF CachedMallocPage, StackInv
<1>2. page_table[pid][page] = Unmapped
  <2>1. ~ (page < call.start + call.i) /\ call.pc = "malloc"
    BY LoopTypes DEF CachedMallocPage, MallocPage, Idle
  <2> QED
    BY <1>1, <2>1 DEF StackInv, Stack, Mapped
<1>3. f \in Available
  BY DEF CachedMallocPage, MallocPage
<1>4. /\ cache_sets' = cache_sets
      /\ pte_dirty' = [pte_dirty EXCEPT ![pid][page] = FALSE]
  BY <1>3, TakeFree DEF CachedMallocPage, StackInv
<1>5. /\ cache_sets \in [Sets -> [Ways -> Lines]] /\ pte_dirty \in [Pids -> [LPs -> BOOLEAN]]
      /\ page_table \in [Pids -> [LPs -> Frames \cup {Unmapped}]]
  BY DEF CacheInv, CacheTypeOK, TypeOK, PageTables
<1> HIDE DEF page, pid
<1>6. ASSUME NEW p \in Pids, NEW lp \in LPs, page_table[p][lp] # Unmapped
      PROVE  page_table'[p][lp] = page_table[p][lp] /\ pte_dirty'[p][lp] = pte_dirty[p][lp]
  BY <1>1, <1>2, <1>4, <1>5, <1>6
<1>7. ASSUME NEW s \in Sets, NEW w \in Ways
      PROVE  cache_sets[s][w].tag \div LINES_PER_PAGE # Unmapped
  <2>1. cache_sets[s][w].tag \in Nat
    BY <1>5, CacheSets DEF Lines
  <2> QED
    BY <2>1, LinesPerPage, DivMod DEF Unmapped
<1>8. ASSUME NEW s \in Sets, NEW w \in Ways, DirtyLine(s, w)
      PROVE  \E p \in Pids, lp \in LPs :
               /\ pte_dirty'[p][lp]
               /\ page_table'[p][lp] = cache_sets[s][w].tag \div LINES_PER_PAGE
  <2>1. PICK p \in Pids, lp \in LPs :
          /\ pte_dirty[p][lp]
          /\ page_table[p][lp] = cache_sets[s][w].tag \div LINES_PER_PAGE
    BY <1>8 DEF DirtyLinesTracked, DirtyLine
  <2> QED
    BY <1>6, <1>7, <2>1
<1> QED
  BY <1>4, <1>8 DEF DirtyLinesTracked, DirtyLine, LINES_PER_PAGE

LEMMA UnmapTracked ==
  ASSUME CacheInv, CachedUnmapNext, DirtyLinesTracked
  PROVE  DirtyLinesTracked'
<1> DEFINE pid == call.pid
           page == call.start + call.j
           f == page_table[pid][page]
<1>1. /\ Unmap(pid, page) /\ DropPage(pid, page)
  BY DEF CachedUnmapNext, UnmapNext
<1>2. /\ cache_sets \in [Sets -> [Ways -> Lines]] /\ pte_dirty \in [Pids -> [LPs -> BOOLEAN]]
      /\ page_table \in [Pids -> [LPs -> Frames \cup {Unmapped}]]
  BY DEF CacheInv, CacheTypeOK, TypeOK, PageTables
<1>3. /\ page_table' = page_table \/ page_table' = [page_table EXCEPT ![pid][page] = Unmapped]
      /\ pte_dirty' = [pte_dirty EXCEPT ![pid][page] = FALSE]
  BY <1>1 DEF Unmap, DropPage
<1>4. NoNewDirt
  <2>1. CASE UNCHANGED cache_sets
    BY <2>1 DEF NoNewDirt, DirtyLine
  <2>2. CASE Invalidate(PageLines(f))
    BY <2>2, InvalidateLeaves
  <2> QED
    BY <1>1, <2>1, <2>2 DEF DropPage
<1>5. ASSUME NEW s \in Sets, NEW w \in Ways, DirtyLine(s, w)', pte_dirty[pid][page],
             f = cache_sets[s][w].tag \div LINES_PER_PAGE
      PROVE  FALSE
  <2>1. cache_sets'[s][w].tag = cache_sets[s][w].tag /\ cache_sets[s][w].tag \in Nat
    BY <1>2, <1>4, <1>5, CacheSets DEF NoNewDirt, Lines
  <2>2. f # Unmapped /\ cache_sets'[s][w].tag \in PageLines(f)
    <3>1. cache_sets[s][w].tag \div LINES_PER_PAGE \in Nat
      BY <2>1, LinesPerPage, DivMod
    <3>2. cache_sets[s][w].tag \in PageLines(cache_sets[s][w].tag \div LINES_PER_PAGE)
      BY <2>1, LinesOfPage
    <3> QED
      BY <1>5, <2>1, <3>1, <3>2 DEF Unmapped
  <2>3. Invalidate(PageLines(f))
    BY <1>1, <1>5, <2>2 DEF DropPage
  <2> QED
    BY <1>5, <2>2, <2>3, InvalidateLeaves
<1> HIDE DEF pid, page
<1>6. ASSUME NEW p \in Pids, NEW lp \in LPs, p # pid \/ lp # page
      PROVE  page_table'[p][lp] = page_table[p][lp] /\ pte_dirty'[p][lp] = pte_dirty[p][lp]
  BY <1>2, <1>3, <1>6
<1>7. ASSUME NEW s \in Sets, NEW w \in Ways, DirtyLine(s, w)'
      PROVE  \E p \in Pids, lp \in LPs :
               /\ pte_dirty'[p][lp]
               /\ page_table'[p][lp] = cache_sets'[s][w].tag \div LINES_PER_PAGE
  <2>1. DirtyLine(s, w) /\ cache_sets'[s][w].tag = cache_sets[s][w].tag
    BY <1>4, <1>7 DEF NoNewDirt
  <2>2. PICK p \in Pids, lp \in LPs :
          /\ pte_dirty[p][lp]
          /\ page_table[p][lp] = cache_sets[s][w].tag \div LINES_PER_PAGE
    BY <2>1 DEF DirtyLinesTracked, DirtyLine
  <2>3. p # pid \/ lp # page
    BY <1>5, <1>7, <2>2
  <2> QED
    BY <1>6, <2>1, <2>2, <2>3
<1> QED
  BY <1>7 DEF DirtyLinesTracked, DirtyLine, LINES_PER_PAGE

PagedCacheInv == CacheInv /\ StackInv

LEMMA PagedCacheInvAlways == PagedCacheSpec => []PagedCacheInv
<1>1. [PagedCacheNext]_allVars => [CacheNext]_allVars
  BY DEF CacheNext
<1>2. PagedCacheSpec => []CacheInv
  BY <1>1, CacheInvInit, CacheInvNext, PTL DEF PagedCacheSpec
<1>3. PagedCacheSpec => []StackInv
  <2>1. CacheInit => Init
    BY DEF CacheInit
  <2> QED
    BY <2>1, CacheImplementsTable, StackInvAlways, PTL DEF PagedCacheSpec, PagedSpec
<1> QED
  BY <1>2, <1>3, PTL DEF PagedCacheInv

LEMMA TrackedNext ==
  PagedCacheInv /\ DirtyLinesTracked /\ [PagedCacheNext]_allVars => DirtyLinesTracked'
<1> SUFFICES ASSUME PagedCacheInv, DirtyLinesTracked, [PagedCacheNext]_allVars
             PROVE  DirtyLinesTracked'
  OBVIOUS
<1>0. CacheInv /\ StackInv /\ Addrs \subseteq Nat
  BY ConstantsOK DEF PagedCacheInv, Addrs
<1>a. call.old + call.j \in Nat /\ call.new + call.j \in Nat
  BY <1>0 DEF CacheInv, TypeOK, Calls
<1>1. ASSUME NEW pid, NEW addr \in Addrs, cacheReadByte(pid, addr) PROVE DirtyLinesTracked'
  BY <1>0, <1>1, ReadDirt, NoNewDirtTracked DEF cacheReadByte, vars
<1>2. ASSUME NEW pid, NEW addr \in Addrs, NEW b, cacheWriteByte(pid, addr, b)
      PROVE  DirtyLinesTracked'
  BY <1>0, <1>2, WriteDirt DEF cacheWriteByte, vars
<1>3. ASSUME NEW T, Invalidate(T), UNCHANGED <<page_table, pte_dirty>> PROVE DirtyLinesTracked'
  BY <1>0, <1>3, InvalidateLeaves, NoNewDirtTracked
<1>4. CASE LineCall
  <2>1. ASSUME flushCache \/ invalidateAll PROVE DirtyLinesTracked'
    <3>1. cache_sets' = [s \in Sets |-> [w \in Ways |-> InvalidLine]]
      BY <2>1 DEF flushCache, invalidateAll
    <3> QED
      BY <3>1, InvalidLineOK DEF DirtyLinesTracked
  <2> QED
    BY <1>0, <1>3, <1>4, <2>1, FlushTracked
    DEF LineCall, invalidateLine, invalidateProcessCache, vars
<1>5. CASE UNCHANGED <<cache_sets, page_table, pte_dirty>>
  BY <1>5 DEF DirtyLinesTracked, LINES_PER_PAGE
<1>6. CASE CachedPagedCall
  BY <1>5, <1>6, PagedCallTables DEF CachedPagedCall, cacheVars
<1>7. CASE CachedStep
  <2>1. CASE CopyRead
    BY <1>0, <1>a, <2>1, ReadDirt, NoNewDirtTracked DEF CopyRead, vars
  <2>2. CASE CopyWrite
    BY <1>0, <1>a, <2>2, WriteDirt DEF CopyWrite, CopyByte
  <2>3. CASE (MallocOutOfFrames \/ MallocReturns \/ UnmapReturns \/ CopyReturns)
             /\ UNCHANGED cacheVars
    BY <1>5, <2>3
    DEF MallocOutOfFrames, MallocReturns, UnmapReturns, CopyReturns, EnterFree, cacheVars
  <2> QED
    BY <1>0, <1>7, <2>1, <2>2, <2>3, MallocTracked, UnmapTracked DEF CachedStep
<1> QED
  BY <1>1, <1>2, <1>4, <1>5, <1>6, <1>7
  DEF PagedCacheNext, ByteCall, allVars, vars, cacheVars

\* A dirty line is always in a page that a dirty entry maps, so unmapPage, which
\* looks at the dirty bit of the entry only, leaves no dirty line of a page it
\* unmaps (PageCache.cpp:290, 599-625).
THEOREM DirtyLinesTrackedAlways == PagedCacheSpec => []DirtyLinesTracked
<1>1. CacheInit => DirtyLinesTracked
  BY InvalidLineOK DEF CacheInit, DirtyLinesTracked
<1> QED
  BY <1>1, TrackedNext, PagedCacheInvAlways, PTL DEF PagedCacheSpec

-----------------------------------------------------------------------------
(***************************************************************************)
(* The bytes of the processes: each cell of each page has a byte of the    *)
(* SRAM of its own.                                                        *)
(***************************************************************************)

PageOffsets == 0 .. PAGE_SIZE - 1

\* Byte o of a page of a process.
Cell(p, lp, o) == IF page_table[p][lp] = Unmapped THEN 0 ELSE FrameByte(page_table[p][lp], o)

\* A byte of the SRAM is one byte of one page.
LEMMA ByteOnce ==
  ASSUME NEW f \in Nat, NEW g \in Nat, NEW o \in PageOffsets, NEW q \in PageOffsets,
         (f * PAGE_SIZE + o) \div CACHE_LINE_SIZE = (g * PAGE_SIZE + q) \div CACHE_LINE_SIZE,
         (f * PAGE_SIZE + o) % CACHE_LINE_SIZE = (g * PAGE_SIZE + q) % CACHE_LINE_SIZE
  PROVE  f = g /\ o = q
<1> DEFINE a == f * PAGE_SIZE + o
           b == g * PAGE_SIZE + q
<1>1. a \in Nat /\ b \in Nat
  BY ConstantsOK DEF PageOffsets
<1>2. a = PAGE_SIZE * f + o /\ b = PAGE_SIZE * g + q
  BY ConstantsOK DEF PageOffsets
<1>3. a \div PAGE_SIZE = f /\ a % PAGE_SIZE = o /\ b \div PAGE_SIZE = g /\ b % PAGE_SIZE = q
  BY <1>2, DivModUnique, ConstantsOK DEF PageOffsets
<1>4. a \div CACHE_LINE_SIZE = b \div CACHE_LINE_SIZE /\ a % CACHE_LINE_SIZE = b % CACHE_LINE_SIZE
  OBVIOUS
<1>5. a = b
  <2> HIDE DEF a, b
  <2> QED
    <3> DEFINE n == CACHE_LINE_SIZE
    <3>1. n \in Nat \ {0}
      BY CacheConstantsOK
    <3> HIDE DEF n
    <3>2. a = n * (a \div n) + (a % n) /\ b = n * (b \div n) + (b % n)
      BY <1>1, <3>1, DivMod
    <3>3. a \div n = b \div n /\ a % n = b % n
      BY <1>4 DEF n
    <3> QED
      BY <3>2, <3>3
<1> QED
  BY <1>3, <1>5

\* Where the address of a cell leads.
LEMMA CellAddress ==
  ASSUME NEW lp \in LPs, NEW o \in PageOffsets
  PROVE  LogicalPage(lp * PAGE_SIZE + o) = lp /\ (lp * PAGE_SIZE + o) % PAGE_SIZE = o
<1>1. lp * PAGE_SIZE + o = PAGE_SIZE * lp + o /\ lp \in Nat /\ lp < PAGE_NUMBERS
  BY ConstantsOK, CacheConstantsOK DEF LPs, PageOffsets
<1>2. (lp * PAGE_SIZE + o) \div PAGE_SIZE = lp /\ (lp * PAGE_SIZE + o) % PAGE_SIZE = o
  BY <1>1, DivModUnique, ConstantsOK DEF PageOffsets
<1>3. lp % PAGE_NUMBERS = lp
  BY <1>1, ConstantsOK
<1> QED
  BY <1>2, <1>3 DEF LogicalPage

\* What a read is to return, cell by cell.
LEMMA ByteAtCell ==
  ASSUME NEW p \in Pids, NEW addr
  PROVE  ByteAt(p, addr) =
           IF LogicalPage(addr) \in LPs THEN Cell(p, LogicalPage(addr), addr % PAGE_SIZE) ELSE 0
  BY DEF ByteAt, IsMapped, FrameByte, Cell

Cells == [p \in Pids |-> [lp \in LPs |-> [o \in PageOffsets |-> Cell(p, lp, o)]]]

LEMMA SpaceCells == Space = Cells /\ Space' = Cells'
<1>1. Space = Cells
  <2>1. ASSUME NEW p \in Pids, NEW lp \in LPs PROVE Space[p][lp] = Cells[p][lp]
    BY DEF Space, Cells, Cell, PageOffsets
  <2> QED
    BY <2>1 DEF Space, Cells
<1>2. Space' = Cells'
  <2>1. ASSUME NEW p \in Pids, NEW lp \in LPs PROVE Space'[p][lp] = Cells'[p][lp]
    BY DEF Space, Cells, Cell, PageOffsets
  <2> QED
    BY <2>1 DEF Space, Cells
<1> QED
  BY <1>1, <1>2

\* A function of processes, pages and offsets.
Spatial(F) ==
  /\ F = [p \in Pids |-> F[p]]
  /\ \A p \in Pids : F[p] = [lp \in LPs |-> F[p][lp]]
  /\ \A p \in Pids, lp \in LPs : F[p][lp] = [o \in PageOffsets |-> F[p][lp][o]]

LEMMA CellsSpatial ==
  /\ Spatial(Cells) /\ Spatial(Cells')
  /\ \A p \in Pids, lp \in LPs, o \in PageOffsets :
       Cells[p][lp][o] = Cell(p, lp, o) /\ Cells'[p][lp][o] = Cell(p, lp, o)'
  BY DEF Cells, Cell, FrameByte, Spatial

LEMMA PageReplaced ==
  ASSUME NEW F, NEW G, Spatial(F), Spatial(G), NEW pid \in Pids, NEW page \in LPs,
         \A p \in Pids, lp \in LPs, q \in PageOffsets :
           p # pid \/ lp # page => G[p][lp][q] = F[p][lp][q]
  PROVE  G = [F EXCEPT ![pid][page] = G[pid][page]]
<1>1. ASSUME NEW p \in Pids, NEW lp \in LPs, p # pid \/ lp # page
      PROVE  G[p][lp] = F[p][lp]
  <2> DEFINE g == G[p][lp]
             h == F[p][lp]
  <2>1. g = [o \in PageOffsets |-> g[o]] /\ h = [o \in PageOffsets |-> h[o]]
    BY DEF Spatial
  <2>2. \A o \in PageOffsets : g[o] = h[o]
    BY <1>1
  <2> HIDE DEF g, h
  <2>3. g = h
    BY <2>1, <2>2
  <2> QED
    BY <2>3 DEF g, h
<1>2. \A p \in Pids : p # pid => G[p] = F[p]
  BY <1>1 DEF Spatial
<1>3. G[pid] = [F[pid] EXCEPT ![page] = G[pid][page]]
  BY <1>1 DEF Spatial
<1>4. G = [F EXCEPT ![pid] = G[pid]]
  BY <1>2 DEF Spatial
<1> QED
  BY <1>3, <1>4

LEMMA CellWritten ==
  ASSUME NEW F, NEW G, Spatial(F), Spatial(G),
         NEW pid \in Pids, NEW page \in LPs, NEW o \in PageOffsets, NEW b,
         \A p \in Pids, lp \in LPs, q \in PageOffsets :
           G[p][lp][q] = IF p = pid /\ lp = page /\ q = o THEN b ELSE F[p][lp][q]
  PROVE  G = [F EXCEPT ![pid][page][o] = b]
<1>1. G = [F EXCEPT ![pid][page] = G[pid][page]]
  BY PageReplaced
<1>2. G[pid][page] = [F[pid][page] EXCEPT ![o] = b]
  <2> DEFINE g == G[pid][page]
             h == F[pid][page]
  <2>1. g = [q \in PageOffsets |-> g[q]] /\ h = [q \in PageOffsets |-> h[q]]
    BY DEF Spatial
  <2>2. \A q \in PageOffsets : g[q] = IF q = o THEN b ELSE h[q]
    OBVIOUS
  <2> HIDE DEF g, h
  <2>3. g = [h EXCEPT ![o] = b]
    BY <2>1, <2>2
  <2> QED
    BY <2>3 DEF g, h
<1> QED
  BY <1>1, <1>2

\* A write changes one byte of the SRAM.
LEMMA WriteSRAM ==
  ASSUME CacheInv, NEW pid, NEW addr \in Nat, NEW b, WriteByte(pid, addr, b), IsMapped(pid, addr)
  PROVE  sram' = [sram EXCEPT ![translateAddress(pid, addr) \div CACHE_LINE_SIZE]
                                [translateAddress(pid, addr) % CACHE_LINE_SIZE] = b]
<1> DEFINE t == translateAddress(pid, addr) \div CACHE_LINE_SIZE
<1>1. t \in Tags
  BY AddressOK DEF CacheInv
<1>2. PICK w \in WayFor(SetOf(t), t) :
        sram' = [MakeRoom(SetOf(t), w, t) EXCEPT
                   ![t][translateAddress(pid, addr) % CACHE_LINE_SIZE] = b]
  BY DEF WriteByte
<1>3. MakeRoom(SetOf(t), w, t) = sram
  BY <1>1, <1>2, AccessOK
<1> QED
  BY <1>2, <1>3

\* It is the one cell that is written.
LEMMA WriteCell ==
  ASSUME CacheInv, Isolation, NEW pid, NEW addr \in Nat, NEW b, WriteByte(pid, addr, b),
         IsMapped(pid, addr), page_table' = page_table,
         NEW p \in Pids, NEW lp \in LPs, NEW o \in PageOffsets
  PROVE  Cell(p, lp, o)' =
           IF p = pid /\ lp = LogicalPage(addr) /\ o = addr % PAGE_SIZE THEN b ELSE Cell(p, lp, o)
<1> DEFINE f == page_table[pid][LogicalPage(addr)]
           q == addr % PAGE_SIZE
           g == page_table[p][lp]
           T(x, y) == (x * PAGE_SIZE + y) \div CACHE_LINE_SIZE
           R(x, y) == (x * PAGE_SIZE + y) % CACHE_LINE_SIZE
<1>1. /\ f \in Frames /\ q \in PageOffsets /\ pid \in Pids /\ LogicalPage(addr) \in LPs
      /\ g \in Frames \cup {Unmapped} /\ Frames \subseteq Nat /\ f # Unmapped
  BY ConstantsOK DEF CacheInv, TypeOK, PageTables, IsMapped, Frames, PageOffsets
<1>2. sram' = [sram EXCEPT ![T(f, q)][R(f, q)] = b]
  BY WriteSRAM DEF translateAddress
<1>3. sram \in [Tags -> [Offsets -> Bytes]]
  BY DEF CacheInv, CacheTypeOK
<1>4. T(f, q) \in Tags /\ R(f, q) \in Offsets
  BY <1>1, PhysicalOK DEF PageOffsets
<1>5. CASE g = Unmapped
  <2>1. ~ (p = pid /\ lp = LogicalPage(addr))
    BY <1>1, <1>5
  <2> QED
    BY <1>5, <2>1 DEF Cell
<1>6. CASE g # Unmapped
  <2>1. g \in Frames /\ T(g, o) \in Tags /\ R(g, o) \in Offsets
    BY <1>1, <1>6, PhysicalOK DEF PageOffsets
  <2>2. g = f <=> p = pid /\ lp = LogicalPage(addr)
    BY <1>1 DEF Isolation
  <2>3. T(g, o) = T(f, q) /\ R(g, o) = R(f, q) <=> g = f /\ o = q
    <3>1. g \in Nat /\ f \in Nat
      BY <1>1, <2>1
    <3> HIDE DEF f, g, q
    <3>2. T(g, o) = T(f, q) /\ R(g, o) = R(f, q) => g = f /\ o = q
      BY <1>1, <3>1, ByteOnce
    <3> QED
      BY <3>2
  <2>4. Cell(p, lp, o)' = sram'[T(g, o)][R(g, o)] /\ Cell(p, lp, o) = sram[T(g, o)][R(g, o)]
    BY <1>6 DEF Cell, FrameByte
  <2> HIDE DEF T, R, f, g, q
  <2>5. sram'[T(g, o)][R(g, o)] =
          IF T(g, o) = T(f, q) /\ R(g, o) = R(f, q) THEN b ELSE sram[T(g, o)][R(g, o)]
    BY <1>2, <1>3, <1>4, <2>1
  <2> QED
    BY <2>2, <2>3, <2>4, <2>5 DEF q
<1> QED
  BY <1>5, <1>6

\* A cell holds a byte.
LEMMA CellOK ==
  ASSUME CacheInv, NEW p \in Pids, NEW lp \in LPs, NEW o \in PageOffsets
  PROVE  Cell(p, lp, o) \in Bytes
<1>1. page_table[p][lp] \in Frames \cup {Unmapped} /\ sram \in [Tags -> [Offsets -> Bytes]]
  BY DEF CacheInv, TypeOK, PageTables, CacheTypeOK
<1> QED
  BY <1>1, PhysicalOK, CacheConstantsOK DEF Cell, FrameByte, PageOffsets

-----------------------------------------------------------------------------
(***************************************************************************)
(* The paged memory implements ProcessMemory, step by step.                *)
(***************************************************************************)

MemoryVars == <<MappedPages, Space, out>>

LEMMA MemoryStutters ==
  ASSUME UNCHANGED <<page_table, sram, out>>
  PROVE  UNCHANGED MemoryVars
<1>1. MappedPages' = MappedPages
  BY DEF MappedPages
<1>2. Space' = Space
  BY DEF Space, FrameByte
<1> QED
  BY <1>1, <1>2 DEF MemoryVars

\* The place a byte is at has the page and the offset of every address of it.
LEMMA PlaceOK ==
  ASSUME NEW addr \in Nat, LogicalPage(addr) \in LPs
  PROVE  \E at \in Memory!Places :
           Memory!Page(at) = Memory!Page(addr) /\ Memory!Offset(at) = Memory!Offset(addr)
<1> DEFINE lp == LogicalPage(addr)
           o  == addr % PAGE_SIZE
<1>1. lp \in LPs /\ o \in PageOffsets
  BY ConstantsOK DEF PageOffsets
<1> HIDE DEF lp, o
<1>2. LogicalPage(lp * PAGE_SIZE + o) = lp /\ (lp * PAGE_SIZE + o) % PAGE_SIZE = o
  BY <1>1, CellAddress
<1>3. lp * PAGE_SIZE + o \in Memory!Places
  BY <1>1 DEF Memory!Places, Memory!LPs, LPs, PageOffsets
<1> QED
  BY <1>2, <1>3 DEF lp, o, Memory!Page, Memory!Offset, LogicalPage

\* The byte of a process in ProcessMemory is the one its read is to return.
LEMMA MemoryByte ==
  ASSUME NEW pid, NEW addr \in Nat
  PROVE  /\ <<pid, Memory!Page(addr)>> \in MappedPages <=> IsMapped(pid, addr)
         /\ Memory!Byte(pid, addr) = ByteAt(pid, addr)
<1>1. Memory!Page(addr) = LogicalPage(addr) /\ Memory!Offset(addr) = addr % PAGE_SIZE
  BY DEF Memory!Page, Memory!Offset, LogicalPage
<1>2. <<pid, LogicalPage(addr)>> \in MappedPages <=> IsMapped(pid, addr)
  BY DEF MappedPages, IsMapped
<1>3. ASSUME IsMapped(pid, addr)
      PROVE  Space[pid][LogicalPage(addr)][addr % PAGE_SIZE] = ByteAt(pid, addr)
  <2>1. pid \in Pids /\ LogicalPage(addr) \in LPs /\ addr % PAGE_SIZE \in PageOffsets
    BY <1>3, ConstantsOK DEF IsMapped, PageOffsets
  <2> QED
    BY <2>1, ByteAtCell, SpaceCells, CellsSpatial
<1> QED
  BY <1>1, <1>2, <1>3 DEF Memory!Byte, ByteAt

LEMMA MemoryReads ==
  ASSUME CacheInv, NEW pid, NEW addr \in Nat, ReadByte(pid, addr), page_table' = page_table
  PROVE  Memory!Read(pid, addr)
<1>1. out' = ByteAt(pid, addr) /\ sram' = sram
  BY ReadOK
<1>2. MappedPages' = MappedPages /\ Space' = Space
  BY <1>1 DEF MappedPages, Space, FrameByte
<1> QED
  BY <1>1, <1>2, MemoryByte DEF Memory!Read

LEMMA MemoryReadNext ==
  ASSUME NEW pid, NEW addr \in Nat, Memory!Read(pid, addr)
  PROVE  Memory!Next
<1>1. CASE ~ IsMapped(pid, addr)
  BY <1>1, MemoryByte DEF ByteAt, Memory!Read, Memory!Next, Memory!ReadFault
<1>2. CASE IsMapped(pid, addr)
  <2>1. pid \in Memory!Pids /\ LogicalPage(addr) \in LPs
    BY <1>2 DEF IsMapped, Memory!Pids, Pids
  <2>2. PICK at \in Memory!Places :
          Memory!Page(at) = Memory!Page(addr) /\ Memory!Offset(at) = Memory!Offset(addr)
    BY <2>1, PlaceOK
  <2>3. Memory!Read(pid, at)
    BY <2>2 DEF Memory!Read, Memory!Byte
  <2> QED
    BY <2>1, <2>3 DEF Memory!Next
<1> QED
  BY <1>1, <1>2

LEMMA MemoryWrites ==
  ASSUME CacheInv, Isolation, NEW pid, NEW addr \in Nat, NEW b \in Bytes,
         WriteByte(pid, addr, b), UNCHANGED <<page_table, out>>
  PROVE  Memory!Write(pid, addr, b)
<1>1. CASE ~ IsMapped(pid, addr)
  <2>1. UNCHANGED MemoryVars
    BY <1>1, MemoryStutters DEF WriteByte
  <2> QED
    BY <1>1, <2>1, MemoryByte DEF Memory!Write, MemoryVars
<1>2. CASE IsMapped(pid, addr)
  <2> DEFINE lp == LogicalPage(addr)
             o == addr % PAGE_SIZE
  <2>1. pid \in Pids /\ lp \in LPs /\ o \in PageOffsets
    BY <1>2, ConstantsOK DEF IsMapped, PageOffsets
  <2>2. ASSUME NEW p \in Pids, NEW l \in LPs, NEW q \in PageOffsets
        PROVE  Cell(p, l, q)' = IF p = pid /\ l = lp /\ q = o THEN b ELSE Cell(p, l, q)
    BY <1>2, WriteCell
  <2>0. Memory!Page(addr) = lp /\ Memory!Offset(addr) = o
    BY DEF Memory!Page, Memory!Offset, LogicalPage
  <2>4. <<pid, Memory!Page(addr)>> \in MappedPages
    BY <1>2, MemoryByte
  <2> HIDE DEF lp, o
  <2>3. Cells' = [Cells EXCEPT ![pid][lp][o] = b]
    <3>1. \A p \in Pids, l \in LPs, q \in PageOffsets :
            Cells'[p][l][q] = IF p = pid /\ l = lp /\ q = o THEN b ELSE Cells[p][l][q]
      BY <2>2, CellsSpatial
    <3> QED
      BY <2>1, <3>1, CellsSpatial, CellWritten
  <2>5. MappedPages' = MappedPages
    BY DEF MappedPages
  <2> QED
    BY <2>0, <2>3, <2>4, <2>5, SpaceCells DEF Memory!Write
<1> QED
  BY <1>1, <1>2

LEMMA MemoryWriteNext ==
  ASSUME NEW pid, NEW addr \in Nat, NEW b \in Bytes, Memory!Write(pid, addr, b)
  PROVE  Memory!Next \/ UNCHANGED MemoryVars
<1>1. CASE ~ IsMapped(pid, addr)
  BY <1>1, MemoryByte DEF Memory!Write, MemoryVars
<1>2. CASE IsMapped(pid, addr)
  <2>1. pid \in Memory!Pids /\ LogicalPage(addr) \in LPs
    BY <1>2 DEF IsMapped, Memory!Pids, Pids
  <2>2. PICK at \in Memory!Places :
          Memory!Page(at) = Memory!Page(addr) /\ Memory!Offset(at) = Memory!Offset(addr)
    BY <2>1, PlaceOK
  <2>3. Memory!Write(pid, at, b)
    BY <2>2 DEF Memory!Write
  <2> QED
    BY <2>1, <2>3 DEF Memory!Next
<1> QED
  BY <1>1, <1>2

\* One entry of one page table changes from or to Unmapped.
LEMMA MappedPagesMove ==
  ASSUME TypeOK, NEW pid \in Pids, NEW lp \in LPs, NEW f,
         page_table' = [page_table EXCEPT ![pid][lp] = f]
  PROVE  MappedPages' = IF f = Unmapped THEN MappedPages \ {<<pid, lp>>}
                        ELSE MappedPages \cup {<<pid, lp>>}
<1>1. page_table \in [Pids -> [LPs -> Frames \cup {Unmapped}]]
  BY DEF TypeOK, PageTables
<1>2. ASSUME NEW p \in Pids, NEW l \in LPs
      PROVE  page_table'[p][l] = IF p = pid /\ l = lp THEN f ELSE page_table[p][l]
  BY <1>1
<1>3. ASSUME NEW x \in Pids \X LPs
      PROVE  page_table'[x[1]][x[2]] = IF x = <<pid, lp>> THEN f ELSE page_table[x[1]][x[2]]
  BY <1>2
<1> QED
  BY <1>3 DEF MappedPages

LEMMA MemoryMaps ==
  ASSUME CacheInv, CacheInv', StackInv, NEW f \in Frames, CachedMallocPage(f)
  PROVE  Memory!Next
<1>1. PICK pid \in Pids, page \in LPs :
        /\ pid = call.pid /\ page = call.start + call.i
        /\ page_table' = [page_table EXCEPT ![pid][page] = f]
  BY MallocPageFacts DEF CachedMallocPage, StackInv
<1>2. page_table[pid][page] = Unmapped /\ f # Unmapped
  <2>1. ~ (page < call.start + call.i) /\ call.pc = "malloc"
    BY <1>1, LoopTypes DEF CachedMallocPage, MallocPage, Idle
  <2> QED
    BY <1>1, <2>1, ConstantsOK DEF StackInv, Stack, Mapped, Frames, Unmapped
<1>3. f \in Available
  BY DEF CachedMallocPage, MallocPage
<1>4. sram' = sram /\ out' = out
  BY <1>3, TakeFree DEF CachedMallocPage, StackInv
<1>5. page_table \in [Pids -> [LPs -> Frames \cup {Unmapped}]]
  BY DEF CacheInv, TypeOK, PageTables
<1>6. MappedPages' = MappedPages \cup {<<pid, page>>} /\ <<pid, page>> \notin MappedPages
  BY <1>1, <1>2, MappedPagesMove DEF CacheInv, MappedPages
<1>7. Cells'[pid][page] \in [PageOffsets -> Bytes]
  <2>1. ASSUME NEW o \in PageOffsets PROVE Cell(pid, page, o)' \in Bytes
    <3>1. page_table'[pid][page] = f /\ sram' \in [Tags -> [Offsets -> Bytes]]
      BY <1>1, <1>5 DEF CacheInv, CacheTypeOK
    <3>2. /\ (f * PAGE_SIZE + o) \div CACHE_LINE_SIZE \in Tags
          /\ (f * PAGE_SIZE + o) % CACHE_LINE_SIZE \in Offsets
      BY PhysicalOK DEF PageOffsets
    <3> QED
      BY <1>2, <3>1, <3>2 DEF Cell, FrameByte
  <2>2. \A o \in PageOffsets : Cells'[pid][page][o] \in Bytes
    BY <2>1, CellsSpatial
  <2> DEFINE c == Cells'[pid][page]
  <2>3. c = [o \in PageOffsets |-> c[o]]
    BY CellsSpatial DEF Spatial
  <2> HIDE DEF c
  <2>4. (\A o \in PageOffsets : c[o] \in Bytes) => c \in [PageOffsets -> Bytes]
    BY <2>3
  <2> QED
    BY <2>2, <2>4 DEF c
<1>8. ASSUME NEW p \in Pids, NEW l \in LPs, p # pid \/ l # page, NEW o \in PageOffsets
      PROVE  Cell(p, l, o)' = Cell(p, l, o)
  <2>1. page_table'[p][l] = page_table[p][l]
    BY <1>1, <1>5, <1>8
  <2> QED
    BY <1>4, <2>1 DEF Cell, FrameByte
<1>9. Cells' = [Cells EXCEPT ![pid][page] = Cells'[pid][page]]
  <2>1. \A p \in Pids, l \in LPs, o \in PageOffsets :
          p # pid \/ l # page => Cells'[p][l][o] = Cells[p][l][o]
    BY <1>8, CellsSpatial
  <2> QED
    BY <2>1, CellsSpatial, PageReplaced
<1>10. Memory!Map(pid, page)
  BY <1>4, <1>6, <1>7, <1>9, SpaceCells DEF Memory!Map, Memory!Content, PageOffsets
<1> QED
  BY <1>10 DEF Memory!Next, Memory!Pids, Memory!LPs, Pids, LPs

LEMMA MemoryUnmaps ==
  ASSUME CacheInv, CachedUnmapNext
  PROVE  Memory!Next \/ UNCHANGED MemoryVars
<1> DEFINE pid == call.pid
           page == call.start + call.j
<1>1. Unmap(pid, page) /\ DropPage(pid, page) /\ out' = out
  BY DEF CachedUnmapNext, UnmapNext
<1>2. sram' = sram
  BY <1>1, WrittenBackSame DEF DropPage, Invalidate
<1>3. page_table \in [Pids -> [LPs -> Frames \cup {Unmapped}]]
  BY DEF CacheInv, TypeOK, PageTables
<1>4. pid \in Pids /\ page \in LPs
  BY ConstantsOK DEF CachedUnmapNext, UnmapNext, CacheInv, TypeOK, Calls, LoopOK, LPs
<1> HIDE DEF pid, page
<1>5. CASE page_table[pid][page] = Unmapped
  BY <1>1, <1>2, <1>5, MemoryStutters DEF Unmap
<1>6. CASE page_table[pid][page] # Unmapped
  <2>1. page_table' = [page_table EXCEPT ![pid][page] = Unmapped]
    BY <1>1, <1>6 DEF Unmap
  <2>2. MappedPages' = MappedPages \ {<<pid, page>>} /\ <<pid, page>> \in MappedPages
    BY <1>4, <1>6, <2>1, MappedPagesMove DEF CacheInv, MappedPages
  <2>3. ASSUME NEW p \in Pids, NEW l \in LPs, NEW o \in PageOffsets
        PROVE  Cell(p, l, o)' = IF p = pid /\ l = page THEN 0 ELSE Cell(p, l, o)
    <3>1. page_table'[p][l] = IF p = pid /\ l = page THEN Unmapped ELSE page_table[p][l]
      BY <1>3, <1>4, <2>1
    <3> QED
      BY <1>2, <3>1 DEF Cell, FrameByte
  <2>4. Cells' = [Cells EXCEPT ![pid][page] = Memory!Zero]
    <3>1. \A p \in Pids, l \in LPs, o \in PageOffsets :
            Cells'[p][l][o] = IF p = pid /\ l = page THEN 0 ELSE Cells[p][l][o]
      BY <2>3, CellsSpatial
    <3>2. Cells'[pid][page] = Memory!Zero
      BY <1>4, <3>1, CellsSpatial DEF Spatial, Memory!Zero, PageOffsets
    <3>3. Cells' = [Cells EXCEPT ![pid][page] = Cells'[pid][page]]
      BY <1>4, <3>1, CellsSpatial, PageReplaced
    <3> QED
      BY <3>2, <3>3
  <2>5. Memory!Unmap(pid, page)
    BY <1>1, <2>2, <2>4, SpaceCells DEF Memory!Unmap
  <2> QED
    BY <1>4, <2>5 DEF Memory!Next, Memory!Pids, Memory!LPs, Pids, LPs
<1> QED
  BY <1>5, <1>6

\* Every access to a byte is the one ProcessMemory has for it.
LEMMA OwnByte ==
  ASSUME PagedCacheInv
  PROVE  /\ \A pid, addr : addr \in Addrs /\ cacheReadByte(pid, addr) => Memory!Read(pid, addr)
         /\ \A pid, addr, b : addr \in Addrs /\ b \in Bytes /\ cacheWriteByte(pid, addr, b) =>
              Memory!Write(pid, addr, b)
         /\ CopyRead => Memory!Read(call.pid, call.old + call.j)
         /\ CopyWrite => Memory!Write(call.pid, call.new + call.j, out)
         /\ AccessesOwnByte
<1>0. /\ CacheInv /\ Isolation /\ Addrs \subseteq Nat /\ out \in Bytes
      /\ call.old + call.j \in Nat /\ call.new + call.j \in Nat
  BY ConstantsOK
  DEF PagedCacheInv, StackInv, PagedInv, Addrs, CacheInv, CacheTypeOK, TypeOK, Calls
<1>1. ASSUME NEW pid, NEW addr \in Addrs, cacheReadByte(pid, addr)
      PROVE  Memory!Read(pid, addr)
  BY <1>0, <1>1, MemoryReads DEF cacheReadByte, vars
<1>2. ASSUME NEW pid, NEW addr \in Addrs, NEW b \in Bytes, cacheWriteByte(pid, addr, b)
      PROVE  Memory!Write(pid, addr, b)
  BY <1>0, <1>2, MemoryWrites DEF cacheWriteByte, vars
<1>3. ASSUME CopyRead PROVE Memory!Read(call.pid, call.old + call.j)
  BY <1>0, <1>3, MemoryReads DEF CopyRead, vars
<1>4. ASSUME CopyWrite PROVE Memory!Write(call.pid, call.new + call.j, out)
  BY <1>0, <1>4, MemoryWrites DEF CopyWrite, CopyByte
<1>5. ASSUME NEW pid, NEW addr, cacheReadByte(pid, addr), ~ IsMapped(pid, addr)
      PROVE  out' = 0
  BY <1>5 DEF cacheReadByte, ReadByte
<1>6. AccessesOwnByte
  BY <1>1, <1>2, <1>3, <1>4, <1>5 DEF AccessesOwnByte
<1> QED
  BY <1>1, <1>2, <1>3, <1>4, <1>6

LEMMA MemoryNext ==
  ASSUME PagedCacheInv, PagedCacheInv', [PagedCacheNext]_allVars
  PROVE  Memory!Next \/ UNCHANGED MemoryVars
<1>0. /\ CacheInv /\ CacheInv' /\ StackInv /\ Addrs \subseteq Nat /\ out \in Bytes
      /\ call.old + call.j \in Nat /\ call.new + call.j \in Nat
  BY ConstantsOK
  DEF PagedCacheInv, StackInv, PagedInv, Addrs, CacheInv, CacheTypeOK, TypeOK, Calls
<1>1. ASSUME NEW pid, NEW addr \in Addrs, cacheReadByte(pid, addr) PROVE Memory!Next
  BY <1>0, <1>1, OwnByte, MemoryReadNext
<1>2. ASSUME NEW pid, NEW addr \in Addrs, NEW b \in Bytes, cacheWriteByte(pid, addr, b)
      PROVE  Memory!Next \/ UNCHANGED MemoryVars
  BY <1>0, <1>2, OwnByte, MemoryWriteNext
<1>3. CASE LineCall
  <2>1. \A T : WrittenBack(T) = sram
    BY <1>0, WrittenBackSame
  <2>2. sram' = sram
    <3>1. \A t : invalidateLine(t) => sram' = sram
      BY <2>1 DEF invalidateLine, Invalidate
    <3>2. \A pid : invalidateProcessCache(pid) => sram' = sram
      BY <2>1 DEF invalidateProcessCache, Invalidate
    <3>3. \A pid : flushProcessCache(pid) => sram' = sram
      BY <2>1 DEF flushProcessCache
    <3>4. flushCache \/ invalidateAll => sram' = sram
      BY <2>1 DEF flushCache, invalidateAll
    <3> QED
      BY <1>3, <3>1, <3>2, <3>3, <3>4 DEF LineCall
  <2>3. UNCHANGED <<page_table, out>>
    BY <1>3
    DEF LineCall, invalidateLine, invalidateProcessCache, flushProcessCache, flushCache,
        invalidateAll, vars
  <2> QED
    BY <2>2, <2>3, MemoryStutters
<1>4. CASE CachedPagedCall
  BY <1>4, MemoryStutters, PagedCallTables DEF CachedPagedCall, cacheVars
<1>5. CASE CachedStep
  <2>1. CASE CopyRead
    BY <1>0, <2>1, OwnByte, MemoryReadNext
  <2>2. CASE CopyWrite
    BY <1>0, <2>2, OwnByte, MemoryWriteNext
  <2>3. CASE (MallocOutOfFrames \/ MallocReturns \/ UnmapReturns \/ CopyReturns)
             /\ UNCHANGED cacheVars
    BY <2>3, MemoryStutters
    DEF MallocOutOfFrames, MallocReturns, UnmapReturns, CopyReturns, EnterFree, cacheVars
  <2> QED
    BY <1>0, <1>5, <2>1, <2>2, <2>3, MemoryMaps, MemoryUnmaps DEF CachedStep
<1>6. CASE UNCHANGED allVars
  BY <1>6, MemoryStutters DEF allVars, vars, cacheVars
<1> QED
  BY <1>1, <1>2, <1>3, <1>4, <1>5, <1>6 DEF PagedCacheNext, ByteCall

LEMMA MemoryInit == CacheInit => Memory!Init
<1> SUFFICES ASSUME CacheInit PROVE Memory!Init
  OBVIOUS
<1>1. MappedPages = {}
  BY DEF CacheInit, Init, MappedPages
<1>2. Space = [p \in Pids |-> [lp \in LPs |-> [o \in PageOffsets |-> 0]]]
  BY SpaceCells DEF Cells, Cell, CacheInit, Init
<1> QED
  BY <1>1, <1>2
  DEF CacheInit, Memory!Init, Memory!Zero, Memory!Pids, Memory!LPs, Pids, LPs, PageOffsets

\* The allocator, the page tables, the cache and its replacement together are a
\* memory of its own for each process, for every geometry of pages and cache
\* (README.md:11-12, PageCache.cpp:356-464, 640-800).
THEOREM PrivateMemoryHolds == PagedCacheSpec => PrivateMemory
<1>1. PagedCacheInv /\ PagedCacheInv' /\ [PagedCacheNext]_allVars =>
        [Memory!Next]_MemoryVars /\ [AccessesOwnByte]_allVars
  BY MemoryNext, OwnByte
<1> QED
  BY <1>1, MemoryInit, PagedCacheInvAlways, PTL
  DEF PagedCacheSpec, PrivateMemory, Memory!Spec, MemoryVars

-----------------------------------------------------------------------------
(***************************************************************************)
(* The copy of pagedRealloc.                                               *)
(***************************************************************************)

\* The bytes of the table: an address below it is in the page it says.
SPACE_BYTES == MAX_PAGES_PER_PROC * PAGE_SIZE

LEMMA BelowSpace ==
  ASSUME NEW x \in Nat, x < SPACE_BYTES
  PROVE  LogicalPage(x) = x \div PAGE_SIZE /\ LogicalPage(x) \in LPs
<1>1. x \div PAGE_SIZE \in 0 .. MAX_PAGES_PER_PROC - 1
  BY DivLess, ConstantsOK DEF SPACE_BYTES
<1>2. \A y \in 0 .. MAX_PAGES_PER_PROC - 1 : y % PAGE_NUMBERS = y
  BY ConstantsOK, CacheConstantsOK
<1> QED
  BY <1>1, <1>2 DEF LogicalPage, LPs

\* The address of the page table that a leads to, and those behind it.
Base(a) == LogicalPage(a) * PAGE_SIZE + (a % PAGE_SIZE)

LEMMA BaseOK ==
  ASSUME NEW a \in Nat
  PROVE  Base(a) \in Nat /\ Base(a) < (LogicalPage(a) + 1) * PAGE_SIZE
<1>1. LogicalPage(a) \in Nat /\ a % PAGE_SIZE \in 0 .. PAGE_SIZE - 1
  BY LogicalPageNat, ConstantsOK
<1>2. (LogicalPage(a) + 1) * PAGE_SIZE = LogicalPage(a) * PAGE_SIZE + PAGE_SIZE
      /\ LogicalPage(a) * PAGE_SIZE \in Nat
  BY <1>1, ConstantsOK
<1> QED
  BY <1>1, <1>2, ConstantsOK DEF Base

LEMMA BasePlace ==
  ASSUME NEW a \in Nat, NEW k \in Nat
  PROVE  /\ LogicalPage(a + k) = LogicalPage(Base(a) + k)
         /\ (a + k) % PAGE_SIZE = (Base(a) + k) % PAGE_SIZE
<1> DEFINE n == PAGE_SIZE
           d == PAGE_NUMBERS
           q == a \div n
           r == a % n
           m == q \div d
           s == q % d
           y == Base(a) + k
           u == y \div n
           v == y % n
           g == u \div d
           h == u % d
<1>1. n \in Nat \ {0} /\ d \in Nat \ {0}
  BY ConstantsOK
<1>2. q \in Nat /\ r \in 0 .. n - 1 /\ a = n * q + r
  BY <1>1, DivMod
<1>3. m \in Nat /\ s \in 0 .. d - 1 /\ q = d * m + s
  BY <1>1, <1>2, DivMod
<1>4. y = s * n + r + k /\ y \in Nat
  <2>1. Base(a) = s * n + r
    BY DEF Base, LogicalPage
  <2>2. Base(a) \in Nat
    BY BaseOK
  <2> HIDE DEF s, n, r
  <2> QED
    BY <2>1, <2>2
<1>5. u \in Nat /\ v \in 0 .. n - 1 /\ y = n * u + v
  <2> HIDE DEF y, n
  <2> QED
    BY <1>1, <1>4, DivMod
<1>6. g \in Nat /\ h \in 0 .. d - 1 /\ u = d * g + h
  <2> HIDE DEF u, d
  <2> QED
    BY <1>1, <1>5, DivMod
<1>7. LogicalPage(a + k) = ((a + k) \div n) % d /\ LogicalPage(y) = h
  BY DEF LogicalPage
<1> HIDE DEF n, d, q, r, m, s, y, u, v, g, h
<1>8. a + k = n * (d * m + u) + v
  <2>1. n * q = n * (d * m) + n * s
    BY <1>1, <1>2, <1>3
  <2>2. n * (d * m + u) = n * (d * m) + n * u
    BY <1>1, <1>3, <1>5
  <2>3. n * (d * m) \in Nat /\ n * u \in Nat /\ n * s \in Nat /\ s * n = n * s
    BY <1>1, <1>3, <1>5
  <2> QED
    BY <1>2, <1>3, <1>4, <1>5, <2>1, <2>2, <2>3
<1>9. d * m + u \in Nat
  BY <1>1, <1>3, <1>5
<1>10. (a + k) \div n = d * m + u /\ (a + k) % n = v
  <2> DEFINE w == d * m + u
  <2>1. w \in Nat /\ a + k = n * w + v
    BY <1>8, <1>9
  <2> HIDE DEF w
  <2>2. (a + k) \div n = w /\ (a + k) % n = v
    BY <1>1, <1>5, <2>1, DivModUnique
  <2> QED
    BY <2>2 DEF w
<1>11. d * m + u = d * (m + g) + h
  BY <1>1, <1>3, <1>6
<1>12. (d * m + u) % d = h
  BY <1>1, <1>3, <1>6, <1>11, DivModUnique
<1> QED
  BY <1>7, <1>10, <1>12 DEF n, v, y

LEMMA ByteAtBase ==
  ASSUME NEW p \in Pids, NEW a \in Nat, NEW k \in Nat
  PROVE  /\ ByteAt(p, a + k) = ByteAt(p, Base(a) + k)
         /\ ByteAt(p, a + k)' = ByteAt(p, Base(a) + k)'
<1> DEFINE x == a + k
           y == Base(a) + k
<1>1. LogicalPage(x) = LogicalPage(y) /\ x % PAGE_SIZE = y % PAGE_SIZE
  BY BasePlace
<1> HIDE DEF x, y
<1>2. ByteAt(p, x) = ByteAt(p, y) /\ ByteAt(p, x)' = ByteAt(p, y)'
  BY <1>1 DEF ByteAt, IsMapped, FrameByte
<1> QED
  BY <1>2 DEF x, y

\* A byte that is written below the end of the table is the one that changes.
LEMMA WriteByteAt ==
  ASSUME CacheInv, Isolation, NEW pid \in Pids, NEW addr \in Nat, addr < SPACE_BYTES, NEW b,
         WriteByte(pid, addr, b), IsMapped(pid, addr), page_table' = page_table,
         NEW x \in Nat, x < SPACE_BYTES
  PROVE  ByteAt(pid, x)' = IF x = addr THEN b ELSE ByteAt(pid, x)
<1> DEFINE lp == LogicalPage(x)
           o == x % PAGE_SIZE
<1>1. lp \in LPs /\ o \in PageOffsets
  BY BelowSpace, ConstantsOK DEF PageOffsets
<1>2. ByteAt(pid, x) = Cell(pid, lp, o) /\ ByteAt(pid, x)' = Cell(pid, lp, o)'
  BY <1>1 DEF ByteAt, IsMapped, FrameByte, Cell
<1>3. lp = LogicalPage(addr) /\ o = addr % PAGE_SIZE => x = addr
  <2> DEFINE n == PAGE_SIZE
  <2>1. n \in Nat \ {0} /\ lp = x \div n /\ LogicalPage(addr) = addr \div n
    BY BelowSpace, ConstantsOK
  <2> HIDE DEF n
  <2>2. x = n * (x \div n) + (x % n) /\ addr = n * (addr \div n) + (addr % n)
    BY <2>1, DivMod
  <2> QED
    BY <2>1, <2>2 DEF n
<1>4. Cell(pid, lp, o)' =
        IF pid = pid /\ lp = LogicalPage(addr) /\ o = addr % PAGE_SIZE THEN b ELSE Cell(pid, lp, o)
  <2> HIDE DEF lp, o
  <2> QED
    BY <1>1, WriteCell
<1> QED
  BY <1>2, <1>3, <1>4

\* A block of PagesNeeded(size) pages holds size bytes.
LEMMA NeededHolds ==
  ASSUME NEW size \in Nat
  PROVE  size <= PagesNeeded(size) * PAGE_SIZE
<1> DEFINE n == PAGE_SIZE
           a == size + n - 1
           q == a \div n
           r == a % n
<1>1. n \in Nat \ {0}
  BY ConstantsOK
<1>2. a \in Nat
  BY <1>1
<1>3. PagesNeeded(size) = q
  BY DEF PagesNeeded
<1>4. q \in Nat /\ r \in 0 .. n - 1 /\ a = n * q + r
  <2> HIDE DEF a, n
  <2> QED
    BY <1>1, <1>2, DivMod
<1> HIDE DEF q, r
<1>5. n * q \in Nat /\ q * n = n * q
  BY <1>1, <1>4
<1>6. size <= q * n
  <2>1. a = size + n - 1
    OBVIOUS
  <2> HIDE DEF a, n
  <2> QED
    BY <1>1, <1>4, <1>5, <2>1
<1> QED
  BY <1>3, <1>6

\* What pagedRealloc copies goes from the block at old to a block behind it that
\* is long enough, and a byte that was read has yet to be written.
Moves ==
  /\ call.op = "pagedRealloc" /\ call.pc \in {"malloc", "copy"} =>
       /\ call.len <= call.n * PAGE_SIZE
       /\ LogicalPage(call.old) < call.start
  /\ call.pc = "copy" => call.op = "pagedRealloc" /\ call.new = call.start * PAGE_SIZE
  /\ copying => /\ call.pc = "copy" /\ call.j < call.len
                /\ out = ByteAt(call.pid, call.old + call.j)

CopyInv == Moves /\ ReallocCopies

\* Where the call is after it has entered the allocator.
LEMMA EnterMallocAt ==
  ASSUME NEW op, NEW pid, NEW size, NEW old, NEW len, EnterMalloc(op, pid, size, old, len)
  PROVE  call'.pc \in {"idle", "malloc"} /\ call'.op \in {"none", op}
  BY DEF EnterMalloc, Return, NoCall

LEMMA EnterFreeAt ==
  ASSUME NEW op, NEW pid, NEW addr, NEW new, EnterFree(op, pid, addr, new)
  PROVE  call'.pc \in {"idle", "free"}
<1>1. CASE Return(op, pid, new)
  BY <1>1 DEF Return, NoCall
<1>2. ASSUME NEW c,
             call' = [NoCall EXCEPT !.pc = "free", !.op = op, !.pid = pid,
                        !.start = LogicalPage(addr), !.i = c, !.new = new]
      PROVE  call'.pc = "free"
  BY <1>2 DEF NoCall
<1> QED
  BY <1>1, <1>2 DEF EnterFree

\* pagedRealloc has found a longer block behind the old one.
LEMMA MovesEnter ==
  ASSUME StackInv, StackInv', NEW pid \in Pids, NEW old \in Addrs, NEW size \in Sizes,
         pagedRealloc(pid, old, size), call'.op = "pagedRealloc", call'.pc = "malloc"
  PROVE  call'.len <= call'.n * PAGE_SIZE /\ LogicalPage(call'.old) < call'.start
<1>1. size \in Nat
  BY ConstantsOK DEF Sizes
<1>2. PICK c \in MappedRun(pid, LogicalPage(old)) :
        ~ (size <= c * PAGE_SIZE) /\ EnterMalloc("pagedRealloc", pid, size, old, c * PAGE_SIZE)
  <2>1. \A n : Return("pagedRealloc", pid, n) => call'.pc # "malloc"
    BY DEF Return, NoCall
  <2> QED
    BY <2>1, EnterMallocAt, EnterFreeAt DEF pagedRealloc
<1>3. call'.len = c * PAGE_SIZE /\ call'.old = old /\ call'.n = PagesNeeded(size)
  BY <1>2 DEF EnterMalloc, Return, NoCall
<1>4. c \in Nat \ {0} /\ c * PAGE_SIZE \in Nat
  BY ConstantsOK DEF MappedRun
<1>5. PagesNeeded(size) \in Nat /\ PagesNeeded(size) * PAGE_SIZE \in Nat
  BY <1>1, PagesNeededNat, ConstantsOK
<1>6. call'.len <= call'.n * PAGE_SIZE
  BY <1>1, <1>2, <1>3, <1>4, <1>5, NeededHolds
<1>7. call'.len \div PAGE_SIZE = c
  <2>1. c * PAGE_SIZE = PAGE_SIZE * c + 0 /\ 0 \in 0 .. PAGE_SIZE - 1
    BY <1>4, ConstantsOK
  <2> QED
    BY <1>3, <1>4, <2>1, DivModUnique, ConstantsOK
<1>8. LogicalPage(old) + 0 < call'.start
  BY <1>3, <1>4, <1>7 DEF StackInv, Stack, OldBelow, LogicalPage
<1>9. LogicalPage(old) \in Nat
  BY LogicalPageNat, ConstantsOK DEF Addrs
<1> QED
  BY <1>3, <1>6, <1>8, <1>9

\* The addresses of the copy in progress.
LEMMA CopyPlace ==
  ASSUME CacheInv, StackInv, Moves, call.pc = "copy"
  PROVE  /\ call.pid \in Pids /\ call.old \in Nat /\ call.new \in Nat /\ call.j \in Nat
         /\ call.len \in Nat
         /\ Base(call.old) \in Nat /\ Base(call.old) < call.new
         /\ call.new + call.len <= SPACE_BYTES
         /\ \A k \in 0 .. call.len - 1 : IsMapped(call.pid, call.new + k)
<1> DEFINE s == call.start
           m == LogicalPage(call.old)
<1>1. /\ call.pid \in Pids /\ call.old \in Nat /\ call.new \in Nat /\ call.j \in Nat
      /\ call.len \in Nat /\ s \in Nat /\ call.n \in Nat /\ s + call.n <= MAX_PAGES_PER_PROC
      /\ call.len <= call.n * PAGE_SIZE /\ m < s /\ call.new = s * PAGE_SIZE
  BY LoopTypes DEF Idle, CacheInv, TypeOK, Calls, Moves
<1>2. Base(call.old) \in Nat /\ Base(call.old) < (m + 1) * PAGE_SIZE /\ m \in Nat
  BY <1>1, BaseOK, LogicalPageNat
<1>3. \A x \in Nat, y \in Nat : x <= y => x * PAGE_SIZE <= y * PAGE_SIZE
  BY ConstantsOK
<1> HIDE DEF m, s
<1>4. (m + 1) * PAGE_SIZE <= s * PAGE_SIZE
  BY <1>1, <1>2, <1>3
<1>5. /\ (s + call.n) * PAGE_SIZE <= SPACE_BYTES
      /\ (s + call.n) * PAGE_SIZE = s * PAGE_SIZE + call.n * PAGE_SIZE
      /\ call.n * PAGE_SIZE \in Nat /\ SPACE_BYTES \in Nat /\ (m + 1) * PAGE_SIZE \in Nat
  BY <1>1, <1>2, <1>3, ConstantsOK DEF SPACE_BYTES
<1>6. call.new + call.len <= SPACE_BYTES /\ Base(call.old) < call.new
  BY <1>1, <1>2, <1>4, <1>5
<1>7. ASSUME NEW k \in 0 .. call.len - 1 PROVE IsMapped(call.pid, call.new + k)
  <2> DEFINE x == call.new + k
  <2>1. x \in Nat /\ x < SPACE_BYTES /\ x < (s + call.n) * PAGE_SIZE
    BY <1>1, <1>5, <1>6
  <2> HIDE DEF x
  <2>2. LogicalPage(x) = x \div PAGE_SIZE /\ LogicalPage(x) \in LPs
    BY <2>1, BelowSpace
  <2>3. x \div PAGE_SIZE \in 0 .. (s + call.n) - 1
    <3> DEFINE e == s + call.n
    <3>1. e \in Nat /\ x < e * PAGE_SIZE
      BY <1>1, <2>1
    <3> HIDE DEF e
    <3>2. x \div PAGE_SIZE \in 0 .. e - 1
      BY <2>1, <3>1, DivLess, ConstantsOK
    <3> QED
      BY <3>2 DEF e
  <2>4. LogicalPage(x) < s + call.n
    BY <1>1, <2>2, <2>3
  <2>5. Mapped(call.pid, LogicalPage(x))
    BY <2>2, <2>4 DEF StackInv, Stack, s
  <2> QED
    BY <1>1, <2>2, <2>5 DEF IsMapped, Mapped, x
<1> QED
  BY <1>1, <1>2, <1>6, <1>7

LEMMA CopyReads ==
  ASSUME CacheInv, CopyInv, CopyRead
  PROVE  CopyInv'
<1>1. call.old + call.j \in Nat
  BY DEF CacheInv, TypeOK, Calls
<1>2. /\ sram' = sram /\ page_table' = page_table /\ call' = call /\ copying'
      /\ out' = ByteAt(call.pid, call.old + call.j)
  BY <1>1, ReadOK DEF CopyRead, vars
<1>3. \A p, x : ByteAt(p, x)' = ByteAt(p, x)
  BY <1>2 DEF ByteAt, IsMapped, FrameByte
<1>4. out' = ByteAt(call.pid, call.old + call.j)'
  BY <1>2 DEF ByteAt, IsMapped, FrameByte
<1>5. ReallocCopies'
  BY <1>2 DEF CopyInv, ReallocCopies, ByteAt, IsMapped, FrameByte
<1> QED
  BY <1>2, <1>4, <1>5 DEF CopyInv, Moves, CopyRead

LEMMA CopyWrites ==
  ASSUME CacheInv, StackInv, CopyInv, CopyWrite
  PROVE  CopyInv'
<1>1. /\ call.pc = "copy" /\ call.j < call.len /\ out = ByteAt(call.pid, call.old + call.j)
      /\ call.op = "pagedRealloc"
  BY DEF CopyWrite, CopyInv, Moves
<1>2. PICK pid \in Pids, old \in Nat, new \in Nat, j \in Nat, len \in Nat :
        /\ pid = call.pid /\ old = call.old /\ new = call.new /\ j = call.j /\ len = call.len
        /\ Base(old) \in Nat /\ Base(old) < new /\ new + len <= SPACE_BYTES
        /\ IsMapped(pid, new + j)
  BY <1>1, CopyPlace DEF CopyInv
<1>3. /\ call' = [call EXCEPT !.j = j + 1] /\ call \in Calls /\ page_table' = page_table
      /\ WriteByte(pid, new + j, out) /\ ~ copying'
  BY <1>2 DEF CopyWrite, CopyByte, CacheInv, TypeOK
<1>4. /\ call'.pc = call.pc /\ call'.pid = pid /\ call'.old = old /\ call'.new = new
      /\ call'.j = j + 1 /\ call'.len = len /\ call'.op = call.op /\ call'.n = call.n
      /\ call'.start = call.start
  BY <1>2, <1>3 DEF Calls
<1>5. SPACE_BYTES \in Nat
  BY ConstantsOK DEF SPACE_BYTES
<1>6. PICK b : b = out
  OBVIOUS
<1>7. ASSUME NEW x \in Nat, x <= new + j
      PROVE  ByteAt(pid, x)' = IF x = new + j THEN b ELSE ByteAt(pid, x)
  <2> DEFINE a == new + j
  <2>1. a \in Nat /\ a < SPACE_BYTES /\ x < SPACE_BYTES /\ WriteByte(pid, a, b) /\ IsMapped(pid, a)
    BY <1>1, <1>2, <1>3, <1>5, <1>6, <1>7
  <2> HIDE DEF a
  <2>2. ByteAt(pid, x)' = IF x = a THEN b ELSE ByteAt(pid, x)
    BY <1>3, <2>1, WriteByteAt DEF StackInv, PagedInv
  <2> QED
    BY <2>2 DEF a
<1>8. ASSUME NEW k \in 0 .. j
      PROVE  ByteAt(pid, new + k)' = ByteAt(pid, old + k)'
  <2>1. ByteAt(pid, old + k)' = ByteAt(pid, Base(old) + k)'
    BY ByteAtBase
  <2>2. ByteAt(pid, old + k) = ByteAt(pid, Base(old) + k)
    BY ByteAtBase
  <2>3. ByteAt(pid, Base(old) + k)' = ByteAt(pid, Base(old) + k)
    <3> DEFINE x == Base(old) + k
    <3>1. x \in Nat /\ x < new + j
      BY <1>2
    <3> HIDE DEF x
    <3>2. ByteAt(pid, x)' = ByteAt(pid, x)
      BY <1>2, <1>7, <3>1
    <3> QED
      BY <3>2 DEF x
  <2>4. ByteAt(pid, new + k)' = IF k = j THEN b ELSE ByteAt(pid, new + k)
    <3> DEFINE x == new + k
    <3>1. x \in Nat /\ x <= new + j /\ (x = new + j <=> k = j)
      BY <1>2
    <3> HIDE DEF x
    <3>2. ByteAt(pid, x)' = IF k = j THEN b ELSE ByteAt(pid, x)
      BY <1>7, <3>1
    <3> QED
      BY <3>2 DEF x
  <2>5. b = ByteAt(pid, old + j)
    BY <1>1, <1>2, <1>6
  <2>6. k # j => ByteAt(pid, new + k) = ByteAt(pid, old + k)
    BY <1>1, <1>2 DEF CopyInv, ReallocCopies
  <2> QED
    BY <2>1, <2>2, <2>3, <2>4, <2>5, <2>6
<1>9. ReallocCopies'
  <2>1. \A k \in 0 .. call'.j - 1 : k \in 0 .. j
    BY <1>2, <1>4
  <2> QED
    BY <1>4, <1>8, <2>1 DEF ReallocCopies, ByteAt, IsMapped, FrameByte
<1> QED
  BY <1>1, <1>2, <1>3, <1>4, <1>9 DEF CopyInv, Moves

\* No copy begins, goes on or ends.
LEMMA CopyKept ==
  ASSUME CopyInv, call.pc # "copy", copying' = copying, call'.pc # "copy",
         call'.op = "pagedRealloc" /\ call'.pc = "malloc" =>
           call'.len <= call'.n * PAGE_SIZE /\ LogicalPage(call'.old) < call'.start
  PROVE  CopyInv'
<1>1. ~ copying /\ ~ copying'
  BY DEF CopyInv, Moves
<1> QED
  BY <1>1 DEF CopyInv, Moves, ReallocCopies, LogicalPage

LEMMA CopyNext ==
  ASSUME PagedCacheInv, PagedCacheInv', [PagedCacheNext]_allVars, CopyInv
  PROVE  CopyInv'
<1>0. CacheInv /\ StackInv /\ StackInv' /\ call \in Calls /\ call' \in Calls
  BY DEF PagedCacheInv, StackInv, PagedInv, TypeOK
<1>1. CASE Idle /\ UNCHANGED <<call, copying>>
  BY <1>1, CopyKept DEF Idle
<1>2. CASE CachedPagedCall
  <2>1. Idle /\ copying' = copying /\ PagedCall
    BY <1>2 DEF CachedPagedCall, MayCall, cacheVars
  <2>2. ASSUME NEW pid, NEW size, pagedMalloc(pid, size) PROVE CopyInv'
    <3>1. call'.pc \in {"idle", "malloc"} /\ call'.op # "pagedRealloc"
      BY <2>2, EnterMallocAt DEF pagedMalloc
    <3> QED
      BY <2>1, <3>1, CopyKept DEF Idle
  <2>3. ASSUME NEW pid, NEW addr, pagedFree(pid, addr) PROVE CopyInv'
    <3>1. call'.pc \in {"idle", "free"}
      BY <2>3, EnterFreeAt DEF pagedFree
    <3> QED
      BY <2>1, <3>1, CopyKept DEF Idle
  <2>4. ASSUME NEW pid \in Pids, NEW old \in Addrs, NEW size \in Sizes, pagedRealloc(pid, old, size)
        PROVE  CopyInv'
    <3>1. \A v : Return("pagedRealloc", pid, v) => call'.pc = "idle"
      BY DEF Return, NoCall
    <3>2. call'.pc # "copy"
      BY <2>4, <3>1, EnterMallocAt, EnterFreeAt DEF pagedRealloc
    <3>3. call'.op = "pagedRealloc" /\ call'.pc = "malloc" =>
            call'.len <= call'.n * PAGE_SIZE /\ LogicalPage(call'.old) < call'.start
      BY <1>0, <2>4, MovesEnter
    <3> QED
      BY <2>1, <3>2, <3>3, CopyKept DEF Idle
  <2> QED
    BY <2>1, <2>2, <2>3, <2>4 DEF PagedCall
<1>3. CASE CachedStep
  <2>1. ASSUME NEW f \in Frames, CachedMallocPage(f) PROVE CopyInv'
    <3>1. /\ call.pc = "malloc" /\ copying' = copying
          /\ call' = [call EXCEPT !.i = @ + 1]
      BY <2>1 DEF CachedMallocPage, MallocPage
    <3>2. /\ call'.pc = call.pc /\ call'.op = call.op /\ call'.len = call.len
          /\ call'.n = call.n /\ call'.old = call.old /\ call'.start = call.start
      BY <1>0, <3>1 DEF Calls
    <3> QED
      BY <3>1, <3>2, CopyKept DEF CopyInv, Moves
  <2>2. CASE CachedUnmapNext
    <3>1. /\ call.pc \in {"undo", "free"} /\ copying' = copying
          /\ call' = [call EXCEPT !.j = @ + 1]
      BY <2>2 DEF CachedUnmapNext, UnmapNext
    <3>2. call'.pc = call.pc
      BY <1>0, <3>1 DEF Calls
    <3> QED
      BY <3>1, <3>2, CopyKept
  <2>3. CASE MallocOutOfFrames /\ UNCHANGED cacheVars
    <3>1. call.pc = "malloc" /\ copying' = copying /\ call' = [call EXCEPT !.pc = "undo"]
      BY <2>3 DEF MallocOutOfFrames, cacheVars
    <3>2. call'.pc = "undo"
      BY <1>0, <3>1 DEF Calls
    <3> QED
      BY <3>1, <3>2, CopyKept
  <2>4. CASE MallocReturns /\ UNCHANGED cacheVars
    <3>1. call.pc = "malloc" /\ copying' = copying /\ ~ copying /\ call.j = 0
      BY <1>0, <2>4, LoopTypes DEF MallocReturns, cacheVars, CopyInv, Moves, Idle
    <3>2. CASE call.op = "pagedRealloc"
               /\ call' = [call EXCEPT !.pc = "copy", !.new = call.start * PAGE_SIZE]
      <4>1. /\ call'.pc = "copy" /\ call'.new = call.start * PAGE_SIZE /\ call'.op = call.op
            /\ call'.len = call.len /\ call'.n = call.n /\ call'.old = call.old
            /\ call'.start = call.start /\ call'.j = 0
        BY <1>0, <3>1, <3>2 DEF Calls
      <4>2. ReallocCopies'
        BY <4>1 DEF ReallocCopies
      <4> QED
        BY <3>1, <3>2, <4>1, <4>2 DEF CopyInv, Moves, LogicalPage
    <3>3. CASE call' = NoCall
      BY <3>1, <3>3, CopyKept DEF NoCall
    <3> QED
      BY <2>4, <3>2, <3>3 DEF MallocReturns, Return
  <2>5. CASE UnmapReturns /\ UNCHANGED cacheVars
    <3>1. call.pc \in {"undo", "free"} /\ copying' = copying /\ call' = NoCall
      BY <2>5 DEF UnmapReturns, Return, cacheVars
    <3> QED
      BY <3>1, CopyKept DEF NoCall
  <2>6. CASE CopyReturns /\ UNCHANGED cacheVars
    <3>1. call.pc = "copy" /\ copying' = copying /\ call.j = call.len /\ call.len \in Nat
      BY <1>0, <2>6 DEF CopyReturns, cacheVars, Calls
    <3>2. ~ copying
      BY <3>1 DEF CopyInv, Moves
    <3>3. call'.pc \in {"idle", "free"}
      BY <2>6, EnterFreeAt DEF CopyReturns
    <3> QED
      BY <3>1, <3>2, <3>3 DEF CopyInv, Moves, ReallocCopies
  <2> QED
    BY <1>0, <1>3, <2>1, <2>2, <2>3, <2>4, <2>5, <2>6, CopyReads, CopyWrites DEF CachedStep
<1>4. CASE UNCHANGED allVars
  BY <1>4 DEF allVars, vars, cacheVars, CopyInv, Moves, ReallocCopies, ByteAt, IsMapped,
     FrameByte
<1>5. CASE ByteCall \/ LineCall
  <2>1. Idle /\ UNCHANGED <<call, copying>>
    BY <1>5 DEF ByteCall, cacheReadByte, cacheWriteByte, LineCall, invalidateLine,
       invalidateProcessCache, flushProcessCache, flushCache, invalidateAll, MayCall, vars
  <2> QED
    BY <1>1, <2>1
<1> QED
  BY <1>2, <1>3, <1>4, <1>5 DEF PagedCacheNext

\* The new block begins with the bytes of the old one at every moment of the copy,
\* even where the address of the old block is not the first of a page and the copy
\* runs into the new block (PageCache.cpp:787-791).
THEOREM ReallocCopiesAlways == PagedCacheSpec => []ReallocCopies
<1>1. CacheInit => CopyInv
  BY DEF CacheInit, Init, NoCall, CopyInv, Moves, ReallocCopies
<1>2. PagedCacheInv /\ PagedCacheInv' /\ [PagedCacheNext]_allVars /\ CopyInv => CopyInv'
  BY CopyNext
<1>3. CopyInv => ReallocCopies
  BY DEF CopyInv
<1> QED
  BY <1>1, <1>2, <1>3, PagedCacheInvAlways, PTL DEF PagedCacheSpec
=============================================================================
