--------------------------- MODULE Recency_proofs ---------------------------
(***************************************************************************)
(* Proofs about module Recency, for every geometry of the cache and every  *)
(* width of the clock: until the clock wraps, the time stamps of the lines *)
(* of a set are in the order of their last accesses.                       *)
(***************************************************************************)
EXTENDS Recency, PageCache_proofs

\* No call begins so late that the clock would wrap in it.
NoWrap == MaxClock + 3 < CLOCK_MOD

Stamp(s, w) == cache_sets[s][w].last_access

\* What recent says of the lines in the cache, the time stamps say too.
OrderInv ==
  /\ logical_clock <= MaxClock + 3
  /\ \A s \in Sets, w \in Ways :
       cache_sets[s][w].valid =>
         cache_sets[s][w].tag \in Seen /\ Stamp(s, w) <= logical_clock
  /\ \A s \in Sets : \A v, w \in Ways :
       v # w /\ cache_sets[s][v].valid /\ cache_sets[s][w].valid =>
         /\ Stamp(s, v) # Stamp(s, w)
         /\ Stamp(s, v) < Stamp(s, w) =>
              <<cache_sets[s][v].tag, cache_sets[s][w].tag>> \in recent

RecencyInv == CacheInv /\ OrderInv

\* Every way of the set holds a line when none is free.
LEMMA NoFreeWay ==
  ASSUME NEW s \in Sets, FreeWay(s) = {}
  PROVE  \A v \in Ways : cache_sets[s][v].valid
  <1>. DEFINE H == {v \in Ways : ~ cache_sets[s][v].valid}
  <1>1. ASSUME H # {} PROVE FALSE
    <2>1. H \in SUBSET Nat BY CacheConstantsOK DEF Ways
    <2>. HIDE DEF H
    <2>2. PICK m \in H : \A k \in H : m <= k BY <1>1, <2>1, LeastNat
    <2>3. m \in Ways /\ ~ cache_sets[s][m].valid BY <2>2 DEF H
    <2>4. \A v \in 0 .. m - 1 : cache_sets[s][v].valid
      BY <2>2, <2>3, CacheConstantsOK DEF H, Ways
    <2>. QED BY <2>3, <2>4 DEF FreeWay
  <1>. QED BY <1>1

\* The clock in a call.
LEMMA ClockGoesOn ==
  ASSUME NoWrap, CacheInv, MayCall, NEW n \in 0 .. 3
  PROVE  Tick(n) = logical_clock + n /\ logical_clock + n <= MaxClock + 3
  <1>1. logical_clock \in Nat /\ logical_clock <= MaxClock
    BY CacheConstantsOK DEF CacheInv, CacheTypeOK, MayCall
  <1>2. /\ logical_clock + n \in 0 .. CLOCK_MOD - 1 /\ CLOCK_MOD \in Nat \ {0}
        /\ logical_clock + n <= MaxClock + 3
    BY <1>1, CacheConstantsOK DEF NoWrap
  <1>3. \A m \in Nat \ {0} : \A x \in 0 .. m - 1 : x % m = x OBVIOUS
  <1>. QED BY <1>2, <1>3 DEF Tick

\* A step that may drop and clean lines, but takes none in.
Drops ==
  \A s \in Sets, w \in Ways :
    cache_sets'[s][w].valid =>
      /\ cache_sets[s][w].valid
      /\ cache_sets'[s][w].tag = cache_sets[s][w].tag
      /\ cache_sets'[s][w].last_access = cache_sets[s][w].last_access

\* A step that takes line t in, or uses it again, in way w.
Uses(t, w) ==
  \E line :
    /\ line.valid /\ line.tag = t /\ line.last_access = Tick(1)
    /\ cache_sets' = [cache_sets EXCEPT ![SetOf(t)][w] = line]

\* Where a drop is the most that is done to the lines, their order is kept.
LEMMA DropsKeep ==
  ASSUME RecencyInv, Drops, recent' = recent,
         logical_clock' \in Nat, logical_clock <= logical_clock',
         logical_clock' <= MaxClock + 3
  PROVE  OrderInv'
  <1>1. Seen' = Seen BY DEF Seen
  <1>2. ASSUME NEW s \in Sets, NEW w \in Ways, cache_sets'[s][w].valid
        PROVE  cache_sets'[s][w].tag \in Seen' /\ Stamp(s, w)' <= logical_clock'
    <2>1. cache_sets[s][w].valid /\ cache_sets'[s][w].tag = cache_sets[s][w].tag
          /\ Stamp(s, w)' = Stamp(s, w)
      BY <1>2 DEF Drops, Stamp
    <2>2. Stamp(s, w) \in Nat /\ logical_clock \in Nat
      BY CacheConstantsOK DEF RecencyInv, CacheInv, CacheTypeOK, Lines, Stamp
    <2>3. Stamp(s, w) <= logical_clock BY <2>1 DEF RecencyInv, OrderInv
    <2>. QED BY <1>1, <2>1, <2>2, <2>3 DEF RecencyInv, OrderInv
  <1>3. ASSUME NEW s \in Sets, NEW v \in Ways, NEW w \in Ways, v # w,
               cache_sets'[s][v].valid, cache_sets'[s][w].valid
        PROVE  /\ Stamp(s, v)' # Stamp(s, w)'
               /\ Stamp(s, v)' < Stamp(s, w)' =>
                    <<cache_sets'[s][v].tag, cache_sets'[s][w].tag>> \in recent'
    <2>1. /\ cache_sets[s][v].valid /\ cache_sets'[s][v].tag = cache_sets[s][v].tag
          /\ Stamp(s, v)' = Stamp(s, v)
          /\ cache_sets[s][w].valid /\ cache_sets'[s][w].tag = cache_sets[s][w].tag
          /\ Stamp(s, w)' = Stamp(s, w)
      BY <1>3 DEF Drops, Stamp
    <2>. QED BY <1>3, <2>1 DEF RecencyInv, OrderInv
  <1>. QED BY <1>2, <1>3 DEF OrderInv

\* The line used last is the last in the order, and has the greatest time stamp.
LEMMA UsesKeep ==
  ASSUME NoWrap, RecencyInv, MayCall, NEW t \in Tags, NEW w \in Ways, Uses(t, w),
         \A v \in Ways \ {w} : ~ Holds(SetOf(t), v, t),
         recent' = {x \in recent : x[1] # t /\ x[2] # t} \cup {<<u, t>> : u \in Seen \cup {t}},
         Ticks(3)
  PROVE  OrderInv'
  <1>1. PICK line : /\ line.valid /\ line.tag = t /\ line.last_access = Tick(1)
                    /\ cache_sets' = [cache_sets EXCEPT ![SetOf(t)][w] = line]
    BY DEF Uses
  <1>2. SetOf(t) \in Sets BY CacheSets
  <1>3. cache_sets \in [Sets -> [Ways -> Lines]] /\ logical_clock \in Nat
    BY CacheConstantsOK DEF RecencyInv, CacheInv, CacheTypeOK
  <1>4. /\ Tick(1) = logical_clock + 1 /\ logical_clock' = logical_clock + 3
        /\ logical_clock' <= MaxClock + 3
    BY ClockGoesOn DEF RecencyInv, Ticks
  <1>5. \A u : u \in Seen => u \in Seen'
    <2>1. SUFFICES ASSUME NEW u \in Seen PROVE u \in Seen' OBVIOUS
    <2>2. <<u, t>> \in recent' OBVIOUS
    <2>3. <<u, t>>[1] = u OBVIOUS
    <2>. QED BY <2>2, <2>3 DEF Seen
  <1>6. t \in Seen'
    <2>1. <<t, t>> \in recent' /\ <<t, t>>[1] = t OBVIOUS
    <2>. QED BY <2>1 DEF Seen
  <1>. DEFINE Here(s, v) == s = SetOf(t) /\ v = w
  <1>7. ASSUME NEW s \in Sets, NEW v \in Ways
        PROVE  /\ Here(s, v) => /\ cache_sets'[s][v].valid /\ cache_sets'[s][v].tag = t
                                /\ Stamp(s, v)' = logical_clock + 1
               /\ ~ Here(s, v) => /\ cache_sets'[s][v] = cache_sets[s][v]
                                  /\ Stamp(s, v)' = Stamp(s, v)
    BY <1>1, <1>2, <1>3, <1>4 DEF Stamp
  <1>8. ASSUME NEW s \in Sets, NEW v \in Ways, ~ Here(s, v), cache_sets[s][v].valid
        PROVE  /\ cache_sets[s][v].tag # t /\ cache_sets[s][v].tag \in Seen
               /\ Stamp(s, v) \in Nat /\ Stamp(s, v) <= logical_clock
    <2>1. SetOf(cache_sets[s][v].tag) = s BY <1>8 DEF RecencyInv, CacheInv, Coherent
    <2>2. cache_sets[s][v].tag # t BY <1>8, <2>1 DEF Holds
    <2>3. Stamp(s, v) \in Nat BY <1>3, CacheConstantsOK DEF Lines, Stamp
    <2>. QED BY <1>8, <2>2, <2>3 DEF RecencyInv, OrderInv
  <1>. HIDE DEF Here
  <1>9. ASSUME NEW s \in Sets, NEW v \in Ways, cache_sets'[s][v].valid
        PROVE  cache_sets'[s][v].tag \in Seen' /\ Stamp(s, v)' <= logical_clock'
    <2>1. CASE Here(s, v) BY <1>3, <1>4, <1>6, <1>7, <2>1
    <2>2. CASE ~ Here(s, v) BY <1>3, <1>4, <1>5, <1>7, <1>8, <1>9, <2>2
    <2>. QED BY <2>1, <2>2
  <1>10. ASSUME NEW s \in Sets, NEW v \in Ways, NEW x \in Ways, v # x,
                cache_sets'[s][v].valid, cache_sets'[s][x].valid
         PROVE  /\ Stamp(s, v)' # Stamp(s, x)'
                /\ Stamp(s, v)' < Stamp(s, x)' =>
                     <<cache_sets'[s][v].tag, cache_sets'[s][x].tag>> \in recent'
    <2>1. ~ (Here(s, v) /\ Here(s, x)) BY <1>10 DEF Here
    <2>2. CASE Here(s, v)
      <3>1. Stamp(s, x)' = Stamp(s, x) /\ Stamp(s, x) \in Nat /\ Stamp(s, x) <= logical_clock
        BY <1>7, <1>8, <1>10, <2>1, <2>2
      <3>. QED BY <1>3, <1>7, <2>2, <3>1
    <2>3. CASE Here(s, x)
      <3>1. /\ cache_sets'[s][v] = cache_sets[s][v] /\ cache_sets[s][v].tag \in Seen
            /\ Stamp(s, v)' = Stamp(s, v) /\ Stamp(s, v) \in Nat /\ Stamp(s, v) <= logical_clock
        BY <1>7, <1>8, <1>10, <2>1, <2>3
      <3>2. <<cache_sets[s][v].tag, t>> \in recent' BY <3>1
      <3>. QED BY <1>3, <1>7, <2>3, <3>1, <3>2
    <2>4. CASE ~ Here(s, v) /\ ~ Here(s, x)
      <3>1. /\ cache_sets'[s][v] = cache_sets[s][v] /\ cache_sets'[s][x] = cache_sets[s][x]
            /\ Stamp(s, v)' = Stamp(s, v) /\ Stamp(s, x)' = Stamp(s, x)
            /\ cache_sets[s][v].tag # t /\ cache_sets[s][x].tag # t
        BY <1>7, <1>8, <1>10, <2>4
      <3>2. /\ Stamp(s, v) # Stamp(s, x)
            /\ Stamp(s, v) < Stamp(s, x) =>
                 <<cache_sets[s][v].tag, cache_sets[s][x].tag>> \in recent
        BY <1>10, <3>1 DEF RecencyInv, OrderInv
      <3>3. \A a, b : a # t /\ b # t /\ <<a, b>> \in recent => <<a, b>> \in recent'
        OBVIOUS
      <3>. QED BY <3>1, <3>2, <3>3
    <2>. QED BY <2>2, <2>3, <2>4
  <1>. QED BY <1>4, <1>9, <1>10 DEF OrderInv

\* What an access does to the lines.
LEMMA AccessUses ==
  ASSUME CacheInv, NEW pid, NEW addr \in Nat, Access(pid, addr)
  PROVE  \/ UNCHANGED <<cache_sets, logical_clock, recent>>
         \/ \E t \in Tags, w \in Ways :
              /\ w \in WayFor(SetOf(t), t) /\ Uses(t, w)
              /\ \A v \in Ways \ {w} : ~ Holds(SetOf(t), v, t)
              /\ recent' = {x \in recent : x[1] # t /\ x[2] # t}
                             \cup {<<u, t>> : u \in Seen \cup {t}}
              /\ Ticks(3)
  <1>1. recent' = Accessed(pid, addr) BY DEF Access
  <1>2. CASE ~ IsMapped(pid, addr)
    BY <1>1, <1>2 DEF Access, Accessed, cacheReadByte, cacheWriteByte, ReadByte, WriteByte
  <1>3. CASE IsMapped(pid, addr)
    <2>. DEFINE pa == translateAddress(pid, addr)
                t  == pa \div CACHE_LINE_SIZE
                s  == SetOf(t)
    <2>1. t \in Tags BY <1>3, AddressOK DEF CacheInv
    <2>2. recent' = {x \in recent : x[1] # t /\ x[2] # t} \cup {<<u, t>> : u \in Seen \cup {t}}
      BY <1>1, <1>3 DEF Accessed
    <2>3. PICK w \in WayFor(s, t) :
            /\ \/ cache_sets' = [cache_sets EXCEPT ![s][w] = Fetched(s, w, t)]
               \/ \E b : cache_sets' = [cache_sets EXCEPT ![s][w] =
                    [Fetched(s, w, t) EXCEPT !.data[pa % CACHE_LINE_SIZE] = b, !.dirty = TRUE]]
            /\ Ticks(3)
      BY <1>3 DEF Access, cacheReadByte, cacheWriteByte, ReadByte, WriteByte
    <2>. HIDE DEF pa, t
    <2>4. /\ w \in Ways /\ Fetched(s, w, t) \in Lines
          /\ Fetched(s, w, t).valid /\ Fetched(s, w, t).tag = t
          /\ \A v \in Ways \ {w} : ~ Holds(s, v, t)
      BY <2>1, <2>3, AccessOK
    <2>5. Fetched(s, w, t).last_access = Tick(1)
      <3>1. cache_sets[s][w] \in Lines
        BY <2>1, <2>4, CacheSets DEF CacheInv, CacheTypeOK
      <3>. QED BY <3>1 DEF Fetched, Lines
    <2>6. Uses(t, w)
      <3>1. PICK line \in Lines : line = Fetched(s, w, t) BY <2>4
      <3>2. CASE cache_sets' = [cache_sets EXCEPT ![s][w] = line]
        BY <2>4, <2>5, <3>1, <3>2 DEF Uses
      <3>3. ASSUME NEW b,
                   cache_sets' = [cache_sets EXCEPT ![s][w] =
                     [line EXCEPT !.data[pa % CACHE_LINE_SIZE] = b, !.dirty = TRUE]]
            PROVE  Uses(t, w)
        <4>. DEFINE new == [line EXCEPT !.data[pa % CACHE_LINE_SIZE] = b, !.dirty = TRUE]
        <4>1. new.valid /\ new.tag = t /\ new.last_access = Tick(1)
          BY <2>4, <2>5, <3>1 DEF Lines
        <4>. HIDE DEF new
        <4>2. cache_sets' = [cache_sets EXCEPT ![s][w] = new] BY <3>3 DEF new
        <4>. QED BY <4>1, <4>2 DEF Uses
      <3>. QED BY <2>3, <3>1, <3>2, <3>3
    <2>. QED BY <2>1, <2>2, <2>3, <2>4, <2>6
  <1>. QED BY <1>2, <1>3

\* What the other functions do to the lines.
LEMMA CallsDrop ==
  ASSUME NoWrap, RecencyInv, LineCall \/ CachedFrameCall
  PROVE  /\ Drops
         /\ logical_clock' \in Nat /\ logical_clock <= logical_clock'
         /\ logical_clock' <= MaxClock + 3
  <1>1. logical_clock \in Nat /\ logical_clock <= MaxClock + 3
        /\ cache_sets \in [Sets -> [Ways -> Lines]]
    BY CacheConstantsOK DEF RecencyInv, OrderInv, CacheInv, CacheTypeOK
  <1>2. ASSUME NEW T, cache_sets' = Invalidated(T) PROVE Drops
    BY <1>2, InvalidLineOK DEF Invalidated, Drops
  <1>3. (cache_sets' = [s \in Sets |-> [w \in Ways |-> InvalidLine]]) => Drops
    BY InvalidLineOK DEF Drops
  <1>4. cache_sets' = cache_sets => Drops BY DEF Drops
  <1>5. ASSUME NEW pid, flushProcessCache(pid) PROVE Drops
    <2>1. ASSUME NEW line \in Lines
          PROVE  /\ [line EXCEPT !.dirty = FALSE].valid = line.valid
                 /\ [line EXCEPT !.dirty = FALSE].tag = line.tag
                 /\ [line EXCEPT !.dirty = FALSE].last_access = line.last_access
      BY DEF Lines
    <2>2. cache_sets' = [s \in Sets |-> [w \in Ways |->
            IF Selected(s, w, ProcessLines(pid)) THEN [cache_sets[s][w] EXCEPT !.dirty = FALSE]
            ELSE cache_sets[s][w]]]
      BY <1>5 DEF flushProcessCache
    <2>. QED BY <1>1, <2>1, <2>2 DEF Drops
  <1>6. CASE LineCall
    <2>1. logical_clock' = logical_clock
      BY <1>6 DEF LineCall, invalidateLine, invalidateProcessCache, flushProcessCache,
        flushCache, invalidateAll
    <2>2. Drops
      BY <1>2, <1>3, <1>5, <1>6 DEF LineCall, invalidateLine, invalidateProcessCache,
        flushCache, invalidateAll, Invalidate
    <2>. QED BY <1>1, <2>1, <2>2
  <1>7. CASE CachedFrameCall
    <2>1. ASSUME NEW pid, NEW f \in Frames, CachedAllocate(pid, f)
          PROVE  Drops /\ MayCall /\ Ticks(1)
      BY <1>2, <1>4, <2>1 DEF CachedAllocate, TakePage, Invalidate
    <2>2. ASSUME NEW pid, NEW lp, NEW f, CachedMap(pid, lp, f)
          PROVE  Drops /\ MayCall /\ (Ticks(2) \/ logical_clock' = logical_clock)
      BY <1>4, <2>2 DEF CachedMap
    <2>3. ASSUME NEW pid, NEW lp, CachedUnmap(pid, lp)
          PROVE  Drops /\ logical_clock' = logical_clock
      BY <1>2, <1>4, <2>3 DEF CachedUnmap, DropPage, Invalidate
    <2>4. ASSUME UNCHANGED cacheVars PROVE Drops /\ logical_clock' = logical_clock
      BY <1>4, <2>4 DEF cacheVars
    <2>5. Drops /\ \/ MayCall /\ (Ticks(1) \/ Ticks(2))
                   \/ logical_clock' = logical_clock
      BY <1>7, <2>1, <2>2, <2>3, <2>4 DEF CachedFrameCall
    <2>6. ASSUME MayCall, NEW n \in {1, 2}, Ticks(n)
          PROVE  /\ logical_clock' \in Nat /\ logical_clock <= logical_clock'
                 /\ logical_clock' <= MaxClock + 3
      <3>1. n \in 0 .. 3 BY <2>6
      <3>2. logical_clock' = logical_clock + n /\ logical_clock + n <= MaxClock + 3
        BY <2>6, <3>1, ClockGoesOn DEF RecencyInv, Ticks
      <3>. QED BY <1>1, <2>6, <3>2
    <2>. QED BY <1>1, <2>5, <2>6
  <1>. QED BY <1>6, <1>7

LEMMA RecencyIsCache == [RecencyNext]_<<allVars, recent>> => [CacheNext]_allVars
  BY DEF RecencyNext, Access, CacheNext, ApiNext, ByteCall

LEMMA RecencyInvInit == RecencyInit => RecencyInv
  <1>. SUFFICES ASSUME RecencyInit PROVE RecencyInv OBVIOUS
  <1>1. CacheInv BY CacheInvInit DEF RecencyInit
  <1>2. OrderInv
    BY InvalidLineOK, CacheConstantsOK DEF RecencyInit, CacheInit, OrderInv
  <1>. QED BY <1>1, <1>2 DEF RecencyInv

LEMMA AddrsNat == Addrs \subseteq Nat
  BY ConstantsOK DEF Addrs

LEMMA RecencyInvNext ==
  NoWrap /\ RecencyInv /\ [RecencyNext]_<<allVars, recent>> => RecencyInv'
  <1>. SUFFICES ASSUME NoWrap, RecencyInv, [RecencyNext]_<<allVars, recent>> PROVE RecencyInv'
    OBVIOUS
  <1>1. CacheInv' BY RecencyIsCache, CacheInvNext DEF RecencyInv
  <1>2. logical_clock \in Nat /\ logical_clock <= MaxClock + 3
    BY CacheConstantsOK DEF RecencyInv, OrderInv, CacheInv, CacheTypeOK
  <1>3. ASSUME UNCHANGED <<cache_sets, logical_clock, recent>> PROVE OrderInv'
    BY <1>3 DEF RecencyInv, OrderInv, Stamp, Seen
  <1>4. ASSUME NEW pid \in AnyPid, NEW addr \in Addrs, Access(pid, addr)
        PROVE  OrderInv'
    <2>1. addr \in Nat /\ MayCall
      BY <1>4, AddrsNat DEF Access, cacheReadByte, cacheWriteByte
    <2>2. \/ UNCHANGED <<cache_sets, logical_clock, recent>>
          \/ \E t \in Tags, w \in Ways :
               /\ w \in WayFor(SetOf(t), t) /\ Uses(t, w)
               /\ \A v \in Ways \ {w} : ~ Holds(SetOf(t), v, t)
               /\ recent' = {x \in recent : x[1] # t /\ x[2] # t}
                              \cup {<<u, t>> : u \in Seen \cup {t}}
               /\ Ticks(3)
      BY <1>4, <2>1, AccessUses DEF RecencyInv
    <2>. QED BY <1>3, <2>1, <2>2, UsesKeep
  <1>5. ASSUME (LineCall \/ CachedFrameCall) /\ UNCHANGED recent PROVE OrderInv'
    BY <1>5, CallsDrop, DropsKeep
  <1>6. OrderInv' BY <1>3, <1>4, <1>5 DEF RecencyNext, allVars, cacheVars
  <1>. QED BY <1>1, <1>6 DEF RecencyInv

\* The line that is evicted is the least recently used one, and only when no way
\* of its set is free: up to the wrap of the clock findLRULine, which compares
\* time stamps, finds the line whose last access is the oldest, whatever is
\* invalidated, flushed, mapped and unmapped meanwhile (EvictsLeastRecent).
THEOREM EvictsLeastRecentAlways ==
  ASSUME NoWrap PROVE RecencySpec => EvictsLeastRecent
  <1>. DEFINE Evicts ==
         \A s \in Sets, w \in Ways :
           LET line == cache_sets[s][w]
               next == cache_sets'[s][w]
           IN  line.valid /\ next.valid /\ line.tag # next.tag =>
                 \A v \in Ways \ {w} :
                   cache_sets[s][v].valid /\ Before(line.tag, cache_sets[s][v].tag)
  <1>1. RecencyInv /\ [RecencyNext]_<<allVars, recent>> => Evicts
    <2>. SUFFICES ASSUME RecencyInv, [RecencyNext]_<<allVars, recent>> PROVE Evicts
      OBVIOUS
    <2>1. Drops => Evicts BY DEF Drops
    <2>2. cache_sets' = cache_sets => Evicts OBVIOUS
    <2>3. ASSUME NEW t \in Tags, NEW w \in Ways, w \in WayFor(SetOf(t), t), Uses(t, w)
          PROVE  Evicts
      <3>. DEFINE s == SetOf(t)
      <3>1. PICK line : line.tag = t /\ cache_sets' = [cache_sets EXCEPT ![s][w] = line]
        BY <2>3 DEF Uses
      <3>2. s \in Sets /\ cache_sets \in [Sets -> [Ways -> Lines]]
        BY CacheSets DEF RecencyInv, CacheInv, CacheTypeOK
      <3>3. ASSUME cache_sets[s][w].valid, cache_sets[s][w].tag # t, NEW v \in Ways \ {w}
            PROVE  cache_sets[s][v].valid /\ Before(cache_sets[s][w].tag, cache_sets[s][v].tag)
        <4>1. w \notin Found(s, t) /\ w \notin FreeWay(s)
          BY <3>3 DEF Found, Holds, FreeWay
        <4>2. FreeWay(s) = {} /\ w \in LRUWay(s) BY <2>3, <4>1 DEF WayFor
        <4>3. cache_sets[s][v].valid BY <3>2, <3>3, <4>2, NoFreeWay
        <4>4. Stamp(s, w) < Stamp(s, v) \/ Stamp(s, w) = Stamp(s, v)
          BY <3>3, <4>2 DEF LRUWay, Stamp
        <4>5. <<cache_sets[s][w].tag, cache_sets[s][v].tag>> \in recent
          BY <3>2, <3>3, <4>3, <4>4 DEF RecencyInv, OrderInv
        <4>6. cache_sets[s][w].tag # cache_sets[s][v].tag
          BY <3>2, <3>3, <4>3 DEF RecencyInv, CacheInv, UniqueTag, Holds
        <4>. QED BY <4>3, <4>5, <4>6 DEF Before
      <3>4. /\ cache_sets'[s][w].tag = t
            /\ \A r \in Sets, v \in Ways : r # s \/ v # w => cache_sets'[r][v] = cache_sets[r][v]
        BY <3>1, <3>2
      <3>. HIDE DEF s
      <3>. QED BY <3>3, <3>4
    <2>4. ASSUME NEW pid \in AnyPid, NEW addr \in Addrs, Access(pid, addr)
          PROVE  Evicts
      <3>1. addr \in Nat BY AddrsNat
      <3>2. \/ UNCHANGED <<cache_sets, logical_clock, recent>>
            \/ \E t \in Tags, w \in Ways : w \in WayFor(SetOf(t), t) /\ Uses(t, w)
        BY <2>4, <3>1, AccessUses DEF RecencyInv
      <3>. HIDE DEF Evicts
      <3>. QED BY <2>2, <2>3, <3>2
    <2>5. (LineCall \/ CachedFrameCall) => Drops BY CallsDrop
    <2>. HIDE DEF Evicts
    <2>. QED BY <2>1, <2>2, <2>4, <2>5 DEF RecencyNext, allVars, cacheVars
  <1>2. RecencySpec => []RecencyInv
    BY RecencyInvInit, RecencyInvNext, PTL DEF RecencySpec
  <1>3. RecencyInv /\ [RecencyNext]_<<allVars, recent>> => [Evicts]_<<allVars, recent>>
    BY <1>1
  <1>. QED BY <1>2, <1>3, PTL DEF RecencySpec, EvictsLeastRecent
=============================================================================
