------------------------------ MODULE Recency ------------------------------
(***************************************************************************)
(* Replacement in the cache of module PageCache, told from the order of    *)
(* the accesses: the variable recent, which the program does not have,     *)
(* keeps the order in which the lines were last accessed, and findLRULine, *)
(* which only compares time stamps, has to agree with it.                  *)
(***************************************************************************)
EXTENDS PageCache

VARIABLE recent \* <<t, u>>: t was accessed, and not after u was for the last time

RecencyInit == CacheInit /\ recent = {}

\* The lines accessed so far.
Seen == {x[1] : x \in recent}

\* recent once addr has been accessed; an access that faults uses no line.
Accessed(pid, addr) ==
  IF ~ IsMapped(pid, addr) THEN recent
  ELSE LET t == translateAddress(pid, addr) \div CACHE_LINE_SIZE
       IN  {x \in recent : x[1] # t /\ x[2] # t} \cup {<<u, t>> : u \in Seen \cup {t}}

Access(pid, addr) ==
  /\ cacheReadByte(pid, addr) \/ \E b \in Bytes : cacheWriteByte(pid, addr, b)
  /\ recent' = Accessed(pid, addr)

\* Every public function but those of the paged allocator.
RecencyNext ==
  \/ \E pid \in AnyPid, addr \in Addrs : Access(pid, addr)
  \/ (LineCall \/ CachedFrameCall) /\ UNCHANGED recent

RecencySpec == RecencyInit /\ [][RecencyNext]_<<allVars, recent>>

\* Line t was accessed before line u.
Before(t, u) == t # u /\ <<t, u>> \in recent

\* A line that loses its way to another one is the least recently used of its
\* set, and every way of the set was in use (PageCache.h:10, findLRULine and
\* findFreeLine).  It holds up to the wrap of the clock, and README.md:12, which
\* promises 'reemplazo LRU basado en un reloj lógico interno', knows no such limit.
EvictsLeastRecent ==
  [][\A s \in Sets, w \in Ways :
       LET line == cache_sets[s][w]
           next == cache_sets'[s][w]
       IN  line.valid /\ next.valid /\ line.tag # next.tag =>
             \A v \in Ways \ {w} :
               cache_sets[s][v].valid /\ Before(line.tag, cache_sets[s][v].tag)
    ]_<<allVars, recent>>
=============================================================================
