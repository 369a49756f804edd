---------------------------- MODULE TypedAccess ----------------------------
(***************************************************************************)
(* The accessors of arrays, integers and floats of PageCacheManager        *)
(* (src/PageCache.cpp:466-549): loops over cacheReadByte and               *)
(* cacheWriteByte.  One byte is one step here, for each may miss the cache *)
(* and evict the line of the byte before.                                  *)
(*                                                                         *)
(* The variable before, the spaces of the processes when the accessor in   *)
(* progress was called, is history.                                        *)
(***************************************************************************)
EXTENDS PageCache, TypedBytes

CONSTANTS
  AccessAddrs, \* addresses the callers pass
  Accesses     \* [kind, vals] of the values they write

ASSUME AccessConstantsOK ==
  /\ Bytes = ByteValues
  /\ AccessAddrs \subseteq Nat
  /\ \A a \in Accesses : a.kind \in Kinds /\ a.vals \in Seq(Values(a.kind))

VARIABLES
  access, \* the accessor in progress: the bytes it moves, those it has moved
  value,  \* what the last read returned: [kind, bytes, vals]
  before

accessVars == <<allVars, access, value, before>>

NoAccess == [op |-> "none", pid |-> 0, addr |-> 0, kind |-> "Byte",
             bytes |-> <<>>, done |-> <<>>]

NoValue == [kind |-> "Byte", bytes |-> <<>>, vals |-> <<>>]

AccessInit == CacheInit /\ access = NoAccess /\ value = NoValue /\ before = <<>>

Enter(op, pid, addr, kind, s) ==
  /\ MayCall /\ access = NoAccess
  /\ access' = [op |-> op, pid |-> pid, addr |-> addr, kind |-> kind,
                bytes |-> s, done |-> <<>>]
  /\ value' = NoValue
  /\ before' = Space
  /\ UNCHANGED allVars

\* cacheWriteArray, cacheWriteInt, ..., cacheWriteFloat.
cacheWrite(pid, addr, kind, vals) ==
  Enter("write", pid, addr, kind, BytesOfAll(kind, vals))

\* cacheReadArray, cacheReadInt, ..., cacheReadFloat; the bytes are yet to come.
cacheRead(pid, addr, kind, n) ==
  Enter("read", pid, addr, kind, [i \in 1 .. n * Width(kind) |-> 0])

\* Mutant of ByteAddr: the address is cut to the page it began in.
ByteAddrInPage(i) ==
  (access.addr \div PAGE_SIZE) * PAGE_SIZE + ((access.addr + i) % PAGE_SIZE)

\* The address of the i-th byte from 0.
ByteAddr(i) == access.addr + i

NextByte ==
  LET i == Len(access.done)
      b == access.bytes[i + 1]
  IN  /\ access.op # "none" /\ i < Len(access.bytes)
      /\ \/ /\ access.op = "write"
            /\ WriteByte(access.pid, ByteAddr(i), b)
            /\ access' = [access EXCEPT !.done = Append(@, b)]
            /\ UNCHANGED out
         \/ /\ access.op = "read"
            /\ ReadByte(access.pid, ByteAddr(i))
            /\ access' = [access EXCEPT !.done = Append(@, out')]
            /\ UNCHANGED pte_dirty
      /\ UNCHANGED <<vars, copying, value, before>>

AccessReturns ==
  /\ access.op # "none" /\ Len(access.done) = Len(access.bytes)
  /\ access' = NoAccess
  /\ value' = IF access.op = "write" THEN NoValue
              ELSE [kind |-> access.kind, bytes |-> access.done,
                    vals |-> ValuesOfAll(access.kind, access.done)]
  /\ before' = <<>>
  /\ UNCHANGED allVars

AccessNext ==
  \/ \E pid \in AnyPid, addr \in AccessAddrs, a \in Accesses :
       \/ cacheWrite(pid, addr, a.kind, a.vals)
       \/ cacheRead(pid, addr, a.kind, Len(a.vals))
  \/ NextByte
  \/ AccessReturns
  \/ /\ access = NoAccess
     /\ LineCall \/ CachedPagedCall \/ CachedStep
     /\ UNCHANGED <<access, value, before>>

AccessSpec == AccessInit /\ [][AccessNext]_accessVars

-----------------------------------------------------------------------------
(***************************************************************************)
(* Properties.                                                             *)
(***************************************************************************)

InAccess == access.op # "none"

Typed == INSTANCE TypedMemory WITH
  mapped <- MappedPages,
  space <- IF InAccess THEN before ELSE Space,
  out <- 0,
  request <- [op |-> access.op, pid |-> access.pid, addr |-> access.addr,
              bytes |-> access.bytes],
  got <- value.bytes

\* An accessor reads or writes its value as a whole, through every eviction that
\* its own bytes cause, wherever in its pages the value begins and ends: the
\* part on mapped pages is kept, and no other byte changes.
ValuesAtOnce == Typed!TypedSpec
=============================================================================
