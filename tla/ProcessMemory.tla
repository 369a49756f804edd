--------------------------- MODULE ProcessMemory ---------------------------
(***************************************************************************)
(* What the paged memory promises to the processes (README.md:11-12): each *)
(* process has a space of its own, a page of it keeps the bytes that were  *)
(* last written to it for as long as it is mapped, and nothing another     *)
(* process does can be seen in it.  There are no physical pages, no cache  *)
(* and no SRAM here; module PageCache implements this specification.       *)
(***************************************************************************)
EXTENDS Integers

CONSTANTS
  MAX_PROCESSES, MAX_PAGES_PER_PROC, PAGE_SIZE, Bytes,
  PAGE_NUMBERS \* so many pages on, an address means the same again

VARIABLES
  mapped, \* the pages <<pid, logical page>> that exist
  space,  \* pid |-> logical page |-> offset |-> byte; zero where not mapped
  out     \* the byte the last read returned

Pids    == 0 .. MAX_PROCESSES - 1
LPs     == 0 .. MAX_PAGES_PER_PROC - 1
Content == [0 .. PAGE_SIZE - 1 -> Bytes]
Zero    == [o \in 0 .. PAGE_SIZE - 1 |-> 0]

\* The addresses of a space.
Places == {lp * PAGE_SIZE + o : lp \in LPs, o \in 0 .. PAGE_SIZE - 1}

Page(addr)   == (addr \div PAGE_SIZE) % PAGE_NUMBERS
Offset(addr) == addr % PAGE_SIZE

\* The byte of process p at addr: zero where it has no page, or p is no process.
Byte(p, addr) ==
  IF <<p, Page(addr)>> \in mapped THEN space[p][Page(addr)][Offset(addr)] ELSE 0

Init ==
  /\ mapped = {}
  /\ space = [p \in Pids |-> [lp \in LPs |-> Zero]]
  /\ out = 0

\* A page appears with whatever bytes its physical page held before.
Map(p, lp) ==
  /\ <<p, lp>> \notin mapped
  /\ mapped' = mapped \cup {<<p, lp>>}
  /\ \E c \in Content : space' = [space EXCEPT ![p][lp] = c]
  /\ UNCHANGED out

Unmap(p, lp) ==
  /\ <<p, lp>> \in mapped
  /\ mapped' = mapped \ {<<p, lp>>}
  /\ space' = [space EXCEPT ![p][lp] = Zero]
  /\ UNCHANGED out

Read(p, addr) ==
  /\ out' = Byte(p, addr)
  /\ UNCHANGED <<mapped, space>>

\* A byte written where there is no page is lost.
Write(p, addr, b) ==
  /\ space' = IF <<p, Page(addr)>> \in mapped
              THEN [space EXCEPT ![p][Page(addr)][Offset(addr)] = b] ELSE space
  /\ UNCHANGED <<mapped, out>>

\* A read outside the space returns 0.
ReadFault == out' = 0 /\ UNCHANGED <<mapped, space>>

Next ==
  \/ ReadFault
  \/ \E p \in Pids :
       \/ \E lp \in LPs : Map(p, lp) \/ Unmap(p, lp)
       \/ \E addr \in Places : Read(p, addr) \/ \E b \in Bytes : Write(p, addr, b)

Spec == Init /\ [][Next]_<<mapped, space, out>>
=============================================================================
