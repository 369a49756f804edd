---------------------------- MODULE TypedMemory ----------------------------
(***************************************************************************)
(* What the typed accessors of PageCacheManager promise to a process: its  *)
(* space, of module ProcessMemory, read and written by whole values.  The  *)
(* bytes of a value outside the mapped pages are lost when it is written   *)
(* and zero when it is read.  There is no cache here, and nothing between  *)
(* two bytes of a value; module TypedAccess implements this specification. *)
(***************************************************************************)
EXTENDS ProcessMemory, Sequences

VARIABLES
  request, \* what the process waits for: [op, pid, addr, bytes], or NoRequest
  got      \* the bytes of the value the last read returned

NoRequest == [op |-> "none", pid |-> 0, addr |-> 0, bytes |-> <<>>]

\* The page and the offset of the i-th byte of the request.
Place(i) ==
  LET addr == request.addr + i - 1 IN <<Page(addr), Offset(addr)>>

\* A request; the answer to the one before is forgotten.
Ask ==
  /\ request = NoRequest /\ request'.op \in {"read", "write"}
  /\ got' = <<>>
  /\ UNCHANGED <<mapped, space>>

WriteValue ==
  /\ request.op = "write"
  /\ space' = [p \in Pids |-> [lp \in LPs |-> [o \in 0 .. PAGE_SIZE - 1 |->
       LET is == {i \in DOMAIN request.bytes : Place(i) = <<lp, o>>}
       IN  IF request.pid = p /\ <<p, lp>> \in mapped /\ is # {}
           THEN request.bytes[CHOOSE i \in is : \A k \in is : k <= i]
           ELSE space[p][lp][o]]]]
  /\ request' = NoRequest
  /\ UNCHANGED <<mapped, got>>

ReadValue ==
  /\ request.op = "read"
  /\ got' = [i \in DOMAIN request.bytes |->
       LET at == Place(i)
       IN  IF <<request.pid, at[1]>> \in mapped
           THEN space[request.pid][at[1]][at[2]] ELSE 0]
  /\ request' = NoRequest
  /\ UNCHANGED <<mapped, space>>

\* Between the requests pages come and go, and bytes are copied.
Between ==
  /\ request = NoRequest
  /\ \E p \in Pids :
       \/ \E lp \in LPs : Map(p, lp) \/ Unmap(p, lp)
       \/ \E from, to \in Places : Write(p, to, Byte(p, from))
  /\ UNCHANGED <<request, got>>

TypedNext == Ask \/ WriteValue \/ ReadValue \/ Between

TypedSpec ==
  /\ Init /\ request = NoRequest /\ got = <<>>
  /\ [][TypedNext]_<<mapped, space, request, got>>
=============================================================================
