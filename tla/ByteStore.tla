----------------------------- MODULE ByteStore -----------------------------
(***************************************************************************)
(* What the driver of the external SRAM promises: an array of SIZE bytes,  *)
(* where a block of bytes is written or read as a whole and addresses go   *)
(* round at the end.  There is no bus here; module SRAMsimple implements   *)
(* this specification.                                                     *)
(***************************************************************************)
EXTENDS Integers, Sequences

CONSTANT SIZE

VARIABLES
  store,   \* address |-> byte
  request, \* what the caller waits for: [cmd, addr, bytes], or NoRequest
  got      \* the bytes the last read returned

NoRequest == [cmd |-> "none", addr |-> 0, bytes |-> <<>>]

\* The address of the i-th byte of a block at addr.
Cell(addr, i) == (addr + i - 1) % SIZE

\* A request; the answer to the one before is forgotten.
Ask ==
  /\ request = NoRequest /\ request'.cmd \in {"READ", "WRITE"}
  /\ got' = <<>>
  /\ UNCHANGED store

Write ==
  /\ request.cmd = "WRITE"
  /\ store' = [a \in DOMAIN store |->
       LET is == {i \in DOMAIN request.bytes : Cell(request.addr, i) = a}
       IN  IF is = {} THEN store[a] ELSE request.bytes[CHOOSE i \in is : TRUE]]
  /\ request' = NoRequest
  /\ UNCHANGED got

\* Of the bytes of a request to read only their number matters.
Read ==
  /\ request.cmd = "READ"
  /\ got' = [i \in DOMAIN request.bytes |-> store[Cell(request.addr, i)]]
  /\ request' = NoRequest
  /\ UNCHANGED store

Spec == request = NoRequest /\ [][Ask \/ Write \/ Read]_<<store, request, got>>
=============================================================================
