----------------------------- MODULE SRAMsimple -----------------------------
(***************************************************************************)
(* The SPI driver of the external SRAM (src/SRAMsimple.cpp).  Every        *)
(* function selects the chip, transfers a command, three bytes of address  *)
(* and the bytes of its values, and deselects it; one transfer is one step *)
(* here.  The functions differ in the type of their values (TypedBytes)    *)
(* and in their number; a scalar is an array of one.                       *)
(*                                                                         *)
(* The chip, a 23LC1024, is external: it takes a command after it was      *)
(* selected, then goes from byte to byte and round at its end, if it is in *)
(* sequential mode.  The variable before, the memory when the chip was     *)
(* selected, is history.                                                   *)
(***************************************************************************)
EXTENDS TypedBytes

CONSTANTS
  CHIP_SIZE,   \* bytes of the chip: 2^17
  CallAddrs,   \* addresses the callers pass, also past the end of the chip
  Calls        \* [kind, vals] of the values they write

\* The three bytes of an address name every byte of the chip.
ASSUME DriverConstantsOK ==
  /\ CHIP_SIZE \in Nat \ {0} /\ Weight(3) % CHIP_SIZE = 0
  /\ CallAddrs \subseteq Nat
  /\ \A c \in Calls : c.kind \in Kinds /\ c.vals \in Seq(Values(c.kind))
  /\ \A c \in Calls : Len(c.vals) * Width(c.kind) <= CHIP_SIZE

VARIABLES
  mem, mode,       \* the chip's memory and mode register
  selected, cmd, received, pointer, \* its line, command, bytes received, address
  request, kind,   \* the function in progress: the bytes it moves, their type
  tx, rx,          \* what it has still to transfer, what it has got
  result,          \* what the last read returned: [kind, bytes, vals]
  before

chip       == <<mem, mode, selected, cmd, received, pointer>>
driverVars == <<chip, request, kind, tx, rx, result, before>>

Cells == 0 .. CHIP_SIZE - 1

NoRequest == [cmd |-> "none", addr |-> 0, bytes |-> <<>>]
NoResult  == [kind |-> "Byte", bytes |-> <<>>, vals |-> <<>>]

\* Whatever the chip holds when the power is on; begin has yet to be called.
DriverInit ==
  /\ mem = [a \in Cells |-> 0] /\ mode \in {"BYTE_MODE", "SEQ_MODE"}
  /\ selected = FALSE /\ cmd = "none" /\ received = 0 /\ pointer = 0
  /\ request = [NoRequest EXCEPT !.cmd = "begin"]
  /\ kind = "Byte" /\ tx = <<>> /\ rx = <<>>
  /\ result = NoResult
  /\ before = mem

-----------------------------------------------------------------------------
(***************************************************************************)
(* The chip.                                                               *)
(***************************************************************************)

\* Where the chip goes on after a byte.
NextCell == IF mode = "SEQ_MODE" THEN (pointer + 1) % CHIP_SIZE ELSE pointer

\* The chip receives byte b; it answers Answer at the same time.
Receive(b) ==
  /\ received' = IF received < 4 THEN received + 1 ELSE received
  /\ cmd' = IF received = 0 THEN b ELSE cmd
  /\ mode' = IF received = 1 /\ cmd = "WRMR" THEN b ELSE mode
  /\ mem' = IF received = 4 /\ cmd = "WRITE" THEN [mem EXCEPT ![pointer] = b] ELSE mem
  /\ pointer' =
       CASE received \in 1 .. 3 /\ cmd # "WRMR" -> (pointer * BYTE + b) % CHIP_SIZE
         [] received = 4                        -> NextCell
         [] OTHER                               -> pointer
  /\ UNCHANGED selected

Answer == IF received = 4 /\ cmd = "READ" THEN mem[pointer] ELSE 0

\* The chip begins anew when its line changes, and only then.
Select(on) ==
  /\ selected' = on
  /\ IF selected = on THEN UNCHANGED <<cmd, received, pointer>>
     ELSE cmd' = "none" /\ received' = 0 /\ pointer' = 0

-----------------------------------------------------------------------------
(***************************************************************************)
(* The driver.                                                             *)
(***************************************************************************)

AddressBytes(addr) ==
  <<(addr \div (BYTE * BYTE)) % BYTE, (addr \div BYTE) % BYTE, addr % BYTE>>

\* Mutant of begin: the mode is left as it is.
beginKeepsMode ==
  /\ request.cmd = "begin" /\ ~ selected
  /\ Select(TRUE)
  /\ tx' = <<"WRMR", mode>>
  /\ UNCHANGED <<mem, mode, request, kind, rx, result, before>>

\* begin with SEQ_MODE, as BareMetalRAM::begin calls it: setMode.
begin ==
  /\ request.cmd = "begin" /\ ~ selected
  /\ Select(TRUE)
  /\ tx' = <<"WRMR", "SEQ_MODE">>
  /\ UNCHANGED <<mem, mode, request, kind, rx, result, before>>

\* A function that moves the bytes s from or to addr.
Call(op, addr, k, s) ==
  /\ request = NoRequest
  /\ Select(TRUE)
  /\ request' = [cmd |-> op, addr |-> addr, bytes |-> s]
  /\ kind' = k
  /\ tx' = <<op>> \o AddressBytes(addr) \o s
  /\ rx' = <<>>
  /\ before' = mem
  /\ result' = NoResult
  /\ UNCHANGED <<mem, mode>>

\* writeByte, writeInt, ..., writeFloatArray.
write(addr, k, vals) == Call("WRITE", addr, k, BytesOfAll(k, vals))

\* readByte, readInt, ..., readFloatArray: n values, for which zeros are sent.
read(addr, k, n) == Call("READ", addr, k, [i \in 1 .. n * Width(k) |-> 0])

\* SPI.transfer; what comes back before the data is not looked at.
Transfer ==
  /\ selected /\ tx # <<>>
  /\ Receive(Head(tx))
  /\ rx' = IF request.cmd = "READ" /\ received = 4 THEN Append(rx, Answer) ELSE rx
  /\ tx' = Tail(tx)
  /\ UNCHANGED <<request, kind, result, before>>

\* The function deselects the chip and returns.
Deselect ==
  /\ selected /\ tx = <<>>
  /\ Select(FALSE)
  /\ request' = NoRequest /\ kind' = "Byte" /\ rx' = <<>>
  /\ result' = IF request.cmd # "READ" THEN NoResult
               ELSE [kind |-> kind, bytes |-> rx, vals |-> ValuesOfAll(kind, rx)]
  /\ before' = mem
  /\ UNCHANGED <<mem, mode, tx>>

DriverNext ==
  \/ begin
  \/ \E addr \in CallAddrs, c \in Calls :
       write(addr, c.kind, c.vals) \/ read(addr, c.kind, Len(c.vals))
  \/ Transfer
  \/ Deselect

DriverSpec == DriverInit /\ [][DriverNext]_driverVars

-----------------------------------------------------------------------------
(***************************************************************************)
(* Properties.                                                             *)
(***************************************************************************)
DriverTypeOK ==
  /\ mem \in [Cells -> ByteValues] /\ mode \in {"BYTE_MODE", "SEQ_MODE"}
  /\ selected \in BOOLEAN /\ cmd \in {"none", "READ", "WRITE", "WRMR"}
  /\ received \in 0 .. 4 /\ pointer \in Cells
  /\ kind \in Kinds /\ Len(rx) <= Len(request.bytes)
  /\ ~ selected => tx = <<>>

\* What a read returns is a value of its type, and the one whose bytes, as the
\* write of that type sends them, are in the memory: so a value that is written
\* is read back, its sign included.
TypedResult ==
  /\ \A i \in DOMAIN result.vals : result.vals[i] \in Values(result.kind)
  /\ BytesOfAll(result.kind, result.vals) = result.bytes

Busy == request.cmd \in {"READ", "WRITE"}

Store == INSTANCE ByteStore WITH
  SIZE <- CHIP_SIZE,
  store <- IF Busy THEN before ELSE mem,
  request <- IF Busy THEN request ELSE NoRequest,
  got <- result.bytes

\* Each function, transfer by transfer, writes or reads its block of bytes as a
\* whole and no other byte: at the address given, which goes round at the end
\* of the chip, whatever mode the chip was in before begin.
BlocksAtOnce == Store!Spec
=============================================================================
