--------------------------- MODULE MCTypedAccess ---------------------------
(***************************************************************************)
(* The instance of TypedAccess, and of PageCache with the paged allocator  *)
(* in it, that TLC checks; see TypedAccess_paged.cfg.                      *)
(*                                                                         *)
(* Address 1 begins within page 0; 15 is the last byte of the last page    *)
(* number, and the next address means page 0 again.                        *)
(***************************************************************************)
EXTENDS TypedAccess

MCBytes == ByteValues

MCAccessAddrs == {1, 15}

MCAccesses ==
  {[kind |-> "Byte", vals |-> <<1, 0, 1>>], [kind |-> "Long", vals |-> <<-7>>]}
=============================================================================
