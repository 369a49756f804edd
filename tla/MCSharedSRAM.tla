---------------------------- MODULE MCSharedSRAM ----------------------------
(***************************************************************************)
(* The instance of SharedSRAM that TLC checks; see SharedSRAM_heap.cfg.    *)
(***************************************************************************)
EXTENDS SharedSRAM

MCOwners == {0, 1}
=============================================================================
