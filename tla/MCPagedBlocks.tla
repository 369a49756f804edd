--------------------------- MODULE MCPagedBlocks ---------------------------
(***************************************************************************)
(* The instance of PagedBlocks that TLC checks; see PagedBlocks_move.cfg.  *)
(***************************************************************************)
EXTENDS PagedBlocks
=============================================================================
