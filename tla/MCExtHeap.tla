----------------------------- MODULE MCExtHeap -----------------------------
(***************************************************************************)
(* The instance of ExtHeap that TLC checks; see ExtHeap_heap.cfg.          *)
(***************************************************************************)
EXTENDS ExtHeap

MCOwners == {0, 1}
=============================================================================
