----------------------------- MODULE MCRecency -----------------------------
(***************************************************************************)
(* The instance of Recency that TLC checks; see Recency_api.cfg.           *)
(***************************************************************************)
EXTENDS Recency

MCBytes == {0, 1}
=============================================================================
