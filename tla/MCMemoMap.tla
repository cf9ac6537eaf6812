------------------------------ MODULE MCMemoMap ------------------------------
(* MemoMap on small instances. *)
EXTENDS MemoMap
=============================================================================
