---------------------------- MODULE MCKymaBinding ----------------------------
(* KymaBinding on small instances. *)
EXTENDS KymaBinding
=============================================================================
