-------------------------- MODULE MCServiceBinding --------------------------
(* ServiceBinding on small instances. *)
EXTENDS ServiceBinding
=============================================================================
