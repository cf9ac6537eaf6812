-------------------------- MODULE MCResourceUsage --------------------------
(* ResourceUsage on small instances. *)
EXTENDS ResourceUsage

CONSTANTS s1, t1

OneRef == [n \in Targets |-> s1]
=============================================================================
