--------------------------- MODULE MCEntitlement ---------------------------
(* Entitlement on two resources of one key. *)
EXTENDS Entitlement

CONSTANTS c1, c2, c3

\* Distinct powers of two: every set of resources has its own total.
Amounts == [c \in CRs |-> CASE c = c1 -> 1 [] c = c2 -> 2 [] OTHER -> 4]
=============================================================================
