-------------------------- MODULE MCDescribeCache --------------------------
(* DescribeCache for three reconciles of one key. *)
EXTENDS DescribeCache, TLC

CONSTANTS r1, r2, r3

Symmetry == Permutations(Reconciles)
=============================================================================
