-------------------------- MODULE MCTwoPhaseCreate --------------------------
(* TwoPhaseCreate on small instances. *)
EXTENDS TwoPhaseCreate
=============================================================================
