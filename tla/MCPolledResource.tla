---------------------------- MODULE MCPolledResource ----------------------------
(* PolledResource, for TLC. *)
EXTENDS PolledResource
=============================================================================
