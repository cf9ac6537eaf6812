--------------------------- MODULE MCAsyncInstance ---------------------------
(* AsyncInstance on small instances. *)
EXTENDS AsyncInstance
=============================================================================
