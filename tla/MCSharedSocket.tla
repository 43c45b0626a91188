--------------------------- MODULE MCSharedSocket ---------------------------
(* Model-checking instance of SharedSocket.                                *)
EXTENDS SharedSocket
=============================================================================
