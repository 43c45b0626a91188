----------------------------- MODULE MCEndpoints -----------------------------
(* Model-checking instance of Endpoints.                                   *)
EXTENDS Endpoints
=============================================================================
