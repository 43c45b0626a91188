----------------------------- MODULE MCTcpOutput -----------------------------
(* Model-checking instance of TcpOutput.                                   *)
EXTENDS TcpOutput
=============================================================================
