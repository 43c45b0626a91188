----------------------------- MODULE MCTcpInput -----------------------------
(* Model-checking instance of TcpInput.                                    *)
EXTENDS TcpInput
=============================================================================
