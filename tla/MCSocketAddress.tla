--------------------------- MODULE MCSocketAddress ---------------------------
(* Model-checking instance of SocketAddress.                               *)
EXTENDS SocketAddress, TLC

Symmetry == Permutations(Addrs) \cup Permutations(Blocks)
=============================================================================
