------------------------------ MODULE MCSocket ------------------------------
(* Model-checking instance of Socket.                                      *)
EXTENDS Socket, TLC

Symmetry == Permutations(Objs) \cup Permutations(Fds) \cup Permutations(Descs)
=============================================================================
