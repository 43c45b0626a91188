------------------------------ MODULE MCClients ------------------------------
(* Model-checking instance of Clients.                                     *)
EXTENDS Clients, TLC

Symmetry == Permutations(Objs) \cup Permutations(Fds) \cup Permutations(Descs)
=============================================================================
