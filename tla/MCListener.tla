---------------------------- MODULE MCListener ----------------------------
(* Two connections, ints of three values and a buffer of at most one.      *)
EXTENDS Listener, TLC
Symmetry == Permutations(Conns)
=============================================================================
