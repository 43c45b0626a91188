---------------------------- MODULE MCDatagrams ----------------------------
(* Two senders: the remote of the connection and a stranger.               *)
EXTENDS Datagrams, TLC
Symmetry == Permutations(Senders)
=============================================================================
