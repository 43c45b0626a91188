----------------------------- MODULE MCPollList -----------------------------
(* Model-checking instance of PollList.                                    *)
EXTENDS PollList

Symmetry == Permutations(Objs) \cup Permutations(Fds) \cup Permutations(Descs)
=============================================================================
