----------------------------- MODULE ByteStream -----------------------------
(* What one direction of netsock::tcp_stream promises.  As long as the     *)
(* stream is sound, what comes out went in, each item at most once and in  *)
(* the order in which they went in; as long as it is reliable, it is sound *)
(* and what came out is all of it up to some point.  Nothing that came out *)
(* is taken back.  Both halves of the stream buffer implement it:          *)
(* TcpOutput, which is always sound, from the caller to the kernel, and    *)
(* TcpInput, which makes characters up once a recv brought none, from the  *)
(* peer to the reader.                                                     *)
(*                                                                         *)
(* Items are numbers in the order in which they go in.                     *)
EXTENDS Naturals, Sequences, SequencesExt

VARIABLES
  accepted, \* the items that went in
  out,      \* the items that came out
  sound,    \* only items that went in come out
  reliable  \* nothing has happened yet that may lose items

vars == <<accepted, out, sound, reliable>>

Increasing(s) == \A i, j \in DOMAIN s : i < j => s[i] < s[j]

Init ==
  /\ accepted = <<>> /\ out = <<>> /\ sound = TRUE
  /\ reliable \in BOOLEAN

(* Both ends only grow; soundness and reliability, once lost, do not come  *)
(* back.                                                                   *)
Next ==
  /\ IsPrefix(accepted, accepted') /\ Increasing(accepted')
  /\ IsPrefix(out, out')
  /\ sound' => /\ sound
               /\ Increasing(out') /\ ToSet(out') \subseteq ToSet(accepted')
  /\ reliable' => reliable /\ sound' /\ IsPrefix(out', accepted')

Spec == Init /\ [][Next]_vars

=============================================================================
