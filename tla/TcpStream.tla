------------------------------ MODULE TcpStream ------------------------------
(* What the two halves of netsock::tcp_streambuf (src/tcp_stream.cpp),     *)
(* TcpOutput and TcpInput, have in common.                                 *)
EXTENDS Naturals, Sequences

CONSTANT BufSize \* tcp_streambuf::buffer_size

VARIABLE connected \* tcp_client::connected()

(* Characters are numbered in the order in which they were passed or sent. *)
Increasing(s) == \A i, j \in DOMAIN s : i < j => s[i] < s[j]

=============================================================================
