------------------------------ MODULE TcpInput ------------------------------
(***************************************************************************)
(* The input half of netsock::tcp_streambuf (src/tcp_stream.cpp): the get  *)
(* area over _ibuf, underflow and xsgetn, the connection they receive from *)
(* and the peer.                                                           *)
(*                                                                         *)
(* The connection is established before the stream is built.  The peer's   *)
(* bytes are numbered from 1.  One thread reads; a call that               *)
(* has to receive is in progress (call) until recv returns, and the peer   *)
(* goes on meanwhile.  recv is socket::recv: when ::recv returns 0 it      *)
(* closes the client and returns 0; when ::recv fails with a safe code it  *)
(* returns (size_t)-1; it throws on any other code.                        *)
(***************************************************************************)
EXTENDS TcpStream, SequencesExt

CONSTANTS
  MaxBytes,  \* bound: how many bytes the peer sends
  MaxRead,   \* bound: the largest count one sgetn asks for
  MaxGiven   \* bound: the reader reads behind egptr() until it was given so
             \* many characters

ASSUME InputAssumption ==
  BufSize \in Nat \ {0} /\ MaxBytes \in Nat /\ MaxRead \in Nat /\ MaxGiven \in Nat

VARIABLES
  nonblocking, \* O_NONBLOCK is set, from the beginning or never
  sent,      \* number of bytes the peer has sent
  end,       \* what the peer did in the end: nothing yet, a FIN or a reset
  inq,       \* bytes in the kernel's receive queue
  area,      \* the get area, from gptr() to egptr()
  past,      \* gptr() lies behind egptr()
  call,      \* the call in progress: sgetc, sbumpc or sgetn
  want,      \* characters sgetn still wants
  got,       \* characters sgetn has copied so far
  given,     \* history: characters given to the reader
  delivered, \* history: those of them that were received for it
  dropped,   \* history: bytes taken from the kernel that no reader will see
  starved,   \* history: a recv of underflow brought no character
  corrupt,   \* history: xsgetn wrote outside the reader's array
  cut        \* history: recv threw while a call was in progress

peer   == <<sent, end>>
buffer == <<area, past>>
inputVars == <<nonblocking, peer, inq, connected, buffer, call, want, got,
               given, delivered, dropped, starved, corrupt, cut>>

(* A character that is in the buffer and was not received for the reader.  *)
Stale == 0

InputInit ==
  /\ nonblocking \in BOOLEAN
  /\ sent = 0 /\ end = "open"
  /\ inq = <<>>
  /\ connected = TRUE
  /\ area = <<>> /\ past = FALSE
  /\ call = "none" /\ want = 0 /\ got = <<>>
  /\ given = <<>> /\ delivered = <<>> /\ dropped = {}
  /\ starved = FALSE /\ corrupt = FALSE /\ cut = FALSE

(* The reader is given the characters s, which were received for it.       *)
Give(s) == given' = given \o s /\ delivered' = delivered \o s

-----------------------------------------------------------------------------
(* The peer and the owner of the client.                                   *)

PeerSend ==
  /\ end = "open" /\ sent < MaxBytes
  /\ sent' = sent + 1
  /\ inq' = Append(inq, sent + 1)
  /\ UNCHANGED <<end, connected, buffer, call, want, got, given, delivered, dropped,
                 starved, corrupt, cut>>

PeerEnd ==
  /\ end = "open"
  /\ end' \in {"fin", "reset"}
  /\ UNCHANGED <<sent, inq, connected, buffer, call, want, got, given, delivered,
                 dropped, starved, corrupt, cut>>

CloseClient ==
  /\ call = "none" /\ connected
  /\ connected' = FALSE
  /\ UNCHANGED <<peer, inq, buffer, call, want, got, given, delivered, dropped, starved,
                 corrupt, cut>>

-----------------------------------------------------------------------------
(* What ::recv may do with a buffer of n characters.                       *)
Count(n) == IF n < Len(inq) THEN n ELSE Len(inq)
AtEnd == inq = <<>> /\ end = "fin"
WouldBlock == inq = <<>> /\ end = "open" /\ nonblocking

(* recv throws: interrupted while it waits, or ECONNRESET, which the       *)
(* kernel reports once and which leaves _connected true.                   *)
RecvThrows ==
  /\ inq = <<>>
  /\ end = "reset" \/ (end = "open" /\ ~nonblocking)
  /\ end' = IF end = "reset" THEN "fin" ELSE end
  /\ cut' = TRUE

-----------------------------------------------------------------------------
(* sgetc and sbumpc.                                                       *)

(* While there are characters in the get area only sbumpc changes it.      *)
Bump ==
  /\ call = "none" /\ ~corrupt
  /\ area # <<>>
  /\ Give(<<Head(area)>>)
  /\ area' = Tail(area)
  /\ UNCHANGED <<peer, inq, connected, past, call, want, got, dropped, starved,
                 corrupt, cut>>

(* underflow, up to the recv.                                              *)
StartUnderflow(c) ==
  /\ call = "none" /\ ~corrupt
  /\ area = <<>> /\ ~past
  /\ connected
  /\ call' = c
  /\ UNCHANGED <<peer, inq, connected, buffer, want, got, given, delivered, dropped,
                 starved, corrupt, cut>>

(* gptr() # egptr(): underflow returns what lies behind egptr(), without a *)
(* recv.                                                                   *)
BumpPast ==
  /\ call = "none" /\ ~corrupt
  /\ past /\ Len(given) < MaxGiven
  /\ given' = Append(given, Stale)
  /\ UNCHANGED <<peer, inq, connected, buffer, call, want, got, delivered,
                 dropped, starved, corrupt, cut>>

(* Mutant: underflow asks for one character more than _ibuf holds.         *)
UnderflowLong ==
  /\ call \in {"sgetc", "sbumpc"}
  /\ inq # <<>>
  /\ area' = SubSeq(inq, 1, Count(BufSize + 1))
  /\ inq' = SubSeq(inq, Count(BufSize + 1) + 1, Len(inq))
  /\ call' = "none"
  /\ UNCHANGED <<peer, connected, past, want, got, given, delivered, dropped, starved,
                 corrupt, cut>>

Underflow ==
  /\ call \in {"sgetc", "sbumpc"}
  /\ inq # <<>>
  /\ LET filled == SubSeq(inq, 1, Count(BufSize)) IN
       IF call = "sbumpc"
       THEN Give(<<Head(filled)>>) /\ area' = Tail(filled)
       ELSE area' = filled /\ UNCHANGED <<given, delivered>>
  /\ inq' = SubSeq(inq, Count(BufSize) + 1, Len(inq))
  /\ call' = "none"
  /\ UNCHANGED <<peer, connected, past, want, got, dropped, starved, corrupt, cut>>

(* Mutant: underflow at the end of the stream leaves the client open.      *)
UnderflowEndStaysOpen ==
  /\ call \in {"sgetc", "sbumpc"}
  /\ AtEnd
  /\ past' = (call = "sbumpc")
  /\ given' = Append(given, Stale)
  /\ starved' = TRUE
  /\ call' = "none"
  /\ UNCHANGED <<peer, inq, connected, area, want, got, delivered, dropped,
                 corrupt, cut>>

(* recv returned 0.  underflow does not look at that and returns *gptr(),  *)
(* which sgetc gives to the reader too; sbumpc then moves gptr() behind    *)
(* egptr().                                                                *)
UnderflowEnd ==
  /\ call \in {"sgetc", "sbumpc"}
  /\ AtEnd
  /\ connected' = FALSE
  /\ past' = (call = "sbumpc")
  /\ given' = Append(given, Stale)
  /\ starved' = TRUE
  /\ call' = "none"
  /\ UNCHANGED <<peer, inq, area, want, got, delivered, dropped, corrupt, cut>>

(* recv returned (size_t)-1, and egptr() is set one before gptr(): *gptr() *)
(* is returned as well.                                                    *)
UnderflowAgain ==
  /\ call \in {"sgetc", "sbumpc"}
  /\ WouldBlock
  /\ past' = TRUE
  /\ given' = Append(given, Stale)
  /\ starved' = TRUE
  /\ call' = "none"
  /\ UNCHANGED <<peer, inq, connected, area, want, got, delivered, dropped,
                 corrupt, cut>>

UnderflowThrows ==
  /\ call \in {"sgetc", "sbumpc"}
  /\ RecvThrows
  /\ call' = "none"
  /\ UNCHANGED <<sent, inq, connected, buffer, want, got, given, delivered, dropped,
                 starved, corrupt>>

-----------------------------------------------------------------------------
(* sgetn.                                                                  *)

(* Mutant: xsgetn empties the get area whatever it copied of it.           *)
StartReadEmpties(n) ==
  /\ call = "none" /\ ~corrupt /\ ~past
  /\ LET k == IF n < Len(area) THEN n ELSE Len(area)
         first == SubSeq(area, 1, k) IN
       /\ dropped' = dropped \cup (ToSet(area) \ ToSet(first))
       /\ IF k = n
          THEN Give(first) /\ UNCHANGED <<call, want, got>>
          ELSE call' = "sgetn" /\ want' = n - k /\ got' = first
               /\ UNCHANGED <<given, delivered>>
  /\ area' = <<>>
  /\ UNCHANGED <<peer, inq, connected, past, starved, corrupt, cut>>

(* xsgetn takes what the get area has, and returns if that is enough.  The *)
(* test of connected() comes with every turn of the loop.                  *)
StartRead(n) ==
  /\ call = "none" /\ ~corrupt /\ ~past
  /\ LET k == IF n < Len(area) THEN n ELSE Len(area)
         first == SubSeq(area, 1, k) IN
       /\ area' = SubSeq(area, k + 1, Len(area))
       /\ IF k = n
          THEN Give(first) /\ UNCHANGED <<call, want, got>>
          ELSE call' = "sgetn" /\ want' = n - k /\ got' = first
               /\ UNCHANGED <<given, delivered>>
  /\ UNCHANGED <<peer, inq, connected, past, dropped, starved, corrupt, cut>>

(* With gptr() behind egptr() the count to copy is negative.               *)
StartReadPast ==
  /\ call = "none" /\ ~corrupt /\ past
  /\ corrupt' = TRUE
  /\ UNCHANGED <<peer, inq, connected, buffer, call, want, got, given, delivered,
                 dropped, starved, cut>>

(* Mutant: a turn of the loop copies to the start of the reader's array.   *)
ReadOverwrites ==
  /\ call = "sgetn" /\ connected
  /\ inq # <<>>
  /\ LET k == Count(want)
         all == SubSeq(inq, 1, k) IN
       IF k = want
       THEN /\ Give(all)
            /\ call' = "none" /\ want' = 0 /\ got' = <<>>
       ELSE /\ want' = want - k /\ got' = all
            /\ UNCHANGED <<call, given, delivered>>
  /\ inq' = SubSeq(inq, Count(want) + 1, Len(inq))
  /\ UNCHANGED <<peer, connected, buffer, dropped, starved, corrupt, cut>>

Read ==
  /\ call = "sgetn" /\ connected
  /\ inq # <<>>
  /\ LET k == Count(want)
         all == got \o SubSeq(inq, 1, k) IN
       IF k = want
       THEN /\ Give(all)
            /\ call' = "none" /\ want' = 0 /\ got' = <<>>
       ELSE /\ want' = want - k /\ got' = all
            /\ UNCHANGED <<call, given, delivered>>
  /\ inq' = SubSeq(inq, Count(want) + 1, Len(inq))
  /\ UNCHANGED <<peer, connected, buffer, dropped, starved, corrupt, cut>>

(* Mutant: socket::recv does not close the socket when it got nothing.     *)
ReadEndStaysOpen ==
  /\ call = "sgetn" /\ connected
  /\ AtEnd
  /\ UNCHANGED inputVars

(* recv returned 0: the next turn finds the client closed.                 *)
ReadEnd ==
  /\ call = "sgetn" /\ connected
  /\ AtEnd
  /\ connected' = FALSE
  /\ UNCHANGED <<peer, inq, buffer, call, want, got, given, delivered, dropped, starved,
                 corrupt, cut>>

(* xsgetn returns eof and the characters it had copied are lost with it.   *)
ReadEof ==
  /\ call = "sgetn" /\ ~connected
  /\ call' = "none" /\ want' = 0 /\ got' = <<>>
  /\ dropped' = dropped \cup ToSet(got)
  /\ UNCHANGED <<peer, inq, connected, buffer, given, delivered, starved, corrupt, cut>>

(* (size_t)-1 added to the count takes one away.  The last character is    *)
(* overwritten by the next recv, or recv writes in front of the array.     *)
ReadAgain ==
  /\ call = "sgetn" /\ connected
  /\ WouldBlock
  /\ IF got = <<>>
     THEN /\ corrupt' = TRUE /\ call' = "none" /\ want' = 0
          /\ UNCHANGED <<got, dropped>>
     ELSE /\ got' = Front(got) /\ want' = want + 1
          /\ dropped' = dropped \cup {Last(got)}
          /\ UNCHANGED <<call, corrupt>>
  /\ UNCHANGED <<peer, inq, connected, buffer, given, delivered, starved, cut>>

ReadThrows ==
  /\ call = "sgetn" /\ connected
  /\ RecvThrows
  /\ call' = "none" /\ want' = 0 /\ got' = <<>>
  /\ dropped' = dropped \cup ToSet(got)
  /\ UNCHANGED <<sent, inq, connected, buffer, given, delivered, starved, corrupt>>

-----------------------------------------------------------------------------
Peer == (PeerSend \/ PeerEnd) /\ UNCHANGED nonblocking

(* The reader calls.                                                       *)
Start ==
  /\ \/ Bump \/ BumpPast
     \/ \E c \in {"sgetc", "sbumpc"} : StartUnderflow(c)
     \/ \E n \in 1..MaxRead : StartRead(n)
     \/ StartReadPast
     \/ CloseClient
  /\ UNCHANGED nonblocking

(* A call in progress goes on.                                             *)
Continue ==
  /\ \/ Underflow \/ UnderflowEnd \/ UnderflowAgain \/ UnderflowThrows
     \/ Read \/ ReadEnd \/ ReadEof \/ ReadAgain \/ ReadThrows
  /\ UNCHANGED nonblocking

InputNext == Peer \/ Start \/ Continue

(* A thread that can go on does.  Nothing makes a reader call or a peer    *)
(* send.                                                                   *)
InputSpec == InputInit /\ [][InputNext]_inputVars /\ WF_inputVars(Continue)

-----------------------------------------------------------------------------
(* Every variable has its type, the get area fits _ibuf and only sgetn has *)
(* characters of its own.                                                  *)
InputTypeOK ==
  /\ nonblocking \in BOOLEAN
  /\ sent \in 0..MaxBytes /\ end \in {"open", "fin", "reset"}
  /\ inq \in Seq(1..sent)
  /\ connected \in BOOLEAN /\ past \in BOOLEAN
  /\ area \in Seq(1..sent) /\ Len(area) <= BufSize
  /\ call \in {"none", "sgetc", "sbumpc", "sgetn"}
  /\ want \in 0..MaxRead
  /\ got \in Seq(1..sent) /\ Len(got) + want <= MaxRead
  /\ (call = "sgetn") = (want > 0)
  /\ given \in Seq(Nat)
  /\ delivered \in Seq(1..sent) /\ dropped \subseteq 1..sent
  /\ starved \in BOOLEAN /\ corrupt \in BOOLEAN /\ cut \in BOOLEAN

(* Every byte the peer sent is in one place: with the reader, in a read in *)
(* progress, in the get area, in the kernel, or dropped; and they are in   *)
(* the order they were sent, however recv cuts them up (tcp_stream.cpp:    *)
(* 31-40, 58-69).                                                          *)
Conserved ==
  LET held == delivered \o got \o area \o inq IN
  /\ Increasing(held)
  /\ ToSet(held) \cup dropped = 1..sent
  /\ ToSet(held) \cap dropped = {}

InputStream == INSTANCE ByteStream WITH
  accepted <- [i \in 1..sent |-> i],
  out <- given,
  sound <- ~starved,
  reliable <- connected /\ ~cut /\ ~nonblocking

(* From the peer to the readers the input is the byte stream of ByteStream.*)
(* What the reader is given counts, also the characters that underflow     *)
(* makes up: until a recv of underflow brings nothing, sgetc, sbumpc and   *)
(* sgetn, mixed in any way, give out bytes of the peer and in their order; *)
(* and on a blocking socket, until the client is closed or recv throws in  *)
(* the middle of a call, all of them (tcp_stream.cpp:31-40, 58-69).        *)
InputIsByteStream == InputStream!Spec

(* On a blocking socket a reader is never given a character that was not   *)
(* received for it, and nothing is written outside its array, as long as   *)
(* the client is connected (31-40, 58-61).                                 *)
TrueWhileConnected ==
  (given # delivered \/ corrupt) /\ ~nonblocking => ~connected

(* A reader of a closed client is told so: underflow begins with           *)
(* "if (!_client.connected()) return traits_type::eof()" (33-34).          *)
EofWhenClosed == ~connected /\ area = <<>> => ~past

(* A call that waits in recv returns once the peer has closed or reset the *)
(* connection: the loop of xsgetn ends (63-67).                            *)
ReadReturns == (call # "none" /\ end # "open") ~> (call = "none")

=============================================================================
