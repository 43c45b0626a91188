------------------------------ MODULE TcpOutput ------------------------------
(***************************************************************************)
(* The output half of netsock::tcp_streambuf (src/tcp_stream.cpp): the put *)
(* area over _obuf, the four virtual functions that fill and empty it, and *)
(* the connection they send to.                                            *)
(*                                                                         *)
(* Characters are numbered in the order in which callers pass them, so     *)
(* that a lost, repeated or overtaken one shows.  A call that fails uses   *)
(* up the numbers of its characters and they appear nowhere.               *)
(*                                                                         *)
(* The stream object is used by one thread.  The input half and the owner  *)
(* of the client reach this half only through tcp_client::connected().     *)
(***************************************************************************)
EXTENDS TcpStream, Functions

CONSTANTS
  MaxWrite,  \* bound: the longest sequence one xsputn call gets
  MaxChars,  \* bound: how many characters callers pass in all
  Again      \* send() returned (size_t)-1: a safe error code, nothing taken

ASSUME OutputAssumption ==
  /\ BufSize \in Nat \ {0} /\ MaxWrite \in Nat /\ MaxChars \in Nat
  /\ Again \notin Nat

VARIABLES
  alive,     \* the stream buffer exists
  overrun,   \* the byte behind _obuf, which is part of the reference _client,
             \* has another value than before
  put,       \* the put area, from pbase() to pptr()
  next,      \* number of characters passed to the stream so far
  wire,      \* characters the kernel took, in order
  accepted,  \* history: characters whose call reported success, in order
  lost       \* history: the ways in which accepted characters were lost

vars == <<alive, connected, overrun, put, next, wire, accepted, lost>>

Causes == {"shortSend", "fullBuffer", "noFlush"}

Init ==
  /\ alive = TRUE
  /\ connected = TRUE
  /\ overrun = FALSE
  /\ put = <<>>
  /\ next = 0
  /\ wire = <<>>
  /\ accepted = <<>>
  /\ lost = {}

-----------------------------------------------------------------------------
(* The next n characters.                                                  *)
Chars(n) == [i \in 1..n |-> next + i]

(* What send() of n characters may return.  None of the callers compares   *)
(* it with n; sync compares it with 0, which ::send returns only for n = 0. *)
Results(n) == IF n = 0 THEN {0} ELSE (1..n) \cup {Again}

Taken(s, r) == IF r = Again THEN <<>> ELSE SubSeq(s, 1, r)

Loss(s, r) == IF r # Len(s) THEN {"shortSend"} ELSE {}

(* The functions of the buffer that go through _client need it intact.     *)
Usable == alive /\ ~overrun

(* Callers pass n more characters.                                         *)
Pass(n) == next + n <= MaxChars /\ next' = next + n

-----------------------------------------------------------------------------
(* sputc while there is room: only the put area changes, connected or not. *)
Store ==
  /\ alive
  /\ Len(put) < BufSize
  /\ Pass(1)
  /\ put' = Append(put, next + 1)
  /\ accepted' = Append(accepted, next + 1)
  /\ UNCHANGED <<alive, connected, overrun, wire, lost>>

(* sputc with the put area full.  The test for a full buffer compares the  *)
(* put pointer with the start of the get area, which it never equals, so   *)
(* nothing is sent and the character is written behind _obuf.  It is       *)
(* reported as stored.  If it happens to equal the byte that was there the *)
(* buffer stays usable; otherwise no later use of _client is defined.      *)
Overflow ==
  /\ Usable /\ connected
  /\ Len(put) = BufSize
  /\ Pass(1)
  /\ overrun' \in BOOLEAN
  /\ accepted' = Append(accepted, next + 1)
  /\ lost' = lost \cup {"fullBuffer"}
  /\ UNCHANGED <<alive, connected, put, wire>>

(* Mutant: xsputn does not send the put area before it fills it again.     *)
WriteWithoutFlush(n) ==
  /\ Usable /\ connected
  /\ n <= BufSize
  /\ Pass(n)
  /\ put' = Chars(n)
  /\ accepted' = accepted \o Chars(n)
  /\ UNCHANGED <<alive, connected, overrun, wire, lost>>

(* xsputn of n characters.  Its test for room is also always true, so it   *)
(* sends the put area first, however little that is, and resets it         *)
(* whatever send returned.  More than a bufferful goes out directly; that  *)
(* send may return less than n or throw, the former reported as success.   *)
Write(n) ==
  /\ Usable /\ connected
  /\ Pass(n)
  /\ \E r \in Results(Len(put)) :
       LET flushed == wire \o Taken(put, r) IN
       \/ /\ n <= BufSize
          /\ wire' = flushed
          /\ put' = Chars(n)
          /\ accepted' = accepted \o Chars(n)
          /\ lost' = lost \cup Loss(put, r)
       \/ /\ n > BufSize
          /\ put' = <<>>
          /\ \E q \in Results(n) :
               /\ wire' = flushed \o Taken(Chars(n), q)
               /\ lost' = lost \cup Loss(put, r) \cup Loss(Chars(n), q)
          /\ accepted' = accepted \o Chars(n)
       \/ /\ n > BufSize
          /\ put' = <<>>
          /\ wire' = flushed
          /\ lost' = lost \cup Loss(put, r)
          /\ UNCHANGED accepted
  /\ UNCHANGED <<alive, connected, overrun>>

(* A call that fails before it changed anything: overflow and xsputn when  *)
(* the client is not connected, and when their first send throws.          *)
Refuse(n) ==
  /\ Usable
  /\ Pass(n)
  /\ UNCHANGED <<alive, connected, overrun, put, wire, accepted, lost>>

(* Mutant: sync does not reset the put area.                               *)
SyncKeeps ==
  /\ Usable /\ connected
  /\ \E r \in Results(Len(put)) :
       wire' = wire \o Taken(put, r) /\ lost' = lost \cup Loss(put, r)
  /\ UNCHANGED <<alive, connected, overrun, put, next, accepted>>

(* sync that reports success: the put area is reset even when send took    *)
(* only part of it, or nothing.                                            *)
Sync ==
  /\ Usable /\ connected
  /\ \E r \in Results(Len(put)) :
       wire' = wire \o Taken(put, r) /\ lost' = lost \cup Loss(put, r)
  /\ put' = <<>>
  /\ UNCHANGED <<alive, connected, overrun, next, accepted>>

(* There is no destructor that would flush.                                *)
Destroy ==
  /\ alive
  /\ alive' = FALSE
  /\ put' = <<>>
  /\ lost' = IF put = <<>> THEN lost ELSE lost \cup {"noFlush"}
  /\ UNCHANGED <<connected, overrun, next, wire, accepted>>

(* The input half met the end of the stream, or the owner closed the       *)
(* client.                                                                 *)
Disconnect ==
  /\ connected
  /\ connected' = FALSE
  /\ UNCHANGED <<alive, overrun, put, next, wire, accepted, lost>>

Next ==
  \/ Store
  \/ Overflow
  \/ \E n \in 0..MaxWrite : Write(n)
  \/ \E n \in 1..MaxWrite : Refuse(n)
  \/ Sync
  \/ Destroy
  \/ Disconnect

Spec == Init /\ [][Next]_vars

-----------------------------------------------------------------------------
(* The put area never holds more than _obuf has room for, and all          *)
(* characters are ones that were passed.                                   *)
TypeOK ==
  /\ alive \in BOOLEAN /\ connected \in BOOLEAN /\ overrun \in BOOLEAN
  /\ put \in Seq(1..next) /\ Len(put) <= BufSize
  /\ next \in 0..MaxChars
  /\ wire \in Seq(1..next)
  /\ accepted \in Seq(1..next)
  /\ lost \subseteq Causes

(* What a call reported as written is on the wire or still in the buffer,  *)
(* in order, unless one of three things happened: a send took less than it *)
(* was given (tcp_stream.cpp:46, 50, 74 ignore what it returns), a single  *)
(* character met a full buffer (19-29), or the buffer was destroyed before *)
(* a flush.                                                                *)
NothingLost == lost = {} => accepted = wire \o put

(* Even then, and after failed calls that are tried again, no character is *)
(* sent twice, overtakes another or is sent although its call failed       *)
(* (tcp_stream.cpp:42-56, 71-79).                                          *)
SentInOrder ==
  /\ Increasing(wire \o put)
  /\ Range(wire \o put) \subseteq Range(accepted)

ByteStream == INSTANCE ByteStream WITH
  out <- wire,
  sound <- TRUE,
  reliable <- lost = {}

(* From the callers of the stream buffer to the kernel the output is the   *)
(* byte stream of ByteStream, reliable until one of the three losses: what *)
(* is on the wire never changes, repeats or overtakes anything, also after *)
(* failed calls that are tried again (tcp_stream.cpp:19-29, 42-56, 71-79). *)
ImplementsByteStream == ByteStream!Spec

(* "if (pptr() == eback())" the buffer is sent and starts anew before the  *)
(* character is stored (22-25): no character is written outside _obuf.     *)
PutStaysInside == ~overrun

=============================================================================
