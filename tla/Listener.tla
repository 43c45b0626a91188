------------------------------- MODULE Listener -------------------------------
(***************************************************************************)
(* tcp_listener (src/tcp_listener.cpp), the clients it accepts and the     *)
(* socket options behind both (src/socket.cpp, src/tcp_client.cpp and      *)
(* set_option and get_option of src/impl/linux.cpp).                       *)
(*                                                                         *)
(* Two threads use one listener.  The acceptor calls accept or             *)
(* accept_client; the controller calls listen, close and no_delay and sets *)
(* options.  The listener's flags are read and written in single steps,    *)
(* as the build makes loads and stores of a bool.  The member that         *)
(* socket() hands out is used for options only, and close is not called    *)
(* while ::accept runs: an accepted connection is there at once.           *)
(*                                                                         *)
(* The kernel is external.  An int has IntValues values and a size_t has   *)
(* twice as many, so that a size_t may be too large for an int.            *)
(***************************************************************************)
EXTENDS Naturals, FiniteSets, FiniteSetsExt

CONSTANTS
  Conns,     \* connections that may be accepted
  Itself,    \* the listening socket
  IntValues, \* bound: values of an int
  MaxBuffer  \* the kernel's limit of a buffer size

ASSUME ListenerAssumption ==
  Itself \notin Conns /\ IntValues \in Nat \ {0, 1} /\ MaxBuffer \in 1..(IntValues - 1)

VARIABLES
  state,     \* what each socket is
  option,    \* what the kernel keeps of each option of each socket
  listening, \* tcp_listener::_listening
  nodelay,   \* tcp_listener::_nodelay
  control,   \* where the controller is
  accepting, \* where the acceptor is, and with which connection
  during,    \* history: values of _nodelay since the acceptor called
  asked,     \* history: the buffer size last asked for, of each socket, if
             \* it was an int
  truthful   \* history: every getter has returned what the kernel keeps

program == <<listening, nodelay, control, accepting>>
vars    == <<state, option, program, during, asked, truthful>>

Sockets == Conns \cup {Itself}
Options == {"nodelay", "reuseaddr", "reuseport", "buffer", "timeout"}

(* A listener may be built from a socket that has TCP_NODELAY already      *)
(* (tcp_listener(socket &&)).                                              *)
Init ==
  /\ state = [k \in Sockets |-> IF k = Itself THEN "open" ELSE "unused"]
  /\ \E on \in {0, 1} :
       option = [k \in Sockets |-> [o \in Options |->
                   IF k = Itself /\ o = "nodelay" THEN on ELSE 0]]
  /\ listening = FALSE /\ nodelay = FALSE
  /\ control = "idle"
  /\ accepting = [at |-> "idle"]
  /\ during = {}
  /\ asked = [k \in Sockets |-> 0]
  /\ truthful = TRUE

Usable(k) == state[k] \notin {"unused", "closed"}

-----------------------------------------------------------------------------
(* Options.                                                                *)

(* map_sock_option and map_tcp_option have a case for it.                  *)
Mapped(o) == o # "reuseport"

(* The bytes that the callers of set_option and get_option hand over: a    *)
(* size_t or a count of milliseconds, otherwise an int.                    *)
Handed(o) == IF o \in {"buffer", "timeout"} THEN 8 ELSE 4

(* The bytes that the kernel wants: a timeval, otherwise an int.           *)
Wanted(o) == IF o = "timeout" THEN 16 ELSE 4

(* What it keeps of the int v: twice the buffer, within limits.            *)
Kept(o, v) ==
  IF o = "buffer" THEN 2 * Min({v, MaxBuffer})
  ELSE IF v = 0 THEN 0 ELSE 1

(* An int in the memory of a size_t, on a little-endian machine.           *)
LowerHalf(n) == n % IntValues

(* The option gets the value n.  All other calls throw: an option without  *)
(* a case, or fewer bytes than the kernel wants (EINVAL).                  *)
SetOption(k, o, n) ==
  /\ Usable(k) /\ Mapped(o) /\ Handed(o) >= Wanted(o)
  /\ option' = [option EXCEPT ![k][o] = Kept(o, LowerHalf(n))]

(* Mutant: the getter's variable has no initial value.                     *)
BeforeDirty == IntValues

(* The getter's variable before getsockopt.                                *)
Before == 0

(* The kernel overwrites the lower half only.  A timeout that is not zero  *)
(* would come back in seconds, but nothing here can set one.               *)
GetOption(k, o) ==
  /\ Usable(k) /\ Mapped(o)
  /\ truthful' = (truthful /\ Before + option[k][o] = option[k][o])

-----------------------------------------------------------------------------
(* The controller.                                                         *)

Idle == control = "idle" /\ UNCHANGED <<accepting, asked, truthful>>

ListenKernel ==
  /\ Idle /\ state[Itself] \in {"open", "listening"}
  /\ state' = [state EXCEPT ![Itself] = "listening"]
  /\ control' = "listened"
  /\ UNCHANGED <<option, listening, nodelay, during>>

ListenFlag ==
  /\ control = "listened"
  /\ listening' = TRUE /\ control' = "idle"
  /\ UNCHANGED <<state, option, nodelay, accepting, during, asked, truthful>>

(* Mutant: the socket is closed before the flag falls.                     *)
CloseSocketFirst ==
  /\ Idle
  /\ state' = [state EXCEPT ![Itself] = "closed"]
  /\ control' = "closing"
  /\ UNCHANGED <<option, listening, nodelay, during>>

CloseFlag ==
  /\ Idle
  /\ listening' = FALSE /\ control' = "closing"
  /\ UNCHANGED <<state, option, nodelay, during>>

CloseKernel ==
  /\ control = "closing"
  /\ state' = [state EXCEPT ![Itself] = "closed"]
  /\ control' = "idle"
  /\ UNCHANGED <<option, listening, nodelay, accepting, during, asked, truthful>>

(* The flag only; the listening socket keeps its option.                   *)
NoDelay(b) ==
  /\ Idle
  /\ nodelay' = b
  /\ during' = IF accepting.at = "idle" THEN {} ELSE during \cup {b}
  /\ UNCHANGED <<state, option, listening, control>>

-----------------------------------------------------------------------------
(* The acceptor.                                                           *)

AsInt(b) == IF b THEN 1 ELSE 0

(* ::accept: the new socket begins with the options of the listening one.  *)
Accept(c, call) ==
  /\ accepting.at = "idle"
  /\ state[Itself] = "listening" /\ state[c] = "unused"
  /\ state' = [state EXCEPT ![c] = "accepted"]
  /\ option' = [option EXCEPT ![c] = option[Itself]]
  /\ asked' = [asked EXCEPT ![c] = asked[Itself]]
  /\ accepting' = [at |-> "accept", conn |-> c, call |-> call]
  /\ during' = {nodelay}
  /\ UNCHANGED <<listening, nodelay, control, truthful>>

(* Mutant: the accepted socket is left with the options it inherited.      *)
AcceptInherits ==
  LET c == accepting.conn IN
  /\ accepting.at = "accept"
  /\ accepting' = [accepting EXCEPT !.at =
                     IF accepting.call = "accept" THEN "done" ELSE "client"]
  /\ UNCHANGED <<state, option, listening, nodelay, control, during, asked, truthful>>

AcceptSetsNoDelay ==
  LET c == accepting.conn IN
  /\ accepting.at = "accept"
  /\ SetOption(c, "nodelay", AsInt(nodelay))
  /\ accepting' = [accepting EXCEPT !.at =
                     IF accepting.call = "accept" THEN "done" ELSE "client"]
  /\ UNCHANGED <<state, listening, nodelay, control, during, asked, truthful>>

(* accept_client reads the flag again.                                     *)
ClientSetsNoDelay ==
  LET c == accepting.conn IN
  /\ accepting.at = "client"
  /\ SetOption(c, "nodelay", AsInt(nodelay))
  /\ accepting' = [accepting EXCEPT !.at = "done"]
  /\ UNCHANGED <<state, listening, nodelay, control, during, asked, truthful>>

(* Mutant: the exception is caught and the call goes on.                   *)
AcceptThrowsSwallowed ==
  /\ accepting.at \in {"accept", "client"}
  /\ state' = [state EXCEPT ![accepting.conn] = "closed"]
  /\ accepting' = [accepting EXCEPT !.at = "client"]
  /\ UNCHANGED <<option, listening, nodelay, control, during, asked, truthful>>

(* setsockopt or the conversion of the address throws: the accepted socket *)
(* is destroyed.                                                           *)
AcceptThrows ==
  /\ accepting.at \in {"accept", "client"}
  /\ state' = [state EXCEPT ![accepting.conn] = "closed"]
  /\ accepting' = [at |-> "idle"] /\ during' = {}
  /\ UNCHANGED <<option, listening, nodelay, control, asked, truthful>>

AcceptReturns ==
  /\ accepting.at = "done"
  /\ state' = [state EXCEPT ![accepting.conn] = "client"]
  /\ accepting' = [at |-> "idle"] /\ during' = {}
  /\ UNCHANGED <<option, listening, nodelay, control, asked, truthful>>

-----------------------------------------------------------------------------
(* Options of the listener and of clients that were returned, by the       *)
(* threads that own them.                                                  *)

Owned(k) == k = Itself \/ state[k] = "client"

(* so_sndbuf and so_rcvbuf take the same way.                              *)
Buffer(k, n) ==
  /\ Owned(k) /\ SetOption(k, "buffer", n)
  /\ asked' = [asked EXCEPT ![k] = IF n < IntValues THEN n ELSE 0]
  /\ UNCHANGED <<state, program, during, truthful>>

(* reuse_port throws; so do the timeouts, both ways the same code.         *)
Flag(k, o, b) ==
  /\ Owned(k) /\ o \in {"reuseaddr", "reuseport", "timeout"}
  /\ SetOption(k, o, AsInt(b))
  /\ UNCHANGED <<state, program, during, asked, truthful>>

ClientNoDelay(c, b) ==
  /\ state[c] = "client" /\ SetOption(c, "nodelay", AsInt(b))
  /\ UNCHANGED <<state, program, during, asked, truthful>>

Get(k, o) ==
  /\ Owned(k) /\ GetOption(k, o)
  /\ UNCHANGED <<state, option, program, during, asked>>

Next ==
  \/ ListenKernel \/ ListenFlag \/ CloseFlag \/ CloseKernel
  \/ \E b \in BOOLEAN : NoDelay(b)
  \/ \E c \in Conns, call \in {"accept", "acceptClient"} : Accept(c, call)
  \/ AcceptSetsNoDelay \/ ClientSetsNoDelay \/ AcceptThrows \/ AcceptReturns
  \/ \E k \in Sockets :
       \/ \E n \in 0..(2 * IntValues - 1) : Buffer(k, n)
       \/ \E o \in Options, b \in BOOLEAN : Flag(k, o, b)
       \/ \E o \in Options : Get(k, o)
  \/ \E c \in Conns, b \in BOOLEAN : ClientNoDelay(c, b)

Spec == Init /\ [][Next]_vars

-----------------------------------------------------------------------------
(* Every variable has its type, and an option that is on or off is never   *)
(* anything else.                                                          *)
TypeOK ==
  /\ state \in [Sockets -> {"unused", "open", "listening", "accepted", "client", "closed"}]
  /\ \A k \in Sockets :
       /\ option[k].buffer \in 0..(2 * MaxBuffer)
       /\ \A o \in Options \ {"buffer"} : option[k][o] \in {0, 1}
  /\ listening \in BOOLEAN /\ nodelay \in BOOLEAN
  /\ control \in {"idle", "listened", "closing"}
  /\ accepting.at \in {"idle", "accept", "client", "done"}
  /\ accepting.at # "idle" => state[accepting.conn] = "accepted"
  /\ during \subseteq BOOLEAN /\ truthful \in BOOLEAN
  /\ asked \in [Sockets -> 0..(IntValues - 1)]

(* listening() is true only of a socket that listens, also while another   *)
(* thread is in the middle of listen or close: listen tells the kernel     *)
(* first and close the flag (tcp_listener.cpp:34-37, 75-77, 99-102).       *)
ListeningFlag == listening => state[Itself] = "listening"

(* What accept and accept_client return has TCP_NODELAY as no_delay() said *)
(* at some time during the call, whatever the listening socket has and     *)
(* however often another thread changes it in between (tcp_listener.cpp:   *)
(* 41-42, 50-51, 59, 63-65).                                               *)
AcceptedNoDelay ==
  accepting.at = "done" =>
    \E b \in during : option[accepting.conn].nodelay = AsInt(b)

(* A buffer has at least the size that was asked for, within the kernel's  *)
(* limit and unless it is too large for an int, of which the kernel sees   *)
(* the rest; and every getter returns what the kernel keeps, also where    *)
(* their sizes differ (socket.cpp:153-219).                                *)
OptionsHold ==
  /\ \A k \in Sockets :
       Usable(k) => option[k].buffer >= Min({asked[k], MaxBuffer})
  /\ truthful

=============================================================================
