------------------------------ MODULE Datagrams ------------------------------
(***************************************************************************)
(* udp_socket and udp_connection (src/udp_socket.cpp): one socket that is  *)
(* created, bound and perhaps connected by the program while datagrams of  *)
(* several senders arrive.  A udp_socket calls sendto and recvfrom; a      *)
(* udp_connection calls connect, send and recv, which the flag _connected  *)
(* guards.                                                                 *)
(*                                                                         *)
(* The kernel and the network are external.  A datagram that is lost, or   *)
(* that finds the receive queue full, takes no step; one that was          *)
(* duplicated or overtaken arrives as another one.  A connected socket is  *)
(* given no datagram of anyone but its remote, and is told that the remote *)
(* refused an earlier one (ECONNREFUSED) by its next call.                 *)
(*                                                                         *)
(* A call that fails and changes nothing ("socket not connected", EINVAL)  *)
(* leaves all variables unchanged.  The descriptor is the only one: what   *)
(* calls with the number of a closed socket do to another is in Socket.    *)
(***************************************************************************)
EXTENDS Naturals, Sequences, SequencesExt

CONSTANTS
  Senders,     \* endpoints of the network
  None,        \* no endpoint
  MaxArrivals, \* bound: datagrams that arrive
  MaxConnects  \* bound: connects that the kernel carries out

ASSUME DatagramsAssumption ==
  None \notin Senders /\ MaxArrivals \in Nat /\ MaxConnects \in Nat

VARIABLES
  object,      \* the C++ object that owns the socket; "building" is a
               \* constructor of udp_connection that has not connected yet
  descriptor,  \* its descriptor
  connected,   \* socket::_connected
  nonblocking, \* O_NONBLOCK
  bound,       \* it has a local address
  remote,      \* whom it is connected to
  queue,       \* the receive queue: from whom each datagram is, whether it
               \* is empty, and how often the socket was connected before
  underway,    \* a datagram of the socket may still reach its remote
  refused,     \* an error waits to be reported
  asked,       \* history: whom the last connect that returned was for
  tolerated,   \* history: that connect failed with a safe code
  epoch,       \* history: how often it was connected
  arrived,     \* history: the datagrams the kernel took
  received,    \* history: the datagrams the program was given, and how
  ended        \* history: what closed the descriptor

program == <<object, descriptor, connected, nonblocking>>
kernel  == <<bound, remote, queue, underway, refused>>
connects == <<asked, tolerated, epoch>>
history == <<connects, arrived, received, ended>>
vars    == <<program, kernel, history>>

Init ==
  /\ object = "none" /\ descriptor = "none" /\ connected = FALSE
  /\ nonblocking \in BOOLEAN
  /\ bound = FALSE /\ remote = None /\ queue = <<>>
  /\ underway = FALSE /\ refused = FALSE
  /\ asked = None /\ tolerated = FALSE
  /\ epoch = 0 /\ arrived = <<>> /\ received = <<>> /\ ended = "not"

Open == descriptor = "open"

(* The descriptor is closed, for the reason given; its queue goes with it. *)
CloseDescriptor(why) ==
  /\ descriptor' = "closed" /\ connected' = FALSE
  /\ ended' = IF Open THEN why ELSE ended
  /\ bound' = FALSE /\ remote' = None /\ queue' = <<>>
  /\ underway' = FALSE /\ refused' = FALSE
  /\ asked' = None /\ tolerated' = FALSE

-----------------------------------------------------------------------------
(* Constructors and destructors.                                           *)

Create ==
  /\ object = "none"
  /\ object' \in {"socket", "connection"}
  /\ descriptor' = "open"
  /\ UNCHANGED <<connected, nonblocking, kernel, history>>

(* udp_connection(endpoint) and udp_connection(local, remote) bind first.  *)
CreateBound ==
  /\ object = "none"
  /\ object' \in {"connection", "building"}
  /\ descriptor' = "open" /\ bound' = TRUE
  /\ UNCHANGED <<connected, nonblocking, remote, queue, underway, refused, history>>

(* The constructors from a socket(&&): it may be closed, or have been      *)
(* bound and connected by the program, with a datagram that came before    *)
(* the connect in its queue.  One that was moved from is not handed over.  *)
Adopt ==
  /\ object = "none"
  /\ object' \in {"socket", "connection"}
  /\ \/ /\ descriptor' = "closed"
        /\ UNCHANGED <<connected, bound, remote, queue, connects, arrived>>
     \/ /\ descriptor' = "open" /\ bound' = TRUE
        /\ \E early \in {<<>>} \cup
                 {<<[from |-> s, empty |-> FALSE, epoch |-> 0]>> : s \in Senders} :
             queue' = early /\ arrived' = early
        /\ \/ UNCHANGED <<connected, remote, connects>>
           \/ \E p \in Senders :
                /\ connected' = TRUE /\ asked' = p /\ epoch' = 1
                /\ remote' \in {p, None} /\ tolerated' = (remote' = None)
  /\ UNCHANGED <<nonblocking, underway, refused, received, ended>>

(* udp_connection(udp_socket &&), alone or with the remote.                *)
Take ==
  /\ object = "socket"
  /\ object' \in {"connection", "building"}
  /\ UNCHANGED <<descriptor, connected, nonblocking, kernel, history>>

(* connect in a constructor throws: its socket is destroyed.               *)
BuildThrows ==
  /\ object = "building"
  /\ object' = "gone"
  /\ CloseDescriptor("throwingConstructor")
  /\ UNCHANGED <<nonblocking, epoch, arrived, received>>

Destroy ==
  /\ object \in {"socket", "connection"}
  /\ object' = "gone"
  /\ CloseDescriptor("destructor")
  /\ UNCHANGED <<nonblocking, epoch, arrived, received>>

(* socket().close(): both classes hand out their member.                   *)
Close ==
  /\ object \in {"socket", "connection"}
  /\ CloseDescriptor("closeCall")
  /\ UNCHANGED <<object, nonblocking, epoch, arrived, received>>

-----------------------------------------------------------------------------
Bind ==
  /\ object \in {"socket", "connection"} /\ Open /\ ~bound
  /\ bound' = TRUE
  /\ UNCHANGED <<program, remote, queue, underway, refused, history>>

(* Mutant: the flag is set and the kernel is not told.                     *)
ConnectFlagOnly(p) ==
  /\ object \in {"building", "connection"} /\ Open
  /\ epoch < MaxConnects
  /\ object' = "connection"
  /\ connected' = TRUE /\ bound' = TRUE
  /\ asked' = p /\ tolerated' = FALSE /\ epoch' = epoch + 1
  /\ UNCHANGED <<descriptor, nonblocking, remote, queue, underway, refused, arrived,
                 received, ended>>

(* connect ends a constructor, or is called on an object that may be       *)
(* connected already.  The queue keeps what arrived before.                *)
Connect(p) ==
  /\ object \in {"building", "connection"} /\ Open
  /\ epoch < MaxConnects
  /\ object' = "connection"
  /\ connected' = TRUE /\ bound' = TRUE /\ remote' = p
  /\ asked' = p /\ tolerated' = FALSE /\ epoch' = epoch + 1
  /\ underway' = FALSE
  /\ UNCHANGED <<descriptor, nonblocking, queue, refused, arrived, received, ended>>

(* ::connect failed with a safe code and is taken for success: the flag    *)
(* goes up, and the kernel keeps the remote it had, or none.  EAGAIN: no   *)
(* port was left to bind to; ENOBUFS comes after that.                     *)
ConnectTolerated(p) ==
  /\ object \in {"building", "connection"} /\ Open
  /\ object' = "connection"
  /\ connected' = TRUE /\ bound' \in {bound, TRUE}
  /\ asked' = p /\ tolerated' = TRUE
  /\ UNCHANGED <<descriptor, nonblocking, remote, queue, underway, refused, epoch,
                 arrived, received, ended>>

(* No route to the remote: connect throws, and may have bound the socket.  *)
ConnectThrows ==
  /\ object = "connection" /\ Open
  /\ bound' = TRUE
  /\ UNCHANGED <<program, remote, queue, underway, refused, history>>

(* sendto gives an unbound socket an address.  A datagram to the remote of *)
(* a connected socket may be refused.                                      *)
SendTo ==
  /\ object = "socket" /\ Open /\ ~refused
  /\ bound' = TRUE
  /\ underway' \in {underway, underway \/ remote # None}
  /\ UNCHANGED <<program, remote, queue, refused, history>>

(* Without a remote send binds the socket and throws (EDESTADDRREQ).       *)
Send ==
  /\ object = "connection" /\ connected /\ ~refused
  /\ bound' = TRUE
  /\ underway' = (underway \/ remote # None)
  /\ UNCHANGED <<program, remote, queue, refused, history>>

(* A send that finds the error of an earlier one reports it and throws.    *)
SendRefused ==
  /\ refused
  /\ \/ object = "socket"
     \/ object = "connection" /\ connected
  /\ refused' = FALSE
  /\ UNCHANGED <<program, bound, remote, queue, underway, history>>

-----------------------------------------------------------------------------
(* The first datagram of the queue is handed over; zero: the call returns  *)
(* 0.                                                                      *)
Delivers(by, zero) ==
  received' = Append(received, [data |-> Head(queue), zero |-> zero, by |-> by,
                                asked |-> asked, tolerated |-> tolerated,
                                epoch |-> epoch])

(* Which receive the object may call.                                      *)
Receives(by) ==
  \/ by = "recvfrom" /\ object = "socket"
  \/ by = "recv" /\ object = "connection" /\ connected

(* One datagram with bytes, into a buffer with room; what does not fit is  *)
(* dropped by the kernel.                                                  *)
Receive(by) ==
  /\ Receives(by) /\ Open /\ ~refused /\ queue # <<>> /\ ~Head(queue).empty
  /\ Delivers(by, FALSE)
  /\ queue' = Tail(queue)
  /\ UNCHANGED <<program, bound, remote, underway, refused, connects, arrived, ended>>

(* Mutant: the receive that throws has closed the socket as well.          *)
ReceiveRefusedCloses(by) ==
  /\ Receives(by) /\ Open /\ refused
  /\ CloseDescriptor("emptyReceive")
  /\ UNCHANGED <<object, nonblocking, epoch, arrived, received>>

(* Mutant: and has taken a datagram.                                       *)
ReceiveRefusedTakes(by) ==
  /\ Receives(by) /\ Open /\ refused
  /\ refused' = FALSE
  /\ queue' = IF queue = <<>> THEN <<>> ELSE Tail(queue)
  /\ UNCHANGED <<program, bound, remote, underway, history>>

(* ECONNREFUSED is no safe code: receive throws.                           *)
ReceiveRefused(by) ==
  /\ Receives(by) /\ Open /\ refused
  /\ refused' = FALSE
  /\ UNCHANGED <<program, bound, remote, queue, underway, history>>

(* Mutant: the flag stays up when the receive closes the socket.           *)
ReceiveZeroKeepsFlag(by) ==
  /\ Receives(by) /\ Open /\ ~refused /\ queue # <<>>
  /\ Delivers(by, TRUE)
  /\ descriptor' = "closed" /\ ended' = "emptyReceive"
  /\ bound' = FALSE /\ remote' = None /\ queue' = <<>>
  /\ UNCHANGED <<object, connected, nonblocking, underway, refused, connects, arrived>>

(* An empty datagram, or any into a buffer of length 0, is taken by the    *)
(* kernel for a receive of 0 bytes, and the socket closes itself.          *)
ReceiveZero(by) ==
  /\ Receives(by) /\ Open /\ ~refused /\ queue # <<>>
  /\ Delivers(by, TRUE)
  /\ CloseDescriptor("emptyReceive")
  /\ UNCHANGED <<object, nonblocking, epoch, arrived>>

(* Nothing is queued on a non-blocking socket: EWOULDBLOCK is a safe code. *)
(* recv returns (size_t)-1.  recvfrom hands an address that is still zero  *)
(* to convert_address, which throws.  A blocking socket waits.             *)
ReceiveNothing(by) ==
  /\ Receives(by) /\ Open /\ ~refused /\ queue = <<>> /\ nonblocking
  /\ UNCHANGED vars

-----------------------------------------------------------------------------
(* The network.                                                            *)

Arrive(s, empty) ==
  LET d == [from |-> s, empty |-> empty, epoch |-> epoch] IN
  /\ Open /\ bound /\ remote \in {None, s}
  /\ Len(arrived) < MaxArrivals
  /\ queue' = Append(queue, d) /\ arrived' = Append(arrived, d)
  /\ UNCHANGED <<program, bound, remote, underway, refused, connects, received, ended>>

Refuse ==
  /\ Open /\ underway
  /\ refused' = TRUE /\ underway' = FALSE
  /\ UNCHANGED <<program, bound, remote, queue, history>>

Next ==
  \/ Create \/ CreateBound \/ Adopt \/ Take \/ BuildThrows \/ Destroy \/ Close
  \/ Bind \/ SendTo \/ Send \/ SendRefused
  \/ \E p \in Senders : Connect(p) \/ ConnectTolerated(p)
  \/ ConnectThrows
  \/ \E by \in {"recv", "recvfrom"} :
       Receive(by) \/ ReceiveRefused(by) \/ ReceiveZero(by) \/ ReceiveNothing(by)
  \/ \E s \in Senders, e \in BOOLEAN : Arrive(s, e)
  \/ Refuse

Spec == Init /\ [][Next]_vars

-----------------------------------------------------------------------------
(* What recv of a udp_connection returns comes from the endpoint that the  *)
(* last connect was for, or was queued before that connect: between bind   *)
(* and connect of the constructor (udp_socket.cpp:148-149), while the      *)
(* socket that was taken over was still open to all (129-138), or from the *)
(* remote of an earlier connect.  The exception is a connect that failed   *)
(* with a code taken for success (socket.cpp:52-55, linux.cpp:178-181):    *)
(* after it recv returns what anyone, or the earlier remote, sent later.   *)
StrangersOnlyEarly ==
  \A r \in ToSet(received) :
    r.by = "recv" /\ r.data.epoch = r.epoch /\ ~r.tolerated => r.data.from = r.asked

(* Every datagram the kernel took is returned once and in the order of     *)
(* arrival, by whichever of recv and recvfrom comes first; a receive that  *)
(* throws (socket.cpp:74-75, linux.cpp:193, 209) takes none; what is lost  *)
(* is lost with the socket.                                                *)
ReturnedOnce ==
  LET got == [i \in DOMAIN received |-> received[i].data] IN
  IF Open THEN arrived = got \o queue ELSE IsPrefix(got, arrived)

(* A receive closes the socket when it returns 0, for a datagram without   *)
(* bytes or a buffer without room, and never because the remote refused a  *)
(* datagram or because nothing has arrived; nothing is received afterwards *)
(* (socket.cpp:77-78, 105-106).                                            *)
ClosedByZero ==
  /\ ended = "emptyReceive" => received # <<>> /\ Last(received).zero
  /\ \A i \in DOMAIN received :
       received[i].zero => i = Len(received) /\ ended = "emptyReceive" /\ ~Open

(* While _connected is true the socket is open and its remote in the       *)
(* kernel is whom the program last asked for, over failed and repeated     *)
(* connects, a socket that was taken over and one that closed itself       *)
(* (socket.cpp:52-55, 229-234), unless that connect failed with a code     *)
(* taken for success.  While there is a remote the flag is true.           *)
FlagIsRemote ==
  /\ connected => Open /\ (tolerated \/ (remote # None /\ remote = asked))
  /\ remote # None => connected

=============================================================================
