--------------------------- MODULE DatagramProofs ---------------------------
(* Proofs about Datagrams, for every set of senders and any number of      *)
(* datagrams and connects: _connected follows the kernel and the last      *)
(* connect, what recv gives comes from whom that was for or was early,     *)
(* unless it failed with a code taken for success, nothing is returned     *)
(* twice or left out, and only an empty receive closes the socket by       *)
(* itself.                                                                 *)
EXTENDS Datagrams, SequenceTheorems, TLAPS

Datagram == [from : Senders, empty : BOOLEAN, epoch : Nat]
Receipt  == [data : Datagram, zero : BOOLEAN, by : {"recv", "recvfrom"},
             asked : Senders \cup {None}, tolerated : BOOLEAN, epoch : Nat]

DatagramsTyped ==
  /\ object \in {"none", "socket", "building", "connection", "gone"}
  /\ descriptor \in {"none", "open", "closed"}
  /\ connected \in BOOLEAN
  /\ remote \in Senders \cup {None}
  /\ asked \in Senders \cup {None} /\ tolerated \in BOOLEAN
  /\ epoch \in Nat
  /\ queue \in Seq(Datagram) /\ arrived \in Seq(Datagram)
  /\ received \in Seq(Receipt)

(* Without a descriptor there is nothing to receive from, and before the   *)
(* object there was nothing; a descriptor that is open was not closed.     *)
DescriptorOK ==
  /\ ~Open => ~connected /\ remote = None /\ queue = <<>>
  /\ Open => ended = "not"
  /\ remote # None => connected
  /\ connected /\ ~tolerated => remote # None /\ remote = asked
  /\ object = "none" =>
       descriptor = "none" /\ arrived = <<>> /\ received = <<>> /\ ended = "not"

(* What waits and came after the last connect is from the remote.          *)
QueueOK ==
  \A i \in 1..Len(queue) :
    /\ queue[i].epoch <= epoch
    /\ remote # None /\ queue[i].epoch = epoch => queue[i].from = remote

StrangersEarly ==
  \A i \in 1..Len(received) :
    /\ received[i].by = "recv" /\ received[i].data.epoch = received[i].epoch
    /\ ~received[i].tolerated
    => received[i].data.from = received[i].asked

(* What was returned, and then what waits, is what arrived, one by one.    *)
Matched ==
  /\ Len(received) <= Len(arrived)
  /\ \A i \in 1..Len(received) : received[i].data = arrived[i]
  /\ Open =>
       /\ Len(arrived) = Len(received) + Len(queue)
       /\ \A j \in 1..Len(queue) : arrived[Len(received) + j] = queue[j]

ZeroCloses ==
  /\ ended = "emptyReceive" =>
       Len(received) > 0 /\ received[Len(received)].zero
  /\ \A i \in 1..Len(received) :
       received[i].zero => i = Len(received) /\ ended = "emptyReceive" /\ ~Open

DatagramsInv ==
  DatagramsTyped /\ DescriptorOK /\ QueueOK /\ StrangersEarly /\ Matched /\ ZeroCloses

-----------------------------------------------------------------------------
(* Calls that leave the queue and the connection alone (udp_socket.cpp:    *)
(* 45-75, 137-138 and every receive that throws or would block).           *)
LEMMA QuietStep ==
  ASSUME DatagramsInv,
         object' \in {"socket", "building", "connection", "gone"} \/ object' = object,
         UNCHANGED <<descriptor, connected, remote, queue, history>>
  PROVE  DatagramsInv'
BY DEF DatagramsInv, DatagramsTyped, DescriptorOK, QueueOK, StrangersEarly, Matched,
   ZeroCloses, Open, history, connects

(* The constructors that open a descriptor (udp_socket.cpp:37-43, 137-150).*)
LEMMA CreateStep ==
  ASSUME DatagramsInv, Create \/ CreateBound
  PROVE  DatagramsInv'
<1>1. /\ object = "none" /\ object' \in {"socket", "building", "connection"}
      /\ descriptor' = "open"
      /\ UNCHANGED <<connected, remote, queue, connects, arrived, received, ended>>
  BY DEF Create, CreateBound, kernel, history
<1>2. /\ ~Open /\ Open' /\ arrived = <<>> /\ received = <<>> /\ queue = <<>>
      /\ ~connected /\ remote = None /\ ended = "not"
  BY <1>1 DEF DatagramsInv, DescriptorOK, Open
<1>3. DatagramsTyped' /\ DescriptorOK'
  BY <1>1, <1>2 DEF DatagramsInv, DatagramsTyped, DescriptorOK, connects
<1>4. QueueOK' /\ StrangersEarly' /\ Matched' /\ ZeroCloses'
  BY <1>1, <1>2 DEF QueueOK, StrangersEarly, Matched, ZeroCloses
<1> QED
  BY <1>3, <1>4 DEF DatagramsInv

(* The constructors from a socket of the program (udp_socket.cpp:10-12,    *)
(* 129-131).                                                               *)
LEMMA AdoptStep ==
  ASSUME DatagramsInv, Adopt
  PROVE  DatagramsInv'
<1>1. /\ ~Open /\ arrived = <<>> /\ received = <<>> /\ queue = <<>>
      /\ ~connected /\ remote = None /\ ended = "not" /\ epoch \in Nat
  BY DEF Adopt, DatagramsInv, DatagramsTyped, DescriptorOK, Open
<1>2. object' \in {"socket", "connection"} /\ UNCHANGED <<received, ended>>
  BY DEF Adopt
<1>3. CASE /\ descriptor' = "closed"
           /\ UNCHANGED <<connected, bound, remote, queue, connects, arrived>>
  <2>1. DatagramsTyped' /\ DescriptorOK'
    BY <1>1, <1>2, <1>3 DEF DatagramsInv, DatagramsTyped, DescriptorOK, Open, connects
  <2>2. QueueOK' /\ StrangersEarly' /\ Matched' /\ ZeroCloses'
    BY <1>1, <1>2, <1>3 DEF QueueOK, StrangersEarly, Matched, ZeroCloses, Open
  <2> QED
    BY <2>1, <2>2 DEF DatagramsInv
<1>4. CASE descriptor' = "open"
  <2>1. PICK early \in {<<>>} \cup
               {<<[from |-> s, empty |-> FALSE, epoch |-> 0]>> : s \in Senders} :
          queue' = early /\ arrived' = early
    BY <1>4 DEF Adopt
  <2>2. /\ early \in Seq(Datagram) /\ Len(early) \in Nat
        /\ \A i \in 1..Len(early) : early[i].epoch = 0
    <3>1. CASE early = <<>>
      BY <3>1, EmptySeq
    <3>2. ASSUME NEW s \in Senders,
                 early = <<[from |-> s, empty |-> FALSE, epoch |-> 0]>>
          PROVE  /\ early \in Seq(Datagram) /\ Len(early) \in Nat
                 /\ \A i \in 1..Len(early) : early[i].epoch = 0
      BY <3>2 DEF Datagram
    <3> QED
      BY <2>1, <3>1, <3>2
  <2>3. \/ UNCHANGED <<connected, remote, connects>>
        \/ \E p \in Senders :
             /\ connected' = TRUE /\ asked' = p /\ epoch' = 1
             /\ remote' \in {p, None} /\ tolerated' = (remote' = None)
    BY <1>4 DEF Adopt
  <2>4. /\ connected' \in BOOLEAN /\ tolerated' \in BOOLEAN /\ epoch' \in Nat
        /\ remote' \in Senders \cup {None} /\ asked' \in Senders \cup {None}
        /\ remote' # None => connected' /\ epoch' = 1
        /\ connected' /\ ~tolerated' => remote' # None /\ remote' = asked'
    <3>1. CASE UNCHANGED <<connected, remote, connects>>
      BY <1>1, <3>1 DEF DatagramsInv, DatagramsTyped, connects
    <3>2. ASSUME NEW p \in Senders,
                 connected' = TRUE, asked' = p, epoch' = 1,
                 remote' \in {p, None}, tolerated' = (remote' = None)
          PROVE  /\ connected' \in BOOLEAN /\ tolerated' \in BOOLEAN
                 /\ epoch' \in Nat
                 /\ remote' \in Senders \cup {None}
                 /\ asked' \in Senders \cup {None}
                 /\ connected' /\ ~tolerated' => remote' # None /\ remote' = asked'
      <4>1. tolerated' \in BOOLEAN /\ (~tolerated' => remote' # None)
        BY <3>2
      <4> QED
        BY <3>2, <4>1
    <3>3. remote' # None => connected' /\ epoch' = 1
      BY <1>1, <2>3
    <3> QED
      BY <2>3, <3>1, <3>2, <3>3
  <2>5. DatagramsTyped'
    BY <1>1, <1>2, <1>4, <2>1, <2>2, <2>4 DEF DatagramsInv, DatagramsTyped
  <2>6. DescriptorOK'
    BY <1>1, <1>2, <1>4, <2>4 DEF DescriptorOK, Open
  <2>7. QueueOK'
    BY <2>1, <2>2, <2>4 DEF QueueOK
  <2>8. StrangersEarly' /\ Matched' /\ ZeroCloses'
    BY <1>1, <1>2, <2>1, <2>2 DEF StrangersEarly, Matched, ZeroCloses
  <2> QED
    BY <2>5, <2>6, <2>7, <2>8 DEF DatagramsInv
<1> QED
  BY <1>3, <1>4 DEF Adopt

(* close, the destructors and a constructor that throws (socket.cpp:       *)
(* 229-238, udp_socket.cpp:137-150).                                       *)
LEMMA CloseStep ==
  ASSUME DatagramsInv, BuildThrows \/ Destroy \/ Close
  PROVE  DatagramsInv'
<1>1. /\ object' \in {"socket", "connection", "gone"}
      /\ descriptor' = "closed" /\ ~connected' /\ connected' \in BOOLEAN
      /\ remote' = None /\ queue' = <<>>
      /\ ended' \in {ended, "throwingConstructor", "destructor", "closeCall"}
      /\ ~Open => ended' = ended
      /\ Open => ended' # "emptyReceive"
      /\ asked' = None /\ tolerated' = FALSE
      /\ UNCHANGED <<epoch, arrived, received>>
  BY DEF BuildThrows, Destroy, Close, CloseDescriptor
<1>2. DatagramsTyped'
  BY <1>1, EmptySeq DEF DatagramsInv, DatagramsTyped
<1>3. DescriptorOK' /\ QueueOK' /\ StrangersEarly' /\ Matched'
  BY <1>1 DEF DatagramsInv, DescriptorOK, QueueOK, StrangersEarly, Matched, Open
<1>4. ZeroCloses'
  BY <1>1 DEF DatagramsInv, DescriptorOK, ZeroCloses, Open
<1> QED
  BY <1>2, <1>3, <1>4 DEF DatagramsInv

(* connect that succeeds (udp_socket.cpp:148-158).                         *)
LEMMA ConnectStep ==
  ASSUME DatagramsInv, NEW p \in Senders, Connect(p)
  PROVE  DatagramsInv'
<1>1. /\ Open /\ object' = "connection" /\ remote' = p /\ asked' = p
      /\ connected' /\ connected' \in BOOLEAN
      /\ ~tolerated' /\ tolerated' \in BOOLEAN
      /\ epoch' = epoch + 1
      /\ UNCHANGED <<descriptor, queue, arrived, received, ended>>
  BY DEF Connect
<1>2. DatagramsTyped'
  BY <1>1 DEF DatagramsInv, DatagramsTyped
<1>d. DescriptorOK'
  BY <1>1, DatagramsAssumption DEF DatagramsInv, DescriptorOK, Open
<1>3. QueueOK'
  <2> SUFFICES ASSUME NEW i \in 1..Len(queue)
               PROVE  queue[i].epoch <= epoch' /\ queue[i].epoch # epoch'
    BY <1>1 DEF QueueOK
  <2>1. queue[i] \in Datagram /\ queue[i].epoch <= epoch /\ epoch \in Nat
    BY DEF DatagramsInv, QueueOK, DatagramsTyped
  <2> QED
    BY <1>1, <2>1 DEF Datagram
<1>4. StrangersEarly' /\ Matched' /\ ZeroCloses'
  BY <1>1 DEF DatagramsInv, StrangersEarly, Matched, ZeroCloses, Open
<1> QED
  BY <1>2, <1>d, <1>3, <1>4 DEF DatagramsInv

(* connect that failed with a safe code and is taken for success           *)
(* (socket.cpp:52-55, linux.cpp:121-142, 178-181).                         *)
LEMMA ToleratedStep ==
  ASSUME DatagramsInv, NEW p \in Senders, ConnectTolerated(p)
  PROVE  DatagramsInv'
<1>1. /\ Open /\ object' = "connection" /\ connected' = TRUE
      /\ asked' = p /\ tolerated' = TRUE
      /\ UNCHANGED <<descriptor, remote, queue, epoch, arrived, received, ended>>
  BY DEF ConnectTolerated
<1>2. DatagramsTyped' /\ DescriptorOK'
  BY <1>1 DEF DatagramsInv, DatagramsTyped, DescriptorOK, Open
<1>3. QueueOK' /\ StrangersEarly' /\ Matched' /\ ZeroCloses'
  BY <1>1 DEF DatagramsInv, QueueOK, StrangersEarly, Matched, ZeroCloses, Open
<1> QED
  BY <1>2, <1>3 DEF DatagramsInv

(* A datagram that the kernel takes.                                       *)
LEMMA ArriveStep ==
  ASSUME DatagramsInv, NEW s \in Senders, NEW e \in BOOLEAN, Arrive(s, e)
  PROVE  DatagramsInv'
<1> DEFINE d == [from |-> s, empty |-> e, epoch |-> epoch]
<1>1. /\ Open /\ remote \in {None, s}
      /\ queue' = Append(queue, d) /\ arrived' = Append(arrived, d)
      /\ UNCHANGED <<object, descriptor, connected, remote, asked, tolerated, epoch,
                     received, ended>>
  BY DEF Arrive, program, connects
<1>2. d \in Datagram /\ d.from = s /\ d.epoch = epoch
  BY DEF Datagram, DatagramsInv, DatagramsTyped
<1> HIDE DEF d
<1>3. DatagramsTyped'
  BY <1>1, <1>2 DEF DatagramsInv, DatagramsTyped
<1>4. DescriptorOK'
  BY <1>1 DEF DatagramsInv, DescriptorOK, Open
<1>5. /\ Len(queue') = Len(queue) + 1 /\ queue'[Len(queue) + 1] = d
      /\ \A i \in 1..Len(queue) : queue'[i] = queue[i]
      /\ Len(arrived') = Len(arrived) + 1 /\ arrived'[Len(arrived) + 1] = d
      /\ \A i \in 1..Len(arrived) : arrived'[i] = arrived[i]
      /\ Len(queue) \in Nat /\ Len(arrived) \in Nat /\ Len(received) \in Nat
  BY <1>1, <1>2 DEF DatagramsInv, DatagramsTyped
<1>6. QueueOK'
  BY <1>1, <1>2, <1>5 DEF DatagramsInv, DatagramsTyped, QueueOK
<1>7. Matched'
  <2>1. /\ Len(received) <= Len(arrived) /\ Len(arrived) = Len(received) + Len(queue)
        /\ \A i \in 1..Len(received) : received[i].data = arrived[i]
        /\ \A j \in 1..Len(queue) : arrived[Len(received) + j] = queue[j]
    BY <1>1 DEF DatagramsInv, Matched
  <2>2. \A i \in 1..Len(received) : received'[i].data = arrived'[i]
    BY <1>1, <1>5, <2>1
  <2>3. \A j \in 1..Len(queue') : arrived'[Len(received') + j] = queue'[j]
    <3> SUFFICES ASSUME NEW j \in 1..Len(queue')
                 PROVE  arrived'[Len(received) + j] = queue'[j]
      BY <1>1
    <3>1. CASE j = Len(queue) + 1
      BY <1>5, <2>1, <3>1
    <3>2. CASE j # Len(queue) + 1
      <4>1. j \in 1..Len(queue) /\ Len(received) + j \in 1..Len(arrived)
        BY <1>5, <2>1, <3>2
      <4> QED
        BY <1>5, <2>1, <4>1
    <3> QED
      BY <3>1, <3>2
  <2>4. Len(received') <= Len(arrived') /\ Len(arrived') = Len(received') + Len(queue')
    BY <1>1, <1>5, <2>1
  <2> QED
    BY <1>1, <2>2, <2>3, <2>4 DEF Matched
<1>8. StrangersEarly' /\ ZeroCloses'
  BY <1>1 DEF DatagramsInv, StrangersEarly, ZeroCloses, Open
<1> QED
  BY <1>3, <1>4, <1>6, <1>7, <1>8 DEF DatagramsInv

(* A receive that hands over the first datagram, with bytes or without     *)
(* (socket.cpp:73-119, udp_socket.cpp:66-105, 160-188).                    *)
LEMMA DeliverStep ==
  ASSUME DatagramsInv, NEW by \in {"recv", "recvfrom"}, NEW zero \in BOOLEAN,
         Receives(by), Open, queue # <<>>, Delivers(by, zero),
         UNCHANGED <<object, epoch, arrived>>,
         IF zero THEN CloseDescriptor("emptyReceive")
         ELSE /\ queue' = Tail(queue)
              /\ UNCHANGED <<descriptor, connected, remote, asked, tolerated, ended>>
  PROVE  DatagramsInv'
<1> DEFINE r == [data |-> Head(queue), zero |-> zero, by |-> by,
                 asked |-> asked, tolerated |-> tolerated, epoch |-> epoch]
<1>1. Len(queue) \in Nat \ {0} /\ Head(queue) = queue[1] /\ queue[1] \in Datagram
  BY DEF DatagramsInv, DatagramsTyped
<1>2. /\ r \in Receipt /\ r.data = queue[1] /\ r.zero = zero /\ r.by = by
      /\ r.asked = asked /\ r.tolerated = tolerated /\ r.epoch = epoch
  BY <1>1 DEF Receipt, DatagramsInv, DatagramsTyped
<1>3. received' = Append(received, r)
  BY DEF Delivers
<1> HIDE DEF r
<1>4. /\ received' \in Seq(Receipt)
      /\ Len(received') = Len(received) + 1 /\ received'[Len(received) + 1] = r
      /\ \A i \in 1..Len(received) : received'[i] = received[i]
      /\ Len(received) \in Nat /\ Len(arrived) \in Nat
  BY <1>2, <1>3 DEF DatagramsInv, DatagramsTyped
<1>5. StrangersEarly'
  <2>1. by = "recv" /\ ~tolerated => remote # None /\ remote = asked
    BY DEF Receives, DatagramsInv, DescriptorOK
  <2>2. by = "recv" /\ queue[1].epoch = epoch /\ ~tolerated => queue[1].from = asked
    BY <1>1, <2>1 DEF DatagramsInv, QueueOK
  <2> QED
    BY <1>2, <1>4, <2>2 DEF DatagramsInv, StrangersEarly
<1>6. \A i \in 1..Len(received) : ~received[i].zero
  BY DEF DatagramsInv, ZeroCloses
<1>7. arrived[Len(received) + 1] = queue[1] /\ Len(arrived) = Len(received) + Len(queue)
  BY <1>1 DEF DatagramsInv, Matched
<1>8. CASE zero
  <2>1. /\ descriptor' = "closed" /\ connected' = FALSE /\ remote' = None
        /\ queue' = <<>> /\ ended' = "emptyReceive" /\ ~Open'
        /\ asked' = None /\ tolerated' = FALSE
    BY <1>8 DEF CloseDescriptor, Open
  <2>2. DatagramsTyped'
    BY <1>4, <2>1, EmptySeq DEF DatagramsInv, DatagramsTyped
  <2>3. object' # "none"
    BY DEF Receives
  <2>4. DescriptorOK' /\ QueueOK'
    BY <2>1, <2>3 DEF DescriptorOK, QueueOK
  <2>5. Matched'
    BY <1>1, <1>2, <1>4, <1>7, <2>1 DEF DatagramsInv, Matched
  <2>6. ZeroCloses'
    <3>1. received'[Len(received')].zero /\ Len(received') > 0
      <4>1. received'[Len(received')] = r /\ Len(received') > 0
        BY <1>4
      <4>2. r.zero
        BY <1>2, <1>8
      <4> QED
        BY <4>1, <4>2
    <3>2. ASSUME NEW i \in 1..Len(received'), received'[i].zero
          PROVE  i = Len(received')
      BY <1>4, <1>6, <3>2
    <3> QED
      BY <2>1, <3>1, <3>2 DEF ZeroCloses
  <2> QED
    BY <1>5, <2>2, <2>4, <2>5, <2>6 DEF DatagramsInv
<1>9. CASE ~zero
  <2>1. /\ queue' = Tail(queue)
        /\ UNCHANGED <<descriptor, connected, remote, asked, tolerated, ended>>
    BY <1>9
  <2>2. /\ queue' \in Seq(Datagram) /\ Len(queue') = Len(queue) - 1
        /\ \A j \in 1..Len(queue') : queue'[j] = queue[j + 1]
    BY <1>1, <2>1 DEF DatagramsInv, DatagramsTyped
  <2>3. DatagramsTyped'
    BY <1>4, <2>1, <2>2 DEF DatagramsInv, DatagramsTyped
  <2>4. object' # "none"
    BY DEF Receives
  <2>5. DescriptorOK'
    BY <2>1, <2>4 DEF DatagramsInv, DescriptorOK, Open
  <2>6. QueueOK'
    BY <1>1, <2>1, <2>2 DEF DatagramsInv, QueueOK
  <2>7. Matched'
    <3>1. \A j \in 1..Len(queue) : arrived[Len(received) + j] = queue[j]
      BY DEF DatagramsInv, Matched
    <3>2. ASSUME NEW j \in 1..Len(queue')
          PROVE  arrived'[Len(received') + j] = queue'[j]
      <4>1. j + 1 \in 1..Len(queue) /\ queue'[j] = queue[j + 1]
        BY <1>1, <2>2
      <4>2. Len(received') + j = Len(received) + (j + 1)
        BY <1>4
      <4> QED
        BY <3>1, <4>1, <4>2
    <3>3. \A i \in 1..Len(received') : received'[i].data = arrived'[i]
      BY <1>2, <1>4, <1>7 DEF DatagramsInv, Matched
    <3>4. Len(received') <= Len(arrived') /\ Len(arrived') = Len(received') + Len(queue')
      BY <1>1, <1>4, <1>7, <2>2
    <3> QED
      BY <3>2, <3>3, <3>4 DEF Matched
  <2>8. ZeroCloses'
    BY <1>2, <1>4, <1>6, <1>9, <2>1 DEF DatagramsInv, DescriptorOK, ZeroCloses
  <2> QED
    BY <1>5, <2>3, <2>5, <2>6, <2>7, <2>8 DEF DatagramsInv
<1> QED
  BY <1>8, <1>9

-----------------------------------------------------------------------------
LEMMA DatagramsStep == DatagramsInv /\ [Next]_vars => DatagramsInv'
<1> SUFFICES ASSUME DatagramsInv, [Next]_vars PROVE DatagramsInv'
  OBVIOUS
<1>1. CASE Create \/ CreateBound
  BY <1>1, CreateStep
<1>2. CASE BuildThrows \/ Destroy \/ Close
  BY <1>2, CloseStep
<1>a. CASE Adopt
  BY <1>a, AdoptStep
<1>3. ASSUME NEW p \in Senders, Connect(p) \/ ConnectTolerated(p) PROVE DatagramsInv'
  BY <1>3, ConnectStep, ToleratedStep
<1>4. ASSUME NEW s \in Senders, NEW e \in BOOLEAN, Arrive(s, e) PROVE DatagramsInv'
  BY <1>4, ArriveStep
<1>5. ASSUME NEW by \in {"recv", "recvfrom"}, Receive(by) PROVE DatagramsInv'
  BY <1>5, DeliverStep DEF Receive, program, connects
<1>6. ASSUME NEW by \in {"recv", "recvfrom"}, ReceiveZero(by) PROVE DatagramsInv'
  BY <1>6, DeliverStep DEF ReceiveZero
<1>7. CASE \/ Take \/ Bind \/ ConnectThrows \/ SendTo \/ Send \/ SendRefused \/ Refuse
           \/ UNCHANGED vars
           \/ \E by \in {"recv", "recvfrom"} : ReceiveRefused(by) \/ ReceiveNothing(by)
  <2>1. /\ object' \in {"socket", "building", "connection", "gone"} \/ object' = object
        /\ UNCHANGED <<descriptor, connected, remote, queue, history>>
    BY <1>7 DEF Take, Bind, ConnectThrows, SendTo, Send, SendRefused, Refuse, ReceiveRefused,
       ReceiveNothing, vars, program, kernel
  <2> QED
    BY <2>1, QuietStep
<1> QED
  BY <1>1, <1>a, <1>2, <1>3, <1>4, <1>5, <1>6, <1>7 DEF Next

(* The invariant behind the four properties holds in every reachable state *)
(* of a udp_socket or udp_connection.                                      *)
THEOREM DatagramsInvariant == Spec => []DatagramsInv
<1>1. Init => DatagramsInv
  <2> SUFFICES ASSUME Init PROVE DatagramsInv
    OBVIOUS
  <2>1. DatagramsTyped
    BY EmptySeq DEF Init, DatagramsTyped
  <2>2. DescriptorOK /\ QueueOK /\ StrangersEarly /\ Matched /\ ZeroCloses
    BY DEF Init, DescriptorOK, QueueOK, StrangersEarly, Matched, ZeroCloses, Open
  <2> QED
    BY <2>1, <2>2 DEF DatagramsInv
<1> QED
  BY <1>1, DatagramsStep, PTL DEF Spec

(* connected() is true only of an open socket whose remote in the kernel   *)
(* is whom the last connect was for, unless that connect was tolerated     *)
(* (socket.cpp:52-55, 229-234).                                            *)
THEOREM DatagramsFlagIsRemote == Spec => []FlagIsRemote
<1>1. DatagramsInv => FlagIsRemote
  BY DEF DatagramsInv, DescriptorOK, FlagIsRemote
<1> QED
  BY <1>1, DatagramsInvariant, PTL

(* What recv returns is from whom the last connect was for, or arrived     *)
(* before it, unless that connect was tolerated (udp_socket.cpp:137-158).  *)
THEOREM DatagramsStrangersOnlyEarly == Spec => []StrangersOnlyEarly
<1>1. DatagramsInv => StrangersOnlyEarly
  <2> SUFFICES ASSUME DatagramsInv, NEW r \in ToSet(received),
                      r.by = "recv", r.data.epoch = r.epoch, ~r.tolerated
               PROVE  r.data.from = r.asked
    BY DEF StrangersOnlyEarly
  <2>1. PICK i \in 1..Len(received) : r = received[i]
    BY DEF ToSet, DatagramsInv, DatagramsTyped
  <2> QED
    BY <2>1 DEF DatagramsInv, StrangersEarly
<1> QED
  BY <1>1, DatagramsInvariant, PTL

(* What the kernel took is returned once and in order, and lost only with  *)
(* the socket (socket.cpp:73-119).                                         *)
THEOREM DatagramsReturnedOnce == Spec => []ReturnedOnce
<1>1. DatagramsInv => ReturnedOnce
  <2> SUFFICES ASSUME DatagramsInv PROVE ReturnedOnce
    OBVIOUS
  <2> DEFINE got == [i \in DOMAIN received |-> received[i].data]
  <2>1. DOMAIN received = 1..Len(received) /\ Len(received) \in Nat
    BY DEF DatagramsInv, DatagramsTyped
  <2>2. \A i \in 1..Len(received) : received[i].data \in Datagram
    <3>1. ASSUME NEW i \in 1..Len(received) PROVE received[i] \in Receipt
      BY DEF DatagramsInv, DatagramsTyped
    <3> QED
      BY <3>1 DEF Receipt
  <2>3. got \in Seq(Datagram) /\ Len(got) = Len(received)
    BY <2>1, <2>2, IsASeq, LenProperties
  <2>4. \A i \in 1..Len(received) : got[i] = arrived[i]
    BY <2>1 DEF DatagramsInv, Matched
  <2>5. queue \in Seq(Datagram) /\ arrived \in Seq(Datagram) /\ Len(received) <= Len(arrived)
    BY DEF DatagramsInv, DatagramsTyped, Matched
  <2> HIDE DEF got
  <2>6. CASE Open
    <3>0. /\ Len(arrived) = Len(received) + Len(queue)
          /\ \A j \in 1..Len(queue) : arrived[Len(received) + j] = queue[j]
      BY <2>6 DEF DatagramsInv, Matched
    <3>1. /\ Len(got \o queue) = Len(arrived)
          /\ \A i \in 1..Len(arrived) : (got \o queue)[i] = arrived[i]
      <4>1. /\ Len(got \o queue) = Len(got) + Len(queue)
            /\ \A i \in 1..(Len(got) + Len(queue)) : (got \o queue)[i] =
                 IF i <= Len(got) THEN got[i] ELSE queue[i - Len(got)]
        BY <2>3, <2>5, ConcatProperties
      <4>2. ASSUME NEW i \in 1..Len(arrived)
            PROVE  (got \o queue)[i] = arrived[i]
        <5>1. CASE i <= Len(received)
          BY <2>1, <2>3, <2>4, <3>0, <4>1, <5>1
        <5>2. CASE ~(i <= Len(received))
          <6>1. i - Len(received) \in 1..Len(queue)
            BY <2>1, <2>5, <3>0, <5>2
          <6>2. arrived[Len(received) + (i - Len(received))] = queue[i - Len(received)]
            BY <3>0, <6>1
          <6>3. Len(received) + (i - Len(received)) = i
            BY <2>1
          <6> QED
            BY <2>1, <2>3, <3>0, <4>1, <5>2, <6>2, <6>3
        <5> QED
          BY <5>1, <5>2
      <4> QED
        BY <2>3, <3>0, <4>1, <4>2
    <3>2. arrived = got \o queue
      BY <2>3, <2>5, <3>1, SeqEqual, ConcatProperties
    <3> QED
      BY <2>6, <3>2 DEF ReturnedOnce, got
  <2>7. CASE ~Open
    <3>1. IsPrefix(got, arrived)
      BY <2>3, <2>4, <2>5 DEF IsPrefix
    <3> QED
      BY <2>7, <3>1 DEF ReturnedOnce, got
  <2> QED
    BY <2>6, <2>7
<1> QED
  BY <1>1, DatagramsInvariant, PTL

(* Only a receive that returns 0 closes the socket by itself, and nothing  *)
(* is received after it (socket.cpp:77-78, 105-106).                       *)
THEOREM DatagramsClosedByZero == Spec => []ClosedByZero
<1>1. DatagramsInv => ClosedByZero
  BY DEF DatagramsInv, DatagramsTyped, ZeroCloses, ClosedByZero, Last
<1> QED
  BY <1>1, DatagramsInvariant, PTL

=============================================================================
