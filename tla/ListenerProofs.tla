---------------------------- MODULE ListenerProofs ----------------------------
(* Proofs about Listener, for every set of connections and every range of  *)
(* int: the two flags of tcp_listener agree with the kernel and with what  *)
(* accept hands out, whatever the two threads do between each other's      *)
(* steps.                                                                  *)
EXTENDS Listener, TLAPS

(* The acceptor has a connection from ::accept to the return.              *)
AcceptingOK ==
  /\ accepting \in [at : {"idle"}]
                   \cup [at : {"accept", "client", "done"}, conn : Conns,
                         call : {"accept", "acceptClient"}]
  /\ accepting.at # "idle" =>
       state[accepting.conn] = "accepted" /\ nodelay \in during

(* Every option set on the connection came from one of the values during   *)
(* the call.                                                               *)
OptionOfCall ==
  accepting.at \in {"client", "done"} =>
    \E b \in during : option[accepting.conn]["nodelay"] = AsInt(b)

(* What the controller is in the middle of.                                *)
ControlOK ==
  /\ control \in {"idle", "listened", "closing"}
  /\ control = "listened" => state[Itself] = "listening"
  /\ control = "closing" => ~listening

Typed ==
  /\ state \in [Sockets -> {"unused", "open", "listening", "accepted", "client", "closed"}]
  /\ option = [k \in Sockets |-> [o \in Options |-> option[k][o]]]
  /\ listening \in BOOLEAN /\ nodelay \in BOOLEAN /\ during \subseteq BOOLEAN

ListenerInv == Typed /\ AcceptingOK /\ OptionOfCall /\ ControlOK /\ ListeningFlag

-----------------------------------------------------------------------------
(* setsockopt keeps no_delay as it is given, 0 or 1 (linux.cpp:224-227).   *)
LEMMA KeepsFlag ==
  ASSUME NEW b \in BOOLEAN
  PROVE  Kept("nodelay", LowerHalf(AsInt(b))) = AsInt(b)
<1>1. 0 % IntValues = 0 /\ 1 % IntValues = 1
  BY ListenerAssumption
<1> QED
  BY <1>1 DEF Kept, LowerHalf, AsInt

(* An option that is set changes nothing else (linux.cpp:214-227).         *)
LEMMA SetsOne ==
  ASSUME Typed, NEW k \in Sockets, NEW o \in Options, NEW n, SetOption(k, o, n)
  PROVE  /\ option' = [j \in Sockets |-> [p \in Options |-> option'[j][p]]]
         /\ option'[k][o] = Kept(o, LowerHalf(n))
         /\ \A j \in Sockets, p \in Options :
              j # k \/ p # o => option'[j][p] = option[j][p]
BY DEF SetOption, Typed

-----------------------------------------------------------------------------
(* The controller: listen, close and no_delay (tcp_listener.cpp:34-37,     *)
(* 63-65, 99-102).                                                         *)
LEMMA ControllerStep ==
  ASSUME ListenerInv,
         \/ ListenKernel \/ ListenFlag \/ CloseFlag \/ CloseKernel
         \/ \E b \in BOOLEAN : NoDelay(b)
  PROVE  ListenerInv'
<1> USE ListenerAssumption DEF ListenerInv, Sockets
<1>1. CASE ListenKernel
  <2>1. Typed' /\ ControlOK' /\ ListeningFlag'
    BY <1>1 DEF ListenKernel, Idle, Typed, ControlOK, ListeningFlag
  <2>2. AcceptingOK' /\ OptionOfCall'
    BY <1>1 DEF ListenKernel, Idle, AcceptingOK, OptionOfCall, AsInt, Typed
  <2> QED
    BY <2>1, <2>2
<1>2. CASE ListenFlag
  <2>1. Typed' /\ ControlOK' /\ ListeningFlag'
    BY <1>2 DEF ListenFlag, Typed, ControlOK, ListeningFlag
  <2>2. AcceptingOK' /\ OptionOfCall'
    BY <1>2 DEF ListenFlag, AcceptingOK, OptionOfCall, AsInt
  <2> QED
    BY <2>1, <2>2
<1>3. CASE CloseFlag
  <2>1. Typed' /\ ControlOK' /\ ListeningFlag'
    BY <1>3 DEF CloseFlag, Idle, Typed, ControlOK, ListeningFlag
  <2>2. AcceptingOK' /\ OptionOfCall'
    BY <1>3 DEF CloseFlag, Idle, AcceptingOK, OptionOfCall, AsInt
  <2> QED
    BY <2>1, <2>2
<1>4. CASE CloseKernel
  <2>1. Typed' /\ ControlOK' /\ ListeningFlag'
    BY <1>4 DEF CloseKernel, Typed, ControlOK, ListeningFlag
  <2>2. AcceptingOK' /\ OptionOfCall'
    BY <1>4 DEF CloseKernel, AcceptingOK, OptionOfCall, AsInt, Typed
  <2> QED
    BY <2>1, <2>2
<1>5. ASSUME NEW b \in BOOLEAN, NoDelay(b) PROVE ListenerInv'
  <2>1. Typed' /\ ControlOK' /\ ListeningFlag'
    BY <1>5 DEF NoDelay, Idle, Typed, ControlOK, ListeningFlag
  <2>2. AcceptingOK'
    BY <1>5 DEF NoDelay, Idle, AcceptingOK
  <2>3. OptionOfCall'
    BY <1>5 DEF NoDelay, Idle, AcceptingOK, OptionOfCall
  <2> QED
    BY <2>1, <2>2, <2>3
<1> QED
  BY <1>1, <1>2, <1>3, <1>4, <1>5

(* The acceptor: accept and accept_client (39-61).                         *)
LEMMA AcceptorStep ==
  ASSUME ListenerInv,
         \/ \E c \in Conns, call \in {"accept", "acceptClient"} : Accept(c, call)
         \/ AcceptSetsNoDelay \/ ClientSetsNoDelay \/ AcceptThrows \/ AcceptReturns
  PROVE  ListenerInv'
<1> USE ListenerAssumption DEF ListenerInv, Sockets
<1>1. ASSUME NEW c \in Conns, NEW call \in {"accept", "acceptClient"}, Accept(c, call)
      PROVE  ListenerInv'
  <2>1. c \in Sockets /\ Itself \in Sockets /\ c # Itself
    OBVIOUS
  <2>2. Typed'
    <3>1. option' = [k \in Sockets |-> [o \in Options |-> option'[k][o]]]
      <4>1. \A k \in Sockets : option'[k] = option[IF k = c THEN Itself ELSE k]
        BY <1>1, <2>1 DEF Accept, Typed
      <4>2. \A k \in Sockets : option[k] = [o \in Options |-> option[k][o]]
        BY DEF Typed
      <4>3. \A k \in Sockets : option'[k] = [o \in Options |-> option'[k][o]]
        BY <2>1, <4>1, <4>2
      <4>4. option' = [k \in Sockets |-> option'[k]]
        BY <1>1 DEF Accept, Typed
      <4> QED
        BY <4>3, <4>4
    <3>2. /\ state' = [state EXCEPT ![c] = "accepted"]
          /\ during' = {nodelay}
          /\ UNCHANGED <<listening, nodelay>>
      BY <1>1 DEF Accept
    <3> QED
      BY <3>1, <3>2 DEF Typed
  <2>3. AcceptingOK'
    <3>1. accepting' = [at |-> "accept", conn |-> c, call |-> call]
      BY <1>1 DEF Accept
    <3>2. state'[c] = "accepted" /\ nodelay' \in during'
      BY <1>1, <2>1 DEF Accept, Typed
    <3> QED
      BY <3>1, <3>2 DEF AcceptingOK
  <2>4. OptionOfCall'
    BY <1>1 DEF Accept, OptionOfCall
  <2>5. ControlOK' /\ ListeningFlag'
    BY <1>1, <2>1 DEF Accept, Typed, ControlOK, ListeningFlag
  <2> QED
    BY <2>2, <2>3, <2>4, <2>5
<1>2. CASE AcceptSetsNoDelay \/ ClientSetsNoDelay
  <2> DEFINE c == accepting.conn
  <2>1. /\ c \in Conns /\ accepting.at \in {"accept", "client"}
        /\ SetOption(c, "nodelay", AsInt(nodelay))
        /\ accepting' \in {[accepting EXCEPT !.at = "client"],
                          [accepting EXCEPT !.at = "done"]}
        /\ UNCHANGED <<state, listening, nodelay, control, during>>
    BY <1>2 DEF AcceptSetsNoDelay, ClientSetsNoDelay, AcceptingOK
  <2>2. "nodelay" \in Options /\ nodelay \in BOOLEAN
    BY DEF Options, Typed
  <2>3. Typed' /\ option'[c]["nodelay"] = AsInt(nodelay)
    BY <2>1, <2>2, SetsOne, KeepsFlag DEF Typed
  <2>4. AcceptingOK' /\ accepting'.conn = c
    BY <2>1 DEF AcceptingOK
  <2>5. OptionOfCall'
    BY <2>1, <2>3, <2>4 DEF OptionOfCall, AcceptingOK, AsInt
  <2> QED
    BY <2>1, <2>3, <2>4, <2>5 DEF ControlOK, ListeningFlag
<1>3. CASE AcceptThrows \/ AcceptReturns
  <2>1. /\ accepting.at # "idle" /\ accepting' = [at |-> "idle"] /\ during' = {}
        /\ state' \in {[state EXCEPT ![accepting.conn] = "closed"],
                       [state EXCEPT ![accepting.conn] = "client"]}
        /\ UNCHANGED <<option, listening, nodelay, control>>
    BY <1>3 DEF AcceptThrows, AcceptReturns
  <2>2. accepting.conn \in Conns
    BY <2>1 DEF AcceptingOK
  <2>3. Typed'
    BY <2>1 DEF Typed
  <2>4. state'[Itself] = state[Itself]
    BY <2>1, <2>2 DEF Typed
  <2>5. AcceptingOK' /\ OptionOfCall'
    BY <2>1 DEF AcceptingOK, OptionOfCall
  <2> QED
    BY <2>1, <2>3, <2>4, <2>5 DEF ControlOK, ListeningFlag
<1> QED
  BY <1>1, <1>2, <1>3

(* The owners of the listener and of returned clients: options only        *)
(* (socket.cpp:153-219, tcp_client.cpp:53-56).                             *)
LEMMA OwnerStep ==
  ASSUME ListenerInv,
         \/ \E k \in Sockets :
              \/ \E n \in 0..(2 * IntValues - 1) : Buffer(k, n)
              \/ \E o \in Options, b \in BOOLEAN : Flag(k, o, b)
              \/ \E o \in Options : Get(k, o)
         \/ \E c \in Conns, b \in BOOLEAN : ClientNoDelay(c, b)
  PROVE  ListenerInv'
<1>1. ASSUME NEW k \in Sockets, NEW o \in Options, NEW n, SetOption(k, o, n),
             Owned(k), UNCHANGED <<state, program, during>>
      PROVE  ListenerInv'
  <2>1. Typed'
    BY <1>1, SetsOne DEF ListenerInv, Typed, program
  <2>2. accepting.at # "idle" => accepting.conn # k /\ accepting.conn \in Sockets
    BY <1>1, ListenerAssumption DEF ListenerInv, AcceptingOK, Owned, Sockets
  <2>3. accepting.at # "idle" =>
          option'[accepting.conn]["nodelay"] = option[accepting.conn]["nodelay"]
    BY <1>1, <2>2, SetsOne DEF ListenerInv, Options
  <2>4. OptionOfCall'
    BY <1>1, <2>3 DEF ListenerInv, OptionOfCall, AsInt, program
  <2> QED
    BY <1>1, <2>1, <2>4 DEF ListenerInv, AcceptingOK, ControlOK, ListeningFlag, program
<1>2. ASSUME NEW k \in Sockets, NEW o \in Options, Get(k, o) PROVE ListenerInv'
  BY <1>2 DEF Get, ListenerInv, Typed, AcceptingOK, OptionOfCall, ControlOK,
     ListeningFlag, program
<1>3. ASSUME NEW k \in Sockets, NEW n \in 0..(2 * IntValues - 1), Buffer(k, n)
      PROVE  ListenerInv'
  BY <1>1, <1>3 DEF Buffer, Options
<1>4. ASSUME NEW k \in Sockets, NEW o \in Options, NEW b \in BOOLEAN, Flag(k, o, b)
      PROVE  ListenerInv'
  BY <1>1, <1>4 DEF Flag
<1>5. ASSUME NEW c \in Conns, NEW b \in BOOLEAN, ClientNoDelay(c, b)
      PROVE  ListenerInv'
  BY <1>1, <1>5 DEF ClientNoDelay, Owned, Options, Sockets
<1> QED
  BY <1>2, <1>3, <1>4, <1>5

-----------------------------------------------------------------------------
(* The invariant of the two threads holds in every reachable state.        *)
THEOREM ListenerInvariant == Spec => []ListenerInv
<1>1. Init => ListenerInv
  <2> SUFFICES ASSUME Init PROVE ListenerInv
    OBVIOUS
  <2>1. Typed
    BY DEF Init, Typed
  <2>2. AcceptingOK /\ OptionOfCall /\ ControlOK /\ ListeningFlag
    BY DEF Init, AcceptingOK, OptionOfCall, ControlOK, ListeningFlag
  <2> QED
    BY <2>1, <2>2 DEF ListenerInv
<1>2. ListenerInv /\ [Next]_vars => ListenerInv'
  <2> SUFFICES ASSUME ListenerInv, [Next]_vars PROVE ListenerInv'
    OBVIOUS
  <2>1. CASE UNCHANGED vars
    BY <2>1 DEF vars, program, ListenerInv, Typed, AcceptingOK, OptionOfCall,
       ControlOK, ListeningFlag
  <2>2. CASE Next
    BY <2>2, ControllerStep, AcceptorStep, OwnerStep DEF Next
  <2> QED
    BY <2>1, <2>2
<1> QED
  BY <1>1, <1>2, PTL DEF Spec

(* listening() is never true of a socket that does not listen, in no       *)
(* moment of listen and close (tcp_listener.cpp:34-37, 99-102).            *)
THEOREM ListenerFlag == Spec => []ListeningFlag
<1>1. ListenerInv => ListeningFlag
  BY DEF ListenerInv
<1> QED
  BY <1>1, ListenerInvariant, PTL

(* An accepted socket has a no_delay of the time of the call               *)
(* (tcp_listener.cpp:39-65).                                               *)
THEOREM ListenerAcceptedNoDelay == Spec => []AcceptedNoDelay
<1>1. ListenerInv => AcceptedNoDelay
  BY DEF ListenerInv, OptionOfCall, AcceptedNoDelay
<1> QED
  BY <1>1, ListenerInvariant, PTL

-----------------------------------------------------------------------------
(* What the kernel keeps of every socket's options: switches are 0 or 1,   *)
(* a buffer is what was asked for or the limit.  It does not matter what   *)
(* became of the socket.                                                   *)
OptionsOK ==
  /\ asked \in [Sockets -> 0..(IntValues - 1)]
  /\ \A k \in Sockets :
       /\ option[k]["buffer"] \in 0..(2 * MaxBuffer)
       /\ option[k]["buffer"] >= Min({asked[k], MaxBuffer})
       /\ \A o \in Options \ {"buffer"} : option[k][o] \in {0, 1}
  /\ truthful = TRUE

(* The least of two numbers.                                               *)
LEMMA MinOfTwo ==
  ASSUME NEW a \in Int, NEW b \in Int
  PROVE  Min({a, b}) = IF a <= b THEN a ELSE b
<1>1. \E x \in {a, b} : \A y \in {a, b} : x <= y
  OBVIOUS
<1>2. Min({a, b}) \in {a, b} /\ \A y \in {a, b} : Min({a, b}) <= y
  BY <1>1 DEF Min
<1> QED
  BY <1>2

(* What the kernel keeps of a size_t: of one that is an int at least as    *)
(* much as was asked for, within the limit (socket.cpp:187-202).           *)
LEMMA KeepsBuffer ==
  ASSUME NEW n \in 0..(2 * IntValues - 1)
  PROVE  /\ Kept("buffer", LowerHalf(n)) \in 0..(2 * MaxBuffer)
         /\ LET a == IF n < IntValues THEN n ELSE 0 IN
              /\ a \in 0..(IntValues - 1)
              /\ Kept("buffer", LowerHalf(n)) >= Min({a, MaxBuffer})
<1>1. /\ IntValues \in Nat /\ IntValues > 0 /\ MaxBuffer \in Nat /\ n \in Nat
      /\ n % IntValues \in 0..(IntValues - 1)
      /\ n < IntValues => n % IntValues = n
  BY ListenerAssumption
<1>2. Kept("buffer", LowerHalf(n))
        = 2 * (IF n % IntValues <= MaxBuffer THEN n % IntValues ELSE MaxBuffer)
  BY <1>1, MinOfTwo DEF Kept, LowerHalf
<1>3. /\ Min({n, MaxBuffer}) = (IF n <= MaxBuffer THEN n ELSE MaxBuffer)
      /\ Min({0, MaxBuffer}) = 0
  BY <1>1, MinOfTwo
<1>4. CASE n < IntValues
  BY <1>1, <1>2, <1>3, <1>4
<1>5. CASE ~(n < IntValues)
  BY <1>1, <1>2, <1>3, <1>5
<1> QED
  BY <1>4, <1>5

(* A step that sets one option of one socket to what that option may be.   *)
LEMMA OptionSet ==
  ASSUME Typed, OptionsOK, NEW k \in Sockets, NEW o \in Options \ {"buffer"},
         NEW b \in BOOLEAN, SetOption(k, o, AsInt(b)), UNCHANGED <<asked, truthful>>
  PROVE  OptionsOK'
<1>1. 0 % IntValues = 0 /\ 1 % IntValues = 1
  BY ListenerAssumption
<1>2. Kept(o, LowerHalf(AsInt(b))) \in {0, 1}
  BY <1>1 DEF Kept, LowerHalf, AsInt
<1>3. \A j \in Sockets : option'[j]["buffer"] = option[j]["buffer"]
  BY SetsOne DEF Options
<1>4. ASSUME NEW j \in Sockets, NEW p \in Options \ {"buffer"}
      PROVE  option'[j][p] \in {0, 1}
  <2>1. CASE j = k /\ p = o
    BY <1>2, <2>1, SetsOne
  <2>2. CASE j # k \/ p # o
    <3>1. option'[j][p] = option[j][p]
      BY <2>2, SetsOne
    <3> QED
      BY <3>1 DEF OptionsOK
  <2> QED
    BY <2>1, <2>2
<1> QED
  BY <1>3, <1>4 DEF OptionsOK

(* No step breaks it (tcp_listener.cpp:39-61, socket.cpp:153-219).         *)
LEMMA OptionsStep == ListenerInv /\ OptionsOK /\ [Next]_vars => OptionsOK'
<1> SUFFICES ASSUME ListenerInv, OptionsOK, [Next]_vars PROVE OptionsOK'
  OBVIOUS
<1>t. Typed
  BY DEF ListenerInv
<1>1. CASE UNCHANGED <<option, asked, truthful>>
  BY <1>1 DEF OptionsOK
<1>2. ASSUME NEW c \in Conns, NEW call \in {"accept", "acceptClient"}, Accept(c, call)
      PROVE  OptionsOK'
  <2>1. \A k \in Sockets :
          /\ option'[k] = option[IF k = c THEN Itself ELSE k]
          /\ asked'[k] = asked[IF k = c THEN Itself ELSE k]
    BY <1>2, <1>t DEF Accept, Typed, OptionsOK, Sockets
  <2>2. \A k \in Sockets : (IF k = c THEN Itself ELSE k) \in Sockets
    BY DEF Sockets
  <2>3. asked' \in [Sockets -> 0..(IntValues - 1)] /\ truthful' = truthful
    BY <1>2 DEF Accept, OptionsOK, Sockets
  <2> QED
    BY <2>1, <2>2, <2>3 DEF OptionsOK
<1>3. CASE AcceptSetsNoDelay \/ ClientSetsNoDelay
  <2>1. accepting.conn \in Sockets /\ nodelay \in BOOLEAN /\ "nodelay" \in Options
    BY <1>3 DEF AcceptSetsNoDelay, ClientSetsNoDelay, ListenerInv, AcceptingOK,
       Typed, Sockets, Options
  <2> QED
    BY <1>3, <1>t, <2>1, OptionSet DEF AcceptSetsNoDelay, ClientSetsNoDelay
<1>4. ASSUME NEW k \in Sockets, NEW n \in 0..(2 * IntValues - 1), Buffer(k, n)
      PROVE  OptionsOK'
  <2> DEFINE a == IF n < IntValues THEN n ELSE 0
  <2>1. /\ asked' = [asked EXCEPT ![k] = a] /\ truthful' = truthful
        /\ SetOption(k, "buffer", n) /\ "buffer" \in Options
    BY <1>4 DEF Buffer, Options
  <2>2. /\ option'[k]["buffer"] = Kept("buffer", LowerHalf(n))
        /\ \A j \in Sockets, p \in Options :
             j # k \/ p # "buffer" => option'[j][p] = option[j][p]
    BY <1>t, <2>1, SetsOne
  <2>3. /\ a \in 0..(IntValues - 1)
        /\ option'[k]["buffer"] \in 0..(2 * MaxBuffer)
        /\ option'[k]["buffer"] >= Min({a, MaxBuffer})
    BY <2>2, KeepsBuffer
  <2>4. asked' \in [Sockets -> 0..(IntValues - 1)] /\ asked'[k] = a
    BY <2>1, <2>3 DEF OptionsOK
  <2>5. \A j \in Sockets \ {k} : asked'[j] = asked[j]
    BY <2>1 DEF OptionsOK
  <2>h. HIDE DEF a
  <2> QED
    BY <2>1, <2>2, <2>3, <2>4, <2>5 DEF OptionsOK
<1>5. ASSUME NEW k \in Sockets, NEW o \in Options, NEW b \in BOOLEAN, Flag(k, o, b)
      PROVE  OptionsOK'
  BY <1>5, <1>t, OptionSet DEF Flag
<1>6. ASSUME NEW c \in Conns, NEW b \in BOOLEAN, ClientNoDelay(c, b) PROVE OptionsOK'
  BY <1>6, <1>t, OptionSet DEF ClientNoDelay, Sockets, Options
<1>7. ASSUME NEW k \in Sockets, NEW o \in Options, Get(k, o) PROVE OptionsOK'
  <2>1. option[k][o] \in Nat
    <3>1. option[k]["buffer"] \in 0..(2 * MaxBuffer)
      BY DEF OptionsOK
    <3>2. \A p \in Options \ {"buffer"} : option[k][p] \in {0, 1}
      BY DEF OptionsOK
    <3>3. CASE o = "buffer"
      BY <3>1, <3>3, ListenerAssumption
    <3>4. CASE o # "buffer"
      BY <3>2, <3>4
    <3> QED
      BY <3>3, <3>4
  <2>2. 0 + option[k][o] = option[k][o]
    BY <2>1
  <2>3. truthful' = truthful /\ UNCHANGED <<option, asked>>
    BY <1>7, <2>2 DEF Get, GetOption, Before, OptionsOK
  <2> QED
    BY <2>3 DEF OptionsOK
<1> QED
  BY <1>1, <1>2, <1>3, <1>4, <1>5, <1>6, <1>7
     DEF Next, vars, Idle, ListenKernel, ListenFlag, CloseFlag, CloseKernel, NoDelay,
         AcceptThrows, AcceptReturns

LEMMA OptionsInvariant == Spec => []OptionsOK
<1>1. Init => OptionsOK
  <2>1. Min({0, MaxBuffer}) = 0
    BY MinOfTwo, ListenerAssumption
  <2> QED
    BY <2>1, ListenerAssumption DEF Init, OptionsOK, Options
<1> QED
  BY <1>1, OptionsStep, ListenerInvariant, PTL DEF Spec

(* The variables of listener and clients keep their types, and no option   *)
(* that is on or off is anything else.                                     *)
THEOREM ListenerTyped == Spec => []TypeOK
<1>1. ListenerInv /\ OptionsOK => TypeOK
  BY DEF ListenerInv, Typed, AcceptingOK, ControlOK, OptionsOK, TypeOK
<1> QED
  BY <1>1, ListenerInvariant, OptionsInvariant, PTL

(* A buffer is at least what was asked for, within the kernel's limit, on  *)
(* accepted sockets too, and getters tell the truth (socket.cpp:153-219).  *)
THEOREM ListenerOptionsHold == Spec => []OptionsHold
<1>1. OptionsOK => OptionsHold
  BY DEF OptionsOK, OptionsHold
<1> QED
  BY <1>1, OptionsInvariant, PTL

=============================================================================
