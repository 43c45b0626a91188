-------------------------- MODULE SocketUsersProofs --------------------------
(* Proofs about the code that uses the class socket: the functions that    *)
(* build sockets (Clients) and the poll list (PollList), for every number  *)
(* of objects, descriptor numbers and kernel sockets and lists of any      *)
(* length.  Each of their steps is a step of Socket or leaves its state    *)
(* alone, so that SocketInv holds of them.                                 *)
EXTENDS Clients, PollList, SocketProofs, SequenceTheorems, FiniteSetTheorems,
        FunctionTheorems

-----------------------------------------------------------------------------
(* Sequences: what append, tail and front leave of distinct elements.      *)

Distinct(s) == \A i, j \in 1..Len(s) : s[i] = s[j] => i = j

LEMMA DistinctAppend ==
  ASSUME NEW S, NEW s \in Seq(S), NEW x \in S, Distinct(s),
         \A i \in 1..Len(s) : s[i] # x
  PROVE  /\ Append(s, x) \in Seq(S) /\ Distinct(Append(s, x))
         /\ Len(Append(s, x)) = Len(s) + 1 /\ Append(s, x)[Len(s) + 1] = x
         /\ \A i \in 1..Len(s) : Append(s, x)[i] = s[i]
<1>1. /\ Append(s, x) \in Seq(S)
      /\ Len(Append(s, x)) = Len(s) + 1 /\ Append(s, x)[Len(s) + 1] = x
      /\ \A i \in 1..Len(s) : Append(s, x)[i] = s[i]
      /\ Len(s) \in Nat
  OBVIOUS
<1> HIDE DEF Distinct
<1>2. ASSUME NEW i \in 1..Len(Append(s, x)), NEW j \in 1..Len(Append(s, x)),
             Append(s, x)[i] = Append(s, x)[j]
      PROVE  i = j
  <2>1. CASE i = Len(s) + 1 /\ j = Len(s) + 1
    BY <2>1
  <2>2. CASE i = Len(s) + 1 /\ j # Len(s) + 1
    BY <1>1, <1>2, <2>2
  <2>3. CASE i # Len(s) + 1 /\ j = Len(s) + 1
    BY <1>1, <1>2, <2>3
  <2>4. CASE i # Len(s) + 1 /\ j # Len(s) + 1
    <3>1. i \in 1..Len(s) /\ j \in 1..Len(s)
      BY <1>1, <2>4
    <3> QED
      BY <1>1, <1>2, <3>1 DEF Distinct
  <2> QED
    BY <2>1, <2>2, <2>3, <2>4
<1> QED
  BY <1>1, <1>2 DEF Distinct

LEMMA TailAndFront ==
  ASSUME NEW S, NEW s \in Seq(S), s # <<>>
  PROVE  /\ Len(s) \in Nat \ {0}
         /\ Head(s) = s[1] /\ Last(s) = s[Len(s)]
         /\ Tail(s) \in Seq(S) /\ Len(Tail(s)) = Len(s) - 1
         /\ \A i \in 1..(Len(s) - 1) : Tail(s)[i] = s[i + 1]
         /\ Front(s) \in Seq(S) /\ Len(Front(s)) = Len(s) - 1
         /\ \A i \in 1..(Len(s) - 1) : Front(s)[i] = s[i]
<1>1. Len(s) \in Nat \ {0}
  BY EmptySeq
<1>2. /\ Head(s) = s[1] /\ Last(s) = s[Len(s)]
      /\ Tail(s) \in Seq(S) /\ Len(Tail(s)) = Len(s) - 1
      /\ \A i \in 1..(Len(s) - 1) : Tail(s)[i] = s[i + 1]
  BY <1>1 DEF Last
<1>3. /\ Front(s) \in Seq(S) /\ Len(Front(s)) = Len(s) - 1
      /\ \A i \in 1..(Len(s) - 1) : Front(s)[i] = s[i]
  <2>1. Front(s) = SubSeq(s, 1, Len(s) - 1)
    BY DEF Front
  <2>2. /\ SubSeq(s, 1, Len(s) - 1) \in Seq(S)
        /\ Len(SubSeq(s, 1, Len(s) - 1)) = Len(s) - 1
        /\ \A i \in 1..(Len(s) - 1) : SubSeq(s, 1, Len(s) - 1)[i] = s[i]
    <3>1. 1 \in Int /\ Len(s) - 1 \in Nat /\ \A i \in 1..(Len(s) - 1) : s[i] \in S
      BY <1>1
    <3> DEFINE f == SubSeq(s, 1, Len(s) - 1)
    <3>2. /\ f \in Seq(S) /\ Len(f) = IF 1 <= Len(s) - 1 THEN Len(s) - 1 - 1 + 1 ELSE 0
          /\ \A i \in 1..(Len(s) - 1 - 1 + 1) : f[i] = s[1 + i - 1]
      BY <3>1, SubSeqProperties
    <3> HIDE DEF f
    <3>3. Len(f) = Len(s) - 1
      <4>1. \A n \in Nat : (IF 1 <= n THEN n - 1 + 1 ELSE 0) = n
        OBVIOUS
      <4> QED
        BY <3>1, <3>2, <4>1
    <3>4. ASSUME NEW i \in 1..(Len(s) - 1) PROVE f[i] = s[i]
      <4>1. i \in 1..(Len(s) - 1 - 1 + 1) /\ 1 + i - 1 = i
        BY <1>1
      <4> QED
        BY <3>2, <4>1
    <3> QED
      BY <3>2, <3>3, <3>4 DEF f
  <2> QED
    BY <2>1, <2>2
<1> QED
  BY <1>1, <1>2, <1>3

-----------------------------------------------------------------------------
(* The functions of tcp_client, tcp_listener and udp_connection.           *)

(* What is left to do, with one object and with two.                       *)
TodoOne ==
  {<<"connect">>, <<"bind">>, <<"nodelay">>, <<"bind", "connect">>,
   <<"check", "bind", "connect">>, <<"move", "nodelay", "drop">>,
   <<"nodelay", "move", "nodelay", "drop">>,
   <<"convert", "nodelay", "move", "nodelay", "drop">>}
TodoTwo == {<<"nodelay", "drop">>, <<"drop">>}

(* How far the function is tells how many objects it has; what it is about *)
(* to return has a handle.                                                 *)
Stage ==
  mode = "running" =>
    /\ \/ Len(built) = 0 /\ todo \in Procedures
       \/ Len(built) = 1 /\ todo \in TodoOne \cup {<<>>}
       \/ Len(built) = 2 /\ todo \in TodoTwo
    /\ todo \in {<<>>, <<"drop">>} => handle[Current] \in Fds

(* The objects are distinct, exist and are not closed.                     *)
BuiltOK ==
  /\ mode \in {"idle", "running", "unwinding"} /\ failed \in BOOLEAN
  /\ built \in Seq(Objs) /\ Distinct(built)
  /\ mode = "idle" => built = <<>>
  /\ \A i \in 1..Len(built) : built[i] \in live /\ ~closed[built[i]]

(* A kernel socket that the function has is closed, or belongs to an       *)
(* object that will close it.                                              *)
MineOK ==
  mode # "idle" \/ failed =>
    \A d \in mine :
      /\ d \in Descs
      /\ link[d] = "closed" \/ \E i \in 1..Len(built) : own[built[i]] = d

ClientsInv == SocketInv /\ Numbered /\ Stage /\ BuiltOK /\ MineOK

(* What the next step leaves to do.                                        *)
LEMMA TailOfTodo ==
  ASSUME Stage, BuiltOK, mode = "running", todo # <<>>
  PROVE  /\ Head(todo) \in {"create", "take", "accept"} =>
              Len(built) = 0 /\ Tail(todo) \in TodoOne
         /\ Head(todo) \in {"connect", "bind", "nodelay"} =>
              \/ Len(built) = 1 /\ Tail(todo) \in TodoOne \cup {<<>>}
              \/ Len(built) = 2 /\ Tail(todo) = <<"drop">>
         /\ Head(todo) \in {"check", "convert"} =>
              Len(built) = 1 /\ Tail(todo) \in TodoOne
         /\ Head(todo) = "move" => Len(built) = 1 /\ Tail(todo) = <<"nodelay", "drop">>
         /\ Head(todo) = "drop" =>
              Len(built) = 2 /\ todo = <<"drop">> /\ Tail(todo) = <<>>
<1>1. CASE Len(built) = 0 /\ todo \in Procedures
  <2>1. todo = TcpConnect => Head(todo) = "create" /\ Tail(todo) = <<"connect">>
    BY DEF TcpConnect
  <2>4. todo = UdpBind => Head(todo) = "create" /\ Tail(todo) = <<"bind">>
    BY DEF UdpBind
  <2>5. todo = UdpTakeConnect => Head(todo) = "take" /\ Tail(todo) = <<"connect">>
    BY DEF UdpTakeConnect
  <2>6. todo = AcceptSocket => Head(todo) = "accept" /\ Tail(todo) = <<"nodelay">>
    BY DEF AcceptSocket
  <2>2. todo = UdpBindConnect =>
          Head(todo) = "create" /\ Tail(todo) = <<"check", "bind", "connect">>
    BY DEF UdpBindConnect
  <2>3. todo = AcceptClient =>
          /\ Head(todo) = "accept"
          /\ Tail(todo) = <<"convert", "nodelay", "move", "nodelay", "drop">>
    BY DEF AcceptClient
  <2> QED
    BY <1>1, <2>1, <2>2, <2>3, <2>4, <2>5, <2>6 DEF Procedures, TodoOne
<1>2. CASE Len(built) = 1 /\ todo \in TodoOne
  <2>1. ASSUME NEW s \in {"connect", "bind", "nodelay"}, todo = <<s>>
        PROVE  Head(todo) = s /\ Tail(todo) = <<>>
    BY <2>1
  <2>2. todo = <<"bind", "connect">> =>
          Head(todo) = "bind" /\ Tail(todo) = <<"connect">>
    OBVIOUS
  <2>3. todo = <<"check", "bind", "connect">> =>
          Head(todo) = "check" /\ Tail(todo) = <<"bind", "connect">>
    OBVIOUS
  <2>4. todo = <<"move", "nodelay", "drop">> =>
          Head(todo) = "move" /\ Tail(todo) = <<"nodelay", "drop">>
    OBVIOUS
  <2>5. todo = <<"nodelay", "move", "nodelay", "drop">> =>
          Head(todo) = "nodelay" /\ Tail(todo) = <<"move", "nodelay", "drop">>
    OBVIOUS
  <2>6. todo = <<"convert", "nodelay", "move", "nodelay", "drop">> =>
          Head(todo) = "convert" /\ Tail(todo) = <<"nodelay", "move", "nodelay", "drop">>
    OBVIOUS
  <2> QED
    BY <1>2, <2>1, <2>2, <2>3, <2>4, <2>5, <2>6 DEF TodoOne
<1>3. CASE Len(built) = 2 /\ todo \in TodoTwo
  <2>1. todo = <<"nodelay", "drop">> => Head(todo) = "nodelay" /\ Tail(todo) = <<"drop">>
    OBVIOUS
  <2>2. todo = <<"drop">> => Head(todo) = "drop" /\ Tail(todo) = <<>>
    OBVIOUS
  <2> QED
    BY <1>3, <2>1, <2>2 DEF TodoTwo
<1> QED
  BY <1>1, <1>2, <1>3 DEF Stage

(* The last step is one that needs an open kernel socket or ends a scope.  *)
LEMMA LastStep ==
  ASSUME Stage, BuiltOK, mode = "running"
  PROVE  /\ TodoOne \cap {<<>>, <<"drop">>} = {}
         /\ todo \in {<<>>, <<"drop">>} => Len(built) > 0
<1>1. TodoOne \cap {<<>>, <<"drop">>} = {}
  BY DEF TodoOne
<1>2. Procedures \cap {<<>>, <<"drop">>} = {}
  BY DEF Procedures, TcpConnect, UdpBind, UdpBindConnect, UdpTakeConnect,
     AcceptSocket, AcceptClient
<1> QED
  BY <1>1, <1>2 DEF Stage

(* What a step of Socket leaves of an object.                              *)
Keeps(o) ==
  o \in live' /\ closed'[o] = closed[o] /\ own'[o] = own[o] /\ handle'[o] = handle[o]

(* Constructors and moves leave all objects but their own alone, and calls *)
(* leave all (socket.cpp:14-71, 229-238).                                  *)
LEMMA OthersKeep ==
  ASSUME SocketInv, NEW q \in live
  PROVE  /\ \A n \in Objs : Create(n) => Keeps(q)
         /\ \A n, p \in Objs : Accept(p, n) => Keeps(q)
         /\ \A n, p \in Objs : MoveConstruct(n, p) /\ q # p => Keeps(q)
         /\ \A o, p \in Objs : MoveAssign(o, p) /\ q \notin {o, p} => Keeps(q)
         /\ \A o \in Objs : (Close(o) \/ Destroy(o)) /\ q # o => Keeps(q)
         /\ \A o \in Objs : Connect(o) \/ ConnectThrows(o) \/ Bind(o) \/ Listen(o) => Keeps(q)
<1> USE DEF SocketInv, TypeOK, Keeps
<1>0. \A n \in Objs, h \in Fds \cup {Invalid}, c \in BOOLEAN, d \in Descs \cup {None} :
        Construct(n, h, c, d) => Keeps(q)
  BY DEF Construct
<1>1. \A n \in Objs : Create(n) => Keeps(q)
  BY <1>0 DEF Create
<1>2. \A n, p \in Objs : Accept(p, n) => Keeps(q)
  BY <1>0 DEF Accept
<1>3. \A n, p \in Objs : MoveConstruct(n, p) /\ q # p => Keeps(q)
  BY DEF MoveConstruct
<1>4. \A o, p \in Objs : MoveAssign(o, p) /\ q \notin {o, p} => Keeps(q)
  BY DEF MoveAssign
<1>5. \A o \in Objs : (Close(o) \/ Destroy(o)) /\ q # o => Keeps(q)
  BY DEF Close, Destroy
<1>6. \A o \in Objs : Connect(o) \/ ConnectThrows(o) \/ Bind(o) \/ Listen(o) => Keeps(q)
  BY DEF Connect, ConnectThrows, Bind, Listen, fields
<1> QED
  BY <1>1, <1>2, <1>3, <1>4, <1>5, <1>6

(* A step that leaves the function's objects as they are.                  *)
LEMMA BuiltStays ==
  ASSUME ClientsInv, Renumbers, \A i \in 1..Len(built) : Keeps(built[i]),
         built' = built, mine' = mine, failed' = failed,
         mode' = mode \/ (mode = "running" /\ mode' = "unwinding")
  PROVE  BuiltOK' /\ MineOK'
<1>1. BuiltOK'
  BY DEF ClientsInv, BuiltOK, Keeps, Distinct
<1>2. MineOK'
  BY DEF ClientsInv, MineOK, Keeps, Renumbers
<1> QED
  BY <1>1, <1>2

(* A step that gives the function one more object.                         *)
LEMMA BuiltGrows ==
  ASSUME ClientsInv, Renumbers, TypeOK', NEW n \in Objs, mode = "running",
         n \notin live, n \in live', ~closed'[n], Adds(n), UNCHANGED <<mode, failed>>,
         \A o \in live :
           o \in live' /\ closed'[o] = closed[o] /\ own[o] \in {own'[o], own'[n]}
  PROVE  BuiltOK' /\ MineOK' /\ Len(built') = Len(built) + 1
<1>1. /\ built \in Seq(Objs) /\ Distinct(built) /\ Len(built) \in Nat
      /\ \A i \in 1..Len(built) : built[i] \in live /\ ~closed[built[i]]
  BY DEF ClientsInv, BuiltOK
<1>2. built' = Append(built, n) /\ mine' = mine \cup ({own'[n]} \ {None})
  BY DEF Adds
<1>3. /\ built' \in Seq(Objs) /\ Distinct(built)'
      /\ Len(built') = Len(built) + 1 /\ built'[Len(built) + 1] = n
      /\ \A i \in 1..Len(built) : built'[i] = built[i]
  BY <1>1, <1>2, DistinctAppend DEF Distinct
<1>4. BuiltOK'
  BY <1>1, <1>3 DEF ClientsInv, BuiltOK
<1>5. ASSUME NEW d \in mine'
      PROVE  /\ d \in Descs
             /\ link'[d] = "closed" \/ \E i \in 1..Len(built') : own'[built'[i]] = d
  <2>1. CASE d = own'[n]
    <3>1. d \in mine \/ d # None
      BY <1>2
    <3>2. d \in Descs
      BY <2>1, <3>1 DEF TypeOK, ClientsInv, MineOK
    <3>3. Len(built) + 1 \in 1..Len(built') /\ own'[built'[Len(built) + 1]] = d
      BY <1>1, <1>3, <2>1
    <3> QED
      BY <3>2, <3>3
  <2>2. CASE d # own'[n]
    <3>1. d \in mine
      BY <1>2, <1>5, <2>2
    <3>2. d \in Descs /\ (link[d] = "closed" \/ \E i \in 1..Len(built) : own[built[i]] = d)
      BY <3>1 DEF ClientsInv, MineOK
    <3>3. CASE link[d] = "closed"
      BY <3>2, <3>3 DEF Renumbers
    <3>4. ASSUME NEW i \in 1..Len(built), own[built[i]] = d
          PROVE  \E j \in 1..Len(built') : own'[built'[j]] = d
      <4>1. own'[built'[i]] = d /\ i \in 1..Len(built')
        BY <1>1, <1>3, <2>2, <3>4
      <4> QED
        BY <4>1
    <3> QED
      BY <3>2, <3>3, <3>4
  <2> QED
    BY <2>1, <2>2
<1> QED
  BY <1>3, <1>4, <1>5 DEF MineOK

(* The end of a scope: the function's object at place k is destroyed.      *)
LEMMA BuiltShrinks ==
  ASSUME ClientsInv, Renumbers, NEW k \in 1..Len(built), Destroy(built[k]),
         UNCHANGED <<mode, failed, mine>>, mode # "idle",
         built' \in Seq(Objs), Distinct(built'),
         \A j \in 1..Len(built') : \E i \in 1..Len(built) : i # k /\ built'[j] = built[i],
         \A i \in 1..Len(built) : i # k => \E j \in 1..Len(built') : built'[j] = built[i]
  PROVE  BuiltOK' /\ MineOK'
<1>1. /\ built \in Seq(Objs) /\ Distinct(built) /\ Len(built) \in Nat
      /\ \A i \in 1..Len(built) : built[i] \in live /\ ~closed[built[i]]
  BY DEF ClientsInv, BuiltOK
<1>2. \A i \in 1..Len(built) : i # k => built[i] # built[k] /\ Keeps(built[i])
  <2> SUFFICES ASSUME NEW i \in 1..Len(built), i # k
               PROVE  built[i] # built[k] /\ Keeps(built[i])
    OBVIOUS
  <2>1. built[i] # built[k] /\ built[i] \in live /\ built[k] \in Objs
    BY <1>1 DEF Distinct
  <2> QED
    BY <2>1, OthersKeep DEF ClientsInv
<1>3. BuiltOK'
  <2>1. ASSUME NEW j \in 1..Len(built')
        PROVE  built'[j] \in live' /\ ~closed'[built'[j]]
    <3>1. PICK i \in 1..Len(built) : i # k /\ built'[j] = built[i]
      OBVIOUS
    <3> QED
      BY <1>1, <1>2, <3>1 DEF Keeps
  <2> QED
    BY <2>1 DEF ClientsInv, BuiltOK, Distinct
<1>4. ASSUME NEW d \in mine'
      PROVE  /\ d \in Descs
             /\ link'[d] = "closed" \/ \E j \in 1..Len(built') : own'[built'[j]] = d
  <2>1. d \in Descs /\ (link[d] = "closed" \/ \E i \in 1..Len(built) : own[built[i]] = d)
    BY <1>4 DEF ClientsInv, MineOK
  <2>2. CASE link[d] = "closed"
    BY <2>1, <2>2 DEF Renumbers
  <2>3. CASE own[built[k]] = d
    <3>1. built[k] \in Objs /\ ~closed[built[k]] /\ own[built[k]] # None
      BY <1>1, <2>1, <2>3, SocketAssumption
    <3> QED
      BY <2>1, <2>3, <3>1, DestroyCloses DEF ClientsInv
  <2>4. ASSUME NEW i \in 1..Len(built), i # k, own[built[i]] = d
        PROVE  \E j \in 1..Len(built') : own'[built'[j]] = d
    <3>1. PICK j \in 1..Len(built') : built'[j] = built[i]
      BY <2>4
    <3>2. own'[built'[j]] = d
      BY <1>2, <2>4, <3>1 DEF Keeps
    <3> QED
      BY <3>2
  <2> QED
    BY <2>1, <2>2, <2>3, <2>4
<1> QED
  BY <1>3, <1>4 DEF MineOK

(* Every step of a function is one of Socket or leaves the sockets alone   *)
(* (tcp_client.cpp:13-16, tcp_listener.cpp:39-61, udp_socket.cpp:137-150). *)
LEMMA ClientsTakeSocketSteps == ClientsInv /\ [ClientsNext]_allVars => [Next]_vars
<1> SUFFICES ASSUME ClientsInv, [ClientsNext]_allVars PROVE Next \/ UNCHANGED vars
  OBVIOUS
<1>o. live \subseteq Objs
  BY DEF ClientsInv, SocketInv, TypeOK
<1>1. CASE UNCHANGED allVars
  BY <1>1 DEF allVars
<1>2. ASSUME NEW steps \in Procedures, Begin(steps) PROVE UNCHANGED vars
  BY <1>2 DEF Begin
<1>3. ASSUME NEW n \in Objs, CreateStep(n) PROVE Next
  BY <1>3 DEF CreateStep, Next, Lifetime
<1>4. ASSUME NEW n \in Objs, NEW p \in Objs, TakeStep(n, p) PROVE Next
  BY <1>4 DEF TakeStep, Next, Lifetime
<1>5. ASSUME NEW n \in Objs, MoveStep(n) PROVE Next
  <2>1. Current \in Objs
    BY <1>5, <1>o DEF MoveStep, MoveConstruct
  <2> QED
    BY <1>5, <2>1 DEF MoveStep, Next, Lifetime
<1>6. ASSUME NEW o \in Objs, NEW n \in Objs, AcceptStep(o, n) PROVE Next
  BY <1>6 DEF AcceptStep, Next, Call
<1>7. CASE ConnectStep
  <2>1. Current \in Objs /\ (Connect(Current) \/ ConnectThrows(Current))
    BY <1>7, <1>o DEF ConnectStep, Connect, ConnectThrows
  <2> QED
    BY <2>1 DEF Next, Call
<1>8. CASE BindStep
  <2>1. Current \in Objs /\ Bind(Current)
    BY <1>8, <1>o DEF BindStep, Bind
  <2> QED
    BY <2>1 DEF Next, Call
<1>9. CASE NoDelayStep
  <2>1. Len(built) \in {1, 2} /\ built \in Seq(Objs)
    BY <1>9, TailOfTodo DEF NoDelayStep, At, ClientsInv, BuiltOK
  <2>2. Current \in Objs /\ Current \in live
    BY <2>1 DEF Last, Current, ClientsInv, BuiltOK
  <2>3. Bind(Current)
    BY <1>9, <2>2 DEF NoDelayStep, Bind
  <2> QED
    BY <2>2, <2>3 DEF Next, Call
<1>10. CASE DropStep
  <2>1. Head(built) \in Objs /\ Destroy(Head(built))
    BY <1>10, <1>o DEF DropStep, Destroy
  <2> QED
    BY <2>1 DEF Next, Lifetime
<1>11. CASE Unwind
  <2>1. Current \in Objs /\ Destroy(Current)
    BY <1>11, <1>o DEF Unwind, Destroy
  <2> QED
    BY <2>1 DEF Next, Lifetime
<1>12. CASE ConvertStep \/ CheckStep \/ ThrowStep \/ Finish
  BY <1>12 DEF ConvertStep, CheckStep, ThrowStep, Finish
<1>13. CASE Others
  BY <1>13 DEF Others, Next, Lifetime, Call
<1> QED
  BY <1>1, <1>2, <1>3, <1>4, <1>5, <1>6, <1>7, <1>8, <1>9, <1>10, <1>11, <1>12, <1>13
     DEF ClientsNext, Step

(* A step that passes on to the next one with the same objects: when it    *)
(* was the last, its object has an open kernel socket.                     *)
LEMMA StagePasses ==
  ASSUME ClientsInv, mode = "running", todo # <<>>, Passed, built' = built,
         \A i \in 1..Len(built) : Keeps(built[i]),
         \/ Head(todo) \in {"connect", "bind", "nodelay"} /\ Target(Current) # None
         \/ Head(todo) \in {"check", "convert"}
  PROVE  Stage'
<1>1. todo' = Tail(todo) /\ mode' = "running"
  BY DEF Passed
<1>2. /\ \/ Len(built) = 1 /\ Tail(todo) \in TodoOne \cup {<<>>}
         \/ Len(built) = 2 /\ Tail(todo) = <<"drop">>
      /\ Head(todo) \in {"check", "convert"} => Tail(todo) \notin {<<>>, <<"drop">>}
  <2>1. Stage /\ BuiltOK
    BY DEF ClientsInv
  <2>2. CASE Head(todo) \in {"connect", "bind", "nodelay"}
    <3>1. Head(todo) \notin {"check", "convert"}
      BY <2>2
    <3> QED
      BY <2>1, <2>2, <3>1, TailOfTodo
  <2>3. CASE Head(todo) \in {"check", "convert"}
    <3>1. Len(built) = 1 /\ Tail(todo) \in TodoOne
      BY <2>1, <2>3, TailOfTodo
    <3>2. TodoOne \cap {<<>>, <<"drop">>} = {}
      BY <2>1, LastStep
    <3> QED
      BY <3>1, <3>2
  <2> QED
    BY <2>2, <2>3
<1>3. Current' = Current /\ Keeps(Current)
  BY <1>2 DEF Current, Last
<1>4. Target(Current) # None => handle'[Current'] \in Fds
  BY <1>3 DEF Keeps, Target
<1> QED
  BY <1>1, <1>2, <1>4 DEF Stage, TodoTwo

(* No step breaks the invariant.                                           *)
LEMMA ClientsInvStep == ClientsInv /\ [ClientsNext]_allVars => ClientsInv'
<1> SUFFICES ASSUME ClientsInv, [ClientsNext]_allVars PROVE ClientsInv'
  OBVIOUS
<1>s. SocketInv' /\ Numbered' /\ Renumbers /\ TypeOK'
  BY ClientsTakeSocketSteps, SocketInvStep, NumberedStep DEF ClientsInv, SocketInv
<1>t. SocketInv /\ Stage /\ BuiltOK /\ MineOK /\ live \subseteq Objs
  BY DEF ClientsInv, SocketInv, TypeOK
<1>b. /\ built \in Seq(Objs) /\ Distinct(built) /\ Len(built) \in Nat
      /\ \A i \in 1..Len(built) : built[i] \in live /\ built[i] \in Objs /\ ~closed[built[i]]
  BY <1>t DEF BuiltOK
<1> SUFFICES Stage' /\ BuiltOK' /\ MineOK'
  BY <1>s DEF ClientsInv
<1>1. ASSUME UNCHANGED vars PROVE \A i \in 1..Len(built) : Keeps(built[i])
  BY <1>1, <1>b DEF vars, fields, history, Keeps
<1>2. CASE UNCHANGED allVars
  <2>0. UNCHANGED vars /\ UNCHANGED <<built, mine, failed>> /\ mode' = mode
    BY <1>2 DEF allVars, job
  <2>1. BuiltOK' /\ MineOK'
    <3>1. \A i \in 1..Len(built) : Keeps(built[i])
      BY <1>1, <2>0
    <3> QED
      BY <1>s, <2>0, <3>1, BuiltStays
  <2>2. Stage'
    BY <1>2, <1>t DEF allVars, job, vars, fields, Stage, Current
  <2> QED
    BY <2>1, <2>2
<1>3. ASSUME NEW steps \in Procedures, Begin(steps) PROVE Stage' /\ BuiltOK' /\ MineOK'
  <2>1. /\ mode' = "running" /\ todo' = steps /\ built' = <<>> /\ mine' = {}
        /\ failed' = FALSE /\ built = <<>>
    BY <1>3, <1>t DEF Begin, BuiltOK
  <2>2. steps \notin {<<>>, <<"drop">>}
    BY DEF Procedures, TcpConnect, UdpBind, UdpBindConnect, UdpTakeConnect,
       AcceptSocket, AcceptClient
  <2>3. Len(built') = 0
    BY <2>1
  <2>4. Stage'
    BY <2>1, <2>2, <2>3 DEF Stage
  <2>5. BuiltOK' /\ MineOK'
    <3>1. failed' \in BOOLEAN /\ built' \in Seq(Objs)
      BY <2>1, EmptySeq
    <3> QED
      BY <2>1, <2>3, <3>1 DEF BuiltOK, MineOK, Distinct
  <2> QED
    BY <2>4, <2>5
<1>4. ASSUME NEW n \in Objs, NEW p \in Objs, CreateStep(n) \/ TakeStep(n, p) \/ AcceptStep(p, n)
      PROVE Stage' /\ BuiltOK' /\ MineOK'
  <2>1. /\ mode = "running" /\ todo # <<>> /\ Head(todo) \in {"create", "take", "accept"}
        /\ Adds(n) /\ Passed
    BY <1>4 DEF CreateStep, TakeStep, AcceptStep, At
  <2>2. /\ n \notin live /\ n \in live' /\ ~closed'[n]
        /\ \A o \in live :
             o \in live' /\ closed'[o] = closed[o] /\ own[o] \in {own'[o], own'[n]}
    <3>1. ASSUME NEW h \in Fds \cup {Invalid}, NEW c \in BOOLEAN, NEW d \in Descs \cup {None},
                 Construct(n, h, c, d)
          PROVE  /\ n \notin live /\ n \in live' /\ ~closed'[n]
                 /\ \A o \in live : o \in live' /\ closed'[o] = closed[o] /\ own'[o] = own[o]
      BY <3>1, <1>t DEF Construct, SocketInv, TypeOK
    <3>2. CASE CreateStep(n) \/ AcceptStep(p, n)
      BY <3>1, <3>2 DEF CreateStep, AcceptStep, Create, Accept
    <3>3. CASE TakeStep(n, p)
      BY <3>3, <1>t DEF TakeStep, MoveConstruct, SocketInv, TypeOK
    <3> QED
      BY <1>4, <3>2, <3>3
  <2>3. UNCHANGED <<mode, failed>>
    BY <2>1 DEF Passed
  <2>4. BuiltOK' /\ MineOK' /\ Len(built') = Len(built) + 1
    BY <1>s, <2>1, <2>2, <2>3, BuiltGrows
  <2>5. Len(built') = 1 /\ todo' \in TodoOne
    BY <1>t, <2>1, <2>4, TailOfTodo DEF Passed
  <2>6. Stage'
    <3>1. TodoOne \cap {<<>>, <<"drop">>} = {}
      BY <1>t, <2>1, LastStep
    <3> QED
      BY <2>5, <3>1 DEF Stage
  <2> QED
    BY <2>4, <2>6
<1>5. ASSUME NEW n \in Objs, MoveStep(n) PROVE Stage' /\ BuiltOK' /\ MineOK'
  <2>1. /\ mode = "running" /\ todo # <<>> /\ Head(todo) = "move"
        /\ Adds(n) /\ Passed /\ MoveConstruct(n, Current)
    BY <1>5 DEF MoveStep, At
  <2>2. /\ n \notin live /\ n \in live' /\ ~closed'[n]
        /\ \A o \in live :
             o \in live' /\ closed'[o] = closed[o] /\ own[o] \in {own'[o], own'[n]}
    BY <2>1, <1>t DEF MoveConstruct, SocketInv, TypeOK
  <2>3. UNCHANGED <<mode, failed>>
    BY <2>1 DEF Passed
  <2>4. BuiltOK' /\ MineOK' /\ Len(built') = Len(built) + 1
    BY <1>s, <2>1, <2>2, <2>3, BuiltGrows
  <2>5. Len(built') = 2 /\ todo' = <<"nodelay", "drop">>
    <3>1. Len(built) = 1 /\ Tail(todo) = <<"nodelay", "drop">>
      BY <1>t, <2>1, TailOfTodo
    <3> QED
      BY <2>1, <2>4, <3>1 DEF Passed
  <2>6. <<"nodelay", "drop">> \notin {<<>>, <<"drop">>}
    OBVIOUS
  <2>7. Stage'
    BY <2>5, <2>6 DEF Stage, TodoTwo
  <2> QED
    BY <2>4, <2>7
<1>6. CASE ConnectStep
  <2>1. /\ mode = "running" /\ todo # <<>> /\ Head(todo) = "connect"
        /\ Connect(Current) \/ ConnectThrows(Current)
        /\ UNCHANGED <<built, mine, failed>>
        /\ \/ Passed \/ mode' = "unwinding"
    BY <1>6 DEF ConnectStep, At, Raise, Passed
  <2>2. Current \in Objs /\ Target(Current) # None
    BY <2>1, <1>t DEF Connect, ConnectThrows
  <2>3. \A i \in 1..Len(built) : Keeps(built[i])
    BY <1>b, <1>t, <2>1, <2>2, OthersKeep
  <2>4. BuiltOK' /\ MineOK'
    <3>1. mode' = mode \/ (mode = "running" /\ mode' = "unwinding")
      <4>1. Passed => mode' = mode
        BY DEF Passed
      <4> QED
        BY <2>1, <4>1
    <3> QED
      BY <1>s, <2>1, <2>3, <3>1, BuiltStays
  <2>5. Stage'
    <3>1. CASE Passed
      BY <2>1, <2>2, <2>3, <3>1, StagePasses
    <3>2. CASE mode' = "unwinding"
      BY <3>2 DEF Stage
    <3> QED
      BY <2>1, <3>1, <3>2
  <2> QED
    BY <2>4, <2>5
<1>7. CASE BindStep \/ ConvertStep \/ CheckStep \/ NoDelayStep
  <2>1. /\ mode = "running" /\ todo # <<>> /\ Passed /\ UNCHANGED <<built, mine>>
        /\ \/ Head(todo) \in {"bind", "nodelay"} /\ Target(Current) # None
           \/ Head(todo) \in {"check", "convert"}
        /\ UNCHANGED <<live, closed, own, handle>>
    BY <1>7 DEF BindStep, ConvertStep, CheckStep, NoDelayStep, At, Bind, vars, fields, history
  <2>2. \A i \in 1..Len(built) : Keeps(built[i])
    BY <1>b, <2>1 DEF Keeps
  <2>3. BuiltOK' /\ MineOK'
    <3>1. UNCHANGED <<built, mine, failed>> /\ mode' = mode
      BY <2>1 DEF Passed
    <3> QED
      BY <1>s, <2>2, <3>1, BuiltStays
  <2>4. Stage'
    BY <2>1, <2>2, StagePasses
  <2> QED
    BY <2>3, <2>4
<1>8. CASE DropStep
  <2>1. /\ mode = "running" /\ Head(todo) = "drop" /\ todo # <<>> /\ Passed
        /\ Destroy(Head(built)) /\ built' = Tail(built) /\ UNCHANGED mine
    BY <1>8 DEF DropStep, At
  <2>2. Len(built) = 2 /\ todo = <<"drop">> /\ todo' = <<>>
    BY <1>t, <2>1, TailOfTodo DEF Passed
  <2>3. /\ Head(built) = built[1] /\ built' \in Seq(Objs) /\ Len(built') = 1
        /\ built'[1] = built[2]
    <3>1. built # <<>>
      BY <2>2
    <3>2. /\ Head(built) = built[1]
          /\ Tail(built) \in Seq(Objs) /\ Len(Tail(built)) = Len(built) - 1
          /\ \A i \in 1..(Len(built) - 1) : Tail(built)[i] = built[i + 1]
      BY <1>b, <3>1, TailAndFront
    <3>3. Len(Tail(built)) = 1 /\ Tail(built)[1] = built[2]
      BY <2>2, <3>2
    <3> QED
      BY <2>1, <3>2, <3>3
  <2>4. BuiltOK' /\ MineOK'
    <3>0. /\ 1..Len(built) = {1, 2} /\ 1..Len(built') = {1}
          /\ 1 \in 1..Len(built) /\ Destroy(built[1])
      <4>1. 1..2 = {1, 2} /\ 1..1 = {1}
        OBVIOUS
      <4> QED
        BY <2>1, <2>2, <2>3, <4>1
    <3>1. /\ Distinct(built')
          /\ \A j \in 1..Len(built') : \E i \in 1..Len(built) : i # 1 /\ built'[j] = built[i]
          /\ \A i \in 1..Len(built) : i # 1 => \E j \in 1..Len(built') : built'[j] = built[i]
      <4>1. Distinct(built')
        BY <3>0 DEF Distinct
      <4>2. 2 \in 1..Len(built) /\ 2 # 1 /\ 1 \in 1..Len(built')
        BY <3>0
      <4>3. \A j \in 1..Len(built') : j = 1
        BY <3>0
      <4>4. \A i \in 1..Len(built) : i # 1 => i = 2
        BY <3>0
      <4> QED
        BY <2>3, <4>1, <4>2, <4>3, <4>4
    <3>2. UNCHANGED <<mode, failed, mine>> /\ mode # "idle"
      BY <2>1 DEF Passed
    <3>4. mode' = mode /\ failed' = failed /\ mine' = mine
      BY <3>2
    <3> QED
      BY <1>s, <2>3, <3>0, <3>1, <3>2, <3>4, BuiltShrinks
  <2>5. handle'[built'[1]] \in Fds
    <3>1. Current = built[2] /\ handle[Current] \in Fds
      <4>1. todo \in {<<>>, <<"drop">>}
        BY <2>2
      <4> QED
        BY <2>1, <2>2, <4>1, <1>t DEF Current, Last, Stage
    <3>2. built[2] # built[1] /\ built[2] \in live /\ built[1] \in Objs
      BY <1>b, <2>2 DEF Distinct
    <3>3. Keeps(built[2])
      BY <1>t, <2>1, <2>3, <3>2, OthersKeep
    <3> QED
      BY <2>3, <3>1, <3>3 DEF Keeps
  <2>6. Stage'
    BY <2>2, <2>3, <2>5 DEF Stage, Current, Last
  <2> QED
    BY <2>4, <2>6
<1>9. CASE ThrowStep
  <2>1. /\ mode = "running" /\ mode' = "unwinding" /\ UNCHANGED <<vars, built, mine, failed>>
    BY <1>9 DEF ThrowStep, Raise
  <2> QED
    BY <1>1, <1>s, <2>1, BuiltStays DEF Stage
<1>10. CASE Unwind
  <2> DEFINE k == Len(built)
  <2>1. /\ mode = "unwinding" /\ built # <<>> /\ Destroy(Current)
        /\ built' = Front(built) /\ UNCHANGED <<mode, failed, mine>>
    BY <1>10 DEF Unwind
  <2>2. /\ k \in 1..Len(built) /\ Current = built[k]
        /\ built' \in Seq(Objs) /\ Len(built') = k - 1
        /\ \A i \in 1..(k - 1) : built'[i] = built[i]
    BY <1>b, <2>1, TailAndFront DEF Current, Last
  <2>3. /\ Distinct(built') /\ Destroy(built[k])
        /\ \A j \in 1..Len(built') : \E i \in 1..Len(built) : i # k /\ built'[j] = built[i]
        /\ \A i \in 1..Len(built) : i # k => \E j \in 1..Len(built') : built'[j] = built[i]
    BY <1>b, <2>1, <2>2 DEF Distinct
  <2>4. BuiltOK' /\ MineOK'
    BY <1>s, <2>1, <2>2, <2>3, BuiltShrinks
  <2> QED
    BY <2>1, <2>4 DEF Stage
<1>11. CASE Finish
  <2>1. /\ mode' = "idle" /\ built' = <<>> /\ UNCHANGED link /\ mine' = mine
        /\ failed' = (mode = "unwinding")
    BY <1>11 DEF Finish, vars, kernel
  <2>2. Len(built') = 0 /\ built' \in Seq(Objs) /\ failed' \in BOOLEAN
    BY <2>1, EmptySeq
  <2>3. Stage' /\ BuiltOK'
    BY <2>1, <2>2 DEF Stage, BuiltOK, Distinct
  <2>4. ASSUME failed', NEW d \in mine' PROVE d \in Descs /\ link'[d] = "closed"
    <3>1. mode = "unwinding" /\ built = <<>>
      BY <1>11, <2>1, <2>4 DEF Finish
    <3>2. 1..Len(built) = {}
      BY <3>1
    <3> QED
      BY <1>t, <2>1, <2>4, <3>1, <3>2 DEF MineOK
  <2>5. MineOK'
    BY <2>1, <2>4 DEF MineOK
  <2> QED
    BY <2>3, <2>5
<1>12. CASE Others
  <2>1. todo' = todo /\ built' = built /\ mode' = mode /\ failed' = failed /\ mine' = mine
    BY <1>12 DEF Others, job
  <2>2. ASSUME NEW i \in 1..Len(built) PROVE Keeps(built[i])
    <3>1. built[i] \in live /\ built[i] \in ToSet(built)
      BY <1>b DEF ToSet
    <3> QED
      BY <1>12, <1>t, <3>1, OthersKeep DEF Others
  <2>3. BuiltOK' /\ MineOK'
    BY <1>s, <2>1, <2>2, BuiltStays
  <2>4. Stage'
    <3> SUFFICES ASSUME mode = "running", todo \in {<<>>, <<"drop">>}
                 PROVE  handle'[Current'] \in Fds
      BY <1>t, <2>1 DEF Stage
    <3>1. Len(built) > 0
      BY <1>t, LastStep
    <3>2. Current' = Current /\ Keeps(Current) /\ handle[Current] \in Fds
      BY <1>b, <1>t, <2>1, <2>2, <3>1 DEF Current, Last, Stage
    <3> QED
      BY <3>2 DEF Keeps
  <2> QED
    BY <2>3, <2>4
<1> QED
  BY <1>2, <1>3, <1>4, <1>5, <1>6, <1>7, <1>8, <1>9, <1>10, <1>11, <1>12
     DEF ClientsNext, Step

(* The invariant of the functions that build sockets holds in every        *)
(* reachable state (tcp_client.cpp, tcp_listener.cpp, udp_socket.cpp).     *)
THEOREM ClientsInvariant == ClientsSpec => []ClientsInv
<1>1. ClientsInit => ClientsInv
  <2> SUFFICES ASSUME ClientsInit PROVE ClientsInv
    OBVIOUS
  <2>1. SocketInv
    BY SocketInitially DEF ClientsInit
  <2>2. Numbered
    BY DEF ClientsInit, Init, Numbered
  <2>3. Stage /\ BuiltOK /\ MineOK
    <3>1. built = <<>> /\ mode = "idle" /\ failed = FALSE
      BY DEF ClientsInit
    <3>2. Len(built) = 0 /\ built \in Seq(Objs)
      BY <3>1, EmptySeq
    <3>3. Stage /\ MineOK
      BY <3>1 DEF Stage, MineOK
    <3>4. \A i \in 1..Len(built) : FALSE
      BY <3>2
    <3>5. BuiltOK
      BY <3>1, <3>2, <3>4 DEF BuiltOK, Distinct
    <3> QED
      BY <3>3, <3>5
  <2> QED
    BY <2>1, <2>2, <2>3 DEF ClientsInv
<1> QED
  BY <1>1, ClientsInvStep, PTL DEF ClientsSpec

(* A function that ended with an exception has closed what it opened,      *)
(* whatever other threads did with the numbers (tcp_client.cpp:14-16,      *)
(* tcp_listener.cpp:39-61, udp_socket.cpp:137-150).                        *)
THEOREM ClientsFailureLeavesNothing == ClientsSpec => []FailureLeavesNothing
<1>1. ClientsInv => FailureLeavesNothing
  BY DEF ClientsInv, BuiltOK, MineOK, FailureLeavesNothing
<1> QED
  BY <1>1, ClientsInvariant, PTL

(* A function that returns gives an open socket of its own                 *)
(* (tcp_listener.cpp:39-61, socket.cpp:65-71).                             *)
THEOREM ClientsReturnOpenSocket == ClientsSpec => []ReturnsOpenSocket
<1>1. ClientsInv => ReturnsOpenSocket
  <2> SUFFICES ASSUME ClientsInv, mode = "running", todo = <<>>, ~revived
               PROVE  Target(Current) # None /\ Target(Current) = own[Current]
    BY DEF ReturnsOpenSocket
  <2>1. handle[Current] \in Fds /\ Len(built) > 0
    BY LastStep DEF ClientsInv, Stage
  <2>2. Current \in Objs /\ ~closed[Current]
    BY <2>1 DEF Current, Last, ClientsInv, BuiltOK
  <2>3. ClosesHandle(Current) /\ own[Current] # None
    BY <2>1, <2>2, SocketAssumption DEF ClosesHandle, ClientsInv, SocketInv, OwnSound
  <2> QED
    BY <2>2, <2>3 DEF ClientsInv, SocketInv, UnclosedIsOwn
<1> QED
  BY <1>1, ClientsInvariant, PTL

-----------------------------------------------------------------------------
(* Lists and sets: erasing one entry, and how many entries an object has.  *)

(* The smallest element of a set of numbers is one of its elements.        *)
LEMMA MinIsMember ==
  ASSUME NEW S \in SUBSET Nat, S # {}
  PROVE  Min(S) \in S
<1> DEFINE R == OpToRel(<, Nat)
<1>1. IsWellFoundedOn(R, Nat)
  BY NatLessThanWellFounded
<1>2. \A x, y \in Nat : <<y, x>> \in R <=> y < x
  BY DEF OpToRel
<1> HIDE DEF R
<1>3. PICK x \in S : \A y \in S : ~ (<<y, x>> \in R)
  BY <1>1, WFMin
<1>4. ASSUME NEW y \in S PROVE x <= y
  <2>1. x \in Nat /\ y \in Nat /\ ~(y < x)
    BY <1>2, <1>3
  <2> QED
    BY <2>1
<1> QED
  BY <1>4 DEF Min

(* erase: what is behind moves one place forward (poll_list.cpp:20-26).     *)
LEMMA RemoveAtIs ==
  ASSUME NEW S, NEW s \in Seq(S), NEW k \in 1..Len(s)
  PROVE  /\ RemoveAt(s, k) \in Seq(S) /\ Len(RemoveAt(s, k)) = Len(s) - 1
         /\ \A i \in 1..(Len(s) - 1) :
              RemoveAt(s, k)[i] = IF i < k THEN s[i] ELSE s[i + 1]
<1> DEFINE a == SubSeq(s, 1, k - 1)
           b == SubSeq(s, k + 1, Len(s))
<1>0. Len(s) \in Nat /\ k \in Nat /\ 1 <= k /\ k <= Len(s) /\ \A i \in 1..Len(s) : s[i] \in S
  OBVIOUS
<1>1. a \in Seq(S) /\ Len(a) = k - 1 /\ \A i \in 1..(k - 1) : a[i] = s[i]
  <2>1. 1 \in Int /\ k - 1 \in Int /\ \A i \in 1..(k - 1) : s[i] \in S
    BY <1>0
  <2>2. /\ a \in Seq(S) /\ Len(a) = IF 1 <= k - 1 THEN k - 1 - 1 + 1 ELSE 0
        /\ \A i \in 1..(k - 1 - 1 + 1) : a[i] = s[1 + i - 1]
    BY <2>1, SubSeqProperties
  <2> HIDE DEF a
  <2>3. Len(a) = k - 1
    BY <1>0, <2>2
  <2>4. ASSUME NEW i \in 1..(k - 1) PROVE a[i] = s[i]
    <3>1. i \in 1..(k - 1 - 1 + 1) /\ 1 + i - 1 = i
      BY <1>0
    <3> QED
      BY <2>2, <3>1
  <2> QED
    BY <2>2, <2>3, <2>4
<1>2. b \in Seq(S) /\ Len(b) = Len(s) - k /\ \A i \in 1..(Len(s) - k) : b[i] = s[k + i]
  <2>1. k + 1 \in Int /\ Len(s) \in Int /\ \A i \in (k + 1)..Len(s) : s[i] \in S
    BY <1>0
  <2>2. /\ b \in Seq(S) /\ Len(b) = IF k + 1 <= Len(s) THEN Len(s) - (k + 1) + 1 ELSE 0
        /\ \A i \in 1..(Len(s) - (k + 1) + 1) : b[i] = s[k + 1 + i - 1]
    BY <2>1, SubSeqProperties
  <2> HIDE DEF b
  <2>3. Len(b) = Len(s) - k
    BY <1>0, <2>2
  <2>4. ASSUME NEW i \in 1..(Len(s) - k) PROVE b[i] = s[k + i]
    <3>1. i \in 1..(Len(s) - (k + 1) + 1) /\ k + 1 + i - 1 = k + i
      BY <1>0
    <3> QED
      BY <2>2, <3>1
  <2> QED
    BY <2>2, <2>3, <2>4
<1>3. RemoveAt(s, k) = a \o b
  BY DEF RemoveAt
<1> HIDE DEF a, b
<1>4. /\ a \o b \in Seq(S) /\ Len(a \o b) = Len(a) + Len(b)
      /\ \A i \in 1..(Len(a) + Len(b)) :
           (a \o b)[i] = IF i <= Len(a) THEN a[i] ELSE b[i - Len(a)]
  BY <1>1, <1>2, ConcatProperties
<1>5. Len(a) + Len(b) = Len(s) - 1
  BY <1>0, <1>1, <1>2
<1>6. ASSUME NEW i \in 1..(Len(s) - 1)
      PROVE  (a \o b)[i] = IF i < k THEN s[i] ELSE s[i + 1]
  <2>1. CASE i < k
    <3>1. i <= Len(a) /\ i \in 1..(k - 1)
      BY <1>0, <1>1, <2>1
    <3> QED
      BY <1>1, <1>4, <1>5, <2>1, <3>1
  <2>2. CASE ~(i < k)
    <3>1. ~(i <= Len(a)) /\ i - Len(a) \in 1..(Len(s) - k) /\ k + (i - Len(a)) = i + 1
      BY <1>0, <1>1, <2>2
    <3> QED
      BY <1>2, <1>4, <1>5, <2>2, <3>1
  <2> QED
    BY <2>1, <2>2
<1> QED
  BY <1>3, <1>4, <1>5, <1>6

(* The places of a list that have the socket o, and how many there are     *)
(* after push_back and erase (poll_list.cpp:16-26).                        *)
Places(s, o) == {i \in 1..Len(s) : s[i].socket = o}

LEMMA PlacesFinite ==
  ASSUME NEW S, NEW s \in Seq(S), NEW o
  PROVE  IsFiniteSet(Places(s, o)) /\ Cardinality(Places(s, o)) \in Nat
<1>1. IsFiniteSet(1..Len(s)) /\ Places(s, o) \in SUBSET (1..Len(s))
  BY FS_Interval DEF Places
<1>2. IsFiniteSet(Places(s, o))
  BY <1>1, FS_Subset
<1> QED
  BY <1>2, FS_CardinalityType

LEMMA PlacesAppend ==
  ASSUME NEW S, NEW s \in Seq(S), NEW e \in S, NEW o
  PROVE  Cardinality(Places(Append(s, e), o)) =
           Cardinality(Places(s, o)) + IF e.socket = o THEN 1 ELSE 0
<1>1. /\ Len(s) \in Nat /\ Len(Append(s, e)) = Len(s) + 1
      /\ Append(s, e)[Len(s) + 1] = e
      /\ \A i \in 1..Len(s) : Append(s, e)[i] = s[i]
  OBVIOUS
<1>2. /\ Len(s) + 1 \notin Places(s, o)
      /\ IsFiniteSet(Places(s, o)) /\ Cardinality(Places(s, o)) \in Nat
  <2>1. Len(s) + 1 \notin Places(s, o)
    BY <1>1 DEF Places
  <2> QED
    BY <2>1, PlacesFinite
<1>3. CASE e.socket = o
  <2>1. Places(Append(s, e), o) = Places(s, o) \cup {Len(s) + 1}
    BY <1>1, <1>3 DEF Places
  <2> QED
    BY <1>2, <1>3, <2>1, FS_AddElement
<1>4. CASE e.socket # o
  <2>1. Places(Append(s, e), o) = Places(s, o)
    BY <1>1, <1>4 DEF Places
  <2> QED
    BY <1>2, <1>4, <2>1
<1> QED
  BY <1>3, <1>4

LEMMA PlacesRemoveAt ==
  ASSUME NEW S, NEW s \in Seq(S), NEW k \in 1..Len(s), NEW o
  PROVE  Cardinality(Places(RemoveAt(s, k), o)) =
           Cardinality(Places(s, o)) - IF s[k].socket = o THEN 1 ELSE 0
<1> DEFINE t == RemoveAt(s, k)
           T == Places(s, o) \ {k}
           F == [i \in Places(t, o) |-> IF i < k THEN i ELSE i + 1]
<1>1. /\ t \in Seq(S) /\ Len(t) = Len(s) - 1
      /\ \A i \in 1..(Len(s) - 1) : t[i] = IF i < k THEN s[i] ELSE s[i + 1]
  BY RemoveAtIs
<1>2. /\ Len(s) \in Nat /\ IsFiniteSet(Places(s, o)) /\ Cardinality(Places(s, o)) \in Nat
      /\ IsFiniteSet(Places(t, o))
  BY <1>1, PlacesFinite
<1> HIDE DEF t
<1>3. F \in [Places(t, o) -> T]
  BY <1>1, <1>2 DEF Places
<1>4. \A i, j \in Places(t, o) : F[i] = F[j] => i = j
  BY <1>1, <1>2 DEF Places
<1>5. ASSUME NEW j \in T PROVE \E i \in Places(t, o) : F[i] = j
  <2>1. CASE j < k
    <3>1. j \in Places(t, o)
      BY <1>1, <1>2, <2>1 DEF Places
    <3> QED
      BY <2>1, <3>1
  <2>2. CASE ~(j < k)
    <3>1. j - 1 \in Places(t, o) /\ ~(j - 1 < k) /\ j - 1 + 1 = j
      BY <1>1, <1>2, <2>2 DEF Places
    <3> QED
      BY <3>1
  <2> QED
    BY <2>1, <2>2
<1> HIDE DEF F, T
<1>6. F \in Bijection(Places(t, o), T)
  BY <1>3, <1>4, <1>5, Fun_IsBij
<1>7. Cardinality(T) = Cardinality(Places(t, o))
  BY <1>2, <1>6, FS_Bijection, Fun_ExistsBij
<1>8. Cardinality(T) = IF k \in Places(s, o) THEN Cardinality(Places(s, o)) - 1
                       ELSE Cardinality(Places(s, o))
  BY <1>2, FS_RemoveElement DEF T
<1> QED
  BY <1>2, <1>7, <1>8 DEF t, Places

-----------------------------------------------------------------------------
(* The poll list.                                                          *)

ListEntries ==
  [socket : Objs, events : SUBSET Askable, result : SUBSET (Askable \cup {"hang"})]

(* The object exists and has its kernel socket open, with its own number.  *)
Member(o) == o \in live /\ Target(o) # None /\ Target(o) = own[o]

(* The list has each object as often as the program put it there.          *)
EntriesOK ==
  /\ entries \in Seq(ListEntries)
  /\ \A o \in Objs : listed[o] = Cardinality(Places(entries, o))
  /\ \A o \in Objs : listed[o] > 0 => Member(o)

(* The numbers in the poll are the ones the entries' objects still have.   *)
AskedOK ==
  /\ asked # <<>> => DOMAIN asked = DOMAIN entries
  /\ \A i \in DOMAIN asked : asked[i] = handle[entries[i].socket]

ListInv ==
  /\ SocketInv /\ Numbered
  /\ listed \in [Objs -> Int]
  /\ careful => ~wild /\ EntriesOK /\ AskedOK /\ CountIsResults

(* As long as an object has its own kernel socket open it has the same     *)
(* number (socket.cpp:14-38, 229-238).                                     *)
LEMMA MemberKeepsHandle ==
  ASSUME SocketInv, SocketInv', Renumbers, NEW o \in Objs,
         Member(o), Member(o)', own'[o] = own[o]
  PROVE  handle'[o] = handle[o]
<1>1. /\ handle[o] \in Fds /\ handle'[o] \in Fds
      /\ table[handle[o]] = own[o] /\ table'[handle'[o]] = own[o]
      /\ own[o] \in Descs
  BY DEF Member, Target, SocketInv, TypeOK
<1>2. link[own[o]] # "unused"
  BY <1>1, SocketAssumption DEF SocketInv, OwnSound
<1>3. table[handle'[o]] = own[o]
  BY <1>1, <1>2, SocketAssumption DEF Renumbers
<1> QED
  BY <1>1, <1>3, SocketAssumption DEF SocketInv, TableSound

(* Two objects with the same number, each its own, are one.                *)
LEMMA MembersDiffer ==
  ASSUME SocketInv, NEW o \in Objs, NEW p \in Objs, Member(o), Member(p),
         handle[o] = handle[p]
  PROVE  o = p
BY DEF Member, Target, SocketInv, OwnSound

(* What the list has of its objects.                                       *)
LEMMA Listed ==
  ASSUME EntriesOK, NEW i \in DOMAIN entries
  PROVE  /\ entries[i] \in ListEntries /\ entries[i].socket \in Objs
         /\ listed[entries[i].socket] > 0 /\ Member(entries[i].socket)
<1>1. entries \in Seq(ListEntries) /\ DOMAIN entries = 1..Len(entries)
  BY DEF EntriesOK
<1>2. entries[i] \in ListEntries /\ entries[i].socket \in Objs
  <2>1. entries[i] \in ListEntries
    BY <1>1
  <2> QED
    BY <2>1 DEF ListEntries
<1>3. /\ IsFiniteSet(Places(entries, entries[i].socket))
      /\ Cardinality(Places(entries, entries[i].socket)) \in Nat
  BY <1>1, PlacesFinite
<1>4. Places(entries, entries[i].socket) # {}
  BY <1>1 DEF Places
<1>5. Cardinality(Places(entries, entries[i].socket)) # 0
  BY <1>3, <1>4, FS_EmptySet
<1>6. listed[entries[i].socket] > 0
  BY <1>2, <1>3, <1>5 DEF EntriesOK
<1> QED
  BY <1>2, <1>6 DEF EntriesOK

(* remove() and result() find an entry of the object they are given        *)
(* (poll_list.cpp:20-26, 40-47).                                           *)
LEMMA FindsItsOwn ==
  ASSUME SocketInv, EntriesOK, NEW o \in Objs, listed[o] > 0
  PROVE  /\ Matches(o) # {} /\ Min(Matches(o)) \in 1..Len(entries)
         /\ entries[Min(Matches(o))].socket = o
         /\ Exist(LookedAt(o))
<1>1. entries \in Seq(ListEntries) /\ DOMAIN entries = 1..Len(entries) /\ Len(entries) \in Nat
  BY DEF EntriesOK
<1>2. /\ Cardinality(Places(entries, o)) = listed[o]
      /\ Cardinality(Places(entries, o)) \in Nat
  BY <1>1, PlacesFinite DEF EntriesOK
<1>3. Places(entries, o) # {}
  BY <1>2, FS_EmptySet
<1>4. PICK j \in 1..Len(entries) : entries[j].socket = o
  BY <1>3 DEF Places
<1>5. Member(o)
  BY DEF EntriesOK
<1>6. \A i \in Matches(o) : entries[i].socket = o
  <2> SUFFICES ASSUME NEW i \in Matches(o) PROVE entries[i].socket = o
    OBVIOUS
  <2>1. i \in DOMAIN entries /\ handle[entries[i].socket] = handle[o]
    BY DEF Matches
  <2>2. entries[i].socket \in Objs /\ Member(entries[i].socket)
    BY <2>1, Listed
  <2> QED
    BY <1>5, <2>1, <2>2, MembersDiffer
<1>7. j \in Matches(o) /\ Matches(o) \in SUBSET Nat /\ Matches(o) \subseteq 1..Len(entries)
  BY <1>1, <1>4 DEF Matches
<1>8. Min(Matches(o)) \in Matches(o)
  BY <1>7, MinIsMember
<1>9. Min(Matches(o)) \in 1..Len(entries)
  BY <1>7, <1>8
<1>10. LookedAt(o) \subseteq DOMAIN entries
  BY <1>1, <1>7, <1>9 DEF LookedAt
<1>11. Exist(LookedAt(o))
  BY <1>10, Listed DEF Exist, Member
<1> QED
  BY <1>6, <1>7, <1>8, <1>9, <1>11

(* Every step of the program or the list is a step of Socket or leaves the *)
(* sockets alone.                                                          *)
LEMMA ListTakesSocketSteps == [ListNext]_listVars => [Next]_vars
<1> SUFFICES ASSUME [ListNext]_listVars PROVE Next \/ UNCHANGED vars
  OBVIOUS
<1>1. CASE UNCHANGED listVars
  BY <1>1 DEF listVars
<1>2. CASE Owners
  BY <1>2 DEF Owners, Next, Lifetime
<1>3. ASSUME NEW o \in Objs, NEW events \in SUBSET Askable, Push(o, events)
      PROVE  UNCHANGED vars
  BY <1>3 DEF Push
<1>4. ASSUME NEW o \in Objs, RemoveSocket(o) PROVE UNCHANGED vars
  BY <1>4 DEF RemoveSocket
<1>5. CASE StartPoll \/ FinishPoll \/ PollThrows
  BY <1>5 DEF StartPoll, FinishPoll, PollThrows
<1> QED
  BY <1>1, <1>2, <1>3, <1>4, <1>5 DEF ListNext

(* The steps that leave the list as it is, and what a step may do to the   *)
(* objects on it while the program is careful.                             *)
LEMMA ListStays ==
  ASSUME SocketInv, SocketInv', Renumbers, EntriesOK, AskedOK, CountIsResults,
         careful, Undisturbed,
         entries' = entries, listed' = listed, asked' \in {asked, <<>>},
         count' = count, fresh' = fresh, backend' = backend
  PROVE  EntriesOK' /\ AskedOK' /\ CountIsResults'
<1>1. EntriesOK'
  BY DEF EntriesOK, Undisturbed, Member
<1>2. AskedOK'
  <2>1. CASE asked' = <<>>
    <3>1. DOMAIN asked' = {}
      BY <2>1
    <3> QED
      BY <2>1, <3>1 DEF AskedOK
  <2>2. CASE asked' # <<>>
    <3>1. asked' = asked /\ asked # <<>> /\ DOMAIN asked = DOMAIN entries
      BY <2>2 DEF AskedOK
    <3>2. ASSUME NEW o \in Objs, listed[o] > 0 PROVE handle'[o] = handle[o]
      <4>1. Member(o)
        BY <3>2 DEF EntriesOK
      <4>2. Member(o)' /\ own'[o] = own[o]
        BY <3>2 DEF Undisturbed, Member
      <4> QED
        BY <4>1, <4>2, MemberKeepsHandle
    <3>3. ASSUME NEW i \in DOMAIN entries
          PROVE  handle'[entries[i].socket] = handle[entries[i].socket]
      BY <3>2, Listed
    <3> QED
      BY <3>1, <3>3 DEF AskedOK
  <2> QED
    BY <2>1, <2>2
<1>3. CountIsResults'
  BY DEF CountIsResults
<1> QED
  BY <1>1, <1>2, <1>3

(* push_back (poll_list.cpp:16-18).                                        *)
LEMMA PushStep ==
  ASSUME SocketInv, SocketInv', EntriesOK, AskedOK, CountIsResults, careful, Undisturbed,
         listed \in [Objs -> Int], NEW o \in Objs, NEW events \in SUBSET Askable,
         Push(o, events), backend' = backend
  PROVE  EntriesOK' /\ AskedOK' /\ CountIsResults'
<1> DEFINE e == Entry(o, events)
<1>1. e \in ListEntries /\ e.socket = o /\ e.result = {}
  BY DEF Entry, ListEntries
<1> HIDE DEF e
<1>2. /\ entries' = Append(entries, e) /\ listed' = [listed EXCEPT ![o] = @ + 1]
      /\ asked' = <<>> /\ count' = count /\ fresh' = fresh
  BY DEF Push, e
<1>3. /\ entries \in Seq(ListEntries) /\ Len(entries) \in Nat
      /\ DOMAIN entries = 1..Len(entries)
  BY DEF EntriesOK
<1>4. /\ entries' \in Seq(ListEntries) /\ Len(entries') = Len(entries) + 1
      /\ DOMAIN entries' = 1..(Len(entries) + 1)
      /\ entries'[Len(entries) + 1] = e
      /\ \A i \in 1..Len(entries) : entries'[i] = entries[i]
  BY <1>1, <1>2, <1>3
<1>5. EntriesOK'
  <2>1. ASSUME NEW p \in Objs PROVE listed'[p] = Cardinality(Places(entries', p))
    <3>1. Cardinality(Places(entries', p)) =
            Cardinality(Places(entries, p)) + IF e.socket = p THEN 1 ELSE 0
      BY <1>1, <1>2, <1>3, PlacesAppend
    <3>2. listed[p] = Cardinality(Places(entries, p))
      BY DEF EntriesOK
    <3>3. listed[p] \in Int /\ listed'[p] = IF p = o THEN listed[p] + 1 ELSE listed[p]
      BY <1>2
    <3> QED
      BY <1>1, <3>1, <3>2, <3>3
  <2> QED
    BY <1>4, <2>1 DEF EntriesOK, Undisturbed, Member
<1>6. AskedOK'
  <2>1. DOMAIN asked' = {}
    BY <1>2
  <2> QED
    BY <1>2, <2>1 DEF AskedOK
<1>7. {i \in DOMAIN entries' : entries'[i].result # {}}
        = {i \in DOMAIN entries : entries[i].result # {}}
  BY <1>1, <1>3, <1>4
<1>8. CountIsResults'
  BY <1>2, <1>7 DEF CountIsResults
<1> QED
  BY <1>5, <1>6, <1>8

(* remove (poll_list.cpp:20-26).                                           *)
LEMMA RemoveStep ==
  ASSUME SocketInv, SocketInv', EntriesOK, AskedOK, careful, Undisturbed,
         listed \in [Objs -> Int], NEW o \in Objs, RemoveSocket(o)
  PROVE  ~wild' /\ EntriesOK' /\ AskedOK' /\ CountIsResults'
<1> DEFINE k == Min(Matches(o))
<1>1. /\ Matches(o) # {} /\ k \in 1..Len(entries) /\ entries[k].socket = o
      /\ Exist(LookedAt(o))
  BY FindsItsOwn DEF RemoveSocket
<1>2. /\ entries' = RemoveAt(entries, k) /\ listed' = [listed EXCEPT ![o] = @ - 1]
      /\ asked' = <<>> /\ ~fresh' /\ ~wild'
  BY <1>1 DEF RemoveSocket
<1> HIDE DEF k
<1>3. entries \in Seq(ListEntries)
  BY DEF EntriesOK
<1>4. entries' \in Seq(ListEntries)
  BY <1>1, <1>2, <1>3, RemoveAtIs
<1>5. EntriesOK'
  <2>1. ASSUME NEW p \in Objs PROVE listed'[p] = Cardinality(Places(entries', p))
    <3>1. Cardinality(Places(entries', p)) =
            Cardinality(Places(entries, p)) - IF entries[k].socket = p THEN 1 ELSE 0
      BY <1>1, <1>2, <1>3, PlacesRemoveAt
    <3>2. listed[p] = Cardinality(Places(entries, p))
      BY DEF EntriesOK
    <3>3. listed[p] \in Int /\ listed'[p] = IF p = o THEN listed[p] - 1 ELSE listed[p]
      BY <1>2
    <3> QED
      BY <1>1, <3>1, <3>2, <3>3
  <2> QED
    BY <1>4, <2>1 DEF EntriesOK, Undisturbed, Member
<1>6. AskedOK'
  <2>1. DOMAIN asked' = {}
    BY <1>2
  <2> QED
    BY <1>2, <2>1 DEF AskedOK
<1>7. CountIsResults'
  BY <1>2 DEF CountIsResults
<1> QED
  BY <1>2, <1>5, <1>6, <1>7

(* poll() up to the system call (poll_list.cpp:28-30, linux.cpp:309-315).  *)
LEMMA StartStep ==
  ASSUME SocketInv, SocketInv', EntriesOK, CountIsResults, careful, Undisturbed,
         StartPoll, backend' = backend
  PROVE  UNCHANGED wild /\ EntriesOK' /\ AskedOK' /\ CountIsResults'
<1>1. Exist(DOMAIN entries)
  BY Listed DEF Exist, Member
<1>2. /\ asked' = [i \in DOMAIN entries |-> handle[entries[i].socket]]
      /\ UNCHANGED <<vars, entries, listed, count, fresh, wild>>
  BY <1>1 DEF StartPoll
<1>3. handle' = handle /\ own' = own
  BY <1>2 DEF vars, fields, history
<1>4. EntriesOK'
  BY <1>2 DEF EntriesOK, Undisturbed, Member
<1>5. AskedOK'
  BY <1>2, <1>3 DEF AskedOK
<1>6. CountIsResults'
  BY <1>2 DEF CountIsResults
<1> QED
  BY <1>2, <1>4, <1>5, <1>6

(* What poll says of an entry whose object has its own socket open is      *)
(* never POLLNVAL (linux.cpp:88-92, 117-119, 316-321).                     *)
LEMMA MemberRevents ==
  ASSUME SocketInv, NEW o \in Objs, Member(o), NEW events \in SUBSET Askable,
         NEW ready \in [Descs -> Readiness]
  PROVE  Revents(handle[o], events, ready) \in SUBSET (Askable \cup {"hang"})
<1>1. handle[o] # Invalid /\ table[handle[o]] # None /\ table[handle[o]] \in Descs
  BY SocketAssumption DEF Member, Target, SocketInv, TypeOK
<1> QED
  BY <1>1 DEF Revents, Readiness

(* The system call returns (linux.cpp:316-321, windows.cpp:344-350).       *)
LEMMA FinishStep ==
  ASSUME SocketInv, SocketInv', EntriesOK, AskedOK, careful, Undisturbed,
         FinishPoll, backend' = backend
  PROVE  EntriesOK' /\ AskedOK' /\ CountIsResults'
<1>1. PICK ready \in [Descs -> Readiness] :
        LET revents == [i \in DOMAIN asked |->
                         Revents(asked[i], entries[i].events, ready)] IN
        /\ count' = Cardinality({i \in DOMAIN asked : revents[i] # {}})
        /\ entries' = [i \in DOMAIN asked |->
                        [entries[i] EXCEPT !.result = MapPollEvents(revents[i])]]
  BY DEF FinishPoll
<1> DEFINE revents == [i \in DOMAIN asked |->
                        Revents(asked[i], entries[i].events, ready)]
<1>2. /\ asked # <<>> /\ asked' = <<>> /\ fresh'
      /\ UNCHANGED <<vars, listed>>
  BY DEF FinishPoll
<1>3. /\ entries \in Seq(ListEntries) /\ Len(entries) \in Nat
      /\ DOMAIN entries = 1..Len(entries) /\ DOMAIN asked = 1..Len(entries)
  BY <1>2 DEF EntriesOK, AskedOK
<1>4. ASSUME NEW i \in 1..Len(entries)
      PROVE  revents[i] \in SUBSET (Askable \cup {"hang"})
  <2>1. /\ entries[i] \in ListEntries /\ entries[i].socket \in Objs
        /\ Member(entries[i].socket) /\ asked[i] = handle[entries[i].socket]
    BY <1>3, Listed DEF AskedOK
  <2>2. entries[i].events \in SUBSET Askable
    BY <2>1 DEF ListEntries
  <2> QED
    BY <1>3, <2>1, <2>2, MemberRevents
<1>5. /\ count' = Cardinality({i \in 1..Len(entries) : revents[i] # {}})
      /\ entries' = [i \in 1..Len(entries) |->
                      [entries[i] EXCEPT !.result = MapPollEvents(revents[i])]]
  BY <1>1, <1>3
<1> HIDE DEF revents
<1>6. ASSUME NEW i \in 1..Len(entries)
      PROVE  /\ entries'[i] \in ListEntries /\ entries'[i].socket = entries[i].socket
             /\ entries'[i].result = MapPollEvents(revents[i])
  <2>1. entries[i] \in ListEntries
    BY <1>3
  <2>2. MapPollEvents(revents[i]) \in SUBSET (Askable \cup {"hang"})
    BY <1>4 DEF MapPollEvents
  <2>3. entries'[i] = [entries[i] EXCEPT !.result = MapPollEvents(revents[i])]
    BY <1>5
  <2> QED
    BY <2>1, <2>2, <2>3 DEF ListEntries
<1>7. entries' \in Seq(ListEntries) /\ Len(entries') = Len(entries)
  <2>1. entries' \in [1..Len(entries) -> ListEntries]
    BY <1>5, <1>6
  <2> QED
    BY <1>3, <2>1, IsASeq, LenProperties
<1>8. EntriesOK'
  <2>1. ASSUME NEW o \in Objs PROVE Places(entries', o) = Places(entries, o)
    BY <1>6, <1>7 DEF Places
  <2>2. ASSUME NEW o \in Objs PROVE listed'[o] = Cardinality(Places(entries', o))
    BY <1>2, <2>1 DEF EntriesOK
  <2> QED
    BY <1>7, <2>2 DEF EntriesOK, Undisturbed, Member
<1>9. AskedOK'
  <2>1. DOMAIN asked' = {}
    BY <1>2
  <2> QED
    BY <1>2, <2>1 DEF AskedOK
<1>10. CountIsResults'
  <2> DEFINE told  == {i \in 1..Len(entries) : revents[i] # {}}
             shown == {i \in DOMAIN entries' : entries'[i].result # {}}
  <2>1. shown = {i \in 1..Len(entries) : MapPollEvents(revents[i]) # {}}
    BY <1>3, <1>6, <1>7
  <2>2. backend = "linux" => shown = told
    <3>1. ASSUME NEW i \in 1..Len(entries), backend = "linux"
          PROVE  MapPollEvents(revents[i]) = revents[i]
      BY <1>4, <3>1, PollAssumption DEF MapPollEvents
    <3> QED
      BY <2>1, <3>1
  <2>3. shown \in SUBSET told
    BY <2>1 DEF MapPollEvents
  <2>4. IsFiniteSet(told)
    <3>1. IsFiniteSet(1..Len(entries)) /\ told \in SUBSET (1..Len(entries))
      BY <1>3, FS_Interval
    <3> QED
      BY <3>1, FS_Subset
  <2>5. Cardinality(shown) <= Cardinality(told)
    BY <2>3, <2>4, FS_Subset
  <2>6. Cardinality(told) \in Nat /\ Cardinality(shown) \in Nat
    BY <2>3, <2>4, FS_Subset, FS_CardinalityType
  <2>7. count' = Cardinality(told)
    BY <1>5
  <2> HIDE DEF told
  <2>8. IF backend = "linux" THEN count' = Cardinality(shown)
                             ELSE count' >= Cardinality(shown)
    BY <2>2, <2>5, <2>6, <2>7
  <2> QED
    BY <2>8 DEF CountIsResults
<1> QED
  BY <1>8, <1>9, <1>10

(* No step breaks the invariant.                                           *)
LEMMA ListInvStep == ListInv /\ [ListNext]_listVars => ListInv'
<1> SUFFICES ASSUME ListInv, [ListNext]_listVars PROVE ListInv'
  OBVIOUS
<1>s. SocketInv /\ SocketInv' /\ Numbered' /\ Renumbers
  BY ListTakesSocketSteps, SocketInvStep, NumberedStep DEF ListInv
<1>1. listed' \in [Objs -> Int]
  <2>1. CASE UNCHANGED listVars
    BY <2>1 DEF listVars, list, ListInv
  <2>2. CASE Owners \/ StartPoll \/ FinishPoll \/ PollThrows
    BY <2>2 DEF Owners, StartPoll, FinishPoll, PollThrows, list, ListInv
  <2>3. ASSUME NEW o \in Objs, RemoveSocket(o) \/ \E events \in SUBSET Askable : Push(o, events)
        PROVE  listed' \in [Objs -> Int]
    BY <2>3 DEF RemoveSocket, Push, ListInv
  <2> QED
    BY <2>1, <2>2, <2>3 DEF ListNext
<1> SUFFICES ASSUME careful'
             PROVE  ~wild' /\ EntriesOK' /\ AskedOK' /\ CountIsResults'
  BY <1>s, <1>1 DEF ListInv
<1>2. CASE UNCHANGED listVars
  <2>1. careful' = careful /\ wild' = wild /\ UNCHANGED <<vars, entries, listed, asked, count, fresh, backend>>
    BY <1>2 DEF listVars, list
  <2>2. UNCHANGED <<live, handle, own, table>>
    BY <2>1 DEF vars, fields, kernel, history
  <2>3. EntriesOK'
    BY <2>1, <2>2 DEF ListInv, EntriesOK, Member, Target
  <2>4. AskedOK' /\ CountIsResults'
    BY <2>1, <2>2 DEF ListInv, AskedOK, CountIsResults
  <2> QED
    BY <2>1, <2>3, <2>4 DEF ListInv
<1>3. CASE ListNext
  <2>0. careful /\ Undisturbed /\ backend' = backend
    BY <1>3 DEF ListNext
  <2>1. ~wild /\ EntriesOK /\ AskedOK /\ CountIsResults /\ listed \in [Objs -> Int]
    BY <2>0 DEF ListInv
  <2>2. CASE Owners \/ PollThrows
    <3>1. /\ entries' = entries /\ listed' = listed /\ asked' \in {asked, <<>>}
          /\ count' = count /\ fresh' = fresh /\ wild' = wild
      BY <2>2 DEF Owners, PollThrows, list
    <3> QED
      BY <1>s, <2>0, <2>1, <3>1, ListStays
  <2>3. ASSUME NEW o \in Objs, NEW events \in SUBSET Askable, Push(o, events)
        PROVE  ~wild' /\ EntriesOK' /\ AskedOK' /\ CountIsResults'
    <3>1. wild' = wild
      BY <2>3 DEF Push
    <3> QED
      BY <1>s, <2>0, <2>1, <2>3, <3>1, PushStep
  <2>4. ASSUME NEW o \in Objs, RemoveSocket(o)
        PROVE  ~wild' /\ EntriesOK' /\ AskedOK' /\ CountIsResults'
    BY <1>s, <2>0, <2>1, <2>4, RemoveStep
  <2>5. CASE StartPoll
    BY <1>s, <2>0, <2>1, <2>5, StartStep
  <2>6. CASE FinishPoll
    <3>1. wild' = wild
      BY <2>6 DEF FinishPoll
    <3> QED
      BY <1>s, <2>0, <2>1, <2>6, <3>1, FinishStep
  <2> QED
    BY <1>3, <2>2, <2>3, <2>4, <2>5, <2>6 DEF ListNext
<1> QED
  BY <1>2, <1>3

(* The invariant of a poll list holds in every reachable state             *)
(* (poll_list.cpp, linux.cpp:309-321, windows.cpp:337-350).                *)
THEOREM PollListInvariant == ListSpec => []ListInv
<1>1. ListInit => ListInv
  <2> SUFFICES ASSUME ListInit PROVE ListInv
    OBVIOUS
  <2>1. SocketInv
    BY SocketInitially DEF ListInit
  <2>2. Numbered
    BY DEF ListInit, Init, Numbered
  <2>3. /\ entries = <<>> /\ asked = <<>> /\ ~fresh /\ ~wild
        /\ listed = [o \in Objs |-> 0]
    BY DEF ListInit
  <2>4. EntriesOK
    <3>1. entries \in Seq(ListEntries) /\ \A o \in Objs : Places(entries, o) = {}
      BY <2>3, EmptySeq DEF Places
    <3> QED
      BY <2>3, <3>1, FS_EmptySet DEF EntriesOK
  <2>5. AskedOK
    <3>1. DOMAIN asked = {}
      BY <2>3
    <3> QED
      BY <2>3, <3>1 DEF AskedOK
  <2>6. CountIsResults
    BY <2>3 DEF CountIsResults
  <2> QED
    BY <2>1, <2>2, <2>3, <2>4, <2>5, <2>6 DEF ListInv
<1> QED
  BY <1>1, ListInvStep, PTL DEF ListSpec

(* A careful program's list never follows a dangling pointer, although     *)
(* remove() goes by number and numbers are used again (poll_list.cpp:      *)
(* 20-26, linux.cpp:312-315).                                              *)
THEOREM PollListNoWildUse == ListSpec => []NoWildUse
<1>1. ListInv => NoWildUse
  BY DEF ListInv, NoWildUse
<1> QED
  BY <1>1, PollListInvariant, PTL

(* Its result(s) is an entry of s itself, and the numbers in a poll in     *)
(* progress are still their sockets' (poll_list.cpp:40-47).                *)
THEOREM PollListResultIsOwn == ListSpec => []ResultIsOwn
<1>1. ListInv => ResultIsOwn
  <2> SUFFICES ASSUME ListInv, careful
               PROVE  /\ \A o \in live :
                           listed[o] > 0 =>
                             Matches(o) # {} /\ entries[Min(Matches(o))].socket = o
                      /\ \A i \in DOMAIN asked : asked[i] = handle[entries[i].socket]
    BY DEF ResultIsOwn
  <2>1. SocketInv /\ EntriesOK /\ AskedOK /\ live \subseteq Objs
    BY DEF ListInv, SocketInv, TypeOK
  <2> QED
    BY <2>1, FindsItsOwn DEF AskedOK
<1> QED
  BY <1>1, PollListInvariant, PTL

(* What poll() returned is the number of entries with a result, on Windows *)
(* at least that (linux.cpp:316-321, windows.cpp:344-350).                 *)
THEOREM PollListCountIsResults == ListSpec => []CountIsResults
<1>1. ListInv => CountIsResults
  BY DEF ListInv, CountIsResults
<1> QED
  BY <1>1, PollListInvariant, PTL

=============================================================================
