---------------------------- MODULE SocketProofs ----------------------------
(* Proofs about Socket, for every set of objects, descriptor numbers and   *)
(* kernel sockets: the invariant SocketInv is inductive, and every safety  *)
(* property of Socket that the code keeps follows from it.                 *)
(*                                                                         *)
(* The steps are taken in groups that change the same state: constructors, *)
(* the two moves, the calls that close, connect, the calls that change     *)
(* only what a kernel socket is, and the calls that only reach one.  Each  *)
(* group has a lemma with one step per part of the invariant.              *)
(*                                                                         *)
(* Then come what a step does to descriptor numbers, for the modules that  *)
(* use Socket, and the proof that Socket implements Ownership.             *)
EXTENDS Socket, TLAPS

(* socket.cpp, constructors to destructor: every step keeps the types.     *)
LEMMA TypeStep == TypeOK /\ [Next]_vars => TypeOK'
<1> SUFFICES ASSUME TypeOK, [Next]_vars PROVE TypeOK'
  OBVIOUS
<1> USE SocketAssumption DEF TypeOK, Links, Calls
<1>1. ASSUME NEW n \in Objs, DefaultConstruct(n) PROVE TypeOK'
  BY <1>1 DEF DefaultConstruct, Construct, kernel
<1>2. ASSUME NEW n \in Objs, Create(n) PROVE TypeOK'
  BY <1>2 DEF Create, Construct, Open
<1>3. ASSUME NEW n \in Objs, Adopt(n) PROVE TypeOK'
  BY <1>3 DEF Adopt, Construct, Open
<1>4. ASSUME NEW n \in Objs, NEW p \in Objs, MoveConstruct(n, p) PROVE TypeOK'
  BY <1>4 DEF MoveConstruct, kernel, Target
<1>5. ASSUME NEW o \in Objs, NEW p \in Objs, MoveAssign(o, p) PROVE TypeOK'
  BY <1>5 DEF MoveAssign, Release, Unclosed, Reach, ReleaseCalls, Target, kernel
<1>6. ASSUME NEW o \in Objs, Close(o) PROVE TypeOK'
  BY <1>6 DEF Close, Release, Unclosed, Reach, ReleaseCalls, Target, kernel
<1>7. ASSUME NEW o \in Objs, Destroy(o) PROVE TypeOK'
  BY <1>7 DEF Destroy, Release, Unclosed, Reach, ReleaseCalls, Target, kernel
<1>8. ASSUME NEW o \in Objs, Connect(o) PROVE TypeOK'
  BY <1>8 DEF Connect, Reach, Target
<1>9. ASSUME NEW o \in Objs, ConnectThrows(o) PROVE TypeOK'
  BY <1>9 DEF ConnectThrows, Reach, Target, fields
<1>10. ASSUME NEW o \in Objs,
              \/ Bind(o) \/ Send(o) \/ Recv(o) \/ RecvThrows(o)
              \/ SendTo(o) \/ RecvFrom(o)
       PROVE  TypeOK'
  BY <1>10 DEF Bind, Send, Recv, RecvThrows, SendTo, RecvFrom, Reach, fields, kernel
<1>11. ASSUME NEW o \in Objs, Listen(o) PROVE TypeOK'
  BY <1>11 DEF Listen, Reach, Target, fields
<1>12. ASSUME NEW o \in Objs, NEW n \in Objs, Accept(o, n) PROVE TypeOK'
  <2>1. CASE \E f \in Fds, d \in Descs :
               Open(f, d, "connected") /\ Construct(n, f, TRUE, d)
    BY <1>12, <2>1 DEF Accept, Construct, Open, Reach
  <2>2. CASE Construct(n, Invalid, TRUE, None) /\ UNCHANGED kernel
    BY <1>12, <2>2 DEF Accept, Construct, Reach, kernel
  <2> QED
    BY <1>12, <2>1, <2>2 DEF Accept
<1>13. ASSUME NEW o \in Objs, RecvZero(o) \/ RecvFromZero(o) PROVE TypeOK'
  <2>1. CASE RecvZero(o)
    BY <2>1 DEF RecvZero, Release, Unclosed, Reach, ReleaseCalls, Target, kernel
  <2>2. CASE RecvFromZero(o)
    BY <2>2 DEF RecvFromZero, Release, Unclosed, Reach, ReleaseCalls, Target, kernel
  <2> QED
    BY <1>13, <2>1, <2>2
<1>14. ASSUME NEW o \in Objs, NEW b \in BOOLEAN, SetBlocking(o, b) PROVE TypeOK'
  BY <1>14 DEF SetBlocking, Reach, Target, fields
<1>15. ASSUME NEW d \in Descs, ConnectSettles(d) \/ ConnectionEnds(d) PROVE TypeOK'
  <2>1. PICK l \in Links : link' = [link EXCEPT ![d] = l]
    BY <1>15 DEF ConnectSettles, ConnectionEnds
  <2>2. UNCHANGED <<fields, table, nonblock, history>>
    BY <1>15 DEF ConnectSettles, ConnectionEnds
  <2> QED
    BY <2>1, <2>2 DEF fields, history
<1>16. CASE UNCHANGED vars
  BY <1>16 DEF vars, fields, kernel, history
<1> QED
  BY <1>1, <1>2, <1>3, <1>4, <1>5, <1>6, <1>7, <1>8, <1>9, <1>10, <1>11,
     <1>12, <1>13, <1>14, <1>15, <1>16 DEF Next, Lifetime, Call

(* DefaultConstruct and the would-block case of Accept: an object without  *)
(* a handle (socket.cpp:14-16, 65-71).                                     *)
LEMMA ConstructEmpty ==
  ASSUME NEW n \in Objs, NEW c \in BOOLEAN, SocketInv, TypeOK',
         Construct(n, Invalid, c, None),
         foreign' \in {foreign, foreign \cup {"unguarded"}},
         UNCHANGED <<kernel, revived, assigned, tolerated, interrupted>>
  PROVE  SocketInv'
<1> USE SocketAssumption DEF SocketInv, TypeOK, Target, ClosesHandle,
        Construct, kernel
<1>1. DeadIsBlank'
  BY DEF DeadIsBlank
<1>2. TableSound'
  BY DEF DeadIsBlank, TableSound, OwnSound
<1>3. OwnSound'
  BY DEF DeadIsBlank, TableSound, OwnSound
<1>4. UnclosedIsOwn'
  BY DEF DeadIsBlank, TableSound, OwnSound, UnclosedIsOwn
<1>5. ConnectedIsOwn'
  BY DEF DeadIsBlank, TableSound, OwnSound, UnclosedIsOwn, ConnectedIsOwn
<1>6. NoLeak'
  BY DEF DeadIsBlank, TableSound, OwnSound, NoLeak
<1>7. ClosesOnlyItsOwn'
  BY DEF UnclosedIsOwn, ClosesOnlyItsOwn, IsForeign
<1>8. GuardedCallsStayHome'
  BY DEF OwnSound, ConnectedIsOwn, GuardedCallsStayHome, IsForeign
<1>9. ConnectedFlag'
  BY DEF DeadIsBlank, TableSound, OwnSound, NoLeak, IsForeign, ConnectedFlag,
     WasConnected
<1> QED
  BY <1>1, <1>2, <1>3, <1>4, <1>5, <1>6, <1>7, <1>8, <1>9

(* Create, Adopt and Accept: an object for a new kernel socket             *)
(* (socket.cpp:18-25, 65-71).                                              *)
LEMMA ConstructOpen ==
  ASSUME NEW n \in Objs, NEW f \in Fds, NEW d \in Descs,
         NEW k \in {"idle", "connected"}, NEW c \in BOOLEAN,
         c <=> k = "connected", SocketInv, TypeOK',
         Open(f, d, k), Construct(n, f, c, d),
         foreign' \in {foreign, foreign \cup {"unguarded"}},
         UNCHANGED <<revived, assigned, tolerated, interrupted>>
  PROVE  SocketInv'
<1> USE SocketAssumption DEF SocketInv, TypeOK, Target, ClosesHandle,
        Construct, Open
<1>1. DeadIsBlank'
  BY DEF DeadIsBlank
<1>2. TableSound'
  BY DEF DeadIsBlank, TableSound, OwnSound
<1>3. OwnSound'
  BY DEF DeadIsBlank, TableSound, OwnSound
<1>4. UnclosedIsOwn'
  BY DEF DeadIsBlank, TableSound, OwnSound, UnclosedIsOwn
<1>5. ConnectedIsOwn'
  BY DEF DeadIsBlank, TableSound, OwnSound, UnclosedIsOwn, ConnectedIsOwn
<1>6. NoLeak'
  BY DEF DeadIsBlank, TableSound, OwnSound, NoLeak
<1>7. ClosesOnlyItsOwn'
  BY DEF UnclosedIsOwn, ClosesOnlyItsOwn, IsForeign
<1>8. GuardedCallsStayHome'
  BY DEF OwnSound, ConnectedIsOwn, GuardedCallsStayHome, IsForeign
<1>9. ConnectedFlag'
  BY DEF DeadIsBlank, TableSound, OwnSound, NoLeak, IsForeign, ConnectedFlag,
     WasConnected
<1> QED
  BY <1>1, <1>2, <1>3, <1>4, <1>5, <1>6, <1>7, <1>8, <1>9

(* The move constructor (socket.cpp:27-29).                                *)
LEMMA MoveConstructStep ==
  ASSUME NEW n \in Objs, NEW p \in Objs, SocketInv, TypeOK',
         MoveConstruct(n, p)
  PROVE  SocketInv'
<1> USE SocketAssumption DEF SocketInv, TypeOK, Target, ClosesHandle,
        MoveConstruct, kernel
<1>1. DeadIsBlank'
  BY DEF DeadIsBlank
<1>2. TableSound'
  BY DEF DeadIsBlank, TableSound, OwnSound
<1>3. OwnSound'
  BY DEF DeadIsBlank, TableSound, OwnSound
<1>4. UnclosedIsOwn'
  BY DEF DeadIsBlank, TableSound, OwnSound, UnclosedIsOwn
<1>5. ConnectedIsOwn'
  BY DEF DeadIsBlank, TableSound, OwnSound, UnclosedIsOwn, ConnectedIsOwn
<1>6. NoLeak'
  BY DEF DeadIsBlank, TableSound, OwnSound, NoLeak
<1>7. ClosesOnlyItsOwn'
  BY DEF UnclosedIsOwn, ClosesOnlyItsOwn, IsForeign
<1>8. GuardedCallsStayHome'
  BY DEF OwnSound, ConnectedIsOwn, GuardedCallsStayHome, IsForeign
<1>9. ConnectedFlag'
  BY DEF DeadIsBlank, TableSound, OwnSound, NoLeak, IsForeign, ConnectedFlag,
     WasConnected
<1> QED
  BY <1>1, <1>2, <1>3, <1>4, <1>5, <1>6, <1>7, <1>8, <1>9

(* Move assignment (socket.cpp:31-38).                                     *)
LEMMA MoveAssignStep ==
  ASSUME NEW o \in Objs, NEW p \in Objs, SocketInv, TypeOK',
         MoveAssign(o, p)
  PROVE  SocketInv'
<1> USE SocketAssumption DEF SocketInv, TypeOK, Target, ClosesHandle,
        MoveAssign, Release, Unclosed, Reach, ReleaseCalls, kernel
<1>1. DeadIsBlank'
  BY DEF DeadIsBlank
<1>2. TableSound'
  BY DEF DeadIsBlank, TableSound, OwnSound
<1>3. OwnSound'
  BY DEF DeadIsBlank, TableSound, OwnSound
<1>4. UnclosedIsOwn'
  BY DEF DeadIsBlank, TableSound, OwnSound, UnclosedIsOwn
<1>5. ConnectedIsOwn'
  BY DEF DeadIsBlank, TableSound, OwnSound, UnclosedIsOwn, ConnectedIsOwn
<1>6. NoLeak'
  BY DEF DeadIsBlank, TableSound, OwnSound, NoLeak
<1>7. ClosesOnlyItsOwn'
  BY DEF UnclosedIsOwn, ClosesOnlyItsOwn, IsForeign
<1>8. GuardedCallsStayHome'
  BY DEF OwnSound, ConnectedIsOwn, GuardedCallsStayHome, IsForeign
<1>9. ConnectedFlag'
  BY DEF DeadIsBlank, TableSound, OwnSound, NoLeak, IsForeign, ConnectedFlag,
     WasConnected
<1> QED
  BY <1>1, <1>2, <1>3, <1>4, <1>5, <1>6, <1>7, <1>8, <1>9

(* close, and recv and recvfrom when they got nothing (socket.cpp:77-78,   *)
(* 92-93, 105-106, 116-117, 229-234).                                      *)
LEMMA CloseStep ==
  ASSUME NEW o \in Objs, SocketInv, TypeOK',
         Close(o) \/ RecvZero(o) \/ RecvFromZero(o)
  PROVE  SocketInv'
<1> USE SocketAssumption DEF SocketInv, TypeOK, Target, ClosesHandle,
        Close, RecvZero, RecvFromZero, Release, Unclosed, Reach, ReleaseCalls, kernel
<1>1. DeadIsBlank'
  BY DEF DeadIsBlank
<1>2. TableSound'
  BY DEF DeadIsBlank, TableSound, OwnSound
<1>3. OwnSound'
  BY DEF DeadIsBlank, TableSound, OwnSound
<1>4. UnclosedIsOwn'
  BY DEF DeadIsBlank, TableSound, OwnSound, UnclosedIsOwn
<1>5. ConnectedIsOwn'
  BY DEF DeadIsBlank, TableSound, OwnSound, UnclosedIsOwn, ConnectedIsOwn
<1>6. NoLeak'
  BY DEF DeadIsBlank, TableSound, OwnSound, NoLeak
<1>7. ClosesOnlyItsOwn'
  BY DEF UnclosedIsOwn, ClosesOnlyItsOwn, IsForeign
<1>8. GuardedCallsStayHome'
  BY DEF OwnSound, ConnectedIsOwn, GuardedCallsStayHome, IsForeign
<1>9. ConnectedFlag'
  BY DEF DeadIsBlank, TableSound, OwnSound, NoLeak, IsForeign, ConnectedFlag,
     WasConnected
<1> QED
  BY <1>1, <1>2, <1>3, <1>4, <1>5, <1>6, <1>7, <1>8, <1>9

(* The destructor (socket.cpp:236-238).                                    *)
LEMMA DestroyStep ==
  ASSUME NEW o \in Objs, SocketInv, TypeOK',
         Destroy(o)
  PROVE  SocketInv'
<1> USE SocketAssumption DEF SocketInv, TypeOK, Target, ClosesHandle,
        Destroy, Release, Unclosed, Reach, ReleaseCalls, kernel
<1>1. DeadIsBlank'
  BY DEF DeadIsBlank
<1>2. TableSound'
  BY DEF DeadIsBlank, TableSound, OwnSound
<1>3. OwnSound'
  BY DEF DeadIsBlank, TableSound, OwnSound
<1>4. UnclosedIsOwn'
  BY DEF DeadIsBlank, TableSound, OwnSound, UnclosedIsOwn
<1>5. ConnectedIsOwn'
  BY DEF DeadIsBlank, TableSound, OwnSound, UnclosedIsOwn, ConnectedIsOwn
<1>6. NoLeak'
  BY DEF DeadIsBlank, TableSound, OwnSound, NoLeak
<1>7. ClosesOnlyItsOwn'
  BY DEF UnclosedIsOwn, ClosesOnlyItsOwn, IsForeign
<1>8. GuardedCallsStayHome'
  BY DEF OwnSound, ConnectedIsOwn, GuardedCallsStayHome, IsForeign
<1>9. ConnectedFlag'
  BY DEF DeadIsBlank, TableSound, OwnSound, NoLeak, IsForeign, ConnectedFlag,
     WasConnected
<1> QED
  BY <1>1, <1>2, <1>3, <1>4, <1>5, <1>6, <1>7, <1>8, <1>9

(* connect that returns (socket.cpp:52-55).                                *)
LEMMA ConnectKeeps ==
  ASSUME NEW o \in Objs, SocketInv, TypeOK',
         Connect(o)
  PROVE  SocketInv'
<1> USE SocketAssumption DEF SocketInv, TypeOK, Target, ClosesHandle,
        Connect, Reach
<1>1. DeadIsBlank'
  BY DEF DeadIsBlank
<1>2. TableSound'
  BY DEF DeadIsBlank, TableSound, OwnSound
<1>3. OwnSound'
  BY DEF DeadIsBlank, TableSound, OwnSound
<1>4. UnclosedIsOwn'
  BY DEF DeadIsBlank, TableSound, OwnSound, UnclosedIsOwn
<1>5. ConnectedIsOwn'
  <2>1. CASE IsForeign(o)
    BY <2>1 DEF ConnectedIsOwn, IsForeign
  <2>2. CASE ~IsForeign(o)
    <3>1. foreign' = foreign /\ UNCHANGED <<handle, table, own, revived>>
      BY <2>2
    <3>2. Target(o) = own[o] /\ \A p \in Objs \ {o} : connected'[p] = connected[p]
      BY <2>2 DEF IsForeign
    <3> QED
      BY <3>1, <3>2 DEF ConnectedIsOwn
  <2> QED
    BY <2>1, <2>2
<1>6. NoLeak'
  BY DEF DeadIsBlank, TableSound, OwnSound, NoLeak
<1>7. ClosesOnlyItsOwn'
  BY DEF UnclosedIsOwn, ClosesOnlyItsOwn, IsForeign
<1>8. GuardedCallsStayHome'
  BY DEF OwnSound, ConnectedIsOwn, GuardedCallsStayHome, IsForeign
<1>9. ConnectedFlag'
  BY DEF DeadIsBlank, TableSound, OwnSound, NoLeak, IsForeign, ConnectedFlag,
     WasConnected
<1> QED
  BY <1>1, <1>2, <1>3, <1>4, <1>5, <1>6, <1>7, <1>8, <1>9

(* connect that throws, and listen (socket.cpp:52-55, 61-63).              *)
LEMMA LinkStep ==
  ASSUME NEW o \in Objs, SocketInv, TypeOK',
         ConnectThrows(o) \/ Listen(o)
  PROVE  SocketInv'
<1> USE SocketAssumption DEF SocketInv, TypeOK, Target, ClosesHandle,
        ConnectThrows, Listen, Reach, fields
<1>1. DeadIsBlank'
  BY DEF DeadIsBlank
<1>2. TableSound'
  BY DEF DeadIsBlank, TableSound, OwnSound
<1>3. OwnSound'
  BY DEF DeadIsBlank, TableSound, OwnSound
<1>4. UnclosedIsOwn'
  BY DEF DeadIsBlank, TableSound, OwnSound, UnclosedIsOwn
<1>5. ConnectedIsOwn'
  BY DEF DeadIsBlank, TableSound, OwnSound, UnclosedIsOwn, ConnectedIsOwn
<1>6. NoLeak'
  BY DEF DeadIsBlank, TableSound, OwnSound, NoLeak
<1>7. ClosesOnlyItsOwn'
  BY DEF UnclosedIsOwn, ClosesOnlyItsOwn, IsForeign
<1>8. GuardedCallsStayHome'
  BY DEF OwnSound, ConnectedIsOwn, GuardedCallsStayHome, IsForeign
<1>9. ConnectedFlag'
  BY DEF DeadIsBlank, TableSound, OwnSound, NoLeak, IsForeign, ConnectedFlag,
     WasConnected
<1> QED
  BY <1>1, <1>2, <1>3, <1>4, <1>5, <1>6, <1>7, <1>8, <1>9

(* The network settles a connect in progress or ends a connection.         *)
LEMMA SettleStep ==
  ASSUME NEW d \in Descs, SocketInv, TypeOK',
         ConnectSettles(d) \/ ConnectionEnds(d)
  PROVE  SocketInv'
<1> USE SocketAssumption DEF SocketInv, TypeOK, Target, ClosesHandle,
        ConnectSettles, ConnectionEnds, fields, history
<1>1. DeadIsBlank'
  BY DEF DeadIsBlank
<1>2. TableSound'
  BY DEF DeadIsBlank, TableSound, OwnSound
<1>3. OwnSound'
  BY DEF DeadIsBlank, TableSound, OwnSound
<1>4. UnclosedIsOwn'
  BY DEF DeadIsBlank, TableSound, OwnSound, UnclosedIsOwn
<1>5. ConnectedIsOwn'
  BY DEF DeadIsBlank, TableSound, OwnSound, UnclosedIsOwn, ConnectedIsOwn
<1>6. NoLeak'
  BY DEF DeadIsBlank, TableSound, OwnSound, NoLeak
<1>7. ClosesOnlyItsOwn'
  BY DEF UnclosedIsOwn, ClosesOnlyItsOwn, IsForeign
<1>8. GuardedCallsStayHome'
  BY DEF OwnSound, ConnectedIsOwn, GuardedCallsStayHome, IsForeign
<1>9. ConnectedFlag'
  BY DEF DeadIsBlank, TableSound, OwnSound, NoLeak, IsForeign, ConnectedFlag,
     WasConnected
<1> QED
  BY <1>1, <1>2, <1>3, <1>4, <1>5, <1>6, <1>7, <1>8, <1>9

(* The calls that only reach a kernel socket (socket.cpp:57-59, 73-123).   *)
LEMMA ReachStep ==
  ASSUME NEW o \in Objs, SocketInv, TypeOK',
         \/ Bind(o) \/ Send(o) \/ Recv(o) \/ RecvThrows(o) \/ SendTo(o) \/ RecvFrom(o)
         \/ \E b \in BOOLEAN : SetBlocking(o, b)
  PROVE  SocketInv'
<1> USE SocketAssumption DEF SocketInv, TypeOK, Target, ClosesHandle,
        Bind, Send, Recv, RecvThrows, SendTo, RecvFrom, SetBlocking, Reach,
        fields, kernel
<1>1. DeadIsBlank'
  BY DEF DeadIsBlank
<1>2. TableSound'
  BY DEF DeadIsBlank, TableSound, OwnSound
<1>3. OwnSound'
  BY DEF DeadIsBlank, TableSound, OwnSound
<1>4. UnclosedIsOwn'
  BY DEF DeadIsBlank, TableSound, OwnSound, UnclosedIsOwn
<1>5. ConnectedIsOwn'
  BY DEF DeadIsBlank, TableSound, OwnSound, UnclosedIsOwn, ConnectedIsOwn
<1>6. NoLeak'
  BY DEF DeadIsBlank, TableSound, OwnSound, NoLeak
<1>7. ClosesOnlyItsOwn'
  BY DEF UnclosedIsOwn, ClosesOnlyItsOwn, IsForeign
<1>8. GuardedCallsStayHome'
  BY DEF OwnSound, ConnectedIsOwn, GuardedCallsStayHome, IsForeign
<1>9. ConnectedFlag'
  BY DEF DeadIsBlank, TableSound, OwnSound, NoLeak, IsForeign, ConnectedFlag,
     WasConnected
<1> QED
  BY <1>1, <1>2, <1>3, <1>4, <1>5, <1>6, <1>7, <1>8, <1>9

-----------------------------------------------------------------------------
(* No step breaks the invariant.                                           *)
LEMMA SocketInvStep == SocketInv /\ [Next]_vars => SocketInv'
<1> SUFFICES ASSUME SocketInv, [Next]_vars PROVE SocketInv'
  OBVIOUS
<1>t. TypeOK'
  BY TypeStep DEF SocketInv
<1>1. ASSUME NEW n \in Objs, DefaultConstruct(n) PROVE SocketInv'
  BY <1>1, <1>t, ConstructEmpty DEF DefaultConstruct
<1>2. ASSUME NEW n \in Objs, Create(n) \/ Adopt(n) PROVE SocketInv'
  <2>1. PICK f \in Fds, d \in Descs :
          \/ Open(f, d, "idle") /\ Construct(n, f, FALSE, d)
          \/ Open(f, d, "connected") /\ Construct(n, f, TRUE, d)
    BY <1>2 DEF Create, Adopt
  <2>2. UNCHANGED <<revived, assigned, tolerated, interrupted, foreign>>
    BY <1>2 DEF Create, Adopt
  <2> QED
    BY <2>1, <2>2, <1>t, ConstructOpen
<1>3. ASSUME NEW n \in Objs, NEW p \in Objs, MoveConstruct(n, p) \/ MoveAssign(n, p)
      PROVE SocketInv'
  BY <1>3, <1>t, MoveConstructStep, MoveAssignStep
<1>4. ASSUME NEW o \in Objs, Close(o) \/ RecvZero(o) \/ RecvFromZero(o) \/ Destroy(o)
      PROVE SocketInv'
  BY <1>4, <1>t, CloseStep, DestroyStep
<1>5. ASSUME NEW o \in Objs, Connect(o) \/ ConnectThrows(o) \/ Listen(o)
      PROVE SocketInv'
  BY <1>5, <1>t, ConnectKeeps, LinkStep
<1>6. ASSUME NEW o \in Objs, NEW n \in Objs, Accept(o, n) PROVE SocketInv'
  <2>1. foreign' \in {foreign, foreign \cup {"unguarded"}}
    BY <1>6 DEF Accept, Reach
  <2>2. UNCHANGED <<revived, assigned, tolerated, interrupted>>
    BY <1>6 DEF Accept
  <2>3. ASSUME NEW f \in Fds, NEW d \in Descs,
               Open(f, d, "connected") /\ Construct(n, f, TRUE, d)
        PROVE SocketInv'
    BY <2>1, <2>2, <2>3, <1>t, ConstructOpen
  <2>4. CASE Construct(n, Invalid, TRUE, None) /\ UNCHANGED kernel
    BY <2>1, <2>2, <2>4, <1>t, ConstructEmpty
  <2> QED
    BY <1>6, <2>3, <2>4 DEF Accept
<1>7. ASSUME NEW o \in Objs,
             \/ Bind(o) \/ Send(o) \/ Recv(o) \/ RecvThrows(o) \/ SendTo(o) \/ RecvFrom(o)
             \/ \E b \in BOOLEAN : SetBlocking(o, b)
      PROVE SocketInv'
  BY <1>7, <1>t, ReachStep
<1>8. ASSUME NEW d \in Descs, ConnectSettles(d) \/ ConnectionEnds(d) PROVE SocketInv'
  BY <1>8, <1>t, SettleStep
<1>9. CASE UNCHANGED vars
  BY <1>9, <1>t DEF vars, fields, kernel, history, SocketInv, DeadIsBlank,
     TableSound, OwnSound, UnclosedIsOwn, ConnectedIsOwn, NoLeak,
     ClosesOnlyItsOwn, GuardedCallsStayHome, ConnectedFlag, WasConnected,
     ClosesHandle, Target
<1> QED
  BY <1>1, <1>2, <1>3, <1>4, <1>5, <1>6, <1>7, <1>8, <1>9 DEF Next, Lifetime, Call

(* The program begins without sockets.                                     *)
LEMMA SocketInitially == Init => SocketInv
<1> SUFFICES ASSUME Init PROVE SocketInv
  OBVIOUS
<1> USE SocketAssumption DEF Init
<1>1. TypeOK
  BY DEF TypeOK, Links, Calls
<1>2. DeadIsBlank /\ TableSound /\ OwnSound /\ UnclosedIsOwn /\ ConnectedIsOwn
  BY DEF DeadIsBlank, TableSound, OwnSound, UnclosedIsOwn, ConnectedIsOwn, ClosesHandle
<1>3. NoLeak /\ ClosesOnlyItsOwn /\ GuardedCallsStayHome /\ ConnectedFlag
  BY DEF NoLeak, ClosesOnlyItsOwn, GuardedCallsStayHome, ConnectedFlag
<1> QED
  BY <1>1, <1>2, <1>3 DEF SocketInv

(* The invariant of the descriptor bookkeeping of socket.cpp holds in every *)
(* reachable state.                                                        *)
THEOREM SocketInvariant == Spec => []SocketInv
BY SocketInitially, SocketInvStep, PTL DEF Spec

(* The state variables keep their types.                                   *)
THEOREM SocketTyped == Spec => []TypeOK
<1>1. SocketInv => TypeOK
  BY DEF SocketInv
<1> QED
  BY <1>1, SocketInvariant, PTL

(* An open kernel socket is lost only through move assignment              *)
(* (socket.cpp:31-38, 229-234).                                            *)
THEOREM SocketNoLeak == Spec => []NoLeak
<1>1. SocketInv => NoLeak
  BY DEF SocketInv
<1> QED
  BY <1>1, SocketInvariant, PTL

(* close reaches another object's kernel socket only after a handle that   *)
(* was already closed was moved into a new object (socket.cpp:27-29).      *)
THEOREM SocketClosesOnlyItsOwn == Spec => []ClosesOnlyItsOwn
<1>1. SocketInv => ClosesOnlyItsOwn
  BY DEF SocketInv
<1> QED
  BY <1>1, SocketInvariant, PTL

(* Two objects never both have the duty to close one number, under the     *)
(* same condition.                                                         *)
THEOREM SocketOneOwner == Spec => []OneOwner
<1>1. SocketInv => OneOwner
  <2> SUFFICES ASSUME SocketInv, ~revived, NEW o \in live, NEW p \in live,
                      handle[o] = handle[p], ClosesHandle(o), ClosesHandle(p)
               PROVE  o = p
    BY DEF OneOwner
  <2>1. o \in Objs /\ p \in Objs /\ handle[o] \in Fds
    BY DEF SocketInv, TypeOK, ClosesHandle
  <2>2. Target(o) = own[o] /\ Target(p) = own[p]
    BY <2>1 DEF SocketInv, UnclosedIsOwn
  <2>3. Target(o) = Target(p) /\ own[o] # None
    BY <2>1 DEF Target, SocketInv, OwnSound
  <2> QED
    BY <2>1, <2>2, <2>3 DEF SocketInv, OwnSound
<1> QED
  BY <1>1, SocketInvariant, PTL

(* send and recv reach another object's stream only after a revived handle *)
(* or a connect on a stale one (socket.cpp:52-55, 73-101).                 *)
THEOREM SocketGuardedCallsStayHome == Spec => []GuardedCallsStayHome
<1>1. SocketInv => GuardedCallsStayHome
  BY DEF SocketInv
<1> QED
  BY <1>1, SocketInvariant, PTL

(* connected() of an open socket tells whether the kernel socket was ever  *)
(* connected, across resets and timeouts that leave the flag up, but for a *)
(* connect that was tolerated or interrupted, a move assignment and a      *)
(* connect on a number used again (socket.cpp:31-38, 52-55, 73-95).        *)
THEOREM SocketConnectedFlag == Spec => []ConnectedFlag
<1>1. SocketInv => ConnectedFlag
  BY DEF SocketInv
<1> QED
  BY <1>1, SocketInvariant, PTL

-----------------------------------------------------------------------------
(* What the functions and classes that use a socket need besides.          *)

(* A kernel socket that is open has a number.                              *)
Numbered ==
  \A d \in Descs : link[d] \notin {"unused", "closed"} => \E f \in Fds : table[f] = d

(* Numbers are given to fresh kernel sockets only, and what is closed      *)
(* stays closed.                                                           *)
Renumbers ==
  /\ \A d \in Descs : link[d] = "closed" => link'[d] = "closed"
  /\ \A f \in Fds :
       \/ table'[f] \in {table[f], None}
       \/ table'[f] \in Descs /\ link[table'[f]] = "unused"

(* Every step that touches the table does (socket.cpp:14-71, 229-238).     *)
LEMMA NumberedStep ==
  ASSUME SocketInv, Numbered, [Next]_vars
  PROVE  Numbered' /\ Renumbers
<1> USE SocketAssumption DEF SocketInv, TypeOK
<1>1. CASE UNCHANGED <<table, link>>
  <2>1. Numbered'
    BY <1>1 DEF Numbered
  <2>2. Renumbers
    BY <1>1 DEF Renumbers
  <2> QED
    BY <2>1, <2>2
<1>2. ASSUME NEW f \in Fds, NEW d \in Descs, NEW k \in {"idle", "connected"},
             Open(f, d, k)
      PROVE  Numbered' /\ Renumbers
  <2>1. /\ \A e \in Descs \ {d} : link'[e] = link[e]
        /\ \A g \in Fds \ {f} : table'[g] = table[g]
        /\ table[f] = None /\ table'[f] = d /\ link[d] = "unused"
    BY <1>2 DEF Open
  <2>2. Numbered'
    <3> SUFFICES ASSUME NEW e \in Descs, link'[e] \notin {"unused", "closed"}
                 PROVE  \E g \in Fds : table'[g] = e
      BY DEF Numbered
    <3>1. CASE e = d
      BY <2>1, <3>1
    <3>2. CASE e # d
      BY <2>1, <3>2 DEF Numbered
    <3> QED
      BY <3>1, <3>2
  <2>3. Renumbers
    BY <2>1 DEF Renumbers
  <2> QED
    BY <2>2, <2>3
<1>3. ASSUME NEW o \in Objs, Release(o)
      PROVE  Numbered' /\ Renumbers
  <2>1. CASE ClosesHandle(o) /\ Target(o) # None
    <3>1. handle[o] \in Fds /\ Target(o) = table[handle[o]] /\ Target(o) \in Descs
      BY <2>1 DEF Target
    <3>2. /\ \A e \in Descs \ {Target(o)} : link'[e] = link[e]
          /\ \A g \in Fds \ {handle[o]} : table'[g] = table[g]
          /\ link'[Target(o)] = "closed" /\ table'[handle[o]] = None
      BY <1>3, <2>1, <3>1 DEF Release
    <3>3. Numbered'
      <4> SUFFICES ASSUME NEW e \in Descs, link'[e] \notin {"unused", "closed"}
                   PROVE  \E g \in Fds : table'[g] = e
        BY DEF Numbered
      <4>1. e # Target(o) /\ link'[e] = link[e]
        BY <3>2
      <4>2. PICK g \in Fds : table[g] = e
        BY <4>1 DEF Numbered
      <4>3. g # handle[o]
        BY <3>1, <4>1, <4>2
      <4> QED
        BY <3>2, <4>2, <4>3
    <3>4. Renumbers
      BY <3>1, <3>2 DEF Renumbers
    <3> QED
      BY <3>3, <3>4
  <2>2. CASE ~(ClosesHandle(o) /\ Target(o) # None)
    BY <1>3, <2>2, <1>1 DEF Release, kernel
  <2> QED
    BY <2>1, <2>2
<1>4. ASSUME UNCHANGED table,
             \A d \in Descs :
               link'[d] = link[d] \/ {link[d], link'[d]} \cap {"unused", "closed"} = {}
      PROVE  Numbered' /\ Renumbers
  <2>1. Numbered'
    BY <1>4 DEF Numbered
  <2>2. Renumbers
    BY <1>4 DEF Renumbers
  <2> QED
    BY <2>1, <2>2
<1>5. ASSUME NEW o \in Objs, Connect(o) \/ ConnectThrows(o) \/ Listen(o)
      PROVE  \A d \in Descs :
               link'[d] = link[d] \/ {link[d], link'[d]} \cap {"unused", "closed"} = {}
  BY <1>5 DEF Connect, ConnectThrows, Listen
<1>6. ASSUME NEW d \in Descs, ConnectSettles(d) \/ ConnectionEnds(d)
      PROVE  \A e \in Descs :
               link'[e] = link[e] \/ {link[e], link'[e]} \cap {"unused", "closed"} = {}
  BY <1>6 DEF ConnectSettles, ConnectionEnds
<1>7. \/ UNCHANGED <<table, link>>
      \/ \E f \in Fds, d \in Descs, k \in {"idle", "connected"} : Open(f, d, k)
      \/ \E o \in Objs : Release(o)
      \/ UNCHANGED table /\ \E o \in Objs : Connect(o) \/ ConnectThrows(o) \/ Listen(o)
      \/ UNCHANGED table /\ \E d \in Descs : ConnectSettles(d) \/ ConnectionEnds(d)
  <2>1. ASSUME NEW o \in Objs, Lifetime(o)
        PROVE  \/ UNCHANGED <<table, link>>
               \/ \E f \in Fds, d \in Descs, k \in {"idle", "connected"} : Open(f, d, k)
               \/ \E p \in Objs : Release(p)
    BY <2>1 DEF Lifetime, DefaultConstruct, Create, Adopt, MoveConstruct, MoveAssign,
       Close, Destroy, kernel
  <2>2. ASSUME NEW o \in Objs, Call(o)
        PROVE  \/ UNCHANGED <<table, link>>
               \/ \E f \in Fds, d \in Descs, k \in {"idle", "connected"} : Open(f, d, k)
               \/ \E p \in Objs : Release(p)
               \/ UNCHANGED table /\ (Connect(o) \/ ConnectThrows(o) \/ Listen(o))
    <3>1. CASE Connect(o) \/ ConnectThrows(o) \/ Listen(o)
      BY <3>1 DEF Connect, ConnectThrows, Listen
    <3>2. ASSUME NEW n \in Objs, Accept(o, n)
          PROVE  \/ UNCHANGED <<table, link>>
                 \/ \E f \in Fds, d \in Descs, k \in {"idle", "connected"} : Open(f, d, k)
      BY <3>2 DEF Accept, kernel
    <3>3. CASE RecvZero(o) \/ RecvFromZero(o)
      BY <3>3 DEF RecvZero, RecvFromZero
    <3>4. CASE \/ Bind(o) \/ Send(o) \/ Recv(o) \/ RecvThrows(o) \/ SendTo(o) \/ RecvFrom(o)
               \/ \E b \in BOOLEAN : SetBlocking(o, b)
      BY <3>4 DEF Bind, Send, Recv, RecvThrows, SendTo, RecvFrom, SetBlocking, kernel
    <3> QED
      BY <2>2, <3>1, <3>2, <3>3, <3>4 DEF Call
  <2>3. ASSUME NEW d \in Descs, ConnectSettles(d) \/ ConnectionEnds(d) PROVE UNCHANGED table
    BY <2>3 DEF ConnectSettles, ConnectionEnds
  <2>4. CASE UNCHANGED vars
    BY <2>4 DEF vars, kernel
  <2> QED
    BY <2>1, <2>2, <2>3, <2>4 DEF Next
<1> QED
  BY <1>1, <1>2, <1>3, <1>4, <1>5, <1>6, <1>7

(* An object that is not closed closes the kernel socket that came with    *)
(* its handle when it is destroyed, unless that is closed already,         *)
(* whatever other objects did with the number (socket.cpp:229-238).        *)
LEMMA DestroyCloses ==
  ASSUME SocketInv, Numbered, NEW o \in Objs, Destroy(o), ~closed[o], own[o] # None
  PROVE  link'[own[o]] = "closed"
<1> USE SocketAssumption DEF SocketInv, TypeOK
<1>1. own[o] \in Descs /\ handle[o] \in Fds /\ ClosesHandle(o) /\ link[own[o]] # "unused"
  BY DEF OwnSound, ClosesHandle
<1>2. CASE link[own[o]] = "closed"
  BY <1>1, <1>2 DEF Destroy, Release, Target, kernel
<1>3. CASE link[own[o]] # "closed"
  <2>1. PICK f \in Fds : table[f] = own[o]
    BY <1>1, <1>3 DEF Numbered
  <2>2. Target(o) = own[o]
    BY <1>1, <2>1 DEF OwnSound, Target
  <2> QED
    BY <1>1, <2>2 DEF Destroy, Release
<1> QED
  BY <1>2, <1>3

-----------------------------------------------------------------------------
(* Ownership by itself, whatever its variables are, gives what its name    *)
(* says for every set of owners and resources: no two holders of one       *)
(* resource, and nothing closed is held.                                   *)
VARIABLES holds, state, sound

Holders == INSTANCE Ownership WITH Owners <- Objs, Resources <- Descs

OwnershipTypeOK ==
  /\ holds \in [Objs -> Descs \cup {None}]
  /\ state \in [Descs -> {"new", "open", "gone"}]

OwnershipInv == sound => OwnershipTypeOK /\ Holders!Exclusive

(* While the promise stands, every step keeps types and exclusiveness.     *)
LEMMA KeptStep ==
  ASSUME OwnershipTypeOK, Holders!Exclusive, Holders!Kept
  PROVE  OwnershipTypeOK' /\ Holders!Exclusive'
<1> USE DEF OwnershipTypeOK
<1>s. sound
  BY DEF Holders!Kept
<1>1. ASSUME NEW o \in Objs, NEW r \in Descs, Holders!Acquire(o, r)
      PROVE  OwnershipTypeOK' /\ Holders!Exclusive'
  BY <1>s, <1>1 DEF Holders!Acquire, Holders!Exclusive
<1>2. ASSUME NEW o \in Objs, NEW r \in Descs, Holders!Recover(o, r)
      PROVE  OwnershipTypeOK' /\ Holders!Exclusive'
  BY <1>s, <1>2 DEF Holders!Recover, Holders!Held, Holders!Exclusive
<1>3. ASSUME NEW o \in Objs, NEW p \in Objs, Holders!Pass(o, p)
      PROVE  OwnershipTypeOK' /\ Holders!Exclusive'
  BY <1>s, <1>3 DEF Holders!Pass, Holders!Exclusive
<1>4. ASSUME NEW o \in Objs, NEW p \in Objs, Holders!GiveUp(o, p)
      PROVE  OwnershipTypeOK' /\ Holders!Exclusive'
  BY <1>s, <1>4 DEF Holders!GiveUp, Holders!Exclusive
<1> QED
  BY <1>1, <1>2, <1>3, <1>4 DEF Holders!Kept

(* One holder for each resource, and what is held is open                  *)
(* (what socket.cpp:14-38, 229-238 promise).                               *)
THEOREM OwnershipExclusive == Holders!Spec => []Holders!Exclusive
<1>1. Holders!Init => OwnershipInv
  BY DEF Holders!Init, OwnershipInv, OwnershipTypeOK, Holders!Exclusive
<1>2. OwnershipInv /\ [Holders!Next]_(Holders!vars) => OwnershipInv'
  <2> SUFFICES ASSUME OwnershipInv, [Holders!Next]_(Holders!vars), sound'
               PROVE  OwnershipTypeOK' /\ Holders!Exclusive'
    BY DEF OwnershipInv
  <2>1. CASE Holders!Kept
    BY <2>1, KeptStep DEF Holders!Kept, OwnershipInv
  <2>2. CASE UNCHANGED Holders!vars
    BY <2>2 DEF Holders!vars, OwnershipInv, OwnershipTypeOK, Holders!Exclusive
  <2> QED
    BY <2>1, <2>2 DEF Holders!Next
<1>3. OwnershipInv => Holders!Exclusive
  BY DEF OwnershipInv, Holders!Exclusive
<1> QED
  BY <1>1, <1>2, <1>3, PTL DEF Holders!Spec

-----------------------------------------------------------------------------
(* The class socket implements Ownership, for every set of objects,        *)
(* descriptor numbers and kernel sockets: each step of Socket is a step of *)
(* Ownership or leaves who holds what alone.                               *)

(* What the mapping shows of one object and one kernel socket, under the   *)
(* invariant: an object holds a kernel socket only while that is open.     *)
LEMMA HoldingIsOpen ==
  ASSUME SocketInv, ~revived, NEW o \in Objs, Holding(o) # None
  PROVE  /\ o \in live /\ ClosesHandle(o) /\ Holding(o) = own[o]
         /\ own[o] \in Descs /\ Target(o) = own[o] /\ Fate(own[o]) = "open"
BY SocketAssumption DEF SocketInv, TypeOK, Holding, ClosesHandle, UnclosedIsOwn,
   OwnSound, TableSound, Target, Fate

(* Calls that open, close or move nothing change nothing Ownership sees.   *)
LEMMA HoldingStutters ==
  ASSUME \A o \in Objs : Holding(o)' = Holding(o),
         \A d \in Descs : Fate(d)' = Fate(d),
         revived' = revived
  PROVE  UNCHANGED Ownership!vars
BY DEF Ownership!vars

(* The calls that only reach a kernel socket, or change what it is while   *)
(* it stays open (socket.cpp:52-63, 73-123).                               *)
LEMMA QuietStep ==
  ASSUME SocketInv, SocketInv', UNCHANGED <<live, handle, closed, own, revived>>,
         \A d \in Descs :
           link'[d] = link[d] \/ {link[d], link'[d]} \cap {"unused", "closed"} = {}
  PROVE  UNCHANGED Ownership!vars
<1>1. \A o \in Objs : Holding(o)' = Holding(o)
  BY DEF Holding, ClosesHandle
<1>2. \A d \in Descs : Fate(d)' = Fate(d)
  BY DEF Fate
<1> QED
  BY <1>1, <1>2, HoldingStutters

(* An object without a handle holds nothing (socket.cpp:14-16, 65-71).     *)
LEMMA EmptyStep ==
  ASSUME SocketInv, NEW n \in Objs, NEW c \in BOOLEAN,
         Construct(n, Invalid, c, None), UNCHANGED <<link, revived>>
  PROVE  UNCHANGED Ownership!vars
<1>1. \A o \in Objs : Holding(o)' = Holding(o)
  BY DEF Holding, ClosesHandle, Construct, SocketInv, TypeOK
<1>2. \A d \in Descs : Fate(d)' = Fate(d)
  BY DEF Fate
<1> QED
  BY <1>1, <1>2, HoldingStutters

(* create_socket, a wrapped descriptor and an accepted connection          *)
(* (socket.cpp:18-25, 65-71).                                              *)
LEMMA OpenStep ==
  ASSUME SocketInv, NEW n \in Objs, NEW f \in Fds, NEW d \in Descs,
         NEW k \in {"idle", "connected"}, NEW c \in BOOLEAN,
         Open(f, d, k), Construct(n, f, c, d)
  PROVE  Ownership!Acquire(n, d)
<1>1. Holding(n) = None /\ Holding(n)' = d
  BY SocketAssumption DEF Holding, ClosesHandle, Construct, SocketInv, TypeOK
<1>2. \A o \in Objs \ {n} : Holding(o)' = Holding(o)
  BY DEF Holding, ClosesHandle, Construct, SocketInv, TypeOK
<1>3. Fate(d) = "new" /\ Fate(d)' = "open"
  BY DEF Fate, Open, SocketInv, TypeOK
<1>4. \A e \in Descs \ {d} : Fate(e)' = Fate(e)
  BY DEF Fate, Open, SocketInv, TypeOK
<1>5. [o \in Objs |-> Holding(o)]' = [[o \in Objs |-> Holding(o)] EXCEPT ![n] = d]
  BY <1>1, <1>2
<1>6. [e \in Descs |-> Fate(e)]' = [[e \in Descs |-> Fate(e)] EXCEPT ![d] = "open"]
  BY <1>3, <1>4
<1> QED
  BY <1>1, <1>3, <1>5, <1>6 DEF Ownership!Acquire

(* Move construction passes the kernel socket on, or finds again one that  *)
(* move assignment left behind (socket.cpp:27-29).                         *)
LEMMA PassStep ==
  ASSUME SocketInv, SocketInv', ~revived', NEW n \in Objs, NEW p \in Objs,
         MoveConstruct(n, p)
  PROVE  \/ UNCHANGED Ownership!vars
         \/ Ownership!Pass(n, p)
         \/ \E r \in Descs : Ownership!Recover(n, r)
<1> USE DEF MoveConstruct
<1>1. revived' = revived /\ (handle[p] \in Fds => Target(p) = own[p])
  BY DEF SocketInv, TypeOK
<1>2. \A d \in Descs : Fate(d)' = Fate(d)
  BY DEF Fate, kernel
<1>3. n # p /\ Holding(n) = None /\ Holding(p)' = None
  BY DEF Holding, ClosesHandle, SocketInv, TypeOK
<1>4. \A o \in Objs \ {n, p} : Holding(o)' = Holding(o)
  BY DEF Holding, ClosesHandle, SocketInv, TypeOK
<1>5. Holding(n)' = IF handle[p] = Invalid THEN None ELSE own[p]
  BY DEF Holding, ClosesHandle, SocketInv, TypeOK
<1>6. [d \in Descs |-> Fate(d)]' = [d \in Descs |-> Fate(d)]
  BY <1>2
<1>7. CASE handle[p] = Invalid
  <2>1. Holding(p) = None
    BY <1>7 DEF Holding, ClosesHandle
  <2>2. \A o \in Objs : Holding(o)' = Holding(o)
    BY <1>3, <1>4, <1>5, <1>7, <2>1
  <2> QED
    BY <1>1, <1>2, <2>2, HoldingStutters
<1>8. CASE handle[p] # Invalid /\ ~closed[p]
  <2>1. Holding(p) = own[p] /\ own[p] # None
    BY <1>8, SocketAssumption DEF Holding, ClosesHandle, SocketInv, TypeOK, OwnSound
  <2>2. [o \in Objs |-> Holding(o)]'
          = [[o \in Objs |-> Holding(o)] EXCEPT ![n] = Holding(p), ![p] = None]
    BY <1>3, <1>4, <1>5, <1>8, <2>1
  <2> QED
    BY <1>3, <1>6, <2>1, <2>2 DEF Ownership!Pass
<1>9. CASE handle[p] # Invalid /\ closed[p]
  <2>1. handle[p] \in Fds /\ own[p] \in Descs /\ Target(p) = own[p]
    BY <1>1, <1>9, SocketAssumption DEF SocketInv, TypeOK, OwnSound
  <2>2. Fate(own[p]) = "open"
    BY <2>1, SocketAssumption DEF SocketInv, TypeOK, TableSound, Target, Fate
  <2>3. Holding(p) = None
    BY <1>9 DEF Holding, ClosesHandle
  <2>4. \A o \in Objs : Holding(o) # own[p]
    BY <2>1, <2>3, SocketAssumption DEF Holding, SocketInv, OwnSound
  <2>5. [o \in Objs |-> Holding(o)]'
          = [[o \in Objs |-> Holding(o)] EXCEPT ![n] = own[p]]
    BY <1>3, <1>4, <1>5, <1>9, <2>3
  <2>6. own[p] \notin Ownership!Held
    BY <2>4 DEF Ownership!Held
  <2>7. Ownership!Recover(n, own[p])
    BY <1>3, <1>6, <2>1, <2>2, <2>5, <2>6 DEF Ownership!Recover
  <2> QED
    BY <2>1, <2>7
<1> QED
  BY <1>7, <1>8, <1>9 DEF SocketInv, TypeOK

(* What a release does to the kernel sockets, seen from Ownership.         *)
LEMMA ReleaseFate ==
  ASSUME SocketInv, ~revived, NEW o \in Objs, o \in live, Release(o)
  PROVE  [d \in Descs |-> Fate(d)]'
           = [d \in Descs |-> IF d = Holding(o) THEN "gone" ELSE Fate(d)]
<1>1. CASE ClosesHandle(o)
  <2>1. handle[o] \in Fds /\ own[o] \in Descs /\ Holding(o) = own[o]
    BY <1>1, SocketAssumption DEF SocketInv, TypeOK, OwnSound, Holding, ClosesHandle
  <2>2. Target(o) = own[o]
    BY <1>1 DEF SocketInv, UnclosedIsOwn
  <2>3. link' = [link EXCEPT ![own[o]] = "closed"]
    BY <1>1, <2>1, <2>2, SocketAssumption DEF Release
  <2> QED
    BY <2>1, <2>3 DEF Fate, SocketInv, TypeOK
<1>2. CASE ~ClosesHandle(o)
  <2>1. Holding(o) = None /\ link' = link
    BY <1>2 DEF Holding, Release, kernel
  <2> QED
    BY <2>1, SocketAssumption DEF Fate
<1> QED
  BY <1>1, <1>2

(* Everything that closes an object's descriptor, and move assignment      *)
(* (socket.cpp:31-38, 73-119, 229-238).                                    *)
LEMMA GiveUpStep ==
  ASSUME SocketInv, SocketInv', ~revived, NEW o \in Objs, NEW p \in Objs,
         \/ p = o /\ (Close(o) \/ RecvZero(o) \/ RecvFromZero(o) \/ Destroy(o))
         \/ MoveAssign(o, p)
  PROVE  Ownership!GiveUp(o, p)
<1> USE DEF Close, RecvZero, RecvFromZero, Destroy, MoveAssign
<1>1. o \in live /\ Release(o)
  OBVIOUS
<1>2. Holding(o)' = None /\ Holding(p)' = None
  BY DEF Holding, ClosesHandle, SocketInv, TypeOK
<1>3. ASSUME NEW q \in Objs \ {o, p} PROVE Holding(q)' = Holding(q)
  <2>1. /\ q \in live' <=> q \in live
        /\ handle'[q] = handle[q] /\ closed'[q] = closed[q] /\ own'[q] = own[q]
    <3>1. CASE MoveAssign(o, p)
      BY <3>1 DEF SocketInv, TypeOK
    <3>2. CASE Destroy(o) /\ p = o
      BY <3>2 DEF SocketInv, TypeOK
    <3>3. CASE Close(o) \/ RecvZero(o) \/ RecvFromZero(o)
      BY <3>3 DEF SocketInv, TypeOK
    <3> QED
      BY <3>1, <3>2, <3>3
  <2> QED
    BY <2>1 DEF Holding, ClosesHandle
<1>4. [q \in Objs |-> Holding(q)]'
        = [[q \in Objs |-> Holding(q)] EXCEPT ![o] = None, ![p] = None]
  BY <1>2, <1>3
<1>5. \A d \in Descs : [e \in Descs |-> Fate(e)][d] = Fate(d)
  OBVIOUS
<1> QED
  BY <1>1, <1>4, <1>5, ReleaseFate DEF Ownership!GiveUp

-----------------------------------------------------------------------------
(* A step of Socket is a step of Ownership or changes nothing it sees.     *)
LEMMA SocketSimulates ==
  SocketInv /\ SocketInv' /\ [Next]_vars => [Ownership!Next]_(Ownership!vars)
<1> SUFFICES ASSUME SocketInv, SocketInv', [Next]_vars, ~revived'
             PROVE  Ownership!Kept \/ UNCHANGED Ownership!vars
  BY DEF Ownership!Next
<1>u. UNCHANGED revived => revived = FALSE /\ revived' = FALSE
  BY DEF SocketInv, TypeOK
<1>1. ASSUME NEW n \in Objs, DefaultConstruct(n)
      PROVE  UNCHANGED Ownership!vars
  BY <1>1, EmptyStep DEF DefaultConstruct, kernel
<1>2. ASSUME NEW n \in Objs, Create(n) \/ Adopt(n)
      PROVE  Ownership!Kept
  <2>1. PICK f \in Fds, d \in Descs :
          \/ Open(f, d, "idle") /\ Construct(n, f, FALSE, d)
          \/ Open(f, d, "connected") /\ Construct(n, f, TRUE, d)
    BY <1>2 DEF Create, Adopt
  <2>2. UNCHANGED revived
    BY <1>2 DEF Create, Adopt
  <2>3. Ownership!Acquire(n, d)
    BY <2>1, OpenStep
  <2> QED
    BY <1>u, <2>2, <2>3 DEF Ownership!Kept
<1>3. ASSUME NEW n \in Objs, NEW p \in Objs, MoveConstruct(n, p)
      PROVE  Ownership!Kept \/ UNCHANGED Ownership!vars
  <2>1. ~revived
    BY <1>3 DEF MoveConstruct
  <2> QED
    BY <1>3, <2>1, PassStep DEF Ownership!Kept
<1>4. ASSUME NEW o \in Objs, NEW p \in Objs,
             \/ p = o /\ (Close(o) \/ RecvZero(o) \/ RecvFromZero(o) \/ Destroy(o))
             \/ MoveAssign(o, p)
      PROVE  Ownership!Kept
  <2>1. ~revived
    BY <1>4 DEF MoveAssign, Close, RecvZero, RecvFromZero, Destroy
  <2>2. Ownership!GiveUp(o, p)
    BY <1>4, <2>1, GiveUpStep
  <2> QED
    BY <2>1, <2>2 DEF Ownership!Kept
<1>5. ASSUME NEW o \in Objs, Connect(o) \/ ConnectThrows(o) \/ Listen(o)
      PROVE  UNCHANGED Ownership!vars
  <2>1. UNCHANGED <<live, handle, closed, own, revived>>
    BY <1>5 DEF Connect, ConnectThrows, Listen, fields
  <2>2. \A d \in Descs :
          link'[d] = link[d] \/ {link[d], link'[d]} \cap {"unused", "closed"} = {}
    BY <1>5 DEF Connect, ConnectThrows, Listen, SocketInv, TypeOK
  <2> QED
    BY <2>1, <2>2, QuietStep
<1>6. ASSUME NEW o \in Objs, NEW n \in Objs, Accept(o, n)
      PROVE  Ownership!Kept \/ UNCHANGED Ownership!vars
  <2>1. UNCHANGED revived
    BY <1>6 DEF Accept
  <2>2. ASSUME NEW f \in Fds, NEW d \in Descs,
               Open(f, d, "connected"), Construct(n, f, TRUE, d)
        PROVE  Ownership!Kept
    BY <1>u, <2>1, <2>2, OpenStep DEF Ownership!Kept
  <2>3. CASE Construct(n, Invalid, TRUE, None) /\ UNCHANGED kernel
    BY <2>1, <2>3, EmptyStep DEF kernel
  <2> QED
    BY <1>6, <2>2, <2>3 DEF Accept
<1>7. ASSUME NEW o \in Objs,
             \/ Bind(o) \/ Send(o) \/ Recv(o) \/ RecvThrows(o) \/ SendTo(o) \/ RecvFrom(o)
             \/ \E b \in BOOLEAN : SetBlocking(o, b)
      PROVE  UNCHANGED Ownership!vars
  <2>1. UNCHANGED <<live, handle, closed, own, revived, link>>
    BY <1>7 DEF Bind, Send, Recv, RecvThrows, SendTo, RecvFrom, SetBlocking, fields, kernel
  <2> QED
    BY <2>1, QuietStep
<1>8. ASSUME NEW d \in Descs, ConnectSettles(d) \/ ConnectionEnds(d)
      PROVE  UNCHANGED Ownership!vars
  <2>1. UNCHANGED <<live, handle, closed, own, revived>>
    BY <1>8 DEF ConnectSettles, ConnectionEnds, fields, history
  <2>2. \A e \in Descs :
          link'[e] = link[e] \/ {link[e], link'[e]} \cap {"unused", "closed"} = {}
    BY <1>8 DEF ConnectSettles, ConnectionEnds, SocketInv, TypeOK
  <2> QED
    BY <2>1, <2>2, QuietStep
<1>9. CASE UNCHANGED vars
  BY <1>9, QuietStep DEF vars, fields, kernel, history
<1> QED
  BY <1>1, <1>2, <1>3, <1>4, <1>5, <1>6, <1>7, <1>8, <1>9 DEF Next, Lifetime, Call

(* Constructors, moves, close and the destructor of socket.cpp implement   *)
(* the ownership of Ownership.                                             *)
THEOREM SocketImplementsOwnership == Spec => ImplementsOwnership
<1>1. Init => Ownership!Init
  BY DEF Init, Ownership!Init, Holding, Fate
<1> QED
  BY <1>1, SocketInvariant, SocketSimulates, PTL
     DEF Spec, ImplementsOwnership, Ownership!Spec

=============================================================================
