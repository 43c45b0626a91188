------------------------------- MODULE Clients -------------------------------
(***************************************************************************)
(* The functions of tcp_client, tcp_listener and udp_connection that build *)
(* a connected or bound socket in several steps (src/tcp_client.cpp,       *)
(* src/tcp_listener.cpp, src/udp_socket.cpp), on top of Socket.  Each step *)
(* may throw, and then the objects built so far are destroyed in reverse   *)
(* order while the exception leaves the function.  Other threads use other *)
(* socket objects between the steps, and the descriptor table is common.   *)
(*                                                                         *)
(* One such function runs at a time.  "return tmp" builds no second object *)
(* (the compilers elide the copy).                                         *)
(***************************************************************************)
EXTENDS Socket, Sequences, SequencesExt

VARIABLES
  todo,   \* the steps that the running function still has to take
  built,  \* the objects it has built, oldest first
  mode,   \* no function runs, one runs, or an exception unwinds it
  failed, \* the last function ended with an exception
  mine    \* history: the kernel sockets the last function opened or took over

job     == <<todo, built, mode, failed, mine>>
allVars == <<vars, job>>

-----------------------------------------------------------------------------
(* The functions, as the steps they take.                                  *)
TcpConnect       == <<"create", "connect">>
UdpBind          == <<"create", "bind">>
UdpBindConnect   == <<"create", "check", "bind", "connect">>
UdpTakeConnect   == <<"take", "connect">>
AcceptSocket     == <<"accept", "nodelay">>
AcceptClient     == <<"accept", "convert", "nodelay", "move", "nodelay", "drop">>

Procedures == {TcpConnect, UdpBind, UdpBindConnect, UdpTakeConnect,
               AcceptSocket, AcceptClient}

ClientsInit ==
  /\ Init
  /\ todo = <<>> /\ built = <<>> /\ mode = "idle"
  /\ failed = FALSE /\ mine = {}

Begin(steps) ==
  /\ mode = "idle"
  /\ mode' = "running" /\ todo' = steps
  /\ failed' = FALSE /\ mine' = {}
  /\ UNCHANGED <<vars, built>>

-----------------------------------------------------------------------------
(* The next step is s; it succeeds, and what else it does is beside.       *)
At(s) == mode = "running" /\ todo # <<>> /\ Head(todo) = s

Passed == todo' = Tail(todo) /\ UNCHANGED <<mode, failed>>

(* A step throws.  Objects stay until Unwind has destroyed them.           *)
Raise == todo' = <<>> /\ mode' = "unwinding" /\ UNCHANGED <<built, failed, mine>>

(* The object that the steps work on.                                      *)
Current == Last(built)

(* The new object n takes part from now on, with the kernel socket it got. *)
Adds(n) == built' = Append(built, n) /\ mine' = mine \cup ({own'[n]} \ {None})

CreateStep(n) ==
  /\ At("create")
  /\ Create(n) /\ Adds(n) /\ Passed

(* The udp_socket that is moved from stays with the caller, without its    *)
(* socket.                                                                 *)
TakeStep(n, p) ==
  /\ At("take")
  /\ MoveConstruct(n, p) /\ Adds(n) /\ Passed

(* accept on some listener of the program.                                 *)
AcceptStep(o, n) ==
  /\ At("accept")
  /\ Accept(o, n) /\ Adds(n) /\ Passed

ConnectStep ==
  /\ At("connect")
  /\ \/ Connect(Current) /\ Passed /\ UNCHANGED <<built, mine>>
     \/ ConnectThrows(Current) /\ Raise

BindStep ==
  /\ At("bind")
  /\ Bind(Current) /\ Passed /\ UNCHANGED <<built, mine>>

(* The address that accept filled in.  When there was no connection it is  *)
(* still all zero, no family convert_address knows.                        *)
ConvertStep ==
  /\ At("convert")
  /\ handle[Current] # Invalid
  /\ Passed /\ UNCHANGED <<vars, built, mine>>

(* The families of both addresses are the same.                            *)
CheckStep ==
  /\ At("check")
  /\ Passed /\ UNCHANGED <<vars, built, mine>>

(* Mutant: the result of setsockopt is not looked at.                      *)
NoDelayAnyhow ==
  /\ At("nodelay")
  /\ Reach(Current, {"unguarded"})
  /\ Passed
  /\ UNCHANGED <<fields, kernel, own, revived, assigned, tolerated, interrupted,
                 built, mine>>

NoDelayStep ==
  /\ At("nodelay")
  /\ Target(Current) # None
  /\ Reach(Current, {"unguarded"})
  /\ Passed
  /\ UNCHANGED <<fields, kernel, own, revived, assigned, tolerated, interrupted,
                 built, mine>>

(* The client's member is move-constructed from the accepted socket.       *)
MoveStep(n) ==
  /\ At("move")
  /\ MoveConstruct(n, Current) /\ Adds(n) /\ Passed

(* The accepted socket, empty by now, goes out of scope.                   *)
DropStep ==
  /\ At("drop")
  /\ Destroy(Head(built))
  /\ built' = Tail(built)
  /\ Passed /\ UNCHANGED mine

(* Every step but a move and the end of a scope may throw: no descriptor   *)
(* left, a system call that failed, an address nobody understands.         *)
ThrowStep ==
  /\ mode = "running" /\ todo # <<>>
  /\ Head(todo) \notin {"take", "move", "drop"}
  /\ Raise
  /\ UNCHANGED vars

(* Mutant: the objects are bare handles, that nothing closes.              *)
UnwindBare ==
  /\ mode = "unwinding" /\ built # <<>>
  /\ live' = live \ {Current}
  /\ handle' = [handle EXCEPT ![Current] = Invalid]
  /\ connected' = [connected EXCEPT ![Current] = FALSE]
  /\ closed' = [closed EXCEPT ![Current] = FALSE]
  /\ own' = [own EXCEPT ![Current] = None]
  /\ built' = Front(built)
  /\ UNCHANGED <<kernel, revived, assigned, tolerated, interrupted, foreign, todo, mode,
                 failed, mine>>

(* The exception passes an object's scope.                                 *)
Unwind ==
  /\ mode = "unwinding" /\ built # <<>>
  /\ Destroy(Current)
  /\ built' = Front(built)
  /\ UNCHANGED <<todo, mode, failed, mine>>

(* The function is left: with its last object, or with the exception.      *)
Finish ==
  /\ \/ mode = "running" /\ todo = <<>>
     \/ mode = "unwinding" /\ built = <<>>
  /\ failed' = (mode = "unwinding")
  /\ mode' = "idle" /\ built' = <<>>
  /\ UNCHANGED <<vars, todo, mine>>

Step ==
  \/ \E n \in Objs : CreateStep(n) \/ MoveStep(n)
  \/ \E n, p \in Objs : TakeStep(n, p) \/ AcceptStep(p, n)
  \/ ConnectStep \/ BindStep \/ ConvertStep \/ CheckStep \/ NoDelayStep \/ DropStep
  \/ ThrowStep \/ Unwind \/ Finish

-----------------------------------------------------------------------------
(* The rest of the program: objects that no running function is building.  *)
Others ==
  /\ \E o \in Objs \ ToSet(built) :
       \/ Create(o) \/ Listen(o) \/ Close(o) \/ Destroy(o)
       \/ \E p \in Objs \ ToSet(built) : MoveConstruct(o, p) \/ MoveAssign(o, p)
  /\ UNCHANGED job

ClientsNext == (\E steps \in Procedures : Begin(steps)) \/ Step \/ Others

ClientsSpec == ClientsInit /\ [][ClientsNext]_allVars

-----------------------------------------------------------------------------
(* A function that ended with an exception has closed every kernel socket  *)
(* it opened, accepted or took over, whichever step threw and whatever     *)
(* other threads did meanwhile (tcp_client.cpp:14-16, tcp_listener.cpp:    *)
(* 39-61, udp_socket.cpp:137-150).                                         *)
FailureLeavesNothing ==
  mode = "idle" /\ failed =>
    \A d \in mine : link[d] = "closed"

(* A function that returns gives an object with a handle of its own that   *)
(* is open, also where accept found no connection and made a socket of -1, *)
(* unless some closed socket's handle was moved on.                        *)
ReturnsOpenSocket ==
  mode = "running" /\ todo = <<>> /\ ~revived =>
    Target(Current) # None /\ Target(Current) = own[Current]

=============================================================================
