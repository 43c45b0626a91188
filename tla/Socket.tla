------------------------------- MODULE Socket -------------------------------
(***************************************************************************)
(* The class netsock::socket (src/socket.cpp): an owning wrapper of an     *)
(* operating-system socket descriptor, together with the descriptor table  *)
(* of the process.  A socket object keeps three fields: the descriptor     *)
(* number _socket, the flag _connected and the flag _closed.  close() does *)
(* not reset _socket, so an object can outlive its descriptor and keep its *)
(* number, and the kernel may give that number to another socket.          *)
(*                                                                         *)
(* The descriptor table is external (the kernel).  Every socket the kernel *)
(* creates is a fresh member of Descs, so that two sockets that had the    *)
(* same number at different times stay distinguishable.  The number given  *)
(* to a new socket is any free one.                                        *)
(*                                                                         *)
(* Calls that fail before they change anything (EBADF, "socket not         *)
(* connected", a failing ::socket) are steps that leave all variables      *)
(* unchanged, which every specification allows.                            *)
(***************************************************************************)
EXTENDS FiniteSets, Naturals

CONSTANTS
  Objs,     \* storage for socket objects of the program
  Fds,      \* descriptor numbers
  Descs,    \* sockets the kernel may create, each at most once (bound)
  Invalid,  \* the handle _invalid_socket, ~(socket_t)0
  None      \* no kernel socket

ASSUME SocketAssumption == Invalid \notin Fds /\ None \notin Descs

VARIABLES
  live,      \* objects whose lifetime has begun and not ended
  handle,    \* socket::_socket
  connected, \* socket::_connected
  closed,    \* socket::_closed
  table,     \* the process's descriptor table
  link,      \* what the kernel socket is
  nonblock,  \* kernel sockets with O_NONBLOCK set
  own,       \* history: the kernel socket that came with the object's handle
  revived,   \* history: a handle that was no longer its object's was moved
             \* into a newly constructed socket, which may close it again
  assigned,  \* history: open kernel sockets that went through move assignment
  tolerated, \* history: open kernel sockets on which a connect that failed
             \* with a safe code was taken for success
  interrupted, \* history: open kernel sockets whose connect threw and went on
  foreign    \* history: the kinds of call that reached a kernel socket other than
             \* the one that came with the handle

fields  == <<live, handle, connected, closed>>
kernel  == <<table, link, nonblock>>
history == <<own, revived, assigned, tolerated, interrupted, foreign>>
vars    == <<fields, kernel, history>>

(* "ended" is a connection that a reset, a timeout or the peer ended.      *)
Links == {"unused", "idle", "connecting", "connected", "ended", "listening",
          "closed"}
(* Kinds of call: the ones guarded by _connected (send, recv), the ones    *)
(* nothing guards (bind, listen, accept, sendto, recvfrom, fcntl), connect *)
(* and close.                                                              *)
Calls == {"close", "connect", "guarded", "unguarded"}

TypeOK ==
  /\ live \subseteq Objs
  /\ handle \in [Objs -> Fds \cup {Invalid}]
  /\ connected \in [Objs -> BOOLEAN]
  /\ closed \in [Objs -> BOOLEAN]
  /\ table \in [Fds -> Descs \cup {None}]
  /\ link \in [Descs -> Links]
  /\ nonblock \subseteq Descs
  /\ own \in [Objs -> Descs \cup {None}]
  /\ revived \in BOOLEAN
  /\ assigned \subseteq Descs
  /\ tolerated \subseteq Descs
  /\ interrupted \subseteq Descs
  /\ foreign \subseteq Calls

Init ==
  /\ live = {}
  /\ handle = [o \in Objs |-> Invalid]
  /\ connected = [o \in Objs |-> FALSE]
  /\ closed = [o \in Objs |-> FALSE]
  /\ table = [f \in Fds |-> None]
  /\ link = [d \in Descs |-> "unused"]
  /\ nonblock = {}
  /\ own = [o \in Objs |-> None]
  /\ revived = FALSE
  /\ assigned = {}
  /\ tolerated = {}
  /\ interrupted = {}
  /\ foreign = {}

-----------------------------------------------------------------------------
(* The kernel socket a system call on o's handle reaches; None is EBADF.   *)
Target(o) == IF handle[o] \in Fds THEN table[handle[o]] ELSE None

IsForeign(o) == Target(o) # None /\ Target(o) # own[o]

(* o's handle goes into the system calls cs.                               *)
Reach(o, cs) == foreign' = IF IsForeign(o) THEN foreign \cup cs ELSE foreign

(* Mutant: close() does not look at _closed.                               *)
ClosesHandleAgain(o) == handle[o] # Invalid

(* close() calls impl::close_socket only for a handle not closed yet.      *)
ClosesHandle(o) == handle[o] # Invalid /\ ~closed[o]

(* What that call does to the kernel: the number is free again, and what   *)
(* became of the socket's connects is history.                             *)
Release(o) ==
  IF ClosesHandle(o) /\ Target(o) # None
  THEN /\ table' = [table EXCEPT ![handle[o]] = None]
       /\ link' = [link EXCEPT ![Target(o)] = "closed"]
       /\ nonblock' = nonblock \ {Target(o)}
       /\ tolerated' = tolerated \ {Target(o)}
       /\ interrupted' = interrupted \ {Target(o)}
  ELSE UNCHANGED <<kernel, tolerated, interrupted>>

(* Those of the kernel sockets ds that are not closed after the step.      *)
Unclosed(ds) == {d \in ds : link'[d] # "closed"}

ReleaseCalls(o) == IF ClosesHandle(o) THEN {"close"} ELSE {}

(* A new kernel socket d with number f.                                    *)
Open(f, d, kind) ==
  /\ table[f] = None /\ link[d] = "unused"
  /\ table' = [table EXCEPT ![f] = d]
  /\ link' = [link EXCEPT ![d] = kind]
  /\ UNCHANGED nonblock

(* The object n begins its life with handle h of kernel socket d.          *)
Construct(n, h, c, d) ==
  /\ n \notin live
  /\ live' = live \cup {n}
  /\ handle' = [handle EXCEPT ![n] = h]
  /\ connected' = [connected EXCEPT ![n] = c]
  /\ closed' = [closed EXCEPT ![n] = FALSE]
  /\ own' = [own EXCEPT ![n] = d]

-----------------------------------------------------------------------------
(* Constructors, moves and the destructor.                                 *)

DefaultConstruct(n) ==
  /\ Construct(n, Invalid, FALSE, None)
  /\ UNCHANGED <<kernel, revived, assigned, tolerated, interrupted, foreign>>

Create(n) ==
  /\ \E f \in Fds, d \in Descs : Open(f, d, "idle") /\ Construct(n, f, FALSE, d)
  /\ UNCHANGED <<revived, assigned, tolerated, interrupted, foreign>>

(* socket(socket_t, bool): the program wraps a descriptor it got elsewhere *)
(* and says whether it is connected.  It wraps each one once and says the  *)
(* truth.                                                                  *)
Adopt(n) ==
  /\ \E f \in Fds, d \in Descs :
       Open(f, d, "connected") /\ Construct(n, f, TRUE, d)
  /\ UNCHANGED <<revived, assigned, tolerated, interrupted, foreign>>

(* Mutant: the source keeps its handle.                                    *)
MoveConstructCopies(n, p) ==
  /\ p \in live /\ n \notin live
  /\ live' = live \cup {n}
  /\ handle' = [handle EXCEPT ![n] = handle[p]]
  /\ connected' = [connected EXCEPT ![n] = connected[p]]
  /\ closed' = [closed EXCEPT ![n] = FALSE]
  /\ own' = [own EXCEPT ![n] = own[p]]
  /\ UNCHANGED <<kernel, revived, assigned, tolerated, interrupted, foreign>>

(* Mutant: the source's handle becomes 0 instead of _invalid_socket.       *)
MoveConstructZero(n, p) ==
  /\ p \in live /\ n \notin live
  /\ live' = live \cup {n}
  /\ handle' = [handle EXCEPT ![n] = handle[p], ![p] = None]
  /\ connected' = [connected EXCEPT ![n] = connected[p]]
  /\ closed' = [closed EXCEPT ![n] = FALSE]
  /\ own' = [own EXCEPT ![n] = own[p], ![p] = None]
  /\ UNCHANGED <<kernel, revived, assigned, tolerated, interrupted, foreign>>

(* The new object starts with _closed false whatever the source's was; the *)
(* source keeps its _connected.                                            *)
MoveConstruct(n, p) ==
  /\ p \in live /\ n \notin live
  /\ live' = live \cup {n}
  /\ handle' = [handle EXCEPT ![n] = handle[p], ![p] = Invalid]
  /\ connected' = [connected EXCEPT ![n] = connected[p]]
  /\ closed' = [closed EXCEPT ![n] = FALSE]
  /\ own' = [own EXCEPT ![n] = own[p], ![p] = None]
  /\ revived' = (revived \/ (handle[p] \in Fds /\ Target(p) # own[p]))
  /\ UNCHANGED <<kernel, assigned, tolerated, interrupted, foreign>>

(* close() first, which leaves _closed true, then the source's handle.     *)
(* o = p is self-assignment.                                               *)
MoveAssign(o, p) ==
  /\ o \in live /\ p \in live
  /\ Release(o)
  /\ Reach(o, ReleaseCalls(o))
  /\ closed' = [closed EXCEPT ![o] = TRUE]
  /\ handle' = [handle EXCEPT ![o] = handle[p], ![p] = Invalid]
  /\ connected' = [connected EXCEPT ![o] = connected[p], ![p] = FALSE]
  /\ own' = [own EXCEPT ![o] = own[p], ![p] = None]
  /\ assigned' = Unclosed(assigned \cup ({own[p]} \ {None}))
  /\ UNCHANGED <<live, revived>>

(* Mutant: close() marks the object and leaves the descriptor open.        *)
CloseOnlyMarks(o) ==
  /\ o \in live
  /\ connected' = [connected EXCEPT ![o] = FALSE]
  /\ closed' = [closed EXCEPT ![o] = TRUE]
  /\ UNCHANGED <<live, handle, kernel, history>>

Close(o) ==
  /\ o \in live
  /\ Release(o)
  /\ Reach(o, ReleaseCalls(o))
  /\ connected' = [connected EXCEPT ![o] = FALSE]
  /\ closed' = [closed EXCEPT ![o] = TRUE]
  /\ assigned' = Unclosed(assigned)
  /\ UNCHANGED <<live, handle, own, revived>>

(* The fields of a dead object mean nothing; they take their initial value. *)
Destroy(o) ==
  /\ o \in live
  /\ Release(o)
  /\ Reach(o, ReleaseCalls(o))
  /\ live' = live \ {o}
  /\ handle' = [handle EXCEPT ![o] = Invalid]
  /\ connected' = [connected EXCEPT ![o] = FALSE]
  /\ closed' = [closed EXCEPT ![o] = FALSE]
  /\ own' = [own EXCEPT ![o] = None]
  /\ assigned' = Unclosed(assigned)
  /\ UNCHANGED revived

-----------------------------------------------------------------------------
(* Calls on a live object.                                                 *)

(* impl::connect returns normally when ::connect succeeds and also when it *)
(* fails with a code is_safe lists: EINPROGRESS and EALREADY on a non-     *)
(* blocking socket, ENOBUFS on any, EISCONN on a listening one and on one  *)
(* that is or was connected.                                               *)
Connect(o) ==
  LET d == Target(o) IN
  /\ o \in live /\ d # None
  /\ \/ /\ link[d] \in {"idle", "connecting"}
        /\ link' = [link EXCEPT ![d] = "connected"]
        /\ UNCHANGED tolerated
     \/ /\ link[d] \in {"idle", "connecting"}
        /\ \/ d \in nonblock /\ link' = [link EXCEPT ![d] = "connecting"]
           \/ UNCHANGED link
        /\ tolerated' = tolerated \cup {d}
     \/ /\ link[d] \in {"connected", "ended", "listening"}
        /\ UNCHANGED <<link, tolerated>>
  /\ connected' = [connected EXCEPT ![o] = TRUE]
  /\ Reach(o, {"connect"})
  /\ UNCHANGED <<live, handle, closed, table, nonblock, own, revived, assigned,
                 interrupted>>

(* Mutant: connect() sets _connected before the call that throws.          *)
ConnectThrowsConnected(o) ==
  LET d == Target(o) IN
  /\ o \in live /\ d # None
  /\ link[d] \in {"idle", "connecting"}
  /\ \E l \in {"idle", "connecting"} : link' = [link EXCEPT ![d] = l]
  /\ connected' = [connected EXCEPT ![o] = TRUE]
  /\ Reach(o, {"connect"})
  /\ UNCHANGED <<live, handle, closed, table, nonblock, own, revived, assigned,
                 tolerated, interrupted>>

(* Throws: refused or timed out, or interrupted by a signal while the      *)
(* handshake goes on (EINTR is not a safe code).                           *)
ConnectThrows(o) ==
  LET d == Target(o) IN
  /\ o \in live /\ d # None
  /\ \/ /\ link[d] \in {"idle", "connecting"}
        /\ link' = [link EXCEPT ![d] = "idle"]
        /\ UNCHANGED interrupted
     \/ /\ link[d] \in {"idle", "connecting"}
        /\ link' = [link EXCEPT ![d] = "connecting"]
        /\ interrupted' = interrupted \cup {d}
  /\ Reach(o, {"connect"})
  /\ UNCHANGED <<fields, table, nonblock, own, revived, assigned, tolerated>>

Bind(o) ==
  /\ o \in live /\ Target(o) # None
  /\ Reach(o, {"unguarded"})
  /\ UNCHANGED <<fields, kernel, own, revived, assigned, tolerated, interrupted>>

Listen(o) ==
  LET d == Target(o) IN
  /\ o \in live /\ d # None
  /\ link[d] = "idle"
  /\ link' = [link EXCEPT ![d] = "listening"]
  /\ Reach(o, {"unguarded"})
  /\ UNCHANGED <<fields, table, nonblock, own, revived, assigned, tolerated,
                 interrupted>>

(* The result is constructed with _connected true, also when ::accept      *)
(* failed with a safe code (EWOULDBLOCK, ENOBUFS) and the handle is        *)
(* therefore -1, which is _invalid_socket.                                 *)
Accept(o, n) ==
  /\ o \in live /\ Target(o) # None
  /\ link[Target(o)] = "listening"
  /\ \/ \E f \in Fds, d \in Descs : Open(f, d, "connected") /\ Construct(n, f, TRUE, d)
     \/ Construct(n, Invalid, TRUE, None) /\ UNCHANGED kernel
  /\ Reach(o, {"unguarded"})
  /\ UNCHANGED <<revived, assigned, tolerated, interrupted>>

(* Mutant: send() does not look at _connected.                             *)
SendAlways(o) ==
  /\ o \in live
  /\ Reach(o, {"guarded"})
  /\ UNCHANGED <<fields, kernel, own, revived, assigned, tolerated, interrupted>>

(* send and recv throw "socket not connected" before any system call when  *)
(* the flag is down.  A send that throws leaves the fields as they are.    *)
Send(o) ==
  /\ o \in live /\ connected[o]
  /\ Reach(o, {"guarded"})
  /\ UNCHANGED <<fields, kernel, own, revived, assigned, tolerated, interrupted>>

(* recv brought bytes, returned (size_t)-1 on a safe code, or threw on     *)
(* another one.                                                            *)
Recv(o) ==
  /\ o \in live /\ connected[o]
  /\ Reach(o, {"guarded"})
  /\ UNCHANGED <<fields, kernel, own, revived, assigned, tolerated, interrupted>>

(* On a connection that was reset or timed out recv throws                 *)
(* socket_closed_error, which neither lowers the flag nor closes.          *)
RecvThrows(o) ==
  /\ o \in live /\ connected[o] /\ Target(o) # None
  /\ link[Target(o)] = "ended"
  /\ Reach(o, {"guarded"})
  /\ UNCHANGED <<fields, kernel, own, revived, assigned, tolerated, interrupted>>

(* The end of the stream, an empty datagram or an empty buffer: recv       *)
(* returned 0 and the object closes itself.                                *)
RecvZero(o) ==
  /\ o \in live /\ connected[o] /\ Target(o) # None
  /\ Release(o)
  /\ Reach(o, {"guarded"} \cup ReleaseCalls(o))
  /\ connected' = [connected EXCEPT ![o] = FALSE]
  /\ closed' = [closed EXCEPT ![o] = TRUE]
  /\ assigned' = Unclosed(assigned)
  /\ UNCHANGED <<live, handle, own, revived>>

(* sendto and recvfrom look at no flag.                                    *)
SendTo(o) ==
  /\ o \in live
  /\ Reach(o, {"unguarded"})
  /\ UNCHANGED <<fields, kernel, own, revived, assigned, tolerated, interrupted>>

RecvFrom(o) ==
  /\ o \in live
  /\ Reach(o, {"unguarded"})
  /\ UNCHANGED <<fields, kernel, own, revived, assigned, tolerated, interrupted>>

RecvFromZero(o) ==
  /\ o \in live /\ Target(o) # None
  /\ Release(o)
  /\ Reach(o, {"unguarded"} \cup ReleaseCalls(o))
  /\ connected' = [connected EXCEPT ![o] = FALSE]
  /\ closed' = [closed EXCEPT ![o] = TRUE]
  /\ assigned' = Unclosed(assigned)
  /\ UNCHANGED <<live, handle, own, revived>>

SetBlocking(o, blocking) ==
  /\ o \in live /\ Target(o) # None
  /\ nonblock' = IF blocking THEN nonblock \ {Target(o)}
                             ELSE nonblock \cup {Target(o)}
  /\ Reach(o, {"unguarded"})
  /\ UNCHANGED <<fields, table, link, own, revived, assigned, tolerated,
                 interrupted>>

(* The network ends a connection: reset, timed out, or the peer's end.     *)
ConnectionEnds(d) ==
  /\ link[d] = "connected"
  /\ link' = [link EXCEPT ![d] = "ended"]
  /\ UNCHANGED <<fields, table, nonblock, history>>

(* The network settles a connect that is in progress.                      *)
ConnectSettles(d) ==
  /\ link[d] = "connecting"
  /\ \E l \in {"connected", "idle"} : link' = [link EXCEPT ![d] = l]
  /\ UNCHANGED <<fields, table, nonblock, history>>

-----------------------------------------------------------------------------
Lifetime(o) ==
  \/ DefaultConstruct(o) \/ Create(o) \/ Adopt(o)
  \/ \E p \in Objs : MoveConstruct(o, p) \/ MoveAssign(o, p)
  \/ Close(o) \/ Destroy(o)

Call(o) ==
  \/ Connect(o) \/ ConnectThrows(o) \/ Bind(o) \/ Listen(o)
  \/ \E n \in Objs : Accept(o, n)
  \/ Send(o) \/ Recv(o) \/ RecvThrows(o) \/ RecvZero(o)
  \/ SendTo(o) \/ RecvFrom(o) \/ RecvFromZero(o)
  \/ \E b \in BOOLEAN : SetBlocking(o, b)

Next ==
  \/ \E o \in Objs : Lifetime(o) \/ Call(o)
  \/ \E d \in Descs : ConnectSettles(d) \/ ConnectionEnds(d)

Spec == Init /\ [][Next]_vars

-----------------------------------------------------------------------------
(* Properties.                                                             *)

(* An open kernel socket is never forgotten: some live object still has    *)
(* its number and will close it, unless it went through move assignment,   *)
(* after which _closed is true and nothing closes it (socket.cpp:31-38,    *)
(* 229-234).                                                               *)
NoLeak ==
  \A f \in Fds :
    table[f] # None =>
      \/ table[f] \in assigned
      \/ \E o \in live : handle[o] = f /\ own[o] = table[f] /\ ~closed[o]

(* close() reaches only the kernel socket the object was given, whatever   *)
(* numbers the kernel uses again, as long as no already closed socket was  *)
(* moved into a new object (the move constructor drops _closed,            *)
(* socket.cpp:27-29).                                                      *)
ClosesOnlyItsOwn == "close" \in foreign => revived

(* Under the same condition no two objects are responsible for one         *)
(* descriptor number.                                                      *)
OneOwner ==
  ~revived =>
    \A o, p \in live :
      handle[o] = handle[p] /\ ClosesHandle(o) /\ ClosesHandle(p) => o = p

(* send and recv, which check _connected, never read or write another      *)
(* socket's stream, although the number of a closed socket stays in the    *)
(* object: it takes a revived handle or a connect() on a stale one.        *)
GuardedCallsStayHome ==
  "guarded" \in foreign => revived \/ "connect" \in foreign

WasConnected(d) == link[d] \in {"connected", "ended"}

(* connected() tells of an open socket whether it has been connected, and  *)
(* not whether it still is: a reset or a timeout makes recv throw and      *)
(* leaves the flag up (linux.cpp:140-141, socket.cpp:73-95).               *)
(*                                                                         *)
(* It is true only when the kernel socket is or was connected, or listens, *)
(* or a connect on it failed with a code that is taken for success         *)
(* (socket.cpp:52-55 with linux.cpp:121-142).  It is false only when the   *)
(* kernel socket was never connected and no connect is on its way, unless  *)
(* a connect threw and goes on, the socket went through move assignment,   *)
(* or some connect() went to a number used again.                          *)
ConnectedFlag ==
  \A o \in live :
    Target(o) # None /\ Target(o) = own[o] =>
      IF connected[o]
      THEN WasConnected(own[o]) \/ link[own[o]] = "listening" \/ own[o] \in tolerated
      ELSE \/ ~WasConnected(own[o]) /\ link[own[o]] # "connecting"
           \/ own[o] \in assigned \cup interrupted
           \/ "connect" \in foreign

-----------------------------------------------------------------------------
(* The abstract specification: who must give which kernel socket back.     *)

(* The kernel socket o's destructor closes.                                *)
Holding(o) == IF o \in live /\ ClosesHandle(o) THEN own[o] ELSE None

Fate(d) ==
  IF link[d] = "unused" THEN "new" ELSE IF link[d] = "closed" THEN "gone" ELSE "open"

Ownership == INSTANCE Ownership WITH
  Owners <- Objs,
  Resources <- Descs,
  holds <- [o \in Objs |-> Holding(o)],
  state <- [d \in Descs |-> Fate(d)],
  sound <- ~revived

(* Constructors, moves, close and the destructor hand kernel sockets on as *)
(* Ownership says: one holder each, given back once, by the holder         *)
(* (socket.cpp:14-38, 229-238).                                            *)
ImplementsOwnership == Ownership!Spec

-----------------------------------------------------------------------------
(* The inductive invariant behind them.                                    *)

(* A dead object has nothing.                                              *)
DeadIsBlank ==
  \A o \in Objs \ live :
    handle[o] = Invalid /\ own[o] = None /\ ~connected[o] /\ ~closed[o]

(* A kernel socket has one number, and only open ones have one.            *)
TableSound ==
  /\ \A f, g \in Fds : table[f] = table[g] /\ table[f] # None => f = g
  /\ \A f \in Fds : table[f] # None => link[table[f]] \notin {"unused", "closed"}

(* Objects and the kernel sockets they were given are in bijection, and an *)
(* open one has the number its object keeps.                               *)
OwnSound ==
  /\ \A o \in Objs : handle[o] \in Fds <=> own[o] # None
  /\ \A o \in Objs : own[o] # None => link[own[o]] # "unused"
  /\ \A o, p \in Objs : own[o] = own[p] /\ own[o] # None => o = p
  /\ \A o \in Objs, f \in Fds :
       own[o] # None /\ table[f] = own[o] => handle[o] = f

(* Without a revived handle, an object that is not closed refers to its    *)
(* own socket.                                                             *)
UnclosedIsOwn ==
  ~revived =>
    \A o \in Objs : ClosesHandle(o) => Target(o) = own[o]

ConnectedIsOwn ==
  ~revived /\ "connect" \notin foreign =>
    \A o \in Objs : handle[o] \in Fds /\ connected[o] => Target(o) = own[o]

SocketInv ==
  /\ TypeOK
  /\ DeadIsBlank
  /\ TableSound
  /\ OwnSound
  /\ UnclosedIsOwn
  /\ ConnectedIsOwn
  /\ NoLeak
  /\ ClosesOnlyItsOwn
  /\ GuardedCallsStayHome
  /\ ConnectedFlag

=============================================================================
