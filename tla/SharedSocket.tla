---------------------------- MODULE SharedSocket ----------------------------
(***************************************************************************)
(* One netsock::socket object that several threads use at once, on either  *)
(* back end, with everything they share: the flags _connected and _closed  *)
(* (src/socket.cpp), the descriptor number, the kernel socket behind it    *)
(* and the error code _code of the library (src/impl/linux.cpp,            *)
(* src/impl/windows.cpp).                                                  *)
(*                                                                         *)
(* Nothing in the code is locked, so every load, store and system call of  *)
(* a call is a step of its own and the steps of all threads interleave.    *)
(* The accesses race, but a flag is a byte, the system calls between the   *)
(* accesses are opaque to the compiler, and the kernel's own locks make a  *)
(* store visible before the effect of the system call behind it.  What a   *)
(* call stored is seen by every call that begins after it returned: a      *)
(* program that knows which came first has synchronised.                   *)
(*                                                                         *)
(* Kernel and strangers (code that opens and closes other sockets) are     *)
(* external.  A Linux system call in progress keeps its kernel socket when *)
(* the number is closed and goes on; on Windows closesocket ends the calls *)
(* in progress.  Moves and the destructor are left out: an object that     *)
(* other threads use may not be moved or destroyed.  So are the calls that *)
(* keep nothing in the object: sendto, bind, listen, accept, can_read,     *)
(* can_send, hanged_up; recvfrom is recv without the look at the flag.     *)
(***************************************************************************)
CONSTANT Threads

VARIABLES
  backend,   \* "linux" or "windows", from the beginning
  connected, \* socket::_connected
  closed,    \* socket::_closed
  number,    \* what the kernel has under socket::_socket: the object's own
             \* kernel socket, one of a stranger, or nothing
  hung,      \* the own kernel socket is hung up
  code,      \* impl::_code, while a call is between its store and its tests
             \* (what it holds otherwise only error_code() asks for)
  call,      \* the call each thread is in
  pc,        \* where it is
  at,        \* the kernel socket its system call is on
  err,       \* errno of its system call that failed
  late,      \* threads whose send or recv began after a close() had returned
  returned,  \* history: some close() has returned
  overlapped,\* history: two close() were in progress at a time
  flagged,   \* history: a connect() raised _connected after a close() began
  crossed,   \* history: two threads were at _code at a time
  strays,    \* history: the ways in which calls reached a stranger's socket
  swallowed  \* history: a call that should have thrown went on

object  == <<connected, closed>>
kernel  == <<backend, number, hung>>
threads == <<call, pc, at, err, late>>
history == <<returned, overlapped, flagged, crossed, strays, swallowed>>
vars    == <<object, kernel, code, threads, history>>

Guarded == {"send", "recv"}
CallsOf == Guarded \cup {"close", "connect", "wait"}
Codes   == {"safe", "reset", "other"} \* what is_safe and the test after it tell apart
Closing == {"unset", "test", "release", "mark"}
Failing == {"isSafe", "isReset"}
Places  == {"idle", "check", "enter", "blocked", "flag"} \cup Closing \cup Failing
Sockets == {"own", "stranger", "none"}

Init ==
  /\ backend \in {"linux", "windows"}
  /\ connected \in BOOLEAN /\ closed = FALSE
  /\ number = "own" /\ hung = FALSE
  /\ code = "none"
  /\ call = [t \in Threads |-> "none"]
  /\ pc = [t \in Threads |-> "idle"]
  /\ at = [t \in Threads |-> "none"]
  /\ err = [t \in Threads |-> "none"]
  /\ late = {}
  /\ returned = FALSE /\ overlapped = FALSE /\ flagged = FALSE
  /\ crossed = FALSE /\ strays = {} /\ swallowed = FALSE

-----------------------------------------------------------------------------
(* Mutant: the inverse of map_poll_flags, so that POLLHUP maps to nothing. *)
PollResultInverse(revents) ==
  IF backend = "linux" THEN revents \ {"nval", "hang"} ELSE revents

(* The result of the poll of one socket.  Linux maps the events, POLLNVAL  *)
(* to nothing; Windows returns them as they are, so that the result is not *)
(* 0 whenever there is an event (though its bits mean other flags).        *)
PollResult(revents) ==
  IF backend = "linux" THEN revents \ {"nval"} ELSE revents

GoTo(t, place) == pc' = [pc EXCEPT ![t] = place]

(* t's call goes on at place, or returns or throws if that is "idle".      *)
Goes(t, place) ==
  /\ GoTo(t, place)
  /\ IF place = "idle"
     THEN call' = [call EXCEPT ![t] = "none"] /\ late' = late \ {t}
     ELSE UNCHANGED <<call, late>>

SomeoneIn(places, t) == \E u \in Threads \ {t} : pc[u] \in places

(* t enters close().                                                       *)
EntersClose(t) == overlapped' = (overlapped \/ SomeoneIn(Closing, t))

Start(t, c) ==
  /\ pc[t] = "idle"
  /\ call' = [call EXCEPT ![t] = c]
  /\ \/ c = "close" /\ GoTo(t, "unset") /\ EntersClose(t) /\ UNCHANGED late
     \/ c \in Guarded /\ GoTo(t, "check") /\ UNCHANGED overlapped
          /\ late' = IF returned THEN late \cup {t} ELSE late
     \/ c \notin Guarded \cup {"close"} /\ GoTo(t, "enter")
          /\ UNCHANGED <<late, overlapped>>
  /\ UNCHANGED <<object, kernel, code, at, err, returned, flagged, crossed,
                 strays, swallowed>>

(* Mutant: send and recv do not look at the flag.                          *)
CheckNothing(t) ==
  /\ pc[t] = "check"
  /\ Goes(t, "enter")
  /\ UNCHANGED <<object, kernel, code, at, err, history>>

(* "if (!_connected) throw" of send and recv.                              *)
Check(t) ==
  /\ pc[t] = "check"
  /\ Goes(t, IF connected THEN "enter" ELSE "idle")
  /\ UNCHANGED <<object, kernel, code, at, err, history>>

(* The system call of t failed with code e, and _throw_and_set_code stored *)
(* it.                                                                     *)
Fails(t, e) ==
  /\ Goes(t, "isSafe")
  /\ err' = [err EXCEPT ![t] = e]
  /\ code' = e
  /\ crossed' = (crossed \/ SomeoneIn(Failing, t))

(* The kernel looks up the number.                                         *)
Enter(t) ==
  /\ pc[t] = "enter" /\ number # "none"
  /\ Goes(t, "blocked")
  /\ at' = [at EXCEPT ![t] = number]
  /\ strays' = IF number = "stranger" /\ t \in late THEN strays \cup {"late"} ELSE strays
  /\ UNCHANGED <<object, kernel, code, err, returned, overlapped, flagged,
                 crossed, swallowed>>

(* The number is not open.                                                 *)
EnterFails(t) ==
  /\ pc[t] = "enter" /\ number = "none" /\ call[t] # "wait"
  /\ Fails(t, "other")
  /\ UNCHANGED <<object, kernel, at, returned, overlapped, flagged, strays, swallowed>>

(* poll reports POLLNVAL at once.  On Linux that is no result and the loop *)
(* takes another turn.                                                     *)
EnterWait(t) ==
  /\ pc[t] = "enter" /\ number = "none" /\ call[t] = "wait"
  /\ Goes(t, IF PollResult({"nval"}) # {} THEN "idle" ELSE "enter")
  /\ UNCHANGED <<object, kernel, code, at, err, history>>

-----------------------------------------------------------------------------
(* A system call in progress.                                              *)

Leaves(t, place) ==
  /\ Goes(t, place)
  /\ at' = [at EXCEPT ![t] = "none"]

(* What the call waited for happened: bytes, room, a connection.           *)
Succeeds(t) ==
  /\ pc[t] = "blocked" /\ at[t] # "none"
  /\ Leaves(t, IF call[t] = "connect" THEN "flag" ELSE "idle")
  /\ UNCHANGED <<object, kernel, code, err, history>>

(* recv got nothing, and calls close(): the end of the stream, an empty    *)
(* datagram or an empty buffer.                                            *)
GetsNothing(t) ==
  /\ pc[t] = "blocked" /\ call[t] = "recv" /\ at[t] # "none"
  /\ Leaves(t, "unset")
  /\ EntersClose(t)
  /\ UNCHANGED <<object, kernel, code, err, returned, flagged, crossed, strays, swallowed>>

(* How the system call of t may fail.  poll fails with one safe code only, *)
(* and on Windows only: WSAENOBUFS.                                        *)
CodesFor(t) ==
  CASE call[t] # "wait"      -> Codes
    [] backend = "windows"   -> {"safe", "other"}
    [] OTHER                 -> {"other"}

(* Interrupted, would block, refused by the peer, out of buffers.          *)
Interrupted(t) ==
  /\ pc[t] = "blocked"
  /\ \E e \in CodesFor(t) : Fails(t, e)
  /\ at' = [at EXCEPT ![t] = "none"]
  /\ UNCHANGED <<object, kernel, returned, overlapped, flagged, strays, swallowed>>

(* The poll of a waiting loop reports that the connection hung up, or that *)
(* the socket was closed under it; the loop ends when the result is not 0. *)
WaitWakes(t, revents) ==
  /\ pc[t] = "blocked" /\ call[t] = "wait"
  /\ Leaves(t, IF PollResult(revents) # {} THEN "idle" ELSE "enter")
  /\ UNCHANGED <<object, kernel, code, err, history>>

(* The events nobody has to bring about.                                   *)
HangUp(t) ==
  /\ at[t] = "own" /\ hung
  /\ WaitWakes(t, {"hang"}) \/ (call[t] # "wait" /\ (GetsNothing(t) \/ Interrupted(t)))

ClosedUnder(t) ==
  /\ at[t] = "none"
  /\ WaitWakes(t, {"nval"}) \/ (call[t] # "wait" /\ Interrupted(t))

-----------------------------------------------------------------------------
(* _throw_and_set_code.  Each of its two tests uses the value just stored  *)
(* or loads _code again, as the compiler chose.                            *)

DoneWithCode(t, place) ==
  /\ Goes(t, place)
  /\ err' = [err EXCEPT ![t] = "none"]
  /\ code' = IF SomeoneIn(Failing, t) THEN code ELSE "none"

Throws(t) == DoneWithCode(t, "idle") /\ UNCHANGED swallowed

(* Mutant: is_safe is not asked.                                           *)
TestSafeNot(t) ==
  /\ pc[t] = "isSafe"
  /\ Goes(t, "isReset") /\ UNCHANGED <<err, swallowed>>
  /\ UNCHANGED <<object, kernel, code, at, returned, overlapped, flagged,
                 crossed, strays>>

TestSafe(t) ==
  /\ pc[t] = "isSafe"
  /\ \E e \in {err[t], code} :
       IF e = "other" THEN Throws(t)
       ELSE Goes(t, "isReset") /\ UNCHANGED <<err, code, swallowed>>
  /\ UNCHANGED <<object, kernel, at, returned, overlapped, flagged,
                 crossed, strays>>

(* The call goes on as if it had succeeded: connect sets its flag, a wait  *)
(* takes another turn, everything else returns -1.                         *)
TestReset(t) ==
  /\ pc[t] = "isReset"
  /\ \E e \in {err[t], code} :
       IF e = "reset" THEN Throws(t)
       ELSE /\ DoneWithCode(t, CASE call[t] = "connect" -> "flag"
                                 [] call[t] = "wait" -> "enter"
                                 [] OTHER -> "idle")
            /\ swallowed' = (swallowed \/ err[t] # "safe")
  /\ UNCHANGED <<object, kernel, at, returned, overlapped, flagged,
                 crossed, strays>>

(* "_connected = true" of connect.                                         *)
Flag(t) ==
  /\ pc[t] = "flag"
  /\ connected' = TRUE
  /\ flagged' = (flagged \/ returned \/ SomeoneIn(Closing, t))
  /\ Goes(t, "idle")
  /\ UNCHANGED <<closed, kernel, code, at, err, returned, overlapped,
                 crossed, strays, swallowed>>

-----------------------------------------------------------------------------
(* close().                                                                *)

(* "_connected = false".                                                   *)
Unset(t) ==
  /\ pc[t] = "unset"
  /\ connected' = FALSE
  /\ Goes(t, "test")
  /\ UNCHANGED <<closed, kernel, code, at, err, history>>

(* Mutant: close() does not look at _closed.                               *)
TestNothing(t) ==
  /\ pc[t] = "test"
  /\ Goes(t, "release")
  /\ UNCHANGED <<object, kernel, code, at, err, history>>

(* Mutant: _closed is set together with the test.                          *)
TestAndMark(t) ==
  /\ pc[t] = "test"
  /\ Goes(t, IF closed THEN "mark" ELSE "release")
  /\ closed' = TRUE
  /\ UNCHANGED <<connected, kernel, code, at, err, history>>

(* "if (... && !_closed)".                                                 *)
Test(t) ==
  /\ pc[t] = "test"
  /\ Goes(t, IF closed THEN "mark" ELSE "release")
  /\ UNCHANGED <<object, kernel, code, at, err, history>>

(* The calls in progress on the kernel socket that is closed.              *)
Cut(s) ==
  at' = IF backend = "windows"
        THEN [u \in Threads |-> IF at[u] = s THEN "none" ELSE at[u]]
        ELSE at

(* impl::close_socket.                                                     *)
Release(t) ==
  /\ pc[t] = "release"
  /\ number' = "none"
  /\ Cut(number)
  /\ strays' = IF number = "stranger" THEN strays \cup {"close"} ELSE strays
  /\ Goes(t, "mark")
  /\ UNCHANGED <<object, backend, hung, code, err, returned, overlapped,
                 flagged, crossed, swallowed>>

(* "_closed = true", and close() returns.                                  *)
Mark(t) ==
  /\ pc[t] = "mark"
  /\ closed' = TRUE
  /\ returned' = TRUE
  /\ Goes(t, "idle")
  /\ UNCHANGED <<connected, kernel, code, at, err, overlapped, flagged,
                 crossed, strays, swallowed>>

-----------------------------------------------------------------------------
(* The rest of the process opens and closes sockets of its own.            *)
StrangerTakes ==
  /\ number = "none"
  /\ number' = "stranger"
  /\ UNCHANGED <<object, backend, hung, code, threads, history>>

StrangerLeaves ==
  /\ number = "stranger"
  /\ number' = "none"
  /\ Cut("stranger")
  /\ UNCHANGED <<object, backend, hung, code, call, pc, err, late, history>>

(* The peer, or the network, ends the connection for good.                 *)
HangsUp ==
  /\ ~hung
  /\ hung' = TRUE
  /\ UNCHANGED <<object, backend, number, code, threads, history>>

-----------------------------------------------------------------------------
(* What a thread does as soon as it can, and what may happen to it.        *)
Proceed(t) ==
  \/ Check(t) \/ Enter(t) \/ EnterFails(t) \/ EnterWait(t)
  \/ HangUp(t) \/ ClosedUnder(t)
  \/ TestSafe(t) \/ TestReset(t) \/ Flag(t)
  \/ Unset(t) \/ Test(t) \/ Release(t) \/ Mark(t)

Next ==
  \/ \E t \in Threads :
       \/ \E c \in CallsOf : Start(t, c)
       \/ Proceed(t)
       \/ Succeeds(t) \/ GetsNothing(t) \/ Interrupted(t)
  \/ StrangerTakes \/ StrangerLeaves \/ HangsUp

(* Every thread that can go on is scheduled.                               *)
Spec == Init /\ [][Next]_vars /\ \A t \in Threads : WF_vars(Proceed(t))

-----------------------------------------------------------------------------
TypeOK ==
  /\ backend \in {"linux", "windows"}
  /\ connected \in BOOLEAN /\ closed \in BOOLEAN
  /\ number \in Sockets /\ hung \in BOOLEAN
  /\ code \in Codes \cup {"none"}
  /\ call \in [Threads -> CallsOf \cup {"none"}]
  /\ pc \in [Threads -> Places]
  /\ at \in [Threads -> Sockets]
  /\ err \in [Threads -> Codes \cup {"none"}]
  /\ late \subseteq Threads
  /\ returned \in BOOLEAN /\ overlapped \in BOOLEAN /\ flagged \in BOOLEAN
  /\ crossed \in BOOLEAN /\ swallowed \in BOOLEAN
  /\ strays \subseteq {"late", "close"}

(* When a close() returns the socket is closed, also when the call found   *)
(* another one in progress (socket.cpp:229-234): _closed is not true       *)
(* before the descriptor is free.                                          *)
ClosedIsClosed == closed => number # "own"

(* However often an object is closed, and by however many threads, only    *)
(* calls of close() that overlap can close a stranger's socket             *)
(* (socket.cpp:229-234).                                                   *)
StrayCloseOverlaps == "close" \in strays => overlapped

(* A send or recv that begins after a close() returned does not get as far *)
(* as another socket that has the number now, unless a connect() raised    *)
(* the flag after a close() had begun (socket.cpp:52-55, 73-101).          *)
LateCallsRefused == "late" \in strays => flagged

(* A call whose system call failed with a code that is not safe, or with a *)
(* reset, throws, unless another thread's failure came between the store   *)
(* of _code and the tests (linux.cpp:133-142, windows.cpp:128-137): then a *)
(* refused connect can pass for an established one.                        *)
ErrorsThrow == swallowed => crossed

(* The poll of a waiting loop failed with a safe code.                     *)
OutOfBuffers(t) == call[t] = "wait" /\ err[t] = "safe"

(* A thread that waits in wait_read, wait_send, recv or send comes back    *)
(* when the connection hangs up, on both back ends, also when another      *)
(* thread closed the object meanwhile and whatever has the number now      *)
(* (socket.cpp:73-101, 141-147; linux.cpp:113-119, 324-332; windows.cpp:   *)
(* 353-358).  Only a poll that fails for want of buffers, which Windows    *)
(* may do, makes a waiting loop begin again.                               *)
WaitEnds ==
  \A t \in Threads :
    (pc[t] = "blocked" /\ at[t] = "own" /\ hung)
      ~> (pc[t] = "idle" \/ OutOfBuffers(t) \/ crossed)

=============================================================================
