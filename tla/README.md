# A verification development for netsock

netsock is a small C++20 socket library: an owning `socket` class over a
platform back end, TCP and UDP classes on top of it, a stream buffer over a TCP
client, address classes and a poll list. These TLA+ modules model its Linux
build, and the Windows one where a caller can tell the two apart. Paths below are relative to the repository's `src/`, so `socket.cpp` is
`src/socket.cpp` and headers are in `include/netsock/`.

Contents: [the system](#the-system), [the modules](#the-modules),
[the runs](#the-runs), [bounds](#bounds), [fairness](#fairness),
[proofs](#proofs), [what the models show of the code](#what-the-models-show),
[what is not modelled](#not-modelled), [plan](#plan).

Run a model with `tlc -config MCSocket.cfg MCSocket` and a proof with
`tlapm SocketProofs.tla`, in this directory.

## The system

| Component | State it keeps | Operations | What makes it correct |
|---|---|---|---|
| `socket` (socket.cpp) | descriptor number `_socket`, `_connected`, `_closed` | construct, adopt, move, close, connect, bind, listen, accept, send, recv, sendto, recvfrom, poll, options | a descriptor has one owner, is closed by it once and never leaked; calls reach only the socket the object was given; `connected()` means what it says |
| back ends (impl/linux.cpp, impl/windows.cpp) | the global `_code` | one function per system call; `is_safe` decides which failures throw | codes, options, events and addresses are translated faithfully; an error that is not safe reaches the caller |
| `tcp_streambuf` (tcp_stream.cpp) | `_obuf`, `_ibuf` with put and get areas, a reference to a client | overflow, xsputn, sync, underflow, xsgetn | the two directions are FIFO streams: nothing lost, repeated, overtaken or invented |
| `tcp_client` | a `socket`, the remote endpoint | constructors that connect; forwarding calls; `no_delay` | a constructor that throws leaves nothing open |
| `tcp_listener` | a `socket`, `_nodelay`, `_listening` | bind, listen, accept, accept_client, no_delay, close | flags agree with the kernel; accepted sockets get the options, and are closed on every failing path |
| `udp_socket`, `udp_connection` | a `socket` | bind, connect, send(to), recv(from) | each datagram is returned once; strangers are not heard on a connection |
| `socket_address` | `_ptr`, `_size` on the heap | constructors, copy, move, resize | no sharing, overrun, double delete or leak |
| `ip_address`, `ip_endpoint`, endian.hpp | numbers in the machine's order | parse, construct, convert to and from `sockaddr` | the kernel is told the address that was written and it comes back unchanged |
| `poll_list` | entries with raw `socket *`, events, result | push, remove, poll, result | no dangling pointer is followed, results belong to the right socket |
| waiting loops (socket.cpp:125-147) | none | can_read, can_send, wait_read, wait_send | a waiter returns |
| dns.hpp | none | resolve, resolve_first | what is found is an address of the host that the predicate accepts |
| raw.hpp | none | raw I/O manipulators | see [not modelled](#not-modelled) |

How they interact. Every class above `socket` owns one and forwards to it;
`tcp_streambuf` only refers to a `tcp_client`, and `poll_list` only points to
sockets. All sockets of a process share the kernel's descriptor table, where a
number is used again as soon as it is free, and all threads share `_code`.
Nothing in the library locks; the kernel and the peers run concurrently with it,
and the program may use different objects, or one object, on several threads.

What is hard here:

- numbers outlive descriptors: `close()` keeps `_socket` (socket.cpp:229-234);
- the flags travel differently through the move constructor and the move
  assignment (socket.cpp:27-38);
- some failures do not throw (`is_safe`, linux.cpp:121-142), so that a call
  returns normally with `(size_t)-1` or a handle of -1;
- constructors of several steps fail in the middle (tcp_client.cpp:14,
  udp_socket.cpp:137-150, tcp_listener.cpp:39-61);
- `send` and `recv` are short; the stream buffer is written with that in mind in
  one direction only (tcp_stream.cpp);
- `socket_address` manages its memory by hand and has no destructor;
- `poll_list` finds its entries by descriptor number (poll_list.cpp:20-47);
- `close()` is four accesses and a system call, `connect()` a system call and a
  store, and every failure goes through the global `_code` (linux.cpp:133-142);
- values change width and byte order on the way to the kernel.

## The modules

`A <- B` means that B extends A.

    Socket <- Clients
    Socket <- Poll <- PollList
    Socket <- SocketProofs
    Clients, PollList, SocketProofs <- SocketUsersProofs
    SharedSocket <- SharedSocketProofs
    SocketAddress <- SocketAddressProofs
    Listener <- ListenerProofs
    Datagrams <- DatagramProofs
    Endpoints <- EndpointProofs
    TcpStream <- TcpOutput, TcpInput <- TcpStreamProofs
    Ownership                         Socket implements Ownership
    ByteStream                        TcpOutput and TcpInput implement ByteStream
    MCx extends x and gives TLC its symmetry

**Ownership** and **ByteStream** are abstract specifications. `Ownership` is what
`socket` promises of descriptors, without numbers, flags or the kernel: an open
resource has at most one holder, only the holder gives it back, and once. It has the
two holes the code has: move assignment leaves a resource without a holder, and
`sound` ends when a stale handle is moved into a new object. `ByteStream` is what one direction of a
`tcp_stream` promises: as long as it is `sound`, what comes out is in order, at most once and nothing that did
not go in; and as long as it is `reliable`, it is sound and what comes out is all of what went in up to some
point. `Socket`, `TcpOutput` and `TcpInput` each end with an INSTANCE that maps their state:
an object holds the kernel socket that its destructor would close (`Holding`);
the output goes from callers to the kernel, is always sound and is reliable while `lost = {}`;
the input goes from the peer to readers. What comes out of the input is `given`, every character a reader was handed, also those that
underflow makes up; it is sound until a receive of underflow brings nothing (`starved`), and reliable on a blocking socket while it is
connected and no receive has thrown in the middle of a call.

**Socket** models `socket` and the descriptor table. `handle`, `connected` and
`closed` are the three members, `live` says which objects exist. The kernel is
`table` (number to kernel socket), `link` (what became of each kernel socket; a connection goes from "connecting" to "connected"
and, by a reset, a timeout or the peer, to "ended")
and `nonblock`. Each kernel socket is a fresh value, so that two sockets which
had the same number remain distinguishable; the history variable `own` remembers
which one came with an object's handle. There is one action per constructor,
move, destructor and call. A call that fails without changing anything is a
stuttering step, and so is one that throws (`RecvThrows` on a connection that ended: the flag stays up). `foreign` records which kinds of call reached a kernel socket
other than the object's own, `revived` that a handle which was no longer its
object's went through the move constructor, `assigned` which open kernel sockets went
through move assignment, `tolerated` on which open ones a connect failed with a safe code, and `interrupted` on which one threw
and goes on in the kernel.

**Clients** composes `Socket` with the functions that build a socket in several
steps. A function is a sequence of steps (`TcpConnect`, `UdpBindConnect`,
`AcceptClient`, ...); each step is an action of `Socket` on the object being
built, each may throw, and `Unwind` then destroys what was built in reverse
order. Between any two steps `Others` lets the rest of the program use the
remaining objects. `mine` is the set of kernel sockets that the function opened,
accepted or took over.

**TcpStream** declares what the two halves of `tcp_streambuf` share: the size of the buffers, the
client's flag and what it means that characters are in order. The names of `TcpInput`'s specification begin with `Input`,
so that one module can reason about both halves.

**TcpOutput** models the put side of `tcp_streambuf`. `put` is the put area,
`wire` what the kernel took. Characters are numbered, so loss, repetition and
reordering show. `Store`, `Overflow`, `Write`, `Sync` and `Destroy` are sputc
with room, overflow, xsputn, sync and the end of the object. `Results(n)` is what
a send may return, a short count and `(size_t)-1` included.

**TcpInput** models the get side with the peer and the kernel's queue. A call that has to
receive is in progress (`call`) until `recv` returns, and the loop of xsgetn takes
one step per `recv`. `area` is what lies between `gptr()` and `egptr()`;
`past` says that `gptr()` has passed `egptr()`, after which the standard
library's functions read stale characters (`BumpPast`, `StartReadPast`). `delivered` is what readers were given of the peer's bytes,
`given` that and the stale characters (`Stale`) that underflow hands them at the end of the stream (`UnderflowEnd`), on a non-blocking
socket with nothing to read (`UnderflowAgain`) and behind `egptr()`. Whether the socket blocks
is chosen in the beginning.

**SocketAddress** models the object as pointer and size over a heap that hands
out any free block, so that a freed block comes back. Faults (deleting what is not
allocated, reading outside a block) are recorded and not excluded.

**Datagrams** models one UDP socket from its construction to its end, in the hands of
`udp_socket`, a constructor in progress ("building") or `udp_connection`, with
the kernel's receive queue, its remote and the error an ICMP message leaves behind. It is new, or adopted from a `socket`
that is closed, bound or connected already (`Adopt`). A connect succeeds, throws, or fails with a code that is taken for
success (`ConnectTolerated`): the flag goes up and the kernel keeps the remote it had, or none. `asked` is whom the last connect that
returned was for and `tolerated` that it failed.

**Listener** models `tcp_listener` used by two threads, the clients it accepts and the
socket options. `option` is what the kernel keeps; `SetOption` and `GetOption`
know how many bytes netsock hands over and how many the kernel wants.
The listening socket may have TCP_NODELAY of its own from the beginning (a listener can be built from a `socket`).
`listen` and `close` are two steps each, because the flag and the kernel change one
after the other.

**SharedSocket** models one object in the hands of several threads, on either back end. It has one
step per load, store and system call: `Check` is the look at `_connected` of send and
recv, `Enter` the kernel's look-up of the number, `Flag` the store of connect,
`Unset`, `Test`, `Release` and `Mark` the four steps of close(), `Fails`, `TestSafe` and
`TestReset` the store to `_code` and the two tests that read it back. `number` is what the
kernel has under `_socket`: the object's own socket, a stranger's, or nothing, and strangers come and
go. The difference between the back ends is what a poll returns (`PollResult`) and whether closing a socket ends the
system calls in progress on it (`Cut`), and that a poll there may fail with a safe code (`CodesFor`), after which a
waiting loop takes another turn. The history variables say which race happened:
`overlapped` two calls of close(), `flagged` a connect and a close, `crossed` two failures.

**Poll** is what `impl::poll` makes of poll(2) and of WSAPoll for a list: flags, events, and the rules for
-1 and for numbers that are not open. **PollList** adds the list, with the numbers
copied before the system call and the results stored after it, and other threads at work between.

**Endpoints** models the way of an address. A number is the sequence of its bytes and
`Memory` is its image on a machine of either byte order, so that each swap in
endian.hpp, `parse_address` and `convert_address` is modelled by what it does to
bytes. An endpoint comes from text, from numbers, from the kernel, or from dns.hpp: a chain of
`getaddrinfo` goes through `ResolveHosts` and then `Resolve` or `ResolveFirst` with any predicate on families. The split of text at colons and brackets is abstracted to its parts; the narrowing
of a port (`ToShort`) is not.

Operators with `Mutant:` in their comment are wrong versions of the definition below
them, as a plausible bug would have it. They take part in no specification;
substituting one for its original shows that the property it is meant for notices.

## The runs

Distinct states as TLC counts them, with symmetry where the instance declares it.

| Run | States | Question |
|---|---|---|
| socket | 295,202 | can any sequence of moves, closes and calls leak a descriptor (`NoLeak`), close or use another object's (`ClosesOnlyItsOwn`, `GuardedCallsStayHome`), or leave the flag wrong, over connects that fail and connections that end (`ConnectedFlag`)? Is every step one of the abstract `Ownership` (`ImplementsOwnership`)? |
| shared_socket | 764,356 | two threads in one object: is a socket closed when close() returns (`ClosedIsClosed`), when can a stranger's be closed (`StrayCloseOverlaps`) or be sent to after a close (`LateCallsRefused`), when is an error swallowed (`ErrorsThrow`), and do waiters come back at a hang-up (`WaitEnds`)? |
| clients | 154,112 | does a failing constructor or accept close all it opened (`FailureLeavesNothing`), and a successful one return an open socket of its own (`ReturnsOpenSocket`)? |
| tcp_output | 36,900 | is what was reported written sent or still held unless a named loss happened (`NothingLost`), and is what is sent the byte stream of what was reported (`ImplementsByteStream`)? |
| tcp_output_overrun | violated | does overflow send a full buffer before it stores (`PutStaysInside`)? |
| tcp_input | 16,306 | is every byte in one place and in order (`Conserved`), never invented while connected (`TrueWhileConnected`), does a waiting read return (`ReadReturns`), and is what readers are given, stale characters included, the byte stream of the peer until a receive brings nothing (`InputIsByteStream`)? |
| tcp_input_eof | violated | does a read of a closed client report the end (`EofWhenClosed`)? |
| socket_address | 164,882 | are blocks big enough (`InBounds`), unshared (`Exclusive`), used correctly (`NoFault`) and lost only with their object (`LeakOnlyAtEnd`)? |
| datagrams | 433,026 | is each datagram returned once and in order (`ReturnedOnce`), whom does a connection hear (`StrangersOnlyEarly`), what closes the socket (`ClosedByZero`), is the remote whom the program asked for while the flag is up (`FlagIsRemote`)? |
| listener | 690,240 | do the flags agree with the kernel at every moment (`ListeningFlag`), do clients get no_delay (`AcceptedNoDelay`), do options survive the widths of their values (`OptionsHold`)? |
| poll_list | 437,689 | for a program that removes sockets first, on either back end: no dangling pointer (`NoWildUse`), right entry (`ResultIsOwn`), right count (`CountIsResults`) |
| endpoints | 77,106 | is the kernel told the address that was written (`KernelIsTold`), does one that came from it go back unchanged (`ReplyGoesBack`), is what resolve_first found an accepted address of the host (`HostIsReached`)? |

Several properties carry a condition, such as `~revived`, `~badAlloc` or `overlapped`. Each names a
way in which the code really does break the plain property; the run shows that it is the
only way. They are listed under [what the models show](#what-the-models-show).

Deadlock is not checked where a bound or the nature of the system lets it stop: bounded
numbers of characters, bytes, datagrams, connections or kernel sockets, and, in
`PollList`, the end of defined behaviour after a wild pointer. `Socket`'s steps are unbounded except for
the number of kernel sockets, and its deadlock check is on.

### Bounds

| Constant | Value | Why it is enough |
|---|---|---|
| Objs, Fds, Descs (Socket, Clients) | 3, 2, 2 | two kernel sockets suffice for one number to be used again; three objects for two that hold the number and a third that is moved into |
| Threads (SharedSocket) | 2 | each property names a race of two; the proofs are for any number |
| Objs, Fds, Descs (PollList) | 2, 2, 2 | one object that is listed and one that takes its number over |
| Askable | {in} | POLLERR behaves as POLLHUP on Linux; the list treats all flags alike |
| MaxEntries | 2 | an entry in front of another, or the same object twice |
| BufSize, MaxWrite, MaxChars | 2, 3, 7 | a write that fits, one that fills and one that exceeds the buffer, several times over |
| MaxBytes, MaxRead | 5, 4 | a bulk read that takes the rest of one buffer and two more receives |
| MaxGiven | 7 | all the peer's bytes and two stale characters, of which the second comes from behind `egptr()` |
| Addrs, Blocks, MaxSize | 3, 3, 2 | a chain of two copies with a block freed and used again; sizes that grow, shrink and vanish |
| Senders, MaxArrivals, MaxConnects | 2, 3, 2 | a stranger before and the remote after a connect, and a connect that is repeated |
| Conns, IntValues, MaxBuffer | 2, 3, 1 | a client that is owned while the next is accepted; sizes within the limit, above it and above an int |
| Base | 2 | bytes that differ; two bytes suffice to tell a number from its reversal and two words to tell the order of words from that of bytes |
| MaxHosts | 2 | an address of the host that is not the first of its chain |

## Fairness

- `TcpInput`: `WF(Continue)`. A thread whose `recv` can return is scheduled. Nothing makes a
  reader call, and nothing makes the peer send or close: `ReadReturns`
  starts from a peer that has closed or reset the connection.
- `SharedSocket`: `WF(Proceed(t))` for each thread. A thread that is between two steps, or whose system call the kernel
  has an answer for because the connection hung up or the socket was closed under it, is scheduled. Nothing makes a thread
  begin a call, and nothing makes bytes, room or the hang-up arrive: `WaitEnds` starts from a hang-up, which stays. Nothing keeps a Windows
  poll from failing for want of buffers each time, so that such a failure ends what `WaitEnds` says of one poll; of the next it says the same again.

The other specifications state safety only and have no fairness.

## Proofs

Every safety property of the passing runs, and every refinement, is also a theorem, for every value of the constants:

| Module | For every number of | Theorems about |
|---|---|---|
| SocketProofs | objects, descriptor numbers, kernel sockets | `Socket`, `Ownership`, the refinement between them |
| SocketUsersProofs | the same, and lists of any length | `Clients`, `PollList` |
| SharedSocketProofs | threads | `SharedSocket`'s safety |
| TcpStreamProofs | buffer sizes, sizes of calls, characters | `TcpOutput`, `TcpInput`, their refinements of `ByteStream` |
| DatagramProofs | senders, datagrams, connects | `Datagrams` |
| ListenerProofs | connections, values of an int, buffer limits | `Listener` |
| EndpointProofs | values of a byte, addresses of a host | `Endpoints` |
| SocketAddressProofs | objects, blocks, sizes | `SocketAddress` |

The bounds that only keep TLC's runs finite (`MaxChars`, `MaxBytes`, `MaxArrivals`, `MaxEntries`, ...) are constants like the
others, so that the theorems hold for all their values.

**Socket.** Assumption: `SocketAssumption`, that -1 is no descriptor number and None no
kernel socket. The six invariants are not inductive by themselves. `SocketInv`
adds `DeadIsBlank` (a dead object holds nothing), `TableSound` (a kernel socket
has at most one number and one that has a number is neither unused nor closed),
`OwnSound` (objects and the kernel sockets that came with their handles are in bijection, and an
open one still has the number its object keeps), `UnclosedIsOwn` (without a
revived handle, what an object would close is its own) and `ConnectedIsOwn` (so
is what send and recv reach, until a connect on a stale handle). `UnclosedIsOwn` is the heart: a number is
given away only after its owner's `_closed` was set, and only
the move constructor can make a handle unclosed again. `SocketInvStep` has a lemma per kind of step; calls that only
reach the kernel share `ReachStep`. From `SocketInvariant` follow `SocketTyped`,
`SocketNoLeak`, `SocketClosesOnlyItsOwn`, `SocketOneOwner`,
`SocketGuardedCallsStayHome` and `SocketConnectedFlag`.

**The refinement.** The end of SocketProofs proves `SocketImplementsOwnership`. By `SocketInv` an object that would close something holds an
open kernel socket that no other object holds (`HoldingIsOpen`). Each action of `Socket` then maps to one
of `Ownership`: constructors and accept to `Acquire`, a move construction to `Pass` or, when it makes an assigned handle
closable again, to `Recover`, close, the destructor and the assignment to `GiveUp`, and all calls to
a stutter. `OwnershipExclusive` proves of `Ownership` itself that a resource has one holder and that what is held is open.

**Clients.** A step of a function, of its unwinding or of other threads is a step of `Socket` or leaves it alone, so that
`SocketInv` holds here too. `ClientsInv` adds `Numbered` (an open kernel socket has a number), `Stage` (what is left to do tells how many objects
exist, and what is about to be returned has a handle), `BuiltOK` (the objects built are distinct, alive and not closed) and `MineOK`
(a kernel socket of the function is closed or belongs to an object built). `MineOK` is the heart: each step that
opens, accepts, moves or drops hands the kernel socket from one object to the next, and an exception empties `built` from the back, closing
each. With `built` empty it is `ClientsFailureLeavesNothing`; `Stage`, `MineOK` and `SocketInv` give `ClientsReturnOpenSocket`.

**PollList.** Assumptions: `SocketAssumption`, `PollAssumption` (what can be asked for) and `PollListAssumption`. `ListInv` says, as long as the
program is careful: the list has each object as often as the program put it there (`EntriesOK`, which counts with cardinalities of sets
of places), an object in the list exists and has its own kernel socket open under its own number (`Member`), and the numbers of a poll in progress
are still those of the entries (`AskedOK`). Erasing the first entry with a number
then erases one of the object itself, because two members with one number are one object. From it follow
`PollListNoWildUse`, `PollListResultIsOwn` and `PollListCountIsResults`.

**SharedSocket.** No assumption; `Threads` is any set. Closing and the error code are independent and have an invariant each. `CloseInv`:
`ReleasedBeforeMark` (a thread that is about to set `_closed` has freed the number, its own or an earlier release),
`OneCloses` (without overlap one thread is in close() and the number is the object's own until it releases
it) and `FlagStaysDown` (without a racing connect the flag stays down from the first statement of a close() on, so that a
late call goes no further than its check). `CodeInv`: without two failures at a time `_code` is what the failing thread stored. They give
`SharedClosedIsClosed`, `SharedStrayCloseOverlaps`, `SharedLateCallsRefused` and `SharedErrorsThrow`.

**Endpoints.** Assumption: `EndpointAssumption` (a byte has at least one value). `EndpointInv` says of the endpoint at hand that if it were
given to the kernel now, the kernel would be told the right address (`ToldRight`), so that `Use` has nothing left to show. The lemmas are about the
conversions: two swaps cancel (`ReverseTwice`, `RoundTrip`), words in memory (`WordsInMemory`), and that
`resolve_first` returns the conversion of the chain's first entry or nothing (`FirstOrNone`).

**TcpOutput.** Assumption: `OutputAssumption` (the buffer has room for a character; -1 is no count). `OutputInv` is `TypeOK`, `NothingLost` and `Ordered`: what
is accepted, what is on the wire and what is held are each increasing, the wire is below what is held, and both come from what was accepted.
Every step either appends characters that are larger than all before or takes a prefix of
what is held to the wire. From `OutputInvariant` follow `OutputNothingLost`, `OutputSentInOrder` and, since both ends only grow (`StepGrows`),
`OutputImplementsByteStream`.

**TcpInput.** Assumption: `InputAssumption` (the buffer has room for a character). `Held` joins what the reader has, what a read in progress has copied, the get area and the
kernel's queue; `Accounts` says that it is increasing, that with what was dropped it makes up all that was sent, without
overlap, and that it is all that was sent when nothing was dropped. `InputInv` adds `Idle` (a call that receives has found the get area empty; only sgetn
has characters of its own), `Starved` (the reader has what was received for it and the pointers have not crossed, until a receive of underflow brings nothing; on a blocking socket only the
end of the stream does that, which closes the client) and `Kept` (when
nothing can have been dropped). Each action either cuts `Held` in other places (`MoveArea`, `MoveFill`, `MoveRead`), appends the next
byte (`AccountsAppend`), or takes the characters of a read out of its middle (`AccountsRemove`). From `InputInvariant` follow `InputTyped`, `InputConserved`,
`InputTrueWhileConnected` and, since what the reader was given only grows (`InputGrows`) and, until something was made up, is a prefix of `Held` (`HeldBegins`), `InputImplementsByteStream`.
`Given` says of each action that gives characters that they are received ones, `MadeUp` of the others what they add.

**Datagrams.** Assumption: `DatagramsAssumption`, of which the proof needs that None is no sender. `DatagramsInv`: while the flag is up the kernel has the remote that was asked for, unless that connect was tolerated, and nothing without a
descriptor (`DescriptorOK`); what waits and came after the last connect is from the remote, if there is one (`QueueOK`), which becomes `StrangersEarly` of
what was returned; what was returned, then what waits, is what arrived, one by one (`Matched`); an empty receive is the last
and closes (`ZeroCloses`).

**SocketAddress.** Assumption: `AddressAssumption` (nullptr is no block; sizes are natural
numbers). `AddressInv` adds to the properties that dead objects point nowhere and that
a leaked block is nobody's, which a re-allocation of that block needs.
`AddressInvariant` gives `AddressTyped`, `AddressInBounds`,
`AddressExclusive`, `AddressLeakOnlyAtEnd` and `AddressNoFault`.

**Listener.** Assumption: `ListenerAssumption`, of which the proof needs that the listening
socket is no connection and that 0 and 1 are values of an int. `ListenerInv` has one part per
thread. `ControlOK`: between its two steps, `listen` has a socket that listens already and
`close` a flag that has fallen, which makes `ListeningFlag` inductive. `AcceptingOK`: the connection
belongs to the acceptor until it returns, so nobody else sets its options, and the present
`_nodelay` is among the values of the call; `OptionOfCall` says of both steps of `accept_client` what
`AcceptedNoDelay` says of the last. From `ListenerInvariant` follow `ListenerFlag` and
`ListenerAcceptedNoDelay`. `OptionsOK`, an invariant of its own on top of it, says what the kernel keeps of every socket's options: switches are 0 or
1, a buffer is at least what was asked for or the limit, and a getter has told the truth; it gives `ListenerTyped` and
`ListenerOptionsHold`. They hold for any number of values of an int and any limit among
them, sizes that do not fit an int included.

Only model-checked: both liveness properties (`ReadReturns`, `WaitEnds`), since temporal properties under fairness and ENABLED are beyond
the prover, and the two violated ones. No theorem says that a history variable records what its comment says; the runs' mutants do.

## What the models show

Two runs are expected to find a violation, where a test in the code says what it is for
and the code does otherwise:

- `tcp_output_overrun`: overflow asks `pptr() == eback()`. `eback()` belongs
  to the get area, so the branch that would send a full buffer is never taken, and the character
  is written to `*epptr()`, one byte behind `_obuf` (tcp_stream.cpp:22-28).
- `tcp_input_eof`: underflow ignores a `recv` of 0 and returns `*gptr()`. When sbumpc made the call,
  the get pointer ends up behind `egptr()` and later calls
  return stale characters instead of the end of the stream (tcp_stream.cpp:31-40).

Behaviour of the code that the models contain and the conditions of the properties name:

- The move constructor drops `_closed` (socket.cpp:27-29). Closing a socket and moving it makes an object
  that closes the old number again, whoever has it by then: `revived`.
- It also leaves `_connected` set in the source, whose handle is then -1; so does an
  accept that failed safely. `send` and `recv` let such objects through to descriptor -1.
- Move assignment closes first, which sets `_closed` for good: the descriptor that was
  assigned is never closed by the object (socket.cpp:31-38, 229-234): `assigned`.
- `connect` that fails with a safe code sets `_connected`: `tolerated`. A `udp_connection` is then connected() with no remote, or with its
  former one, and `recv` returns what anyone, or the former remote, sends.
- Nothing lowers `_connected` when a connection is reset or times out: `recv` throws `socket_closed_error` and connected() stays true.
  `ConnectedFlag` therefore says that the socket was connected once, and not that it is. A connect that a signal interrupts throws and goes on
  in the kernel: `interrupted`.
- Stale characters reach the reader from sgetc and sbumpc at the end of the stream and, on a non-blocking socket, whenever nothing has
  arrived (tcp_stream.cpp:35-39): `starved`. On a blocking socket the client is closed by then.
- Short sends, a full buffer met by a single character, and a stream buffer that ends without a
  flush lose characters that were reported as written: `lost`.
- A bulk read that meets the end of the stream discards what it had read (tcp_stream.cpp:63-67).
- On a non-blocking socket `(size_t)-1` is added to counts and pointers; bytes are overwritten or lost.
  The input properties that exclude this say `~nonblocking`.
- `socket_address` has no destructor, and a copy assignment that runs out of memory leaves a dangling
  pointer: `leaked`, `badAlloc`.
- The scope of an IPv6 address is byte-swapped although the kernel takes it as it is; one that came from the
  kernel goes back right, one that the program gives does not. `KernelIsTold` leaves it out.
- The byte order is read off a value, so a big-endian machine swaps as well.
- An empty datagram closes a UDP socket for all its peers (`ReceiveZero`); a `udp_socket` given to
  the constructor of a `udp_connection` is lost when connect throws.
- Setting a timeout always fails (8 bytes where the kernel wants a timeval) and `reuse_port` always throws
  (no case in `map_sock_option`). A buffer size above the int range wraps.
- Two threads that close one object at a time can close a stranger's socket (`overlapped`); a connect that
  races a close leaves a closed object connected (`flagged`); and when two threads fail at a time, one can
  see the other's code, so that a refused connect passes for an established one (`crossed`). The proofs say that nothing else does any of it.
- On Linux close() does not bring back another thread's `recv` or `wait_read`; a wait that takes another turn on the closed number
  spins, since POLLNVAL is mapped to nothing. `WaitEnds` is about connections that hang up while they are waited for.
- On Windows a list does not see POLLHUP: such an entry is counted and has no result. The poll of one socket
  returns raw events there, so that `can_read` tests the bit of POLLERR and `hanged_up` is never true; only the waiting loops, which
  compare with 0, are right.
- `resolve_hosts` pushes the first entry of the chain for every entry (linux.cpp:267-272), so `resolve_first` finds an address only
  if the host's first one is accepted. `resolve` returns twice as many addresses as the host has, all of them default ones (`Resolve`).
- `ip_address(const char *, scope)` forgets the scope (ip_address.cpp:40).

## Not modelled

- The rest of the Windows back end (impl/windows.cpp): it repeats the Linux one call by call, with the same list of safe codes. It
  has no set_blocking, and its timeouts work, because 8 bytes are enough for a DWORD.
- The tables map_af, map_sock and map_proto from enumerators to the constants of the system.
- raw.hpp, which passes `sizeof(T)` bytes on to a stream; low_level.hpp, impl.hpp and types.hpp, which forward or declare.
- `error_code()`: `SharedSocket` forgets `_code` when no call is between its store and its tests.
- `tcp_client::_remote`, which is the default endpoint in a client that connected by itself (tcp_client.cpp:14-16, 62-64).
- In `Datagrams` and `Listener` the number of the closed descriptor is not used again: `recvfrom`, `bind` or a late `listen` on the number of another
  socket is what `Socket` has (`foreign`). A `listen` after `close`, which then raises `_listening` of a closed listener, is left out with it.
- `listen` and `close` of one listener on two threads at a time: `Listener` gives both to one thread.
- Moving or destroying an object that another thread uses, which no program may do. One `tcp_streambuf`, `poll_list` or
  `socket_address` is used by one thread.
- The signal SIGPIPE, which a send to a reset connection raises on Linux; lengths above 32 bits.
- The comparisons of sockets and addresses, which change nothing (that of addresses ignores the scope).
- The syntax of addresses in text (brackets, colons, `std::stoi`), and the content of characters and bytes.

## Plan

Done: the modules, runs, refinements and proofs above. Next, in this order:

1. Reliability of `TcpInput` and `TcpOutput` composed over one connection, as one `ByteStream` from writer to reader.
2. The Windows back end's differences in `Socket` (codes of `is_safe`, the type of a handle), as a constant.
3. Liveness: a proof outline of `ReadReturns` and `WaitEnds` by hand, whose safety lemmas TLAPS checks.
