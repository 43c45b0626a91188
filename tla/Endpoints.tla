------------------------------ MODULE Endpoints ------------------------------
(***************************************************************************)
(* The way of an address through netsock: ip_address and ip_endpoint       *)
(* (src/ip_address.cpp, src/ip_endpoint.cpp), convert_address and          *)
(* parse_address (src/impl/linux.cpp), the byte orders of endian.hpp and   *)
(* the names that dns.hpp resolves.  An endpoint is built from text or     *)
(* numbers, from an address the kernel filled in or from one of a host,    *)
(* and is handed to the kernel.                                            *)
(*                                                                         *)
(* A number is the sequence of its bytes, most significant first.  A byte  *)
(* has Base values instead of 256, an IPv4 address, a port and a scope     *)
(* have two bytes and an IPv6 address has four, the eight 16-bit words of  *)
(* which are two words here.                                               *)
(***************************************************************************)
EXTENDS Naturals, Sequences, SequencesExt

CONSTANTS
  Base,     \* bound: the number of values of a byte
  MaxHosts  \* bound: the addresses of a host

ASSUME EndpointAssumption == Base \in Nat \ {0} /\ MaxHosts \in Nat

VARIABLES
  host,   \* the byte order of the machine
  ep,     \* the ip_endpoint at hand, if there is one
  sa,     \* the socket_address at hand, as its bytes lie in memory
  origin  \* history: what ep was built from, as everybody else names it

vars == <<host, ep, sa, origin>>

Nothing == [family |-> "none"]
Byte    == 0..(Base - 1)
Short   == [1..2 -> Byte]
Words   == [1..4 -> Byte]
Zero    == <<0, 0>>

(* Mutant: the upper part of the number is kept.                           *)
ToShortWide(n) == <<n \div Base, n % Base>>

(* The number n as an unsigned short.                                      *)
ToShort(n) == <<(n \div Base) % Base, n % Base>>

-----------------------------------------------------------------------------
(* The machine.  A number in memory, and a number read from memory.        *)
Memory(n) == IF host = "little" THEN Reverse(n) ELSE n

(* An array of two 16-bit words as it lies in memory.                      *)
MemoryOfWords(w) == IF host = "little" THEN <<w[2], w[1], w[4], w[3]>> ELSE w

-----------------------------------------------------------------------------
(* endian.hpp.  The machine's order is read off the value of a constant,   *)
(* not off its bytes in memory, so that every machine counts as            *)
(* small_endian and all the converters swap.                               *)
Swap(n) == Reverse(n)

(* endian_converter::copy goes over the whole array.                       *)
SwapCopy(bytes) == Reverse(bytes)

-----------------------------------------------------------------------------
(* An ip_endpoint.  For IPv4 addr is the number _address; for IPv6 it is   *)
(* the memory of _bytes, and scope is the number _scope.                   *)
EndpointV4(addr, port) == [family |-> "inet", addr |-> addr, port |-> port]

EndpointV6(bytes, scope, port) ==
  [family |-> "inet6", addr |-> bytes, scope |-> scope, port |-> port]

(* Mutant: the bytes are taken as inet_pton yields them.                   *)
ParseV6AsIs(text) == text

(* parse_address: inet_pton yields the bytes in network order.             *)
ParseV4(text) == Swap(Memory(text))
ParseV6(text) == SwapCopy(text)

(* convert_address(const ip_endpoint &).                                   *)
ToKernel(e) ==
  IF e.family = "inet6"
  THEN [family |-> "inet6", port |-> Memory(Swap(e.port)),
        addr |-> SwapCopy(e.addr), scope |-> Memory(Swap(e.scope))]
  ELSE [family |-> "inet", port |-> Memory(Swap(e.port)),
        addr |-> Memory(Swap(e.addr))]

(* Mutant: the scope is not converted.                                     *)
FromKernelScope(s) ==
  IF s.family = "inet6"
  THEN EndpointV6(SwapCopy(s.addr), Memory(s.scope), Swap(Memory(s.port)))
  ELSE EndpointV4(Swap(Memory(s.addr)), Swap(Memory(s.port)))

(* convert_address(const socket_address &), for a family it knows.         *)
FromKernel(s) ==
  IF s.family = "inet6"
  THEN EndpointV6(SwapCopy(s.addr), Swap(Memory(s.scope)), Swap(Memory(s.port)))
  ELSE EndpointV4(Swap(Memory(s.addr)), Swap(Memory(s.port)))

-----------------------------------------------------------------------------
(* dns.hpp.  A chain is what getaddrinfo found, the family of an entry is  *)
(* what the program's predicate looks at.                                  *)

(* impl::resolve_hosts: the first address is pushed for every entry.       *)
ResolveHosts(chain) == [i \in DOMAIN chain |-> chain[1]]

(* dns::resolve drops the addresses it converted: it begins with one       *)
(* default address for each and appends another one for each.              *)
Resolve(chain) == [i \in 1..(2 * Len(ResolveHosts(chain))) |-> EndpointV4(Zero, Zero)]

(* Mutant: the predicate is not asked.                                     *)
ResolveUnasked(chain, families) ==
  IF chain = <<>> THEN Nothing ELSE FromKernel(ResolveHosts(chain)[1])

(* dns::resolve_first: the first address the predicate accepts, or nullopt. *)
ResolveFirst(chain, families) ==
  LET Converted(i) == FromKernel(ResolveHosts(chain)[i])
      accepted == {i \in DOMAIN chain : Converted(i).family \in families}
  IN IF accepted = {} THEN Nothing
     ELSE Converted(CHOOSE i \in accepted : \A j \in accepted : i <= j)

-----------------------------------------------------------------------------
(* What the kernel understands: ports and addresses in network order, the  *)
(* scope in the machine's.                                                 *)
Meaning(s) ==
  IF s.family = "inet6"
  THEN [family |-> "inet6", port |-> s.port, addr |-> s.addr,
        scope |-> Memory(s.scope)]
  ELSE [family |-> "inet", port |-> s.port, addr |-> s.addr]

Init ==
  /\ host \in {"little", "big"}
  /\ ep = Nothing /\ sa = Nothing /\ origin = Nothing

(* A new endpoint, which is called from by everybody else.                 *)
Builds(e, by, from) ==
  /\ ep' = e
  /\ origin' = [by |-> by, is |-> from]
  /\ sa' = Nothing
  /\ UNCHANGED host

NameV4(addr, port) == [family |-> "inet", port |-> port, addr |-> addr]
NameV6(addr, scope, port) ==
  [family |-> "inet6", port |-> port, addr |-> addr, scope |-> scope]

(* ip_endpoint(std::string) of "a.b.c.d", "a.b.c.d:n" and "[v6]:n".  The   *)
(* port may be any int, of which an unsigned short remains.                *)
FromText ==
  \/ \E text \in Short :
       Builds(EndpointV4(ParseV4(text), Zero), "text", NameV4(text, Zero))
  \/ \E text \in Short, n \in 0..(Base * Base) :
       Builds(EndpointV4(ParseV4(text), ToShort(n)), "text",
              NameV4(text, ToShort(n)))
  \/ \E text \in Words, n \in 0..(Base * Base) :
       Builds(EndpointV6(ParseV6(text), Zero, ToShort(n)), "text",
              NameV6(text, Zero, ToShort(n)))

(* ip_address(addrv4_t), ip_address(addrv6_t, scope), which takes the      *)
(* words from the last to the first, ip_address(std::string, scope), and   *)
(* ip_address(const char *, scope), which forgets the scope.               *)
FromNumbers ==
  \/ \E n, port \in Short :
       Builds(EndpointV4(n, port), "number", NameV4(n, port))
  \/ \E w \in Words, scope, port \in Short :
       Builds(EndpointV6(MemoryOfWords(w), scope, port), "number",
              NameV6(<<w[3], w[4], w[1], w[2]>>, scope, port))
  \/ \E text \in Words, scope, port \in Short :
       \/ Builds(EndpointV6(ParseV6(text), scope, port), "number",
                 NameV6(text, scope, port))
       \/ Builds(EndpointV6(ParseV6(text), Zero, port), "number",
                 NameV6(text, scope, port))

(* An address as it lies in memory.                                        *)
InKernel(addr, port) == [family |-> "inet", port |-> port, addr |-> addr]
InKernel6(addr, scope, port) ==
  [family |-> "inet6", port |-> port, addr |-> addr, scope |-> Memory(scope)]

(* accept, recvfrom and getsockname fill in an address.                    *)
KernelFills ==
  /\ \/ \E addr, port \in Short : sa' = InKernel(addr, port)
     \/ \E addr \in Words, scope, port \in Short : sa' = InKernel6(addr, scope, port)
  /\ ep' = FromKernel(sa')
  /\ origin' = [by |-> "kernel", is |-> Meaning(sa')]
  /\ UNCHANGED host

HostAddress ==
  {InKernel(addr, Zero) : addr \in Short}
    \cup {InKernel6(addr, scope, Zero) : addr \in Words, scope \in Short}

WithoutPort(m) == [x \in DOMAIN m \ {"port"} |-> m[x]]

(* ip_endpoint(address, port) of the result of resolve_first, when the     *)
(* predicate accepts some families.                                        *)
FromHost ==
  \E chain \in SeqOf(HostAddress, MaxHosts), families \in SUBSET {"inet", "inet6"},
     port \in Short :
    LET found == ResolveFirst(chain, families) IN
    /\ found # Nothing
    /\ Builds([found EXCEPT !.port = port], "resolve_first",
              {WithoutPort(Meaning(chain[i])) :
                 i \in {j \in DOMAIN chain : chain[j].family \in families}})

(* ip_endpoint(address, port) of a result of resolve.                      *)
FromResolve ==
  \E chain \in SeqOf(HostAddress, 1), port \in Short :
    \E i \in DOMAIN Resolve(chain) :
      Builds([Resolve(chain)[i] EXCEPT !.port = port], "resolve", {})

(* connect, bind and sendto convert the endpoint.                          *)
Use ==
  /\ ep # Nothing
  /\ sa' = ToKernel(ep)
  /\ UNCHANGED <<host, ep, origin>>

(* The endpoint ends.                                                      *)
Drop ==
  /\ ep # Nothing
  /\ ep' = Nothing /\ sa' = Nothing /\ origin' = Nothing
  /\ UNCHANGED host

Next ==
  \/ /\ ep = Nothing
     /\ FromText \/ FromNumbers \/ KernelFills \/ FromHost \/ FromResolve
  \/ Use \/ Drop

Spec == Init /\ [][Next]_vars

-----------------------------------------------------------------------------
Endpoint ==
  {EndpointV4(addr, port) : addr \in Short, port \in Short}
    \cup {EndpointV6(bytes, scope, port) :
            bytes \in Words, scope \in Short, port \in Short}

(* Every byte of an endpoint is a byte, also of a port that came as an int *)
(* (ip_endpoint.cpp:22, 32).                                               *)
TypeOK ==
  /\ host \in {"little", "big"}
  /\ ep \in Endpoint \cup {Nothing}
  /\ sa # Nothing => ep # Nothing

WithoutScope(m) == [x \in DOMAIN m \ {"scope"} |-> m[x]]

(* On a little-endian machine the kernel is told the address and port that *)
(* the text or the numbers name, whichever constructor they went through   *)
(* (ip_address.cpp:12-38, linux.cpp:234-246, 292-308).  The scope is not   *)
(* among it.                                                               *)
KernelIsTold ==
  host = "little" /\ sa # Nothing /\ origin.by \in {"text", "number"} =>
    WithoutScope(Meaning(sa)) = WithoutScope(origin.is)

(* An address that came from the kernel goes back as it was, scope         *)
(* included, on every machine: a reply reaches the sender (linux.cpp:      *)
(* 277-308).                                                               *)
ReplyGoesBack ==
  sa # Nothing /\ origin.by = "kernel" => Meaning(sa) = origin.is

(* Whoever uses an address from resolve_first reaches an address of the    *)
(* host that the predicate accepted, scope included, on every machine,     *)
(* although the list it looks through is not the host's (dns.hpp:20-28,    *)
(* linux.cpp:257-290).                                                     *)
HostIsReached ==
  sa # Nothing /\ origin.by = "resolve_first" => WithoutPort(Meaning(sa)) \in origin.is

=============================================================================
