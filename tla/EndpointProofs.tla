--------------------------- MODULE EndpointProofs ---------------------------
(* Proofs about Endpoints, for bytes of any number of values and hosts     *)
(* with any number of addresses.  All that is needed of the conversions    *)
(* is that a reversal undoes itself; what the kernel will understand is    *)
(* then settled when the endpoint is built.                                *)
EXTENDS Endpoints, SequenceTheorems, TLAPS

-----------------------------------------------------------------------------
(* Byte orders.                                                            *)

(* A number of n bytes is a sequence.                                      *)
LEMMA NumberIsSeq ==
  ASSUME NEW n \in Nat, NEW s \in [1..n -> Byte]
  PROVE  s \in Seq(Byte) /\ Len(s) = n
OBVIOUS

(* Reversing a number of n bytes twice (endian.hpp:16-37).                 *)
LEMMA ReverseTwice ==
  ASSUME NEW n \in Nat, NEW s \in [1..n -> Byte]
  PROVE  Reverse(s) \in [1..n -> Byte] /\ Reverse(Reverse(s)) = s
<1>1. ASSUME NEW t \in [1..n -> Byte]
      PROVE  /\ Reverse(t) \in [1..n -> Byte]
             /\ \A i \in 1..n : Reverse(t)[i] = t[(n - i) + 1]
  <2>1. Len(t) = n
    OBVIOUS
  <2>2. Reverse(t) = [i \in 1..n |-> t[(n - i) + 1]]
    BY <2>1 DEF Reverse
  <2> QED
    BY <2>2
<1>2. Reverse(s) \in [1..n -> Byte]
  BY <1>1
<1>3. Reverse(Reverse(s)) \in [1..n -> Byte]
  BY <1>1, <1>2
<1>4. \A i \in 1..n : Reverse(Reverse(s))[i] = s[i]
  BY <1>1, <1>2
<1> QED
  BY <1>2, <1>3, <1>4

(* The swaps of endian.hpp and the machine's own order keep the bytes and  *)
(* undo themselves (endian.hpp:16-37).                                     *)
LEMMA Swaps ==
  /\ \A s \in Short : Swap(s) \in Short /\ Swap(Swap(s)) = s
  /\ \A s \in Short : Memory(s) \in Short /\ Memory(Memory(s)) = s
  /\ \A s \in Words : SwapCopy(s) \in Words /\ SwapCopy(SwapCopy(s)) = s
BY ReverseTwice DEF Short, Words, Swap, SwapCopy, Memory

(* The memory of an IPv6 address given as words (ip_address.cpp:30-33).    *)
LEMMA WordsInMemory ==
  ASSUME NEW w \in Words
  PROVE  /\ MemoryOfWords(w) \in Words
         /\ <<w[3], w[4], w[1], w[2]>> \in Words
         /\ host = "little" =>
              SwapCopy(MemoryOfWords(w)) = <<w[3], w[4], w[1], w[2]>>
<1>1. \A i \in 1..4 : w[i] \in Byte
  BY DEF Words
<1>2. \A b1, b2, b3, b4 \in Byte : <<b1, b2, b3, b4>> \in Words
  BY DEF Words
<1>3. MemoryOfWords(w) \in Words /\ <<w[3], w[4], w[1], w[2]>> \in Words
  BY <1>1, <1>2 DEF MemoryOfWords
<1>4. Reverse(<<w[2], w[1], w[4], w[3]>>) = <<w[3], w[4], w[1], w[2]>>
  BY DEF Reverse
<1> QED
  BY <1>3, <1>4 DEF MemoryOfWords, SwapCopy

-----------------------------------------------------------------------------
(* Conversions.                                                            *)

KernelAddress ==
  {InKernel(addr, port) : addr \in Short, port \in Short}
    \cup {InKernel6(addr, scope, port) : addr \in Words, scope \in Short, port \in Short}

(* What the kernel would be told if the endpoint were used now.            *)
Told == Meaning(ToKernel(ep))

(* An IPv4 endpoint tells the kernel its numbers in network order          *)
(* (linux.cpp:302-307).                                                    *)
LEMMA TellsV4 ==
  ASSUME NEW addr \in Short, NEW port \in Short
  PROVE  /\ EndpointV4(addr, port) \in Endpoint
         /\ Meaning(ToKernel(EndpointV4(addr, port))) =
              NameV4(Memory(Swap(addr)), Memory(Swap(port)))
BY DEF Endpoint, EndpointV4, ToKernel, Meaning, NameV4

(* An IPv6 endpoint tells it the bytes reversed, and a scope that is right *)
(* when it came out of a sockaddr (linux.cpp:293-301).                     *)
LEMMA TellsV6 ==
  ASSUME NEW bytes \in Words, NEW scope \in Short, NEW port \in Short
  PROVE  /\ EndpointV6(bytes, scope, port) \in Endpoint
         /\ Meaning(ToKernel(EndpointV6(bytes, scope, port))) =
              NameV6(SwapCopy(bytes), Swap(scope), Memory(Swap(port)))
<1>1. Memory(Memory(Swap(scope))) = Swap(scope)
  BY Swaps
<1> QED
  BY <1>1 DEF Endpoint, EndpointV6, ToKernel, Meaning, NameV6

(* A sockaddr that is converted and used again with some port means the    *)
(* same address (linux.cpp:277-308).                                       *)
LEMMA RoundTrip ==
  ASSUME NEW s \in KernelAddress
  PROVE  /\ FromKernel(s) \in Endpoint
         /\ FromKernel(s).family = s.family
         /\ Meaning(ToKernel(FromKernel(s))) = Meaning(s)
         /\ \A port \in Short :
              LET e == [FromKernel(s) EXCEPT !.port = port]
              IN  /\ e \in Endpoint
                  /\ WithoutPort(Meaning(ToKernel(e))) = WithoutPort(Meaning(s))
<1>1. CASE \E addr, port \in Short : s = InKernel(addr, port)
  <2>1. PICK addr \in Short, port \in Short : s = InKernel(addr, port)
    BY <1>1
  <2>2. FromKernel(s) = EndpointV4(Swap(Memory(addr)), Swap(Memory(port)))
    BY <2>1 DEF InKernel, FromKernel
  <2>3. Meaning(s) = NameV4(addr, port)
    BY <2>1 DEF InKernel, Meaning, NameV4
  <2>4. Swap(Memory(addr)) \in Short /\ Memory(Swap(Swap(Memory(addr)))) = addr
    BY Swaps
  <2>5. Swap(Memory(port)) \in Short /\ Memory(Swap(Swap(Memory(port)))) = port
    BY Swaps
  <2>6. FromKernel(s) \in Endpoint /\ Meaning(ToKernel(FromKernel(s))) = Meaning(s)
    BY <2>2, <2>3, <2>4, <2>5, TellsV4
  <2>7. FromKernel(s).family = s.family
    BY <2>1, <2>2 DEF EndpointV4, InKernel
  <2>8. ASSUME NEW q \in Short
        PROVE  LET e == [FromKernel(s) EXCEPT !.port = q]
               IN  /\ e \in Endpoint
                   /\ WithoutPort(Meaning(ToKernel(e))) = WithoutPort(Meaning(s))
    <3>1. [FromKernel(s) EXCEPT !.port = q] = EndpointV4(Swap(Memory(addr)), q)
      BY <2>2 DEF EndpointV4
    <3>2. Meaning(ToKernel(EndpointV4(Swap(Memory(addr)), q))) = NameV4(addr, Memory(Swap(q)))
      BY <2>4, TellsV4
    <3>3. WithoutPort(NameV4(addr, Memory(Swap(q)))) = WithoutPort(NameV4(addr, port))
      BY DEF WithoutPort, NameV4
    <3> QED
      BY <2>3, <2>4, <3>1, <3>2, <3>3, TellsV4
  <2> QED
    BY <2>6, <2>7, <2>8
<1>2. CASE \E addr \in Words, scope, port \in Short : s = InKernel6(addr, scope, port)
  <2>1. PICK addr \in Words, scope \in Short, port \in Short : s = InKernel6(addr, scope, port)
    BY <1>2
  <2>2. FromKernel(s) =
          EndpointV6(SwapCopy(addr), Swap(Memory(Memory(scope))), Swap(Memory(port)))
    BY <2>1 DEF InKernel6, FromKernel
  <2>3. Meaning(s) = NameV6(addr, Memory(Memory(scope)), port)
    BY <2>1 DEF InKernel6, Meaning, NameV6
  <2>4. Memory(Memory(scope)) = scope /\ Swap(scope) \in Short /\ Swap(Swap(scope)) = scope
    BY Swaps
  <2>5. SwapCopy(addr) \in Words /\ SwapCopy(SwapCopy(addr)) = addr
    BY Swaps
  <2>6. Swap(Memory(port)) \in Short /\ Memory(Swap(Swap(Memory(port)))) = port
    BY Swaps
  <2>7. FromKernel(s) \in Endpoint /\ Meaning(ToKernel(FromKernel(s))) = Meaning(s)
    BY <2>2, <2>3, <2>4, <2>5, <2>6, TellsV6
  <2>8. FromKernel(s).family = s.family
    BY <2>1, <2>2 DEF EndpointV6, InKernel6
  <2>9. ASSUME NEW q \in Short
        PROVE  LET e == [FromKernel(s) EXCEPT !.port = q]
               IN  /\ e \in Endpoint
                   /\ WithoutPort(Meaning(ToKernel(e))) = WithoutPort(Meaning(s))
    <3>1. [FromKernel(s) EXCEPT !.port = q] = EndpointV6(SwapCopy(addr), Swap(scope), q)
      BY <2>2, <2>4 DEF EndpointV6
    <3>2. Meaning(ToKernel(EndpointV6(SwapCopy(addr), Swap(scope), q))) =
            NameV6(addr, scope, Memory(Swap(q)))
      BY <2>4, <2>5, TellsV6
    <3>3. WithoutPort(NameV6(addr, scope, Memory(Swap(q)))) =
            WithoutPort(NameV6(addr, scope, port))
      BY DEF WithoutPort, NameV6
    <3> QED
      BY <2>3, <2>4, <2>5, <3>1, <3>2, <3>3, TellsV6
  <2> QED
    BY <2>7, <2>8, <2>9
<1> QED
  BY <1>1, <1>2 DEF KernelAddress

-----------------------------------------------------------------------------
(* The invariant: what the kernel would be told is settled when the        *)
(* endpoint is built, and the sockaddr at hand says it.                    *)

ToldRight ==
  /\ host = "little" /\ origin.by \in {"text", "number"} =>
       WithoutScope(Told) = WithoutScope(origin.is)
  /\ origin.by = "kernel" => Told = origin.is
  /\ origin.by = "resolve_first" => WithoutPort(Told) \in origin.is

EndpointInv ==
  /\ TypeOK
  /\ ep # Nothing => ToldRight
  /\ sa # Nothing => Meaning(sa) = Told

(* A step that keeps the machine and makes e the endpoint.                 *)
LEMMA ToldNext ==
  ASSUME NEW STATE e, ep' = e, host' = host
  PROVE  Told' = Meaning(ToKernel(e))
BY DEF Told, Meaning, ToKernel, Memory

(* No endpoint is Nothing (ip_endpoint.hpp).                               *)
LEMMA EndpointIsSomething ==
  ASSUME NEW e \in Endpoint
  PROVE  e # Nothing
BY DEF Endpoint, EndpointV4, EndpointV6, Nothing

(* A constructor that makes e out of what is named by from, on a machine   *)
(* of the order it is written for (ip_address.cpp:8-42).                   *)
LEMMA BuildsStep ==
  ASSUME NEW STATE e, NEW by, NEW STATE from, Builds(e, by, from),
         TypeOK, e \in Endpoint,
         host = "little" /\ by \in {"text", "number"} =>
           WithoutScope(Meaning(ToKernel(e))) = WithoutScope(from),
         by = "resolve_first" => WithoutPort(Meaning(ToKernel(e))) \in from,
         by # "kernel"
  PROVE  EndpointInv'
<1>1. ep' = e /\ host' = host /\ sa' = Nothing /\ origin' = [by |-> by, is |-> from]
  BY DEF Builds
<1>2. Told' = Meaning(ToKernel(e))
  BY <1>1, ToldNext
<1>3. ToldRight'
  <2>1. /\ host' = "little" /\ origin'.by \in {"text", "number"} =>
             WithoutScope(Meaning(ToKernel(e))) = WithoutScope(from)
        /\ origin'.by = "resolve_first" => WithoutPort(Meaning(ToKernel(e))) \in from
        /\ origin'.by # "kernel" /\ origin'.is = from
    BY <1>1
  <2> QED
    BY <1>2, <2>1 DEF ToldRight, WithoutScope, WithoutPort
<1>4. TypeOK'
  BY <1>1, EndpointIsSomething DEF TypeOK
<1> QED
  BY <1>1, <1>3, <1>4 DEF EndpointInv

(* Only the scope of two IPv6 names may differ (linux.cpp:298).            *)
LEMMA OnlyScopeDiffers ==
  ASSUME NEW addr, NEW s1, NEW s2, NEW port
  PROVE  WithoutScope(NameV6(addr, s1, port)) = WithoutScope(NameV6(addr, s2, port))
BY DEF WithoutScope, NameV6

(* The numbers that a port is made of (ip_endpoint.cpp:22, 32).            *)
LEMMA ToShortTyped == Zero \in Short /\ \A n \in 0..(Base * Base) : ToShort(n) \in Short
<1>1. Base \in Nat /\ Base > 0
  BY EndpointAssumption
<1>2. \A m \in Nat : m % Base \in Byte
  BY <1>1 DEF Byte
<1>3. \A n \in 0..(Base * Base) : n \in Nat /\ n \div Base \in Nat
  BY <1>1
<1>4. \A b1, b2 \in Byte : <<b1, b2>> \in Short
  BY DEF Short
<1>5. 0 \in Byte
  BY <1>1 DEF Byte
<1> QED
  BY <1>2, <1>3, <1>4, <1>5 DEF Zero, ToShort

-----------------------------------------------------------------------------
(* One lemma per way to build an endpoint.                                 *)

(* ip_endpoint.cpp:13-37.                                                  *)
LEMMA FromTextStep == EndpointInv /\ FromText => EndpointInv'
<1> SUFFICES ASSUME EndpointInv, FromText PROVE EndpointInv'
  OBVIOUS
<1>1. ASSUME NEW text \in Short, NEW port \in Short,
             Builds(EndpointV4(ParseV4(text), port), "text", NameV4(text, port))
      PROVE  EndpointInv'
  <2>1. ParseV4(text) \in Short /\ Memory(Swap(ParseV4(text))) = text
    BY Swaps DEF ParseV4
  <2>2. host = "little" => Memory(Swap(port)) = port
    BY Swaps DEF Memory, Swap
  <2>3. EndpointV4(ParseV4(text), port) \in Endpoint
    BY <2>1, TellsV4
  <2>4. host = "little" =>
          Meaning(ToKernel(EndpointV4(ParseV4(text), port))) = NameV4(text, port)
    BY <2>1, <2>2, TellsV4
  <2> QED
    BY <1>1, <2>3, <2>4, BuildsStep DEF EndpointInv
<1>2. ASSUME NEW text \in Words, NEW port \in Short,
             Builds(EndpointV6(ParseV6(text), Zero, port), "text", NameV6(text, Zero, port))
      PROVE  EndpointInv'
  <2>1. ParseV6(text) \in Words /\ SwapCopy(ParseV6(text)) = text
    BY Swaps DEF ParseV6
  <2>2. host = "little" => Memory(Swap(port)) = port
    BY Swaps DEF Memory, Swap
  <2>3. EndpointV6(ParseV6(text), Zero, port) \in Endpoint
    BY <2>1, TellsV6, ToShortTyped
  <2>4. host = "little" =>
          Meaning(ToKernel(EndpointV6(ParseV6(text), Zero, port))) =
            NameV6(text, Swap(Zero), port)
    BY <2>1, <2>2, TellsV6, ToShortTyped
  <2>5. host = "little" =>
          WithoutScope(Meaning(ToKernel(EndpointV6(ParseV6(text), Zero, port)))) =
            WithoutScope(NameV6(text, Zero, port))
    BY <2>4, OnlyScopeDiffers
  <2> QED
    BY <1>2, <2>3, <2>5, BuildsStep DEF EndpointInv
<1> QED
  BY <1>1, <1>2, ToShortTyped DEF FromText

(* ip_address.cpp:8-42.                                                    *)
LEMMA FromNumbersStep == EndpointInv /\ FromNumbers => EndpointInv'
<1> SUFFICES ASSUME EndpointInv, FromNumbers PROVE EndpointInv'
  OBVIOUS
<1>1. ASSUME NEW n \in Short, NEW port \in Short,
             Builds(EndpointV4(n, port), "number", NameV4(n, port))
      PROVE  EndpointInv'
  <2>1. host = "little" => Memory(Swap(port)) = port /\ Memory(Swap(n)) = n
    BY Swaps DEF Memory, Swap
  <2>2. EndpointV4(n, port) \in Endpoint
    BY TellsV4
  <2>3. host = "little" => Meaning(ToKernel(EndpointV4(n, port))) = NameV4(n, port)
    BY <2>1, TellsV4
  <2> QED
    BY <1>1, <2>2, <2>3, BuildsStep DEF EndpointInv
<1>2. ASSUME NEW STATE bytes, NEW STATE words, NEW scope \in Short, NEW given \in Short,
             NEW port \in Short, bytes \in Words,
             host = "little" => SwapCopy(bytes) = words,
             Builds(EndpointV6(bytes, scope, port), "number", NameV6(words, given, port))
      PROVE  EndpointInv'
  <2>1. host = "little" => Memory(Swap(port)) = port
    BY Swaps DEF Memory, Swap
  <2>2. EndpointV6(bytes, scope, port) \in Endpoint
    BY <1>2, TellsV6
  <2>3. host = "little" =>
          Meaning(ToKernel(EndpointV6(bytes, scope, port))) = NameV6(words, Swap(scope), port)
    BY <1>2, <2>1, TellsV6
  <2>4. host = "little" =>
          WithoutScope(Meaning(ToKernel(EndpointV6(bytes, scope, port)))) =
            WithoutScope(NameV6(words, given, port))
    BY <2>3, OnlyScopeDiffers
  <2> QED
    BY <1>2, <2>2, <2>4, BuildsStep DEF EndpointInv
<1>3. \A text \in Words : ParseV6(text) \in Words /\ SwapCopy(ParseV6(text)) = text
  BY Swaps DEF ParseV6
<1>4. Zero \in Short
  BY ToShortTyped
<1>5. ASSUME NEW w \in Words, NEW scope \in Short, NEW port \in Short,
             Builds(EndpointV6(MemoryOfWords(w), scope, port), "number",
                    NameV6(<<w[3], w[4], w[1], w[2]>>, scope, port))
      PROVE  EndpointInv'
  BY <1>2, <1>5, WordsInMemory
<1>6. ASSUME NEW text \in Words, NEW scope \in Short, NEW port \in Short, NEW given \in Short,
             Builds(EndpointV6(ParseV6(text), scope, port), "number",
                    NameV6(text, given, port))
      PROVE  EndpointInv'
  BY <1>2, <1>3, <1>6
<1> QED
  BY <1>1, <1>4, <1>5, <1>6 DEF FromNumbers

(* linux.cpp:248-255, 277-290.                                             *)
LEMMA KernelFillsStep == EndpointInv /\ KernelFills => EndpointInv'
<1> SUFFICES ASSUME EndpointInv, KernelFills PROVE EndpointInv'
  OBVIOUS
<1>1. PICK s \in KernelAddress : sa' = s
  BY DEF KernelFills, KernelAddress
<1>2. ep' = FromKernel(s) /\ host' = host /\ origin' = [by |-> "kernel", is |-> Meaning(s)]
  BY <1>1 DEF KernelFills
<1>3. Told' = Meaning(s)
  <2>1. Told' = Meaning(ToKernel(FromKernel(s)))
    BY <1>2, ToldNext
  <2> QED
    BY <2>1, RoundTrip
<1>4. Meaning(sa)' = Meaning(s)
  BY <1>1, <1>2 DEF Meaning, Memory
<1>5. FromKernel(s) \in Endpoint /\ FromKernel(s) # Nothing
  BY RoundTrip, EndpointIsSomething
<1>6. TypeOK'
  BY <1>1, <1>2, <1>5 DEF EndpointInv, TypeOK
<1>7. ToldRight'
  BY <1>2, <1>3 DEF ToldRight
<1> QED
  BY <1>3, <1>4, <1>6, <1>7 DEF EndpointInv

(* Every entry of resolve_hosts' list is the first of the chain, so that   *)
(* the search finds that one or none (dns.hpp:20-28, linux.cpp:257-275).   *)
LEMMA FirstOrNone ==
  ASSUME NEW chain \in SeqOf(HostAddress, MaxHosts), NEW families,
         ResolveFirst(chain, families) # Nothing
  PROVE  /\ 1 \in DOMAIN chain /\ chain[1] \in KernelAddress
         /\ ResolveFirst(chain, families) = FromKernel(chain[1])
         /\ chain[1].family \in families
<1> DEFINE Converted(i) == FromKernel(ResolveHosts(chain)[i])
           accepted == {i \in DOMAIN chain : Converted(i).family \in families}
<1>1. PICK n \in 0..MaxHosts : chain \in [1..n -> HostAddress]
  BY DEF SeqOf
<1>2. n \in Nat /\ DOMAIN chain = 1..n
  BY <1>1, EndpointAssumption
<1>3. \A i \in 1..n : Converted(i) = FromKernel(chain[1])
  BY <1>2 DEF ResolveHosts
<1>4. accepted # {}
  BY DEF ResolveFirst
<1>5. PICK j \in 1..n : Converted(j).family \in families
  BY <1>2, <1>4
<1>6. 1 \in 1..n /\ FromKernel(chain[1]).family \in families
  BY <1>2, <1>3, <1>5
<1>7. 1 \in accepted /\ \A k \in accepted : 1 <= k
  BY <1>2, <1>3, <1>6
<1> DEFINE first == CHOOSE i \in accepted : \A k \in accepted : i <= k
<1>8. first \in accepted
  BY <1>7
<1>9. ResolveFirst(chain, families) = Converted(first)
  BY <1>4 DEF ResolveFirst
<1>10. chain[1] \in KernelAddress
  <2>1. Zero \in Short
    BY ToShortTyped
  <2>2. HostAddress \subseteq KernelAddress
    BY <2>1 DEF HostAddress, KernelAddress
  <2> QED
    BY <1>1, <1>6, <2>2
<1>11. chain[1].family \in families
  BY <1>6, <1>10, RoundTrip
<1> QED
  BY <1>2, <1>3, <1>6, <1>8, <1>9, <1>10, <1>11

(* dns.hpp:20-28.                                                          *)
LEMMA FromHostStep == EndpointInv /\ FromHost => EndpointInv'
<1> SUFFICES ASSUME EndpointInv, FromHost PROVE EndpointInv'
  OBVIOUS
<1>1. PICK chain \in SeqOf(HostAddress, MaxHosts), families \in SUBSET {"inet", "inet6"},
           port \in Short :
        /\ ResolveFirst(chain, families) # Nothing
        /\ Builds([ResolveFirst(chain, families) EXCEPT !.port = port], "resolve_first",
                  {WithoutPort(Meaning(chain[i])) :
                     i \in {j \in DOMAIN chain : chain[j].family \in families}})
  BY DEF FromHost
<1> DEFINE e == [FromKernel(chain[1]) EXCEPT !.port = port]
           known == {WithoutPort(Meaning(chain[i])) :
                       i \in {j \in DOMAIN chain : chain[j].family \in families}}
<1>2. 1 \in DOMAIN chain /\ chain[1] \in KernelAddress /\ chain[1].family \in families
  BY <1>1, FirstOrNone
<1>3. Builds(e, "resolve_first", known)
  BY <1>1, FirstOrNone
<1>4. e \in Endpoint /\ WithoutPort(Meaning(ToKernel(e))) = WithoutPort(Meaning(chain[1]))
  BY <1>2, RoundTrip
<1>5. WithoutPort(Meaning(ToKernel(e))) \in known
  BY <1>2, <1>4
<1> QED
  BY <1>3, <1>4, <1>5, BuildsStep DEF EndpointInv

(* dns.hpp:9-17.                                                           *)
LEMMA FromResolveStep == EndpointInv /\ FromResolve => EndpointInv'
<1> SUFFICES ASSUME EndpointInv, FromResolve PROVE EndpointInv'
  OBVIOUS
<1>1. PICK chain \in SeqOf(HostAddress, 1), port \in Short :
        \E i \in DOMAIN Resolve(chain) :
          Builds([Resolve(chain)[i] EXCEPT !.port = port], "resolve", {})
  BY DEF FromResolve
<1>2. PICK i \in DOMAIN Resolve(chain) :
        Builds([Resolve(chain)[i] EXCEPT !.port = port], "resolve", {})
  BY <1>1
<1>3. [Resolve(chain)[i] EXCEPT !.port = port] = EndpointV4(Zero, port)
  BY <1>2 DEF Resolve, EndpointV4
<1>4. EndpointV4(Zero, port) \in Endpoint
  BY ToShortTyped, TellsV4
<1> QED
  BY <1>2, <1>3, <1>4, BuildsStep DEF EndpointInv

(* ip_endpoint.cpp:48-50.                                                  *)
LEMMA UseStep == EndpointInv /\ Use => EndpointInv'
<1> SUFFICES ASSUME EndpointInv, Use PROVE EndpointInv'
  OBVIOUS
<1>1. ep # Nothing /\ sa' = ToKernel(ep) /\ UNCHANGED <<host, ep, origin>>
  BY DEF Use
<1>2. Told' = Told
  BY <1>1, ToldNext DEF Told
<1>3. Meaning(sa)' = Told
  BY <1>1 DEF Told, Meaning, Memory
<1>4. ToldRight'
  <2>1. ToldRight
    BY <1>1 DEF EndpointInv
  <2> QED
    BY <1>1, <1>2, <2>1 DEF ToldRight, WithoutScope, WithoutPort
<1>5. TypeOK'
  BY <1>1 DEF EndpointInv, TypeOK
<1> QED
  BY <1>2, <1>3, <1>4, <1>5 DEF EndpointInv

-----------------------------------------------------------------------------
(* The theorems, for bytes and hosts of any size.                          *)

(* Every constructor and every use keep the invariant (ip_endpoint.cpp).   *)
LEMMA EndpointInvariant == Spec => []EndpointInv
<1>1. Init => EndpointInv
  BY DEF Init, EndpointInv, TypeOK
<1>2. EndpointInv /\ [Next]_vars => EndpointInv'
  <2> SUFFICES ASSUME EndpointInv, [Next]_vars PROVE EndpointInv'
    OBVIOUS
  <2>1. CASE Drop
    BY <2>1 DEF Drop, EndpointInv, TypeOK
  <2>2. CASE UNCHANGED vars
    BY <2>2 DEF vars, EndpointInv, TypeOK, ToldRight, Told, WithoutScope, WithoutPort,
                Meaning, ToKernel, Memory
  <2> QED
    BY <2>1, <2>2, FromTextStep, FromNumbersStep, KernelFillsStep, FromHostStep,
       FromResolveStep, UseStep DEF Next
<1> QED
  BY <1>1, <1>2, PTL DEF Spec

(* A port that came as an int is an unsigned short, too                    *)
(* (ip_endpoint.cpp:22, 32).                                               *)
THEOREM EndpointTyped == Spec => []TypeOK
<1>1. EndpointInv => TypeOK
  BY DEF EndpointInv
<1> QED
  BY EndpointInvariant, <1>1, PTL

(* The address and port that were written are the ones the kernel is told, *)
(* on a little-endian machine (ip_address.cpp:12-38, linux.cpp:234-308).   *)
THEOREM EndpointKernelIsTold == Spec => []KernelIsTold
<1>1. EndpointInv => KernelIsTold
  BY DEF EndpointInv, TypeOK, ToldRight, KernelIsTold
<1> QED
  BY EndpointInvariant, <1>1, PTL

(* A reply reaches the sender, on every machine (linux.cpp:277-308).       *)
THEOREM EndpointReplyGoesBack == Spec => []ReplyGoesBack
<1>1. EndpointInv => ReplyGoesBack
  BY DEF EndpointInv, TypeOK, ToldRight, ReplyGoesBack
<1> QED
  BY EndpointInvariant, <1>1, PTL

(* What resolve_first yields is an address of the host (dns.hpp:20-28).    *)
THEOREM EndpointHostIsReached == Spec => []HostIsReached
<1>1. EndpointInv => HostIsReached
  BY DEF EndpointInv, TypeOK, ToldRight, HostIsReached
<1> QED
  BY EndpointInvariant, <1>1, PTL

=============================================================================
