------------------------ MODULE SocketAddressProofs ------------------------
(* Proofs about SocketAddress, for every set of objects and heap blocks    *)
(* and every bound on sizes: AddressInv is inductive, and the safety       *)
(* properties of socket_address follow from it.                            *)
EXTENDS SocketAddress, TLAPS

(* 0 is a size, and sizes are ordered.                                     *)
LEMMA ZeroIsSize == 0 \in Sizes
BY AddressAssumption DEF Sizes

LEMMA NullIsNoBlock == Null \notin Blocks
BY AddressAssumption

LEMMA SizeOrder ==
  /\ \A n \in Sizes : n <= n /\ (n <= 0 => n = 0)
  /\ \A m, n, k \in Sizes : m <= n /\ n <= k => m <= k
BY AddressAssumption DEF Sizes

(* One step of any operation keeps the types.                              *)
LEMMA TypeStep == TypeOK /\ [Next]_vars => TypeOK'
<1> SUFFICES ASSUME TypeOK, [Next]_vars PROVE TypeOK'
  OBVIOUS
<1> USE ZeroIsSize DEF TypeOK
<1>1. ASSUME NEW a \in Addrs, Default(a) \/ Destroy(a) PROVE TypeOK'
  BY <1>1 DEF Default, Destroy, Construct
<1>2. ASSUME NEW a \in Addrs, NEW n \in Sizes, Sized(a, n) \/ WithFamily(a, n)
      PROVE TypeOK'
  BY <1>2 DEF Sized, WithFamily, Construct, Allocated
<1>3. ASSUME NEW a \in Addrs, NEW n \in Sizes, Grow(a, n) \/ Shrink(a, n)
      PROVE TypeOK'
  <2>1. CASE Grow(a, n)
    BY <2>1 DEF Grow, Deleted, BadRead, BadDelete, Faults
  <2>2. CASE Shrink(a, n)
    BY <2>2 DEF Shrink
  <2> QED
    BY <1>3, <2>1, <2>2
<1>4. ASSUME NEW a \in Addrs, NEW s \in Addrs, CopyConstruct(a, s)
      PROVE TypeOK'
  BY <1>4 DEF CopyConstruct, Construct, Allocated, BadRead, Faults
<1>5. ASSUME NEW a \in Addrs, NEW s \in Addrs,
             MoveConstruct(a, s) \/ MoveAssign(a, s)
      PROVE TypeOK'
  BY <1>5 DEF MoveConstruct, MoveAssign, Deleted, BadDelete, Faults
<1>6. ASSUME NEW a \in Addrs, NEW s \in Addrs,
             CopyAssign(a, s) \/ CopyAssignThrows(a, s)
      PROVE TypeOK'
  <2>1. CASE CopyAssign(a, s)
    BY <2>1 DEF CopyAssign, Allocated, Deleted, BadRead, BadDelete, Faults
  <2>2. CASE CopyAssignThrows(a, s)
    BY <2>2 DEF CopyAssignThrows, Deleted, BadDelete, Faults, object
  <2> QED
    BY <1>6, <2>1, <2>2
<1>7. CASE UNCHANGED vars
  BY <1>7 DEF vars, object
<1> QED
  BY <1>1, <1>2, <1>3, <1>4, <1>5, <1>6, <1>7 DEF Next

(* The constructors that allocate nothing, and the end of an object's life  *)
(* (socket_address.cpp:7-9, 26-29).                                        *)
LEMMA PlainStep ==
  ASSUME NEW a \in Addrs, NEW s \in Addrs, AddressInv, TypeOK',
         Default(a) \/ MoveConstruct(a, s) \/ Destroy(a)
  PROVE  AddressInv'
<1> USE NullIsNoBlock, ZeroIsSize DEF AddressInv, TypeOK,
        Default, MoveConstruct, Destroy, Construct
<1>1. DeadIsBlank'
  BY DEF DeadIsBlank
<1>2. InBounds'
  BY SizeOrder DEF DeadIsBlank, InBounds, Exclusive
<1>3. Exclusive'
  BY DEF DeadIsBlank, InBounds, Exclusive
<1>4. LeakedIsNobodys'
  BY DEF DeadIsBlank, InBounds, Exclusive, LeakedIsNobodys
<1>5. LeakOnlyAtEnd'
  BY DEF DeadIsBlank, Exclusive, LeakOnlyAtEnd
<1>6. NoFault'
  BY DEF DeadIsBlank, InBounds, NoFault
<1> QED
  BY <1>1, <1>2, <1>3, <1>4, <1>5, <1>6

(* The constructors that allocate (11-24).                                 *)
LEMMA AllocatingStep ==
  ASSUME NEW a \in Addrs, NEW s \in Addrs, NEW n \in Sizes, AddressInv, TypeOK',
         Sized(a, n) \/ WithFamily(a, n) \/ CopyConstruct(a, s)
  PROVE  AddressInv'
<1> USE NullIsNoBlock, ZeroIsSize DEF AddressInv, TypeOK,
        Sized, WithFamily, CopyConstruct, Construct, Allocated, BadRead
<1>1. DeadIsBlank'
  BY DEF DeadIsBlank
<1>2. InBounds'
  BY SizeOrder DEF DeadIsBlank, InBounds, Exclusive
<1>3. Exclusive'
  BY DEF DeadIsBlank, InBounds, Exclusive
<1>4. LeakedIsNobodys'
  BY DEF DeadIsBlank, InBounds, Exclusive, LeakedIsNobodys
<1>5. LeakOnlyAtEnd'
  BY DEF DeadIsBlank, Exclusive, LeakOnlyAtEnd
<1>6. NoFault'
  BY DEF DeadIsBlank, InBounds, NoFault
<1> QED
  BY <1>1, <1>2, <1>3, <1>4, <1>5, <1>6

(* Copy assignment, with memory and without (31-39).                       *)
LEMMA CopyAssignStep ==
  ASSUME NEW a \in Addrs, NEW s \in Addrs, AddressInv, TypeOK',
         CopyAssign(a, s) \/ CopyAssignThrows(a, s)
  PROVE  AddressInv'
<1> USE NullIsNoBlock, ZeroIsSize DEF AddressInv, TypeOK,
        CopyAssign, CopyAssignThrows, Allocated, Deleted, BadRead,
        BadDelete, object
<1>1. DeadIsBlank'
  BY DEF DeadIsBlank
<1>2. InBounds'
  BY SizeOrder DEF DeadIsBlank, InBounds, Exclusive
<1>3. Exclusive'
  BY DEF DeadIsBlank, InBounds, Exclusive
<1>4. LeakedIsNobodys'
  BY DEF DeadIsBlank, InBounds, Exclusive, LeakedIsNobodys
<1>5. LeakOnlyAtEnd'
  BY DEF DeadIsBlank, Exclusive, LeakOnlyAtEnd
<1>6. NoFault'
  BY DEF DeadIsBlank, InBounds, NoFault
<1> QED
  BY <1>1, <1>2, <1>3, <1>4, <1>5, <1>6

(* Move assignment (41-48).                                                *)
LEMMA MoveAssignStep ==
  ASSUME NEW a \in Addrs, NEW s \in Addrs, AddressInv, TypeOK',
         MoveAssign(a, s)
  PROVE  AddressInv'
<1> USE NullIsNoBlock, ZeroIsSize DEF AddressInv, TypeOK,
        MoveAssign, Deleted, BadDelete
<1>1. DeadIsBlank'
  BY DEF DeadIsBlank
<1>2. InBounds'
  BY SizeOrder DEF DeadIsBlank, InBounds, Exclusive
<1>3. Exclusive'
  BY DEF DeadIsBlank, InBounds, Exclusive
<1>4. LeakedIsNobodys'
  BY DEF DeadIsBlank, InBounds, Exclusive, LeakedIsNobodys
<1>5. LeakOnlyAtEnd'
  BY DEF DeadIsBlank, Exclusive, LeakOnlyAtEnd
<1>6. NoFault'
  BY DEF DeadIsBlank, InBounds, NoFault
<1> QED
  BY <1>1, <1>2, <1>3, <1>4, <1>5, <1>6

(* resize (62-70).                                                         *)
LEMMA ResizeStep ==
  ASSUME NEW a \in Addrs, NEW n \in Sizes, AddressInv, TypeOK',
         Grow(a, n) \/ Shrink(a, n)
  PROVE  AddressInv'
<1> USE NullIsNoBlock, ZeroIsSize DEF AddressInv, TypeOK,
        Grow, Shrink, Deleted, BadRead, BadDelete
<1>1. DeadIsBlank'
  BY DEF DeadIsBlank
<1>2. InBounds'
  <2>1. CASE Grow(a, n)
    <3> SUFFICES ASSUME ~badAlloc, NEW c \in live
                 PROVE  \/ ptr'[c] = Null /\ size'[c] = 0
                        \/ ptr'[c] \in heap' /\ size'[c] <= cap'[ptr'[c]]
      BY <2>1 DEF InBounds
    <3>1. PICK b \in Blocks \ heap :
            /\ ptr' = [ptr EXCEPT ![a] = b]
            /\ heap' = (heap \cup {b}) \ {ptr[a]}
            /\ cap' = [cap EXCEPT ![b] = n]
      BY <2>1
    <3>2. size' = [size EXCEPT ![a] = n] /\ a \in live
      BY <2>1
    <3>3. ptr[a] \in heap \cup {Null}
      BY <3>2 DEF InBounds
    <3>4. CASE c = a
      BY <3>1, <3>2, <3>3, <3>4, SizeOrder
    <3>5. CASE c # a
      BY <3>1, <3>2, <3>5 DEF InBounds, Exclusive
    <3> QED
      BY <3>4, <3>5
  <2>2. CASE Shrink(a, n)
    BY <2>2, SizeOrder DEF InBounds
  <2> QED
    BY <2>1, <2>2
<1>3. Exclusive'
  BY DEF DeadIsBlank, InBounds, Exclusive
<1>4. LeakedIsNobodys'
  BY DEF DeadIsBlank, InBounds, Exclusive, LeakedIsNobodys
<1>5. LeakOnlyAtEnd'
  BY DEF DeadIsBlank, Exclusive, LeakOnlyAtEnd
<1>6. NoFault'
  BY DEF DeadIsBlank, InBounds, NoFault
<1> QED
  BY <1>1, <1>2, <1>3, <1>4, <1>5, <1>6

-----------------------------------------------------------------------------
(* No step breaks the invariant.                                           *)
LEMMA AddressInvStep == AddressInv /\ [Next]_vars => AddressInv'
<1> SUFFICES ASSUME AddressInv, [Next]_vars PROVE AddressInv'
  OBVIOUS
<1>t. TypeOK'
  BY TypeStep DEF AddressInv
<1>1. ASSUME NEW a \in Addrs, Default(a) \/ Destroy(a) PROVE AddressInv'
  BY <1>1, <1>t, PlainStep
<1>2. ASSUME NEW a \in Addrs, NEW n \in Sizes,
             Sized(a, n) \/ WithFamily(a, n) \/ Grow(a, n) \/ Shrink(a, n)
      PROVE AddressInv'
  BY <1>2, <1>t, AllocatingStep, ResizeStep
<1>3. ASSUME NEW a \in Addrs, NEW s \in Addrs, CopyConstruct(a, s)
      PROVE AddressInv'
  BY <1>3, <1>t, ZeroIsSize, AllocatingStep
<1>4. ASSUME NEW a \in Addrs, NEW s \in Addrs,
             \/ MoveConstruct(a, s) \/ MoveAssign(a, s)
             \/ CopyAssign(a, s) \/ CopyAssignThrows(a, s)
      PROVE AddressInv'
  BY <1>4, <1>t, PlainStep, MoveAssignStep, CopyAssignStep
<1>5. CASE UNCHANGED vars
  BY <1>5, <1>t DEF vars, object, AddressInv, DeadIsBlank, InBounds, Exclusive,
     LeakedIsNobodys, LeakOnlyAtEnd, NoFault
<1> QED
  BY <1>1, <1>2, <1>3, <1>4, <1>5 DEF Next

(* The invariant of the ownership of heap blocks holds in every reachable  *)
(* state of any program that uses socket_address.                          *)
THEOREM AddressInvariant == Spec => []AddressInv
<1>1. Init => AddressInv
  BY AddressAssumption, ZeroIsSize DEF Init, AddressInv, TypeOK, Faults, DeadIsBlank,
     InBounds, Exclusive, LeakedIsNobodys, LeakOnlyAtEnd, NoFault
<1> QED
  BY <1>1, AddressInvStep, PTL DEF Spec

(* The state variables keep their types.                                   *)
THEOREM AddressTyped == Spec => []TypeOK
<1>1. AddressInv => TypeOK
  BY DEF AddressInv
<1> QED
  BY <1>1, AddressInvariant, PTL

(* data() points to at least size() bytes of the object's own, until a     *)
(* copy assignment runs out of memory (socket_address.cpp:31-39).          *)
THEOREM AddressInBounds == Spec => []InBounds
<1>1. AddressInv => InBounds
  BY DEF AddressInv
<1> QED
  BY <1>1, AddressInvariant, PTL

(* Two objects never have one block, under the same condition.             *)
THEOREM AddressExclusive == Spec => []Exclusive
<1>1. AddressInv => Exclusive
  BY DEF AddressInv
<1> QED
  BY <1>1, AddressInvariant, PTL

(* A block is lost only when its object ends (there is no destructor).     *)
THEOREM AddressLeakOnlyAtEnd == Spec => []LeakOnlyAtEnd
<1>1. AddressInv => LeakOnlyAtEnd
  BY DEF AddressInv
<1> QED
  BY <1>1, AddressInvariant, PTL

(* No block is deleted twice and nothing outside a block is read, under    *)
(* the same condition.                                                     *)
THEOREM AddressNoFault == Spec => []NoFault
<1>1. AddressInv => NoFault
  BY DEF AddressInv
<1> QED
  BY <1>1, AddressInvariant, PTL

=============================================================================
