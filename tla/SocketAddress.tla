--------------------------- MODULE SocketAddress ---------------------------
(***************************************************************************)
(* The class netsock::socket_address (src/socket_address.cpp): a buffer on *)
(* the heap, kept as a pointer and a size, with copy and move operations   *)
(* written by hand and no destructor.                                      *)
(*                                                                         *)
(* The heap is external: an allocation takes any block that is free, so a  *)
(* block that was deleted can come back, or fails with bad_alloc.  What    *)
(* the bytes say is not modelled, only how many there are.                 *)
(***************************************************************************)
EXTENDS Naturals

CONSTANTS
  Addrs,      \* storage for socket_address objects
  Blocks,     \* addresses of heap blocks
  Null,       \* nullptr
  FamilySize, \* sizeof(address_family)
  MaxSize     \* bound: the largest size asked for

ASSUME AddressAssumption ==
  /\ Null \notin Blocks
  /\ FamilySize \in Nat /\ MaxSize \in Nat

VARIABLES
  live,     \* objects whose lifetime has begun and not ended
  ptr,      \* socket_address::_ptr
  size,     \* socket_address::_size
  heap,     \* allocated blocks
  cap,      \* their sizes
  leaked,   \* history: blocks of objects that were destroyed
  badAlloc, \* history: a copy assignment failed after it deleted the block
  fault     \* history: what was done to memory that is not the object's

object == <<live, ptr, size>>
vars   == <<object, heap, cap, leaked, badAlloc, fault>>

Sizes  == 0..MaxSize
Faults == {"doubleDelete", "readOutside"}

Init ==
  /\ live = {}
  /\ ptr = [a \in Addrs |-> Null]
  /\ size = [a \in Addrs |-> 0]
  /\ heap = {}
  /\ cap = [b \in Blocks |-> 0]
  /\ leaked = {}
  /\ badAlloc = FALSE
  /\ fault = {}

-----------------------------------------------------------------------------
(* new char[n] gave b, on a heap that was h before.                        *)
Allocated(h, b, n) ==
  /\ b \notin h
  /\ heap' = h \cup {b}
  /\ cap' = [cap EXCEPT ![b] = n]
  /\ leaked' = leaked \ {b}

(* delete[] p.                                                             *)
Deleted(h, p) == h \ {p}
BadDelete(p) == IF p # Null /\ p \notin heap THEN {"doubleDelete"} ELSE {}

(* copy_n reads the first size[a] bytes of a.                              *)
BadRead(a) ==
  IF size[a] = 0 \/ (ptr[a] \in heap /\ size[a] <= cap[ptr[a]])
  THEN {} ELSE {"readOutside"}

Construct(a, p, n) ==
  /\ a \notin live
  /\ live' = live \cup {a}
  /\ ptr' = [ptr EXCEPT ![a] = p]
  /\ size' = [size EXCEPT ![a] = n]

-----------------------------------------------------------------------------
(* Constructors.  One that throws (bad_alloc, a size too small for the     *)
(* family) leaves nothing behind.                                          *)

Default(a) ==
  /\ Construct(a, Null, 0)
  /\ UNCHANGED <<heap, cap, leaked, badAlloc, fault>>

Sized(a, n) ==
  /\ \E b \in Blocks : Construct(a, b, n) /\ Allocated(heap, b, n)
  /\ UNCHANGED <<badAlloc, fault>>

WithFamily(a, n) ==
  /\ n >= FamilySize
  /\ \E b \in Blocks : Construct(a, b, n) /\ Allocated(heap, b, n)
  /\ UNCHANGED <<badAlloc, fault>>

CopyConstruct(a, s) ==
  /\ s \in live
  /\ \E b \in Blocks : Construct(a, b, size[s]) /\ Allocated(heap, b, size[s])
  /\ fault' = fault \cup BadRead(s)
  /\ UNCHANGED badAlloc

(* Mutant: the source of a move keeps its pointer.                         *)
MoveConstructShares(a, s) ==
  /\ s \in live /\ a \notin live
  /\ live' = live \cup {a}
  /\ ptr' = [ptr EXCEPT ![a] = ptr[s]]
  /\ size' = [size EXCEPT ![a] = size[s]]
  /\ UNCHANGED <<heap, cap, leaked, badAlloc, fault>>

MoveConstruct(a, s) ==
  /\ s \in live /\ a \notin live
  /\ live' = live \cup {a}
  /\ ptr' = [ptr EXCEPT ![a] = ptr[s], ![s] = Null]
  /\ size' = [size EXCEPT ![a] = size[s], ![s] = 0]
  /\ UNCHANGED <<heap, cap, leaked, badAlloc, fault>>

-----------------------------------------------------------------------------
(* Assignments and resize.                                                 *)

CopyAssign(a, s) ==
  /\ a \in live /\ s \in live /\ a # s
  /\ \E b \in Blocks :
       /\ ptr' = [ptr EXCEPT ![a] = b]
       /\ Allocated(Deleted(heap, ptr[a]), b, size[s])
  /\ size' = [size EXCEPT ![a] = size[s]]
  /\ fault' = fault \cup BadDelete(ptr[a]) \cup BadRead(s)
  /\ UNCHANGED <<live, badAlloc>>

(* The block is deleted before the new one is asked for, and the pointer   *)
(* to it stays when there is none.                                         *)
CopyAssignThrows(a, s) ==
  /\ a \in live /\ s \in live /\ a # s
  /\ heap' = Deleted(heap, ptr[a])
  /\ fault' = fault \cup BadDelete(ptr[a])
  /\ badAlloc' = TRUE
  /\ UNCHANGED <<object, cap, leaked>>

(* Mutant: move assignment does not delete the block it had.               *)
MoveAssignForgets(a, s) ==
  /\ a \in live /\ s \in live
  /\ ptr' = [ptr EXCEPT ![a] = ptr[s], ![s] = Null]
  /\ size' = [size EXCEPT ![a] = size[s], ![s] = 0]
  /\ UNCHANGED <<live, heap, cap, leaked, badAlloc, fault>>

(* Assigned to itself an object takes the pointer it just deleted and then *)
(* sets it to null.                                                        *)
MoveAssign(a, s) ==
  /\ a \in live /\ s \in live
  /\ heap' = Deleted(heap, ptr[a])
  /\ fault' = fault \cup BadDelete(ptr[a])
  /\ ptr' = [ptr EXCEPT ![a] = ptr[s], ![s] = Null]
  /\ size' = [size EXCEPT ![a] = size[s], ![s] = 0]
  /\ UNCHANGED <<live, cap, leaked, badAlloc>>

(* Mutant: resize only notes the new size.                                 *)
GrowInPlace(a, n) ==
  /\ a \in live
  /\ size[a] < n
  /\ size' = [size EXCEPT ![a] = n]
  /\ UNCHANGED <<live, ptr, heap, cap, leaked, badAlloc, fault>>

(* Mutant: resize adds to the size.                                        *)
GrowAdds(a, n) ==
  /\ a \in live
  /\ size[a] < n
  /\ size' = [size EXCEPT ![a] = @ + n]
  /\ UNCHANGED <<live, ptr, heap, cap, leaked, badAlloc, fault>>

(* resize to more than there is: the new block is taken before the old one *)
(* is deleted.                                                             *)
Grow(a, n) ==
  /\ a \in live
  /\ size[a] < n
  /\ \E b \in Blocks \ heap :
       /\ ptr' = [ptr EXCEPT ![a] = b]
       /\ heap' = Deleted(heap \cup {b}, ptr[a])
       /\ cap' = [cap EXCEPT ![b] = n]
       /\ leaked' = leaked \ {b}
  /\ fault' = fault \cup BadRead(a) \cup BadDelete(ptr[a])
  /\ size' = [size EXCEPT ![a] = n]
  /\ UNCHANGED <<live, badAlloc>>

Shrink(a, n) ==
  /\ a \in live
  /\ n <= size[a]
  /\ size' = [size EXCEPT ![a] = n]
  /\ UNCHANGED <<live, ptr, heap, cap, leaked, badAlloc, fault>>

(* There is no destructor, so the block stays.                             *)
Destroy(a) ==
  /\ a \in live
  /\ live' = live \ {a}
  /\ leaked' = leaked \cup ({ptr[a]} \cap heap)
  /\ ptr' = [ptr EXCEPT ![a] = Null]
  /\ size' = [size EXCEPT ![a] = 0]
  /\ UNCHANGED <<heap, cap, badAlloc, fault>>

-----------------------------------------------------------------------------
Next ==
  \E a \in Addrs :
    \/ Default(a) \/ Destroy(a)
    \/ \E n \in Sizes :
         Sized(a, n) \/ WithFamily(a, n) \/ Grow(a, n) \/ Shrink(a, n)
    \/ \E s \in Addrs :
         \/ CopyConstruct(a, s) \/ MoveConstruct(a, s)
         \/ CopyAssign(a, s) \/ CopyAssignThrows(a, s) \/ MoveAssign(a, s)

Spec == Init /\ [][Next]_vars

-----------------------------------------------------------------------------
(* Every variable has its type.                                            *)
TypeOK ==
  /\ live \subseteq Addrs
  /\ ptr \in [Addrs -> Blocks \cup {Null}]
  /\ size \in [Addrs -> Sizes]
  /\ heap \subseteq Blocks
  /\ cap \in [Blocks -> Sizes]
  /\ leaked \subseteq Blocks
  /\ badAlloc \in BOOLEAN
  /\ fault \subseteq Faults

(* data() points to at least size() bytes of the object's own, however the *)
(* object was copied, moved and resized (11-70), until a copy assignment   *)
(* runs out of memory.                                                     *)
InBounds ==
  ~badAlloc =>
    \A a \in live :
      \/ ptr[a] = Null /\ size[a] = 0
      \/ ptr[a] \in heap /\ size[a] <= cap[ptr[a]]

(* No two objects have one block, under the same condition.                *)
Exclusive ==
  ~badAlloc =>
    \A a, b \in live : ptr[a] = ptr[b] /\ ptr[a] # Null => a = b

(* Copies, moves and resizes never lose a block: only the end of an        *)
(* object's life does, there being no destructor.                          *)
LeakOnlyAtEnd == heap \subseteq {ptr[a] : a \in live} \cup leaked

(* No block is deleted twice and nothing outside a block is read (23, 34,  *)
(* 37, 42, 65-66), under the same condition.                               *)
NoFault == ~badAlloc => fault = {}

-----------------------------------------------------------------------------
(* The inductive invariant behind them.                                    *)

DeadIsBlank == \A a \in Addrs \ live : ptr[a] = Null

LeakedIsNobodys ==
  ~badAlloc => \A a \in live : ptr[a] \notin leaked

AddressInv ==
  /\ TypeOK
  /\ DeadIsBlank
  /\ InBounds
  /\ Exclusive
  /\ LeakedIsNobodys
  /\ LeakOnlyAtEnd
  /\ NoFault

=============================================================================
