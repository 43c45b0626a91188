------------------------------ MODULE PollList ------------------------------
(***************************************************************************)
(* netsock::poll_list (src/poll_list.cpp) and the poll it runs (src/impl/  *)
(* linux.cpp, windows.cpp).  A list keeps raw pointers to objects and      *)
(* finds its entries by comparing descriptor numbers, while their owners   *)
(* close, move and destroy the objects, also on other threads while the    *)
(* kernel polls.  One thread uses the list.                                *)
(***************************************************************************)
EXTENDS Poll, Sequences, SequencesExt, FiniteSetsExt

CONSTANT MaxEntries \* bound: the longest list

ASSUME PollListAssumption == MaxEntries \in Nat

VARIABLES
  entries, \* poll_list::_entries
  listed,  \* entries the program has of each object: pushed and not removed
  asked,   \* the numbers given to the ::poll in progress, if there is one
  count,   \* what the last poll() returned
  fresh,   \* nothing was removed since
  careful, \* history: every object had its own kernel socket while listed
  wild     \* history: an entry's object was looked at that did not exist

list     == <<entries, listed, asked, count, fresh>>
listVars == <<vars, backend, list, careful, wild>>

ListInit ==
  /\ Init
  /\ backend \in {"linux", "windows"}
  /\ entries = <<>> /\ listed = [o \in Objs |-> 0]
  /\ asked = <<>> /\ count = 0 /\ fresh = FALSE
  /\ careful = TRUE /\ wild = FALSE

-----------------------------------------------------------------------------
Entry(o, events) == [socket |-> o, events |-> events, result |-> {}]

Push(o, events) ==
  /\ asked = <<>> /\ Len(entries) < MaxEntries
  /\ o \in live
  /\ entries' = Append(entries, Entry(o, events))
  /\ listed' = [listed EXCEPT ![o] = @ + 1]
  /\ UNCHANGED <<vars, asked, count, fresh, wild>>

(* The entries that compare equal with o, and those that find_if looks at  *)
(* until it stops.                                                         *)
Matches(o) == {i \in DOMAIN entries : handle[entries[i].socket] = handle[o]}
LookedAt(o) ==
  IF Matches(o) = {} THEN DOMAIN entries ELSE 1..Min(Matches(o))

Exist(is) == \A i \in is : entries[i].socket \in live

(* Mutant: the entry behind the one that was found is erased.              *)
RemoveBehind(o) ==
  /\ asked = <<>>
  /\ o \in live /\ listed[o] > 0
  /\ wild' = ~Exist(LookedAt(o))
  /\ entries' = IF Matches(o) = {} THEN entries
                ELSE RemoveAt(entries, Min({Len(entries), Min(Matches(o)) + 1}))
  /\ listed' = [listed EXCEPT ![o] = @ - 1]
  /\ fresh' = FALSE
  /\ UNCHANGED <<vars, asked, count>>

RemoveSocket(o) ==
  /\ asked = <<>>
  /\ o \in live /\ listed[o] > 0
  /\ wild' = ~Exist(LookedAt(o))
  /\ entries' = IF Matches(o) = {} THEN entries
                ELSE RemoveAt(entries, Min(Matches(o)))
  /\ listed' = [listed EXCEPT ![o] = @ - 1]
  /\ fresh' = FALSE
  /\ UNCHANGED <<vars, asked, count>>

(* poll() up to the system call.                                           *)
StartPoll ==
  /\ asked = <<>> /\ entries # <<>>
  /\ IF Exist(DOMAIN entries)
     THEN asked' = [i \in DOMAIN entries |-> handle[entries[i].socket]]
          /\ UNCHANGED wild
     ELSE wild' = TRUE /\ UNCHANGED asked
  /\ UNCHANGED <<vars, entries, listed, count, fresh>>

(* ::poll returns, at the latest after the timeout; every entry gets a new *)
(* result, also when nothing is ready.                                     *)
FinishPoll ==
  /\ asked # <<>>
  /\ \E ready \in [Descs -> Readiness] :
       LET revents == [i \in DOMAIN asked |->
                        Revents(asked[i], entries[i].events, ready)] IN
       /\ count' = Cardinality({i \in DOMAIN asked : revents[i] # {}})
       /\ entries' = [i \in DOMAIN asked |->
                       [entries[i] EXCEPT !.result = MapPollEvents(revents[i])]]
  /\ fresh' = TRUE
  /\ asked' = <<>>
  /\ UNCHANGED <<vars, listed, wild>>

(* ::poll was interrupted; the results stay what they were.                *)
PollThrows ==
  /\ asked # <<>>
  /\ asked' = <<>>
  /\ UNCHANGED <<vars, entries, listed, count, fresh, wild>>

(* The program destroys an object only when, as far as it knows, the list  *)
(* does not have it.                                                       *)
Owners ==
  /\ \E o \in Objs :
       \/ DefaultConstruct(o) \/ Create(o) \/ Close(o)
       \/ listed[o] = 0 /\ Destroy(o)
       \/ \E p \in Objs : MoveConstruct(o, p) \/ MoveAssign(o, p)
  /\ UNCHANGED <<list, wild>>

-----------------------------------------------------------------------------
(* The objects on the list have a kernel socket of their own, each the one *)
(* it had when it was pushed.                                              *)
Undisturbed ==
  \A o \in Objs : listed'[o] > 0 =>
    /\ (o \in live /\ Target(o) # None /\ Target(o) = own[o])'
    /\ listed[o] > 0 => own'[o] = own[o]

(* Nothing is defined after a wild use.                                    *)
ListNext ==
  /\ ~wild
  /\ \/ Owners
     \/ \E o \in Objs, events \in SUBSET Askable : Push(o, events)
     \/ \E o \in Objs : RemoveSocket(o)
     \/ StartPoll \/ FinishPoll \/ PollThrows
  /\ UNCHANGED backend
  /\ careful' = (careful /\ Undisturbed)

ListSpec == ListInit /\ [][ListNext]_listVars

-----------------------------------------------------------------------------
(* A program that takes a socket off the list before it closes, moves or   *)
(* destroys it never makes the list follow a dangling pointer, although    *)
(* remove() goes by descriptor number and numbers are used again           *)
(* (poll_list.cpp:20-26, linux.cpp:312-315).                               *)
NoWildUse == careful => ~wild

(* For such a program result(s) finds an entry of s itself, and while a    *)
(* poll is in progress the numbers it was given are still their sockets'   *)
(* (poll_list.cpp:40-47).                                                  *)
ResultIsOwn ==
  careful =>
    /\ \A o \in live :
         listed[o] > 0 =>
           Matches(o) # {} /\ entries[Min(Matches(o))].socket = o
    /\ \A i \in DOMAIN asked : asked[i] = handle[entries[i].socket]

(* The number poll() returns is the number of entries that have a result:  *)
(* none was counted whose result says nothing, as happens with a closed    *)
(* socket in the list (linux.cpp:316-321 with 117-119).  On Windows an     *)
(* entry that only hung up is counted and has none (windows.cpp:112-114,   *)
(* 344-350), but no entry with a result is missed.                         *)
CountIsResults ==
  LET shown == Cardinality({i \in DOMAIN entries : entries[i].result # {}}) IN
  careful /\ fresh => IF backend = "linux" THEN count = shown ELSE count >= shown

=============================================================================
