----------------------------- MODULE Ownership ------------------------------
(* What netsock::socket promises about the descriptors it wraps, without   *)
(* numbers, flags or the kernel: every resource that is open has at most   *)
(* one holder, only the holder gives it back, and it is given back once.   *)
(* Socket implements this specification (ImplementsOwnership there).       *)
(*                                                                         *)
(* The promise has the two holes the code has.  Move assignment leaves     *)
(* what it takes without a holder, from where only a move construction     *)
(* fetches it back; and once a handle that is no longer its object's is    *)
(* moved into a new object, nothing is promised any more (sound is FALSE). *)
CONSTANTS
  Owners,     \* objects that can hold a resource
  Resources,  \* resources, each taken at most once
  None        \* no resource

VARIABLES
  holds,  \* the resource each owner must give back
  state,  \* what became of each resource
  sound   \* the promise still stands

vars == <<holds, state, sound>>

Init ==
  /\ holds = [o \in Owners |-> None]
  /\ state = [r \in Resources |-> "new"]
  /\ sound = TRUE

Held == {holds[o] : o \in Owners} \ {None}

Acquire(o, r) ==
  /\ holds[o] = None /\ state[r] = "new"
  /\ holds' = [holds EXCEPT ![o] = r]
  /\ state' = [state EXCEPT ![r] = "open"]

(* The holder p hands its resource to o.                                   *)
Pass(o, p) ==
  /\ holds[o] = None /\ holds[p] # None
  /\ holds' = [holds EXCEPT ![o] = holds[p], ![p] = None]
  /\ UNCHANGED state

(* o gives its resource back, if it has one, and what p held has no holder *)
(* any more; with o = p this is o giving its own back.                     *)
GiveUp(o, p) ==
  /\ holds' = [holds EXCEPT ![o] = None, ![p] = None]
  /\ state' = [r \in Resources |-> IF r = holds[o] THEN "gone" ELSE state[r]]

(* A resource that lost its holder is found again.                         *)
Recover(o, r) ==
  /\ holds[o] = None /\ state[r] = "open" /\ r \notin Held
  /\ holds' = [holds EXCEPT ![o] = r]
  /\ UNCHANGED state

Kept ==
  /\ sound /\ sound'
  /\ \E o \in Owners :
       \/ \E r \in Resources : Acquire(o, r) \/ Recover(o, r)
       \/ \E p \in Owners : Pass(o, p) \/ GiveUp(o, p)

(* Most calls on a socket leave ownership alone; that is tested first.     *)
Next == UNCHANGED vars \/ ~sound' \/ Kept

Spec == Init /\ [][Next]_vars

-----------------------------------------------------------------------------
(* While the promise stands no resource has two holders, and what is held  *)
(* is open.                                                                *)
Exclusive ==
  sound =>
    /\ \A o, p \in Owners : holds[o] = holds[p] /\ holds[o] # None => o = p
    /\ \A o \in Owners : holds[o] # None => state[holds[o]] = "open"

=============================================================================
