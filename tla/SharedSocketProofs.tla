------------------------- MODULE SharedSocketProofs -------------------------
(* Proofs about SharedSocket, for any set of threads on either back end.   *)
(* Closing and the error code are independent: each has an invariant of    *)
(* its own, and a lemma with one step per action.                          *)
EXTENDS SharedSocket, TLAPS

-----------------------------------------------------------------------------
(* close(): who is in it, and what the number is meanwhile.                *)

(* Only the store of _closed makes it true, and by then the descriptor is  *)
(* free.                                                                   *)
ReleasedBeforeMark ==
  /\ ClosedIsClosed
  /\ \A t \in Threads : pc[t] = "mark" => number # "own"

(* As long as no two close() overlap, one thread is in it at most, and the *)
(* object's own socket has the number until that thread releases it.       *)
OneCloses ==
  ~overlapped =>
    /\ \A t, u \in Threads : pc[t] \in Closing /\ pc[u] \in Closing => t = u
    /\ \A t \in Threads : pc[t] = "release" => number = "own"
    /\ ~closed /\ (\A t \in Threads : pc[t] # "mark") => number = "own"
    /\ "close" \notin strays

(* As long as no connect() interferes, a close() that got past its first   *)
(* statement, or returned, has the flag down, and a send or recv that came *)
(* after it is turned away at the flag.                                    *)
FlagStaysDown ==
  ~flagged =>
    /\ returned => ~connected
    /\ \A t \in Threads : pc[t] \in Closing \ {"unset"} => ~connected
    /\ late # {} => returned
    /\ \A t \in late : pc[t] = "check"
    /\ "late" \notin strays

CloseInv == TypeOK /\ ReleasedBeforeMark /\ OneCloses /\ FlagStaysDown

(* _code: as long as no two threads fail at a time, it is the failing      *)
(* thread's.                                                               *)
CodeIsOwn ==
  ~crossed =>
    /\ \A t, u \in Threads : pc[t] \in Failing /\ pc[u] \in Failing => t = u
    /\ \A t \in Threads : pc[t] \in Failing => code = err[t] /\ err[t] \in Codes
    /\ \A t \in Threads : pc[t] = "isReset" => err[t] # "other"
    /\ ~swallowed

CodeInv == TypeOK /\ CodeIsOwn

-----------------------------------------------------------------------------
(* Every step keeps the types (socket.cpp:52-101, 229-234).                *)
LEMMA SharedTypeStep == TypeOK /\ [Next]_vars => TypeOK'
<1> SUFFICES ASSUME TypeOK, [Next]_vars PROVE TypeOK'
  OBVIOUS
<1> USE DEF TypeOK, Goes, GoTo, Leaves, Fails, EntersClose, SomeoneIn, Places,
        Closing, Failing, CallsOf, Guarded, Codes, Sockets
<1>1. ASSUME NEW t \in Threads, NEW c \in CallsOf, Start(t, c) PROVE TypeOK'
  <2>1. c \in CallsOf /\ UNCHANGED <<object, kernel, code, at, err, returned, flagged,
                                    crossed, strays, swallowed>>
    BY <1>1 DEF Start
  <2>2. call' \in [Threads -> CallsOf \cup {"none"}]
    BY <1>1 DEF Start
  <2>3. pc' \in [Threads -> Places]
    BY <1>1 DEF Start
  <2>4. late' \subseteq Threads /\ overlapped' \in BOOLEAN
    BY <1>1 DEF Start
  <2> QED
    BY <2>1, <2>2, <2>3, <2>4 DEF object, kernel
<1>2. ASSUME NEW t \in Threads, Check(t) PROVE TypeOK'
  BY <1>2 DEF Check, object, kernel, history
<1>3. ASSUME NEW t \in Threads, Enter(t) PROVE TypeOK'
  BY <1>3 DEF Enter, object, kernel
<1>4. ASSUME NEW t \in Threads, EnterFails(t) PROVE TypeOK'
  BY <1>4 DEF EnterFails, object, kernel
<1>5. ASSUME NEW t \in Threads, EnterWait(t) PROVE TypeOK'
  BY <1>5 DEF EnterWait, object, kernel, history
<1>6. ASSUME NEW t \in Threads, NEW r, WaitWakes(t, r) PROVE TypeOK'
  BY <1>6 DEF WaitWakes, object, kernel, history
<1>7. ASSUME NEW t \in Threads, GetsNothing(t) PROVE TypeOK'
  BY <1>7 DEF GetsNothing, object, kernel
<1>8. ASSUME NEW t \in Threads, Interrupted(t) PROVE TypeOK'
  BY <1>8 DEF Interrupted, CodesFor, object, kernel
<1>9. ASSUME NEW t \in Threads, Succeeds(t) PROVE TypeOK'
  BY <1>9 DEF Succeeds, object, kernel, history
<1>10. ASSUME NEW t \in Threads, TestSafe(t) PROVE TypeOK'
  <2>1. UNCHANGED <<object, kernel, at, returned, overlapped, flagged, crossed, strays>>
    BY <1>10 DEF TestSafe
  <2>2. /\ pc' \in [Threads -> Places] /\ call' \in [Threads -> CallsOf \cup {"none"}]
        /\ err' \in [Threads -> Codes \cup {"none"}] /\ late' \subseteq Threads
    BY <1>10 DEF TestSafe, Throws, DoneWithCode
  <2>3. code' \in Codes \cup {"none"} /\ swallowed' \in BOOLEAN
    BY <1>10 DEF TestSafe, Throws, DoneWithCode
  <2> QED
    BY <2>1, <2>2, <2>3 DEF object, kernel
<1>11. ASSUME NEW t \in Threads, TestReset(t) PROVE TypeOK'
  <2>1. UNCHANGED <<object, kernel, at, returned, overlapped, flagged, crossed, strays>>
    BY <1>11 DEF TestReset
  <2>2. /\ pc' \in [Threads -> Places] /\ call' \in [Threads -> CallsOf \cup {"none"}]
        /\ err' \in [Threads -> Codes \cup {"none"}] /\ late' \subseteq Threads
    BY <1>11 DEF TestReset, Throws, DoneWithCode
  <2>3. code' \in Codes \cup {"none"} /\ swallowed' \in BOOLEAN
    BY <1>11 DEF TestReset, Throws, DoneWithCode
  <2> QED
    BY <2>1, <2>2, <2>3 DEF object, kernel
<1>12. ASSUME NEW t \in Threads, Flag(t) PROVE TypeOK'
  BY <1>12 DEF Flag, kernel
<1>13. ASSUME NEW t \in Threads, Unset(t) PROVE TypeOK'
  <2>1. pc' = [pc EXCEPT ![t] = "test"]
    BY <1>13 DEF Unset
  <2>2. connected' \in BOOLEAN
    BY <1>13 DEF Unset
  <2>3. pc' \in [Threads -> Places]
    BY <2>1
  <2>4. UNCHANGED <<backend, number, hung, closed, code, at, err, history>>
    BY <1>13 DEF Unset, kernel
  <2>5. UNCHANGED <<call, late>>
    BY <1>13 DEF Unset
  <2> QED
    BY <2>2, <2>3, <2>4, <2>5 DEF history
<1>14. ASSUME NEW t \in Threads, Test(t) PROVE TypeOK'
  BY <1>14 DEF Test, object, kernel, history
<1>15. ASSUME NEW t \in Threads, Release(t) PROVE TypeOK'
  BY <1>15 DEF Release, Cut, object
<1>16. ASSUME NEW t \in Threads, Mark(t) PROVE TypeOK'
  BY <1>16 DEF Mark, kernel
<1>17. CASE StrangerTakes
  BY <1>17 DEF StrangerTakes, object, threads, history
<1>18. CASE StrangerLeaves
  BY <1>18 DEF StrangerLeaves, Cut, object, history
<1>19. CASE HangsUp
  BY <1>19 DEF HangsUp, object, threads, history
<1>20. CASE UNCHANGED vars
  BY <1>20 DEF vars, object, kernel, threads, history
<1> QED
  BY <1>1, <1>2, <1>3, <1>4, <1>5, <1>6, <1>7, <1>8, <1>9, <1>10, <1>11,
     <1>12, <1>13, <1>14, <1>15, <1>16, <1>17, <1>18, <1>19, <1>20
     DEF Next, Proceed, HangUp, ClosedUnder

-----------------------------------------------------------------------------
(* The descriptor is free before _closed is true (socket.cpp:231-234).     *)
LEMMA ReleasedStep ==
  TypeOK /\ ReleasedBeforeMark /\ [Next]_vars => ReleasedBeforeMark'
<1> SUFFICES ASSUME TypeOK, ReleasedBeforeMark, [Next]_vars PROVE ReleasedBeforeMark'
  OBVIOUS
<1> USE DEF TypeOK, ReleasedBeforeMark, ClosedIsClosed, Goes, GoTo, Leaves,
        Fails, object, kernel, threads, history
<1>1. ASSUME NEW t \in Threads, NEW c \in CallsOf, Start(t, c) PROVE ReleasedBeforeMark'
  BY <1>1 DEF Start
<1>2. ASSUME NEW t \in Threads, Check(t) PROVE ReleasedBeforeMark'
  BY <1>2 DEF Check
<1>3. ASSUME NEW t \in Threads, Enter(t) PROVE ReleasedBeforeMark'
  BY <1>3 DEF Enter
<1>4. ASSUME NEW t \in Threads, EnterFails(t) PROVE ReleasedBeforeMark'
  BY <1>4 DEF EnterFails
<1>5. ASSUME NEW t \in Threads, EnterWait(t) PROVE ReleasedBeforeMark'
  BY <1>5 DEF EnterWait
<1>6. ASSUME NEW t \in Threads, NEW r, WaitWakes(t, r) PROVE ReleasedBeforeMark'
  BY <1>6 DEF WaitWakes
<1>7. ASSUME NEW t \in Threads, GetsNothing(t) PROVE ReleasedBeforeMark'
  BY <1>7 DEF GetsNothing
<1>8. ASSUME NEW t \in Threads, Interrupted(t) PROVE ReleasedBeforeMark'
  BY <1>8 DEF Interrupted
<1>9. ASSUME NEW t \in Threads, Succeeds(t) PROVE ReleasedBeforeMark'
  BY <1>9 DEF Succeeds
<1>10. ASSUME NEW t \in Threads, TestSafe(t) PROVE ReleasedBeforeMark'
  BY <1>10 DEF TestSafe, DoneWithCode, Throws
<1>11. ASSUME NEW t \in Threads, TestReset(t) PROVE ReleasedBeforeMark'
  BY <1>11 DEF TestReset, DoneWithCode, Throws
<1>12. ASSUME NEW t \in Threads, Flag(t) PROVE ReleasedBeforeMark'
  BY <1>12 DEF Flag
<1>13. ASSUME NEW t \in Threads, Unset(t) PROVE ReleasedBeforeMark'
  BY <1>13 DEF Unset
<1>14. ASSUME NEW t \in Threads, Test(t) PROVE ReleasedBeforeMark'
  BY <1>14 DEF Test
<1>15. ASSUME NEW t \in Threads, Release(t) PROVE ReleasedBeforeMark'
  BY <1>15 DEF Release, Cut
<1>16. ASSUME NEW t \in Threads, Mark(t) PROVE ReleasedBeforeMark'
  BY <1>16 DEF Mark
<1>17. CASE StrangerTakes
  BY <1>17 DEF StrangerTakes
<1>18. CASE StrangerLeaves
  BY <1>18 DEF StrangerLeaves, Cut
<1>19. CASE HangsUp
  BY <1>19 DEF HangsUp
<1>20. CASE UNCHANGED vars
  BY <1>20 DEF vars
<1> QED
  BY <1>1, <1>2, <1>3, <1>4, <1>5, <1>6, <1>7, <1>8, <1>9, <1>10,
     <1>11, <1>12, <1>13, <1>14, <1>15, <1>16, <1>17, <1>18, <1>19, <1>20
     DEF Next, Proceed, HangUp, ClosedUnder
-----------------------------------------------------------------------------
(* Calls of close() that do not overlap close the own socket, once         *)
(* (socket.cpp:229-234).                                                   *)
LEMMA OneClosesStep ==
  TypeOK /\ ReleasedBeforeMark /\ OneCloses /\ [Next]_vars => OneCloses'
<1> SUFFICES ASSUME TypeOK, ReleasedBeforeMark, OneCloses, [Next]_vars PROVE OneCloses'
  OBVIOUS
<1> USE DEF TypeOK, ReleasedBeforeMark, ClosedIsClosed, OneCloses, Goes,
        GoTo, Leaves, Fails, EntersClose, SomeoneIn, Closing, object,
        kernel, threads, history
<1>1. ASSUME NEW t \in Threads, NEW c \in CallsOf, Start(t, c) PROVE OneCloses'
  <2>1. UNCHANGED <<closed, number, strays>>
    BY <1>1 DEF Start
  <2>2. CASE c = "close"
    <3>1. pc' = [pc EXCEPT ![t] = "unset"]
      BY <1>1, <2>2 DEF Start, Guarded
    <3>2. overlapped' = (overlapped \/ SomeoneIn(Closing, t))
      BY <1>1, <2>2 DEF Start, Guarded
    <3>3. ~overlapped' => ~overlapped /\ \A u \in Threads \ {t} : pc[u] \notin Closing
      BY <3>2
    <3>4. \A u \in Threads : pc'[u] = IF u = t THEN "unset" ELSE pc[u]
      BY <3>1
    <3>5. pc[t] = "idle"
      BY <1>1 DEF Start
    <3> QED
      BY <2>1, <3>3, <3>4, <3>5
  <2>3. CASE c # "close"
    <3>1. overlapped' = overlapped
      BY <1>1, <2>3 DEF Start
    <3>2. \E place \in {"check", "enter"} : pc' = [pc EXCEPT ![t] = place]
      BY <1>1, <2>3 DEF Start
    <3> QED
      BY <1>1, <2>1, <3>1, <3>2 DEF Start
  <2> QED
    BY <2>2, <2>3
<1>2. ASSUME NEW t \in Threads, Check(t) PROVE OneCloses'
  BY <1>2 DEF Check
<1>3. ASSUME NEW t \in Threads, Enter(t) PROVE OneCloses'
  BY <1>3 DEF Enter
<1>4. ASSUME NEW t \in Threads, EnterFails(t) PROVE OneCloses'
  BY <1>4 DEF EnterFails
<1>5. ASSUME NEW t \in Threads, EnterWait(t) PROVE OneCloses'
  BY <1>5 DEF EnterWait
<1>6. ASSUME NEW t \in Threads, NEW r, WaitWakes(t, r) PROVE OneCloses'
  BY <1>6 DEF WaitWakes
<1>7. ASSUME NEW t \in Threads, GetsNothing(t) PROVE OneCloses'
  BY <1>7 DEF GetsNothing
<1>8. ASSUME NEW t \in Threads, Interrupted(t) PROVE OneCloses'
  BY <1>8 DEF Interrupted
<1>9. ASSUME NEW t \in Threads, Succeeds(t) PROVE OneCloses'
  BY <1>9 DEF Succeeds
<1>10. ASSUME NEW t \in Threads, TestSafe(t) PROVE OneCloses'
  BY <1>10 DEF TestSafe, DoneWithCode, Throws
<1>11. ASSUME NEW t \in Threads, TestReset(t) PROVE OneCloses'
  BY <1>11 DEF TestReset, DoneWithCode, Throws
<1>12. ASSUME NEW t \in Threads, Flag(t) PROVE OneCloses'
  BY <1>12 DEF Flag
<1>13. ASSUME NEW t \in Threads, Unset(t) PROVE OneCloses'
  BY <1>13 DEF Unset
<1>14. ASSUME NEW t \in Threads, Test(t) PROVE OneCloses'
  BY <1>14 DEF Test
<1>15. ASSUME NEW t \in Threads, Release(t) PROVE OneCloses'
  BY <1>15 DEF Release, Cut
<1>16. ASSUME NEW t \in Threads, Mark(t) PROVE OneCloses'
  BY <1>16 DEF Mark
<1>17. CASE StrangerTakes
  BY <1>17 DEF StrangerTakes
<1>18. CASE StrangerLeaves
  BY <1>18 DEF StrangerLeaves, Cut
<1>19. CASE HangsUp
  BY <1>19 DEF HangsUp
<1>20. CASE UNCHANGED vars
  BY <1>20 DEF vars
<1> QED
  BY <1>1, <1>2, <1>3, <1>4, <1>5, <1>6, <1>7, <1>8, <1>9, <1>10,
     <1>11, <1>12, <1>13, <1>14, <1>15, <1>16, <1>17, <1>18, <1>19, <1>20
     DEF Next, Proceed, HangUp, ClosedUnder
-----------------------------------------------------------------------------
(* Behind a close() that returned the flag stays down, and the look at it  *)
(* turns away send and recv (socket.cpp:52-55, 73-101, 229-234).           *)
LEMMA FlagStep == TypeOK /\ FlagStaysDown /\ [Next]_vars => FlagStaysDown'
<1> SUFFICES ASSUME TypeOK, FlagStaysDown, [Next]_vars PROVE FlagStaysDown'
  OBVIOUS
<1> USE DEF TypeOK, FlagStaysDown, Goes, GoTo, Leaves, Fails, SomeoneIn,
        Closing, object, kernel, threads, history
<1>1. ASSUME NEW t \in Threads, NEW c \in CallsOf, Start(t, c) PROVE FlagStaysDown'
  BY <1>1 DEF Start
<1>2. ASSUME NEW t \in Threads, Check(t) PROVE FlagStaysDown'
  BY <1>2 DEF Check
<1>3. ASSUME NEW t \in Threads, Enter(t) PROVE FlagStaysDown'
  BY <1>3 DEF Enter
<1>4. ASSUME NEW t \in Threads, EnterFails(t) PROVE FlagStaysDown'
  BY <1>4 DEF EnterFails
<1>5. ASSUME NEW t \in Threads, EnterWait(t) PROVE FlagStaysDown'
  BY <1>5 DEF EnterWait
<1>6. ASSUME NEW t \in Threads, NEW r, WaitWakes(t, r) PROVE FlagStaysDown'
  BY <1>6 DEF WaitWakes
<1>7. ASSUME NEW t \in Threads, GetsNothing(t) PROVE FlagStaysDown'
  BY <1>7 DEF GetsNothing
<1>8. ASSUME NEW t \in Threads, Interrupted(t) PROVE FlagStaysDown'
  BY <1>8 DEF Interrupted
<1>9. ASSUME NEW t \in Threads, Succeeds(t) PROVE FlagStaysDown'
  BY <1>9 DEF Succeeds
<1>10. ASSUME NEW t \in Threads, TestSafe(t) PROVE FlagStaysDown'
  BY <1>10 DEF TestSafe, DoneWithCode, Throws
<1>11. ASSUME NEW t \in Threads, TestReset(t) PROVE FlagStaysDown'
  BY <1>11 DEF TestReset, DoneWithCode, Throws
<1>12. ASSUME NEW t \in Threads, Flag(t) PROVE FlagStaysDown'
  BY <1>12 DEF Flag
<1>13. ASSUME NEW t \in Threads, Unset(t) PROVE FlagStaysDown'
  BY <1>13 DEF Unset
<1>14. ASSUME NEW t \in Threads, Test(t) PROVE FlagStaysDown'
  BY <1>14 DEF Test
<1>15. ASSUME NEW t \in Threads, Release(t) PROVE FlagStaysDown'
  BY <1>15 DEF Release, Cut
<1>16. ASSUME NEW t \in Threads, Mark(t) PROVE FlagStaysDown'
  BY <1>16 DEF Mark
<1>17. CASE StrangerTakes
  BY <1>17 DEF StrangerTakes
<1>18. CASE StrangerLeaves
  BY <1>18 DEF StrangerLeaves, Cut
<1>19. CASE HangsUp
  BY <1>19 DEF HangsUp
<1>20. CASE UNCHANGED vars
  BY <1>20 DEF vars
<1> QED
  BY <1>1, <1>2, <1>3, <1>4, <1>5, <1>6, <1>7, <1>8, <1>9, <1>10,
     <1>11, <1>12, <1>13, <1>14, <1>15, <1>16, <1>17, <1>18, <1>19, <1>20
     DEF Next, Proceed, HangUp, ClosedUnder
-----------------------------------------------------------------------------
(* Calls that do not fail at the same time do not confuse their codes      *)
(* (linux.cpp:133-142, windows.cpp:128-137).                               *)
LEMMA CodeStep == TypeOK /\ CodeIsOwn /\ [Next]_vars => CodeIsOwn'
<1> SUFFICES ASSUME TypeOK, CodeIsOwn, [Next]_vars PROVE CodeIsOwn'
  OBVIOUS
<1> USE DEF TypeOK, CodeIsOwn, Codes, Goes, GoTo, Leaves, Fails, SomeoneIn,
        Failing, object, kernel, threads, history
<1>1. ASSUME NEW t \in Threads, NEW c \in CallsOf, Start(t, c) PROVE CodeIsOwn'
  BY <1>1 DEF Start
<1>2. ASSUME NEW t \in Threads, Check(t) PROVE CodeIsOwn'
  BY <1>2 DEF Check
<1>3. ASSUME NEW t \in Threads, Enter(t) PROVE CodeIsOwn'
  BY <1>3 DEF Enter
<1>4. ASSUME NEW t \in Threads, EnterFails(t) PROVE CodeIsOwn'
  BY <1>4 DEF EnterFails
<1>5. ASSUME NEW t \in Threads, EnterWait(t) PROVE CodeIsOwn'
  BY <1>5 DEF EnterWait
<1>6. ASSUME NEW t \in Threads, NEW r, WaitWakes(t, r) PROVE CodeIsOwn'
  BY <1>6 DEF WaitWakes
<1>7. ASSUME NEW t \in Threads, GetsNothing(t) PROVE CodeIsOwn'
  BY <1>7 DEF GetsNothing
<1>8. ASSUME NEW t \in Threads, Interrupted(t) PROVE CodeIsOwn'
  <2> SUFFICES ASSUME ~crossed' PROVE CodeIsOwn'
    OBVIOUS
  <2>1. PICK e \in Codes : Fails(t, e)
    <3>1. CodesFor(t) \subseteq Codes
      BY DEF CodesFor, Codes
    <3> QED
      BY <1>8, <3>1 DEF Interrupted
  <2>2. ~crossed /\ \A u \in Threads \ {t} : pc[u] \notin Failing
    BY <2>1
  <2>3. pc[t] = "blocked" /\ swallowed' = swallowed
    BY <1>8 DEF Interrupted
  <2> QED
    BY <2>1, <2>2, <2>3
<1>9. ASSUME NEW t \in Threads, Succeeds(t) PROVE CodeIsOwn'
  BY <1>9 DEF Succeeds
<1>10. ASSUME NEW t \in Threads, TestSafe(t) PROVE CodeIsOwn'
  <2> SUFFICES ASSUME ~crossed' PROVE CodeIsOwn'
    OBVIOUS
  <2>1. pc[t] = "isSafe" /\ crossed' = crossed
    BY <1>10 DEF TestSafe
  <2>2. code = err[t] /\ \A u \in Threads \ {t} : pc[u] \notin Failing
    BY <2>1
  <2>3. CASE err[t] = "other"
    <3>1. Throws(t)
      BY <1>10, <2>2, <2>3 DEF TestSafe
    <3> QED
      BY <2>1, <2>2, <3>1 DEF Throws, DoneWithCode
  <2>4. CASE err[t] # "other"
    <3>1. Goes(t, "isReset") /\ UNCHANGED <<err, code, swallowed>>
      BY <1>10, <2>2, <2>4 DEF TestSafe
    <3> QED
      BY <2>1, <2>2, <2>4, <3>1
  <2> QED
    BY <2>3, <2>4
<1>11. ASSUME NEW t \in Threads, TestReset(t) PROVE CodeIsOwn'
  <2> SUFFICES ASSUME ~crossed' PROVE CodeIsOwn'
    OBVIOUS
  <2>1. pc[t] = "isReset" /\ crossed' = crossed
    BY <1>11 DEF TestReset
  <2>2. code = err[t] /\ \A u \in Threads \ {t} : pc[u] \notin Failing
    BY <2>1
  <2>3. PICK place \in {"idle", "flag", "enter"} : DoneWithCode(t, place)
    BY <1>11 DEF TestReset, Throws
  <2>4. ~swallowed'
    BY <1>11, <2>1, <2>2 DEF TestReset, Throws
  <2> QED
    BY <2>1, <2>2, <2>3, <2>4 DEF DoneWithCode
<1>12. ASSUME NEW t \in Threads, Flag(t) PROVE CodeIsOwn'
  BY <1>12 DEF Flag
<1>13. ASSUME NEW t \in Threads, Unset(t) PROVE CodeIsOwn'
  BY <1>13 DEF Unset
<1>14. ASSUME NEW t \in Threads, Test(t) PROVE CodeIsOwn'
  BY <1>14 DEF Test
<1>15. ASSUME NEW t \in Threads, Release(t) PROVE CodeIsOwn'
  BY <1>15 DEF Release, Cut
<1>16. ASSUME NEW t \in Threads, Mark(t) PROVE CodeIsOwn'
  BY <1>16 DEF Mark
<1>17. CASE StrangerTakes
  BY <1>17 DEF StrangerTakes
<1>18. CASE StrangerLeaves
  BY <1>18 DEF StrangerLeaves, Cut
<1>19. CASE HangsUp
  BY <1>19 DEF HangsUp
<1>20. CASE UNCHANGED vars
  BY <1>20 DEF vars
<1> QED
  BY <1>1, <1>2, <1>3, <1>4, <1>5, <1>6, <1>7, <1>8, <1>9, <1>10,
     <1>11, <1>12, <1>13, <1>14, <1>15, <1>16, <1>17, <1>18, <1>19, <1>20
     DEF Next, Proceed, HangUp, ClosedUnder

-----------------------------------------------------------------------------
(* The theorems, for any set of threads.                                   *)

(* In the beginning nobody is in a call.                                   *)
LEMMA SharedInit == Init => CloseInv /\ CodeInv
BY DEF Init, CloseInv, CodeInv, TypeOK, ReleasedBeforeMark, ClosedIsClosed, OneCloses,
       FlagStaysDown, CodeIsOwn, Places, Closing, Failing, CallsOf, Guarded, Codes, Sockets

(* Both invariants hold in every state (socket.cpp:52-101, 229-234).       *)
LEMMA SharedInvariants == Spec => [](CloseInv /\ CodeInv)
<1>1. CloseInv /\ CodeInv /\ [Next]_vars => (CloseInv /\ CodeInv)'
  BY SharedTypeStep, ReleasedStep, OneClosesStep, FlagStep, CodeStep DEF CloseInv, CodeInv
<1> QED
  BY SharedInit, <1>1, PTL DEF Spec

(* The flags, the number and the places of the threads are what the        *)
(* declarations say (socket.hpp, socket.cpp:229-234).                      *)
THEOREM SharedTyped == Spec => []TypeOK
<1>1. CloseInv => TypeOK
  BY DEF CloseInv
<1> QED
  BY SharedInvariants, <1>1, PTL

(* When a close() has returned the object's socket is closed, whoever      *)
(* closed it (socket.cpp:229-234).                                         *)
THEOREM SharedClosedIsClosed == Spec => []ClosedIsClosed
<1>1. CloseInv => ClosedIsClosed
  BY DEF CloseInv, ReleasedBeforeMark
<1> QED
  BY SharedInvariants, <1>1, PTL

(* Only calls of close() that overlap close a socket of somebody else      *)
(* (socket.cpp:229-234).                                                   *)
THEOREM SharedStrayCloseOverlaps == Spec => []StrayCloseOverlaps
<1>1. CloseInv => StrayCloseOverlaps
  BY DEF CloseInv, OneCloses, StrayCloseOverlaps
<1> QED
  BY SharedInvariants, <1>1, PTL

(* A send or recv after a close() does not reach another socket, unless a  *)
(* connect() interfered (socket.cpp:52-55, 73-101).                        *)
THEOREM SharedLateCallsRefused == Spec => []LateCallsRefused
<1>1. CloseInv => LateCallsRefused
  BY DEF CloseInv, FlagStaysDown, LateCallsRefused
<1> QED
  BY SharedInvariants, <1>1, PTL

(* A failure that has to throw throws, unless two threads fail at a time   *)
(* (linux.cpp:133-142, windows.cpp:128-137).                               *)
THEOREM SharedErrorsThrow == Spec => []ErrorsThrow
<1>1. CodeInv => ErrorsThrow
  BY DEF CodeInv, CodeIsOwn, ErrorsThrow
<1> QED
  BY SharedInvariants, <1>1, PTL

=============================================================================
