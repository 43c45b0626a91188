--------------------------- MODULE TcpStreamProofs ---------------------------
(* Proofs about the two halves of tcp_streambuf, TcpOutput and TcpInput,   *)
(* for any buffer size and any sequence of calls.                          *)
EXTENDS TcpOutput, TcpInput, SequenceTheorems, TLAPS

-----------------------------------------------------------------------------
(* Sequences of characters.                                                *)

Below(s, t) == \A i \in DOMAIN s, j \in DOMAIN t : s[i] < t[j]

LEMMA Associative ==
  \A a, b, c \in Seq(Nat) : (a \o b) \o c = a \o (b \o c)
BY ConcatAssociative

(* The joint of two sequences.                                             *)
LEMMA JoinElements ==
  ASSUME NEW S, NEW s \in Seq(S), NEW t \in Seq(S)
  PROVE  /\ s \o t \in Seq(S) /\ Len(s \o t) = Len(s) + Len(t)
         /\ \A i \in DOMAIN s : (s \o t)[i] = s[i]
         /\ \A i \in DOMAIN (s \o t) :
              \/ i \in DOMAIN s
              \/ i - Len(s) \in DOMAIN t /\ (s \o t)[i] = t[i - Len(s)]
         /\ \A j \in DOMAIN t :
              Len(s) + j \in DOMAIN (s \o t) /\ (s \o t)[Len(s) + j] = t[j]
<1>1. s \o t \in Seq(S) /\ Len(s \o t) = Len(s) + Len(t)
  BY ConcatProperties
<1>2. /\ DOMAIN s = 1..Len(s) /\ DOMAIN t = 1..Len(t)
      /\ DOMAIN (s \o t) = 1..(Len(s) + Len(t)) /\ Len(s) \in Nat /\ Len(t) \in Nat
  BY <1>1, LenProperties
<1>3. \A i \in 1..(Len(s) + Len(t)) :
        (s \o t)[i] = IF i <= Len(s) THEN s[i] ELSE t[i - Len(s)]
  BY ConcatProperties
<1> QED
  BY <1>1, <1>2, <1>3

LEMMA JoinIncreasing ==
  ASSUME NEW s \in Seq(Nat), NEW t \in Seq(Nat),
         Increasing(s), Increasing(t), Below(s, t)
  PROVE  Increasing(s \o t)
<1>1. ASSUME NEW i \in DOMAIN (s \o t), NEW j \in DOMAIN (s \o t), i < j
      PROVE  (s \o t)[i] < (s \o t)[j]
  <2>1. DOMAIN s = 1..Len(s) /\ DOMAIN (s \o t) = 1..(Len(s) + Len(t)) /\ Len(s) \in Nat
        /\ Len(t) \in Nat /\ i \in Nat /\ j \in Nat
    BY JoinElements, LenProperties
  <2>2. CASE j \in DOMAIN s
    <3>1. i \in DOMAIN s
      BY <1>1, <2>1, <2>2
    <3>2. (s \o t)[i] = s[i] /\ (s \o t)[j] = s[j]
      BY <2>2, <3>1, JoinElements
    <3> QED
      BY <1>1, <2>2, <3>1, <3>2 DEF Increasing
  <2>3. CASE i \in DOMAIN s /\ j \notin DOMAIN s
    BY <2>3, JoinElements DEF Below
  <2>4. CASE i \notin DOMAIN s /\ j \notin DOMAIN s
    <3>1. /\ i - Len(s) \in DOMAIN t /\ (s \o t)[i] = t[i - Len(s)]
          /\ j - Len(s) \in DOMAIN t /\ (s \o t)[j] = t[j - Len(s)]
      BY <2>4, JoinElements
    <3>2. i - Len(s) < j - Len(s)
      BY <1>1, <2>1
    <3> QED
      BY <3>1, <3>2 DEF Increasing
  <2> QED
    BY <1>1, <2>1, <2>2, <2>3, <2>4
<1> QED
  BY <1>1 DEF Increasing

LEMMA JoinPrefix ==
  ASSUME NEW S, NEW s \in Seq(S), NEW t \in Seq(S)
  PROVE  ByteStream!IsPrefix(s, s \o t)
<1>1. Len(s) <= Len(s \o t) /\ Len(s) \in Nat /\ DOMAIN s = 1..Len(s)
  BY JoinElements, LenProperties
<1>2. SubSeq(s, 1, Len(s)) = SubSeq(s \o t, 1, Len(s))
  <2>1. \A i \in 1..Len(s) : (s \o t)[i] = s[i] /\ s[i] \in S
    BY <1>1, JoinElements, ElementOfSeq
  <2>2. SubSeq(s, 1, Len(s)) \in Seq(S) /\ SubSeq(s \o t, 1, Len(s)) \in Seq(S)
    BY <1>1, <2>1, SubSeqProperties
  <2>3. Len(SubSeq(s, 1, Len(s))) = Len(s) /\ Len(SubSeq(s \o t, 1, Len(s))) = Len(s)
    BY <1>1, <2>1, SubSeqProperties
  <2>4. \A i \in 1..Len(s) : SubSeq(s, 1, Len(s))[i] = SubSeq(s \o t, 1, Len(s))[i]
    BY <1>1, <2>1, SubSeqProperties
  <2> QED
    BY <2>2, <2>3, <2>4, SeqEqual
<1> QED
  BY <1>1, <1>2 DEF ByteStream!IsPrefix

(* What is taken of s.                                                     *)
LEMMA TakenPart ==
  ASSUME NEW S \in SUBSET Nat, NEW s \in Seq(S), Increasing(s), NEW r \in Results(Len(s))
  PROVE  /\ Taken(s, r) \in Seq(S) /\ Increasing(Taken(s, r))
         /\ Range(Taken(s, r)) \subseteq Range(s)
         /\ Loss(s, r) = {} => Taken(s, r) = s
         /\ Loss(s, r) \subseteq {"shortSend"}
<1>1. Len(s) \in Nat /\ DOMAIN s = 1..Len(s) /\ \A i \in 1..Len(s) : s[i] \in S
  BY LenProperties
<1>2. CASE r = Again
  <2>1. Taken(s, r) = <<>>
    BY <1>2 DEF Taken
  <2>2. r # Len(s)
    BY <1>1, <1>2, OutputAssumption
  <2> QED
    BY <2>1, <2>2 DEF Increasing, Range, Loss
<1>3. CASE r # Again
  <2>1. Taken(s, r) = SubSeq(s, 1, r) /\ r \in 0..Len(s)
    BY <1>1, <1>3 DEF Taken, Results
  <2>2. Taken(s, r) \in Seq(S) /\ Len(Taken(s, r)) = r /\ \A i \in 1..r : Taken(s, r)[i] = s[i]
    BY <1>1, <2>1, SubSeqProperties
  <2>3. DOMAIN Taken(s, r) = 1..r
    BY <2>2, LenProperties
  <2>4. Increasing(Taken(s, r))
    BY <1>1, <2>1, <2>2, <2>3 DEF Increasing
  <2>5. Range(Taken(s, r)) \subseteq Range(s)
    BY <1>1, <2>1, <2>2, <2>3 DEF Range
  <2>6. r = Len(s) => Taken(s, r) = s
    BY <1>1, <2>2, SeqEqual
  <2> QED
    BY <2>2, <2>4, <2>5, <2>6 DEF Loss
<1> QED
  BY <1>2, <1>3

(* The next characters come after all that was passed.                     *)
LEMMA CharsAfter ==
  ASSUME NEW n \in Nat, next \in Nat
  PROVE  /\ Chars(n) \in Seq(1..(next + n)) /\ Len(Chars(n)) = n
         /\ Increasing(Chars(n))
         /\ \A s \in Seq(1..next) : Below(s, Chars(n))
<1>1. Chars(n) \in [1..n -> 1..(next + n)]
  BY DEF Chars
<1>2. Chars(n) \in Seq(1..(next + n)) /\ Len(Chars(n)) = n
  BY <1>1
<1>3. Increasing(Chars(n))
  BY DEF Chars, Increasing
<1>4. ASSUME NEW s \in Seq(1..next) PROVE Below(s, Chars(n))
  <2>1. \A i \in DOMAIN s : s[i] \in 1..next
    BY LenProperties
  <2> QED
    BY <2>1 DEF Below, Chars
<1> QED
  BY <1>2, <1>3, <1>4

-----------------------------------------------------------------------------
(* The invariant.  SentInOrder is its second part, with the joint of wire  *)
(* and put taken apart.                                                    *)
Ordered ==
  /\ Increasing(accepted) /\ Increasing(wire) /\ Increasing(put) /\ Below(wire, put)
  /\ Range(wire) \subseteq Range(accepted) /\ Range(put) \subseteq Range(accepted)

OutputInv == TypeOK /\ Ordered /\ NothingLost

(* The kernel takes part of the put area, and it is reset.                 *)
LEMMA FlushPut ==
  ASSUME OutputInv, NEW r \in Results(Len(put))
  PROVE  /\ wire \o Taken(put, r) \in Seq(1..next)
         /\ Increasing(wire \o Taken(put, r))
         /\ Range(wire \o Taken(put, r)) \subseteq Range(accepted)
         /\ lost \cup Loss(put, r) = {} => accepted = wire \o Taken(put, r)
         /\ lost \cup Loss(put, r) \subseteq Causes
<1> DEFINE taken == Taken(put, r)
<1>1. put \in Seq(1..next) /\ wire \in Seq(1..next) /\ next \in Nat /\ 1..next \subseteq Nat
      /\ lost \subseteq Causes
  BY DEF OutputInv, TypeOK
<1>2. /\ taken \in Seq(1..next) /\ Increasing(taken)
      /\ Range(taken) \subseteq Range(put)
      /\ Loss(put, r) = {} => taken = put
      /\ Loss(put, r) \subseteq {"shortSend"}
  BY <1>1, TakenPart DEF OutputInv, Ordered
<1> HIDE DEF taken
<1>3. Below(wire, taken)
  BY <1>1, <1>2 DEF OutputInv, Ordered, Below, Range
<1>4. wire \o taken \in Seq(1..next)
  BY <1>1, <1>2, JoinElements
<1>5. Increasing(wire \o taken)
  <2>1. wire \in Seq(Nat) /\ taken \in Seq(Nat)
    BY <1>1, <1>2
  <2> QED
    BY <1>2, <1>3, <2>1, JoinIncreasing DEF OutputInv, Ordered
<1>6. Range(wire \o taken) \subseteq Range(accepted)
  <2>1. Range(wire \o taken) = Range(wire) \cup Range(taken)
    BY <1>1, <1>2, RangeConcatenation
  <2> QED
    BY <1>2, <2>1 DEF OutputInv, Ordered
<1>7. lost \cup Loss(put, r) = {} => accepted = wire \o taken
  BY <1>2 DEF OutputInv, NothingLost
<1> QED
  BY <1>1, <1>2, <1>4, <1>5, <1>6, <1>7 DEF taken, Causes

(* n characters that are accepted come after all others.                   *)
LEMMA AcceptChars ==
  ASSUME OutputInv, NEW n \in Nat
  PROVE  /\ accepted \o Chars(n) \in Seq(1..(next + n))
         /\ Increasing(accepted \o Chars(n))
         /\ Range(accepted \o Chars(n)) = Range(accepted) \cup Range(Chars(n))
<1>1. accepted \in Seq(1..next) /\ next \in Nat /\ Increasing(accepted)
  BY DEF OutputInv, TypeOK, Ordered
<1>2. /\ Chars(n) \in Seq(1..(next + n)) /\ Increasing(Chars(n)) /\ Below(accepted, Chars(n))
  BY <1>1, CharsAfter
<1>3. accepted \in Seq(1..(next + n)) /\ 1..(next + n) \subseteq Nat
  BY <1>1
<1>4. accepted \in Seq(Nat) /\ Chars(n) \in Seq(Nat)
  BY <1>2, <1>3, SeqMonotonic
<1> QED
  BY <1>1, <1>2, <1>3, <1>4, JoinElements, JoinIncreasing, RangeConcatenation

-----------------------------------------------------------------------------
(* Every action keeps the invariant.                                       *)

LEMMA StoreStep == OutputInv /\ Store => OutputInv'
<1> SUFFICES ASSUME OutputInv, Store PROVE OutputInv'
  OBVIOUS
<1>1. /\ put \in Seq(1..next) /\ wire \in Seq(1..next) /\ accepted \in Seq(1..next)
      /\ next \in Nat /\ next + 1 \in 0..MaxChars
  BY OutputAssumption DEF OutputInv, TypeOK, Store, Pass
<1>2. next' = next + 1 /\ UNCHANGED <<alive, connected, overrun, wire, lost>>
  BY DEF Store, Pass
<1>3. Chars(1) = <<next + 1>>
  BY <1>1 DEF Chars
<1>4. put' = put \o Chars(1) /\ accepted' = accepted \o Chars(1)
  <2>1. put \in Seq(Nat) /\ accepted \in Seq(Nat) /\ next + 1 \in Nat
    BY <1>1, SeqMonotonic
  <2> QED
    BY <1>3, <2>1, AppendIsConcat DEF Store
<1>5. /\ Chars(1) \in Seq(1..(next + 1)) /\ Len(Chars(1)) = 1 /\ Increasing(Chars(1))
      /\ Below(put, Chars(1)) /\ Below(wire, Chars(1))
  BY <1>1, CharsAfter
<1>6. /\ put \in Seq(1..(next + 1)) /\ wire \in Seq(1..(next + 1))
      /\ 1..(next + 1) \subseteq Nat
  BY <1>1
<1>7. put' \in Seq(1..next') /\ Len(put') = Len(put) + 1
  <2>1. put \o Chars(1) \in Seq(1..(next + 1)) /\ Len(put \o Chars(1)) = Len(put) + Len(Chars(1))
    BY <1>5, <1>6, ConcatProperties
  <2> QED
    BY <1>2, <1>4, <1>5, <2>1
<1>8. put \in Seq(Nat) /\ Chars(1) \in Seq(Nat)
  BY <1>5, <1>6, SeqMonotonic
<1>9. Increasing(put')
  BY <1>4, <1>5, <1>8, JoinIncreasing DEF OutputInv, Ordered
<1>10. Range(put') = Range(put) \cup Range(Chars(1))
  BY <1>4, <1>5, <1>6, RangeConcatenation
<1>11. Below(wire, put')
  BY <1>5, <1>10 DEF OutputInv, Ordered, Below, Range
<1>12. TypeOK'
  <2>1. Len(put') <= BufSize
    BY <1>1, <1>7, LenProperties, OutputAssumption DEF Store
  <2>2. accepted' \in Seq(1..next')
    BY <1>2, <1>4, AcceptChars
  <2> QED
    BY <1>1, <1>2, <1>6, <1>7, <2>1, <2>2 DEF OutputInv, TypeOK
<1>13. Ordered'
  BY <1>2, <1>4, <1>9, <1>10, <1>11, AcceptChars DEF OutputInv, Ordered
<1>14. NothingLost'
  <2>1. (wire \o put) \o Chars(1) = wire \o (put \o Chars(1))
    <3>1. \A a, b, c \in Seq(1..(next + 1)) : (a \o b) \o c = a \o (b \o c)
      BY ConcatAssociative
    <3> QED
      BY <1>5, <1>6, <3>1
  <2> QED
    BY <1>2, <1>4, <2>1 DEF OutputInv, NothingLost
<1> QED
  BY <1>12, <1>13, <1>14 DEF OutputInv

LEMMA OverflowStep == OutputInv /\ Overflow => OutputInv'
<1> SUFFICES ASSUME OutputInv, Overflow PROVE OutputInv'
  OBVIOUS
<1>1. /\ put \in Seq(1..next) /\ wire \in Seq(1..next) /\ accepted \in Seq(1..next)
      /\ next \in Nat /\ next + 1 \in 0..MaxChars
  BY OutputAssumption DEF OutputInv, TypeOK, Overflow, Pass
<1>2. next' = next + 1 /\ UNCHANGED <<alive, connected, put, wire>>
  BY DEF Overflow, Pass
<1>3. accepted' = accepted \o Chars(1)
  <2>1. Chars(1) = <<next + 1>>
    BY <1>1 DEF Chars
  <2>2. accepted \in Seq(Nat) /\ next + 1 \in Nat
    BY <1>1, SeqMonotonic
  <2> QED
    BY <2>1, <2>2, AppendIsConcat DEF Overflow
<1>4. put \in Seq(1..(next + 1)) /\ wire \in Seq(1..(next + 1))
  BY <1>1
<1>5. TypeOK'
  BY <1>1, <1>2, <1>3, <1>4, AcceptChars DEF OutputInv, TypeOK, Overflow, Causes
<1>6. Ordered'
  BY <1>2, <1>3, AcceptChars DEF OutputInv, Ordered
<1>7. NothingLost'
  BY DEF Overflow, NothingLost
<1> QED
  BY <1>5, <1>6, <1>7 DEF OutputInv

LEMMA RefuseStep == ASSUME NEW n \in Nat PROVE OutputInv /\ Refuse(n) => OutputInv'
<1> SUFFICES ASSUME OutputInv, Refuse(n) PROVE OutputInv'
  OBVIOUS
<1>1. /\ put \in Seq(1..next) /\ wire \in Seq(1..next) /\ accepted \in Seq(1..next)
      /\ next \in Nat /\ next' = next + n /\ next + n <= MaxChars
      /\ UNCHANGED <<alive, connected, overrun, put, wire, accepted, lost>>
  BY OutputAssumption DEF OutputInv, TypeOK, Refuse, Pass
<1>2. \A t \in Seq(1..next) : t \in Seq(1..next')
  BY <1>1
<1>3. TypeOK'
  BY <1>1, <1>2, OutputAssumption DEF OutputInv, TypeOK
<1> QED
  BY <1>1, <1>3 DEF OutputInv, Ordered, NothingLost

LEMMA SyncStep == OutputInv /\ Sync => OutputInv'
<1> SUFFICES ASSUME OutputInv, Sync PROVE OutputInv'
  OBVIOUS
<1>1. PICK r \in Results(Len(put)) : wire' = wire \o Taken(put, r) /\ lost' = lost \cup Loss(put, r)
  BY DEF Sync
<1>2. put' = <<>> /\ UNCHANGED <<alive, connected, overrun, next, accepted>>
  BY DEF Sync
<1>3. TypeOK'
  BY <1>1, <1>2, FlushPut, OutputAssumption DEF OutputInv, TypeOK
<1>4. Ordered'
  <2>1. Increasing(<<>>) /\ Range(<<>>) = {} /\ Below(wire', <<>>)
    BY DEF Increasing, Range, Below
  <2> QED
    BY <1>1, <1>2, <2>1, FlushPut, ZenonT(60) DEF OutputInv, Ordered, Below, Increasing, Range
<1>5. NothingLost'
  <2>1. wire' \o <<>> = wire'
    BY <1>3, ConcatEmptySeq DEF TypeOK
  <2> QED
    BY <1>1, <1>2, <2>1, FlushPut DEF NothingLost
<1> QED
  BY <1>3, <1>4, <1>5 DEF OutputInv

LEMMA DestroyStep == OutputInv /\ Destroy => OutputInv'
<1> SUFFICES ASSUME OutputInv, Destroy PROVE OutputInv'
  OBVIOUS
<1>1. put' = <<>> /\ UNCHANGED <<connected, overrun, next, wire, accepted>>
  BY DEF Destroy
<1>2. TypeOK'
  <2>1. lost' \subseteq Causes /\ alive' \in BOOLEAN
    BY DEF OutputInv, TypeOK, Destroy, Causes
  <2>2. put' \in Seq(1..next) /\ Len(put') <= BufSize
    BY <1>1, OutputAssumption
  <2> QED
    BY <1>1, <2>1, <2>2 DEF OutputInv, TypeOK
<1>3. Ordered'
  BY <1>1 DEF OutputInv, Ordered, Below, Increasing, Range
<1>4. NothingLost'
  BY <1>1 DEF OutputInv, NothingLost, Destroy
<1> QED
  BY <1>2, <1>3, <1>4 DEF OutputInv

LEMMA WriteStep == ASSUME NEW n \in 0..MaxWrite PROVE OutputInv /\ Write(n) => OutputInv'
<1> SUFFICES ASSUME OutputInv, Write(n) PROVE OutputInv'
  OBVIOUS
<1>1. /\ next \in Nat /\ n \in Nat /\ next' = next + n /\ next + n \in 0..MaxChars
      /\ UNCHANGED <<alive, connected, overrun>>
  BY OutputAssumption DEF OutputInv, TypeOK, Write, Pass
<1>2. PICK r \in Results(Len(put)) :
        LET flushed == wire \o Taken(put, r) IN
        \/ /\ n <= BufSize
           /\ wire' = flushed
           /\ put' = Chars(n)
           /\ accepted' = accepted \o Chars(n)
           /\ lost' = lost \cup Loss(put, r)
        \/ /\ n > BufSize
           /\ put' = <<>>
           /\ \E q \in Results(n) :
                /\ wire' = flushed \o Taken(Chars(n), q)
                /\ lost' = lost \cup Loss(put, r) \cup Loss(Chars(n), q)
           /\ accepted' = accepted \o Chars(n)
        \/ /\ n > BufSize
           /\ put' = <<>>
           /\ wire' = flushed
           /\ lost' = lost \cup Loss(put, r)
           /\ UNCHANGED accepted
  BY DEF Write
<1> DEFINE flushed == wire \o Taken(put, r)
<1>3. /\ flushed \in Seq(1..next) /\ Increasing(flushed)
      /\ Range(flushed) \subseteq Range(accepted)
      /\ lost \cup Loss(put, r) = {} => accepted = flushed
      /\ lost \cup Loss(put, r) \subseteq Causes
  BY FlushPut
<1> HIDE DEF flushed
<1>4. /\ Chars(n) \in Seq(1..(next + n)) /\ Len(Chars(n)) = n /\ Increasing(Chars(n))
      /\ Below(flushed, Chars(n))
  BY <1>1, <1>3, CharsAfter
<1>5. /\ accepted \o Chars(n) \in Seq(1..next') /\ Increasing(accepted \o Chars(n))
      /\ Range(accepted \o Chars(n)) = Range(accepted) \cup Range(Chars(n))
  BY <1>1, AcceptChars
<1>6. 1..next \subseteq 1..(next + n) /\ 1..(next + n) \subseteq Nat
  BY <1>1
<1>7. flushed \in Seq(1..next')
  BY <1>1, <1>3, <1>6, SeqMonotonic
<1>8. Increasing(<<>>) /\ Range(<<>>) = {} /\ Below(wire', <<>>)
  BY DEF Increasing, Range, Below
<1>9. CASE /\ n <= BufSize /\ wire' = flushed /\ put' = Chars(n)
           /\ accepted' = accepted \o Chars(n) /\ lost' = lost \cup Loss(put, r)
  <2>1. TypeOK'
    BY <1>1, <1>3, <1>4, <1>5, <1>7, <1>9 DEF OutputInv, TypeOK
  <2>2. Ordered'
    BY <1>3, <1>4, <1>5, <1>9 DEF Ordered
  <2>3. NothingLost'
    BY <1>3, <1>9 DEF NothingLost
  <2> QED
    BY <2>1, <2>2, <2>3 DEF OutputInv
<1>10. ASSUME NEW q \in Results(n), wire' = flushed \o Taken(Chars(n), q), put' = <<>>,
              accepted' = accepted \o Chars(n),
              lost' = lost \cup Loss(put, r) \cup Loss(Chars(n), q)
       PROVE  OutputInv'
  <2> DEFINE taken == Taken(Chars(n), q)
  <2>1. /\ taken \in Seq(1..(next + n)) /\ Increasing(taken)
        /\ Range(taken) \subseteq Range(Chars(n))
        /\ Loss(Chars(n), q) = {} => taken = Chars(n)
        /\ Loss(Chars(n), q) \subseteq {"shortSend"}
    BY <1>4, <1>6, TakenPart
  <2> HIDE DEF taken
  <2>2. Below(flushed, taken)
    BY <1>4, <2>1 DEF Below, Range
  <2>3. wire' = flushed \o taken
    BY <1>10 DEF taken
  <2>4. wire' \in Seq(1..next') /\ Range(wire') = Range(flushed) \cup Range(taken)
    BY <1>1, <1>7, <2>1, <2>3, ConcatProperties, RangeConcatenation
  <2>5. Increasing(wire')
    <3>1. flushed \in Seq(Nat) /\ taken \in Seq(Nat)
      BY <1>1, <1>6, <1>7, <2>1, SeqMonotonic
    <3> QED
      BY <1>3, <2>1, <2>2, <2>3, <3>1, JoinIncreasing
  <2>6. lost' \subseteq Causes
    BY <1>3, <1>10, <2>1 DEF Causes
  <2>7. TypeOK'
    BY <1>1, <1>5, <1>10, <2>4, <2>6, OutputAssumption DEF OutputInv, TypeOK
  <2>8. Ordered'
    BY <1>3, <1>5, <1>8, <1>10, <2>1, <2>4, <2>5 DEF Ordered
  <2>9. NothingLost'
    <3>1. wire' \o <<>> = wire'
      BY <2>4, ConcatEmptySeq
    <3> QED
      BY <1>3, <1>10, <2>1, <2>3, <3>1 DEF NothingLost
  <2> QED
    BY <2>7, <2>8, <2>9 DEF OutputInv
<1>11. CASE /\ wire' = flushed /\ put' = <<>> /\ lost' = lost \cup Loss(put, r)
            /\ accepted' = accepted
  <2>1. accepted' \in Seq(1..next')
    BY <1>1, <1>6, <1>11, SeqMonotonic DEF OutputInv, TypeOK
  <2>2. TypeOK'
    BY <1>1, <1>3, <1>7, <1>11, <2>1, OutputAssumption DEF OutputInv, TypeOK
  <2>3. Ordered'
    BY <1>3, <1>8, <1>11 DEF OutputInv, Ordered
  <2>4. NothingLost'
    <3>1. wire' \o <<>> = wire'
      BY <1>7, <1>11, ConcatEmptySeq
    <3> QED
      BY <1>3, <1>11, <3>1 DEF NothingLost
  <2> QED
    BY <2>2, <2>3, <2>4 DEF OutputInv
<1> QED
  BY <1>2, <1>9, <1>10, <1>11 DEF flushed

-----------------------------------------------------------------------------
(* The theorems.                                                           *)

LEMMA OutputInvariant == Spec => []OutputInv
<1>1. Init => OutputInv
  <2> SUFFICES ASSUME Init PROVE OutputInv
    OBVIOUS
  <2>1. TypeOK
    <3>1. next = 0 /\ next \in 0..MaxChars
      BY OutputAssumption DEF Init
    <3>2. <<>> \in Seq(1..next) /\ Len(<<>>) = 0 /\ 0 <= BufSize
      BY EmptySeq, OutputAssumption
    <3>3. put = <<>> /\ wire = <<>> /\ accepted = <<>> /\ lost = {}
      BY DEF Init
    <3>4. alive \in BOOLEAN /\ connected \in BOOLEAN /\ overrun \in BOOLEAN
      BY DEF Init
    <3> QED
      BY <3>1, <3>2, <3>3, <3>4 DEF TypeOK
  <2>2. Ordered
    BY DEF Init, Ordered, Increasing, Below, Range
  <2>3. NothingLost
    BY EmptySeq, ConcatEmptySeq DEF Init, NothingLost
  <2> QED
    BY <2>1, <2>2, <2>3 DEF OutputInv
<1>2. OutputInv /\ [Next]_vars => OutputInv'
  <2> SUFFICES ASSUME OutputInv, [Next]_vars PROVE OutputInv'
    OBVIOUS
  <2>1. CASE Disconnect
    BY <2>1 DEF Disconnect, OutputInv, TypeOK, Ordered, NothingLost
  <2>2. CASE UNCHANGED vars
    BY <2>2 DEF vars, OutputInv, TypeOK, Ordered, NothingLost
  <2>3. ASSUME NEW n \in 1..MaxWrite, Refuse(n) PROVE OutputInv'
    BY <2>3, RefuseStep
  <2> QED
    BY <2>1, <2>2, <2>3, StoreStep, OverflowStep, WriteStep, SyncStep, DestroyStep DEF Next
<1> QED
  BY <1>1, <1>2, PTL DEF Spec

(* The put area stays within _obuf, and only characters that were passed   *)
(* are in it or on the wire (tcp_stream.cpp:19-29, 42-56).                 *)
THEOREM OutputTyped == Spec => []TypeOK
<1>1. OutputInv => TypeOK
  BY DEF OutputInv
<1> QED
  BY OutputInvariant, <1>1, PTL

(* What was reported as written is on the wire or held, until one of the   *)
(* three losses happens (tcp_stream.cpp:19-29, 42-56, 71-79).              *)
THEOREM OutputNothingLost == Spec => []NothingLost
<1>1. OutputInv => NothingLost
  BY DEF OutputInv
<1> QED
  BY OutputInvariant, <1>1, PTL

(* No character is sent twice, overtakes another or is sent although its   *)
(* call failed (tcp_stream.cpp:42-56, 71-79).                              *)
THEOREM OutputSentInOrder == Spec => []SentInOrder
<1>1. ASSUME OutputInv PROVE SentInOrder
  <2>1. wire \in Seq(Nat) /\ put \in Seq(Nat)
    BY <1>1, SeqMonotonic DEF OutputInv, TypeOK
  <2>2. Increasing(wire \o put)
    BY <1>1, <2>1, JoinIncreasing DEF OutputInv, Ordered
  <2>3. Range(wire \o put) = Range(wire) \cup Range(put)
    BY <2>1, RangeConcatenation
  <2> QED
    BY <1>1, <2>2, <2>3 DEF SentInOrder, OutputInv, Ordered
<1> QED
  BY OutputInvariant, <1>1, PTL

-----------------------------------------------------------------------------
(* The refinement: both ends of the stream only grow.                      *)

Grows(s, t) == \E u \in Seq(Nat) : t = s \o u

LEMMA GrowsIsPrefix ==
  ASSUME NEW s \in Seq(Nat), NEW t, Grows(s, t)
  PROVE  ByteStream!IsPrefix(s, t)
BY JoinPrefix DEF Grows

LEMMA GrowsBy ==
  ASSUME NEW s, NEW u \in Seq(Nat), NEW t, t = s \o u
  PROVE  Grows(s, t)
BY DEF Grows

LEMMA GrowsNot ==
  ASSUME NEW s \in Seq(Nat)
  PROVE  Grows(s, s)
BY EmptySeq, ConcatEmptySeq DEF Grows

LEMMA StepGrows ==
  ASSUME OutputInv, [Next]_vars
  PROVE  Grows(accepted, accepted') /\ Grows(wire, wire') /\ lost \subseteq lost'
<1>1. /\ put \in Seq(1..next) /\ next \in Nat /\ 1..next \subseteq Nat
      /\ wire \in Seq(Nat) /\ accepted \in Seq(Nat)
  BY SeqMonotonic DEF OutputInv, TypeOK
<1>2. \A n \in Nat : Chars(n) \in Seq(Nat)
  BY <1>1 DEF Chars
<1>3. \A n \in Nat : accepted' = accepted \o Chars(n) => Grows(accepted, accepted')
  BY <1>2 DEF Grows
<1>4. \A r \in Results(Len(put)) : Taken(put, r) \in Seq(Nat)
  <2>1. Increasing(put)
    BY DEF OutputInv, Ordered
  <2> QED
    BY <1>1, <2>1, TakenPart, SeqMonotonic
<1>5. ASSUME accepted' = Append(accepted, next + 1) PROVE Grows(accepted, accepted')
  <2>1. Chars(1) = <<next + 1>>
    BY <1>1 DEF Chars
  <2>2. accepted \in Seq(Nat) /\ next + 1 \in Nat
    BY <1>1
  <2>3. Append(accepted, next + 1) = accepted \o <<next + 1>>
    BY <2>2, AppendIsConcat
  <2>4. accepted' = accepted \o Chars(1)
    BY <1>5, <2>1, <2>3
  <2> QED
    BY <1>3, <2>4
<1>6. ASSUME NEW n \in 0..MaxWrite, Write(n)
      PROVE  Grows(accepted, accepted') /\ Grows(wire, wire') /\ lost \subseteq lost'
  <2>1. n \in Nat
    BY OutputAssumption
  <2>2. Grows(accepted, accepted')
    BY <1>1, <1>3, <1>6, <2>1, GrowsNot DEF Write
  <2>3. lost \subseteq lost'
    BY <1>6 DEF Write
  <2>4. PICK r \in Results(Len(put)) :
          \/ wire' = wire \o Taken(put, r)
          \/ \E q \in Results(n) : wire' = (wire \o Taken(put, r)) \o Taken(Chars(n), q)
    BY <1>6 DEF Write
  <2>5. ASSUME NEW q \in Results(n), wire' = (wire \o Taken(put, r)) \o Taken(Chars(n), q)
        PROVE  Grows(wire, wire')
    <3>1. Chars(n) \in Seq(1..(next + n)) /\ Len(Chars(n)) = n /\ Increasing(Chars(n))
      BY <1>1, <2>1, CharsAfter
    <3>2. 1..(next + n) \subseteq Nat
      BY <1>1, <2>1
    <3>3. Taken(Chars(n), q) \in Seq(Nat)
      BY <3>1, <3>2, TakenPart, SeqMonotonic
    <3>4. wire \in Seq(Nat) /\ Taken(put, r) \in Seq(Nat)
      BY <1>1, <1>4
    <3>5. (wire \o Taken(put, r)) \o Taken(Chars(n), q)
            = wire \o (Taken(put, r) \o Taken(Chars(n), q))
      BY <3>3, <3>4, Associative
    <3>6. Taken(put, r) \o Taken(Chars(n), q) \in Seq(Nat)
      BY <3>3, <3>4, ConcatProperties
    <3>7. wire' = wire \o (Taken(put, r) \o Taken(Chars(n), q))
      BY <2>5, <3>5
    <3> QED
      BY <3>6, <3>7 DEF Grows
  <2>6. CASE wire' = wire \o Taken(put, r)
    <3>1. Taken(put, r) \in Seq(Nat)
      BY <1>4
    <3>2. Grows(wire, wire')
      BY <2>6, <3>1 DEF Grows
    <3> QED
      BY <2>2, <2>3, <3>2
  <2> QED
    BY <2>2, <2>3, <2>4, <2>5, <2>6
<1>7. CASE Store
  BY <1>1, <1>5, <1>7, GrowsNot DEF Store
<1>8. CASE Overflow
  BY <1>1, <1>5, <1>8, GrowsNot DEF Overflow
<1>9. ASSUME NEW n \in 1..MaxWrite, Refuse(n)
      PROVE  Grows(accepted, accepted') /\ Grows(wire, wire') /\ lost \subseteq lost'
  BY <1>1, <1>9, GrowsNot DEF Refuse
<1>10. CASE Sync
  <2>1. PICK r \in Results(Len(put)) : wire' = wire \o Taken(put, r)
    BY <1>10 DEF Sync
  <2>2. Grows(wire, wire')
    BY <1>4, <2>1 DEF Grows
  <2> QED
    BY <1>1, <1>10, <2>2, GrowsNot DEF Sync
<1>11. CASE Destroy
  BY <1>1, <1>11, GrowsNot DEF Destroy
<1>12. CASE Disconnect
  BY <1>1, <1>12, GrowsNot DEF Disconnect
<1>13. CASE UNCHANGED vars
  BY <1>1, <1>13, GrowsNot DEF vars
<1> QED
  BY <1>6, <1>7, <1>8, <1>9, <1>10, <1>11, <1>12, <1>13 DEF Next

(* The output half of the stream implements the byte stream                *)
(* (tcp_stream.cpp:19-29, 42-56, 71-79).                                   *)
THEOREM OutputImplementsByteStream == Spec => ImplementsByteStream
<1>1. Init => ByteStream!Init
  BY DEF Init, ByteStream!Init
<1>2. ASSUME OutputInv, OutputInv', [Next]_vars PROVE ByteStream!Next
  <2>1. wire \in Seq(Nat) /\ accepted \in Seq(Nat)
    BY <1>2, SeqMonotonic DEF OutputInv, TypeOK
  <2>2. wire' \in Seq(Nat) /\ put' \in Seq(Nat)
    BY <1>2, SeqMonotonic DEF OutputInv, TypeOK
  <2>3. ByteStream!IsPrefix(accepted, accepted') /\ ByteStream!IsPrefix(wire, wire')
    BY <1>2, <2>1, StepGrows, GrowsIsPrefix
  <2>4. ByteStream!Increasing(accepted') /\ ByteStream!Increasing(wire')
    BY <1>2 DEF OutputInv, Ordered, Increasing, ByteStream!Increasing
  <2>5. ByteStream!ToSet(wire') \subseteq ByteStream!ToSet(accepted')
    BY <1>2 DEF OutputInv, Ordered, Range, ByteStream!ToSet
  <2>6. lost' = {} => lost = {}
    BY <1>2, StepGrows
  <2>7. lost' = {} => ByteStream!IsPrefix(wire', accepted')
    BY <1>2, <2>2, JoinPrefix DEF OutputInv, NothingLost
  <2> QED
    BY <2>3, <2>4, <2>5, <2>6, <2>7 DEF ByteStream!Next
<1>3. Spec => ByteStream!Spec
  BY OutputInvariant, <1>1, <1>2, PTL DEF Spec, ByteStream!Spec
<1> QED
  BY <1>3 DEF ImplementsByteStream

-----------------------------------------------------------------------------
(* The input half.  More about sequences of characters.                    *)

LEMMA Closed ==
  \A a, b \in Seq(Nat) : a \o b \in Seq(Nat)
BY ConcatProperties

LEMMA EmptyJoins ==
  \A a \in Seq(Nat) : a \o <<>> = a /\ <<>> \o a = a
BY ConcatEmptySeq

LEMMA Small ==
  ASSUME NEW n \in Nat, NEW s \in Seq(1..n)
  PROVE  s \in Seq(Nat)
BY SeqMonotonic

(* A sequence is what comes before a place and what comes after it.        *)
LEMMA CutInTwo ==
  ASSUME NEW S, NEW s \in Seq(S), NEW k \in 0..Len(s)
  PROVE  /\ SubSeq(s, 1, k) \in Seq(S) /\ Len(SubSeq(s, 1, k)) = k
         /\ SubSeq(s, k + 1, Len(s)) \in Seq(S)
         /\ SubSeq(s, 1, k) \o SubSeq(s, k + 1, Len(s)) = s
<1>1. Len(s) \in Nat /\ \A i \in 1..Len(s) : s[i] \in S
  BY LenProperties, ElementOfSeq
<1>2. SubSeq(s, 1, k) \in Seq(S) /\ Len(SubSeq(s, 1, k)) = k
  BY <1>1, SubSeqProperties
<1>3. SubSeq(s, k + 1, Len(s)) \in Seq(S)
  BY <1>1, SubSeqProperties
<1>4. SubSeq(s, 1, k) \o SubSeq(s, k + 1, Len(s)) = SubSeq(s, 1, Len(s))
  <2>1. 1 \in 1..(Len(s) + 1) /\ k \in (1 - 1)..Len(s) /\ Len(s) \in k..Len(s)
    BY <1>1
  <2> QED
    BY <2>1, ConcatAdjacentSubSeq
<1> QED
  BY <1>2, <1>3, <1>4, SubSeqFull

LEMMA CutFirst ==
  ASSUME NEW S, NEW s \in Seq(S), s # <<>>
  PROVE  Head(s) \in S /\ Tail(s) \in Seq(S) /\ Len(Tail(s)) = Len(s) - 1
         /\ <<Head(s)>> \o Tail(s) = s
<1>1. Head(s) \in S /\ Tail(s) \in Seq(S) /\ Len(Tail(s)) = Len(s) - 1
  BY HeadTailProperties
<1>2. Len(s) \in Nat \ {0}
  BY EmptySeq
<1>3. SubSeq(s, 1, Len(s)) = <<s[1]>> \o SubSeq(s, 1 + 1, Len(s))
  BY <1>2, SubSeqRecursiveFirst
<1>4. Head(s) = s[1] /\ Tail(s) = SubSeq(s, 1 + 1, Len(s))
  BY TailIsSubSeq
<1> QED
  BY <1>1, <1>3, <1>4, SubSeqFull

LEMMA CutLast ==
  ASSUME NEW S, NEW s \in Seq(S), s # <<>>
  PROVE  /\ Front(s) \in Seq(S) /\ Last(s) \in S /\ Len(Front(s)) = Len(s) - 1
         /\ Front(s) \o <<Last(s)>> = s
<1>1. Len(s) \in Nat \ {0}
  BY EmptySeq
<1>2. Len(s) - 1 \in 0..Len(s)
  BY <1>1
<1>3. /\ SubSeq(s, 1, Len(s) - 1) \in Seq(S)
      /\ Len(SubSeq(s, 1, Len(s) - 1)) = Len(s) - 1
  BY <1>2, CutInTwo
<1>4. SubSeq(s, 1, Len(s)) = SubSeq(s, 1, Len(s) - 1) \o <<s[Len(s)]>>
  BY <1>1, SubSeqRecursiveSecond
<1>5. s[Len(s)] \in S
  BY <1>1, ElementOfSeq
<1> QED
  BY <1>3, <1>4, <1>5, SubSeqFull DEF Front, Last

LEMMA JoinSets ==
  ASSUME NEW s \in Seq(Nat), NEW t \in Seq(Nat)
  PROVE  ToSet(s \o t) = ToSet(s) \cup ToSet(t)
<1>1. /\ DOMAIN s = 1..Len(s) /\ DOMAIN t = 1..Len(t)
      /\ DOMAIN (s \o t) = 1..(Len(s) + Len(t)) /\ Len(s) \in Nat /\ Len(t) \in Nat
  BY JoinElements, LenProperties
<1>2. \A i \in DOMAIN s : i \in DOMAIN (s \o t) /\ (s \o t)[i] = s[i]
  BY <1>1, JoinElements
<1>3. \A j \in DOMAIN t : Len(s) + j \in DOMAIN (s \o t) /\ (s \o t)[Len(s) + j] = t[j]
  BY JoinElements
<1>4. \A x : x \in ToSet(s) \/ x \in ToSet(t) => x \in ToSet(s \o t)
  BY <1>2, <1>3 DEF ToSet
<1>5. ASSUME NEW i \in DOMAIN (s \o t) PROVE (s \o t)[i] \in ToSet(s) \cup ToSet(t)
  <2>1. \/ i \in DOMAIN s
        \/ i - Len(s) \in DOMAIN t /\ (s \o t)[i] = t[i - Len(s)]
    BY JoinElements
  <2>2. CASE i \in DOMAIN s
    BY <1>2, <2>2 DEF ToSet
  <2>3. CASE i - Len(s) \in DOMAIN t /\ (s \o t)[i] = t[i - Len(s)]
    BY <2>3 DEF ToSet
  <2> QED
    BY <2>1, <2>2, <2>3
<1>6. \A x : x \in ToSet(s \o t) => x \in ToSet(s) \/ x \in ToSet(t)
  BY <1>5 DEF ToSet
<1> QED
  BY <1>4, <1>6

LEMMA SplitIncreasing ==
  ASSUME NEW s \in Seq(Nat), NEW t \in Seq(Nat), Increasing(s \o t)
  PROVE  Increasing(s) /\ Increasing(t) /\ Below(s, t)
<1>1. /\ DOMAIN s = 1..Len(s) /\ DOMAIN t = 1..Len(t)
      /\ DOMAIN (s \o t) = 1..(Len(s) + Len(t)) /\ Len(s) \in Nat /\ Len(t) \in Nat
  BY JoinElements, LenProperties
<1>2. \A i \in DOMAIN s : i \in DOMAIN (s \o t) /\ (s \o t)[i] = s[i]
  BY <1>1, JoinElements
<1>3. \A j \in DOMAIN t : Len(s) + j \in DOMAIN (s \o t) /\ (s \o t)[Len(s) + j] = t[j]
  BY JoinElements
<1>4. Increasing(s)
  BY <1>2 DEF Increasing
<1>5. Increasing(t)
  <2>1. ASSUME NEW i \in DOMAIN t, NEW j \in DOMAIN t, i < j PROVE t[i] < t[j]
    <3>1. Len(s) + i < Len(s) + j
      BY <1>1, <2>1
    <3> QED
      BY <1>3, <3>1 DEF Increasing
  <2> QED
    BY <2>1 DEF Increasing
<1>6. Below(s, t)
  <2>1. ASSUME NEW i \in DOMAIN s, NEW j \in DOMAIN t PROVE s[i] < t[j]
    <3>1. i < Len(s) + j
      BY <1>1
    <3> QED
      BY <1>2, <1>3, <3>1 DEF Increasing
  <2> QED
    BY <2>1 DEF Below
<1> QED
  BY <1>4, <1>5, <1>6

LEMMA SetBound ==
  ASSUME NEW n \in Nat, NEW s \in Seq(1..n)
  PROVE  ToSet(s) \subseteq 1..n
BY LenProperties, ElementOfSeq DEF ToSet

-----------------------------------------------------------------------------
(* h and D account for the first n characters: each of them is in one of   *)
(* the two, those in h in order.  It is what Conserved says of the input,  *)
(* and that nothing is missing in h when nothing is in D.                  *)
Accounts(h, D, n) ==
  /\ Increasing(h)
  /\ ToSet(h) \cup D = 1..n
  /\ ToSet(h) \cap D = {}
  /\ D = {} => h = [i \in 1..n |-> i]

(* One more character.                                                     *)
LEMMA AccountsAppend ==
  ASSUME NEW n \in Nat, NEW h \in Seq(1..n), NEW D, Accounts(h, D, n)
  PROVE  Accounts(h \o <<n + 1>>, D, n + 1)
<1>1. h \in Seq(Nat) /\ ToSet(h) \subseteq 1..n
  BY Small, SetBound
<1> DEFINE one == <<n + 1>>
<1>2. one \in Seq(Nat) /\ Len(one) = 1 /\ DOMAIN one = {1} /\ one[1] = n + 1
  <2>1. one \in Seq(Nat) /\ Len(one) = 1 /\ one[1] = n + 1
    OBVIOUS
  <2>2. DOMAIN one = 1..1
    BY <2>1, LenProperties
  <2> QED
    BY <2>1, <2>2
<1>3. Increasing(one) /\ ToSet(one) = {n + 1}
  BY <1>2 DEF Increasing, ToSet
<1>4. Below(h, one)
  <2>1. \A i \in DOMAIN h : h[i] \in 1..n
    BY LenProperties
  <2> QED
    BY <1>2, <2>1 DEF Below
<1> HIDE DEF one
<1>5. Increasing(h \o one)
  BY <1>1, <1>2, <1>3, <1>4, JoinIncreasing DEF Accounts
<1>6. ToSet(h \o one) = ToSet(h) \cup {n + 1}
  BY <1>1, <1>2, <1>3, JoinSets
<1>7. 1..(n + 1) = (1..n) \cup {n + 1} /\ n + 1 \notin 1..n
  OBVIOUS
<1>8. ToSet(h \o one) \cup D = 1..(n + 1) /\ ToSet(h \o one) \cap D = {}
  BY <1>6, <1>7 DEF Accounts
<1>9. ASSUME D = {} PROVE h \o one = [i \in 1..(n + 1) |-> i]
  <2>1. h = [i \in 1..n |-> i]
    BY <1>9 DEF Accounts
  <2>2. Len(h) = n
    BY <2>1
  <2>3. /\ h \o one \in Seq(Nat) /\ Len(h \o one) = n + 1
        /\ \A i \in 1..(n + 1) : (h \o one)[i] = IF i <= n THEN h[i] ELSE one[i - n]
    <3>1. /\ h \o one \in Seq(Nat) /\ Len(h \o one) = Len(h) + Len(one)
          /\ \A i \in 1..Len(h) + Len(one) :
               (h \o one)[i] = IF i <= Len(h) THEN h[i] ELSE one[i - Len(h)]
      BY <1>1, <1>2, ConcatProperties, ZenonT(60)
    <3> QED
      BY <1>2, <2>2, <3>1
  <2>4. [i \in 1..(n + 1) |-> i] \in Seq(Nat) /\ Len([i \in 1..(n + 1) |-> i]) = n + 1
    OBVIOUS
  <2>5. \A i \in 1..(n + 1) : (h \o one)[i] = i
    <3>1. \A i \in 1..n : h[i] = i
      BY <2>1
    <3>2. \A i \in 1..(n + 1) : i <= n \/ i = n + 1
      OBVIOUS
    <3>3. (n + 1) - n = 1 /\ ~(n + 1 <= n)
      OBVIOUS
    <3> QED
      BY <1>2, <2>3, <3>1, <3>2, <3>3
  <2> QED
    BY <2>3, <2>4, <2>5, SeqEqual
<1> QED
  BY <1>5, <1>8, <1>9 DEF Accounts, one

(* Characters taken out of h and put into D.                               *)
LEMMA AccountsRemove ==
  ASSUME NEW n \in Nat, NEW D,
         NEW a \in Seq(Nat), NEW b \in Seq(Nat), NEW c \in Seq(Nat),
         Accounts((a \o b) \o c, D, n)
  PROVE  Accounts(a \o c, D \cup ToSet(b), n)
<1>1. a \o b \in Seq(Nat)
  BY Closed
<1>2. Increasing(a \o b) /\ Increasing(c) /\ Below(a \o b, c)
  BY <1>1, SplitIncreasing DEF Accounts
<1>3. Increasing(a) /\ Increasing(b) /\ Below(a, b)
  BY <1>2, SplitIncreasing
<1>4. Below(a, c) /\ Below(b, c)
  <2>1. \A i \in DOMAIN a : i \in DOMAIN (a \o b) /\ (a \o b)[i] = a[i]
    <3>1. /\ DOMAIN a = 1..Len(a) /\ Len(a) \in Nat /\ Len(b) \in Nat
          /\ DOMAIN (a \o b) = 1..(Len(a) + Len(b))
      BY JoinElements, LenProperties
    <3> QED
      BY <3>1, JoinElements
  <2>2. \A j \in DOMAIN b :
          Len(a) + j \in DOMAIN (a \o b) /\ (a \o b)[Len(a) + j] = b[j]
    BY JoinElements
  <2> QED
    BY <1>2, <2>1, <2>2 DEF Below
<1>5. Increasing(a \o c)
  BY <1>2, <1>3, <1>4, JoinIncreasing
<1>6. /\ ToSet((a \o b) \o c) = ToSet(a) \cup ToSet(b) \cup ToSet(c)
      /\ ToSet(a \o c) = ToSet(a) \cup ToSet(c)
  BY <1>1, JoinSets
<1>7. ToSet(a) \cap ToSet(b) = {} /\ ToSet(b) \cap ToSet(c) = {}
  <2>1. \A s, t \in Seq(Nat) : Below(s, t) => ToSet(s) \cap ToSet(t) = {}
    <3>1. ASSUME NEW s \in Seq(Nat), NEW t \in Seq(Nat), Below(s, t),
                 NEW i \in DOMAIN s, NEW j \in DOMAIN t, s[i] = t[j]
          PROVE  FALSE
      <4>1. s[i] \in Nat /\ t[j] \in Nat
        BY LenProperties, ElementOfSeq
      <4>2. s[i] < t[j]
        BY <3>1 DEF Below
      <4> QED
        BY <3>1, <4>1, <4>2
    <3> QED
      BY <3>1 DEF ToSet
  <2> QED
    BY <1>3, <1>4, <2>1
<1>8. ToSet(a \o c) \cup (D \cup ToSet(b)) = 1..n
  BY <1>6 DEF Accounts
<1>9. ToSet(a \o c) \cap (D \cup ToSet(b)) = {}
  BY <1>6, <1>7 DEF Accounts
<1>10. ASSUME D \cup ToSet(b) = {} PROVE a \o c = [i \in 1..n |-> i]
  <2>1. b = <<>>
    <3>1. b # <<>> => Len(b) \in Nat \ {0} /\ DOMAIN b = 1..Len(b)
      BY EmptySeq, LenProperties
    <3>2. b # <<>> => 1 \in DOMAIN b
      BY <3>1
    <3>3. b # <<>> => b[1] \in ToSet(b)
      BY <3>2 DEF ToSet
    <3> QED
      BY <1>10, <3>3
  <2>2. a \o b = a
    BY <2>1, EmptyJoins
  <2> QED
    BY <1>10, <2>2 DEF Accounts
<1> QED
  BY <1>5, <1>8, <1>9, <1>10 DEF Accounts

-----------------------------------------------------------------------------
(* The invariant of the input half.  Conserved is part of what Accounts    *)
(* says.  What a closed client, a call in progress and a get area whose    *)
(* pointers have crossed exclude is needed to follow a character from the  *)
(* kernel to the reader; Starved says when one is made up, and Kept when   *)
(* nothing is dropped.                                                     *)
Held == delivered \o got \o area \o inq

Idle ==
  /\ call # "none" => area = <<>>
  /\ call # "sgetn" => got = <<>>

Starved ==
  /\ ~starved => given = delivered /\ ~past
  /\ starved /\ ~nonblocking => ~connected

Kept == connected /\ ~cut /\ ~nonblocking => dropped = {}

InputInv ==
  /\ InputTypeOK /\ Idle /\ Starved /\ TrueWhileConnected /\ Kept
  /\ Accounts(Held, dropped, sent)

(* The ways in which the actions move characters on: from the get area,    *)
LEMMA MoveArea ==
  ASSUME NEW d \in Seq(Nat), NEW x \in Seq(Nat), NEW t \in Seq(Nat)
  PROVE  /\ ((d \o x) \o <<>>) \o t = (d \o <<>>) \o (x \o t)
         /\ (d \o x) \o t = (d \o <<>>) \o (x \o t)
<1>1. d \o (x \o t) = (d \o x) \o t
  BY Associative
<1>2. d \o x \in Seq(Nat)
  BY Closed
<1>3. d \o <<>> = d /\ (d \o x) \o <<>> = d \o x
  BY <1>2, EmptyJoins
<1> QED
  BY <1>1, <1>3

(* from the kernel in underflow,                                           *)
LEMMA MoveFill ==
  ASSUME NEW d \in Seq(Nat), NEW x \in Seq(Nat), NEW t \in Seq(Nat)
  PROVE  ((d \o <<>>) \o x) \o t = ((d \o <<>>) \o <<>>) \o (x \o t)
<1>1. (d \o x) \o t = d \o (x \o t)
  BY Associative
<1> QED
  BY <1>1, EmptyJoins

(* where the first of them may go straight to the reader,                  *)
LEMMA MoveFillFirst ==
  ASSUME NEW d \in Seq(Nat), NEW y \in Seq(Nat), NEW x \in Seq(Nat), NEW t \in Seq(Nat)
  PROVE  (((d \o y) \o <<>>) \o x) \o t = ((d \o <<>>) \o <<>>) \o ((y \o x) \o t)
<1>1. \A z \in Seq(Nat) : (d \o z) \o t = d \o (z \o t)
  BY Associative, ZenonT(60)
<1>2. (d \o y) \o x = d \o (y \o x)
  BY Associative, ZenonT(60)
<1>3. y \o x \in Seq(Nat) /\ d \o y \in Seq(Nat)
  BY Closed
<1>4. d \o <<>> = d /\ (d \o y) \o <<>> = d \o y
  BY <1>3, EmptyJoins
<1>5. (d \o (y \o x)) \o t = d \o ((y \o x) \o t)
  BY <1>1, <1>3
<1> QED
  BY <1>2, <1>4, <1>5

(* and from the kernel in xsgetn.                                          *)
LEMMA MoveRead ==
  ASSUME NEW d \in Seq(Nat), NEW g \in Seq(Nat), NEW x \in Seq(Nat), NEW t \in Seq(Nat)
  PROVE  /\ (((d \o (g \o x)) \o <<>>) \o <<>>) \o t = ((d \o g) \o <<>>) \o (x \o t)
         /\ ((d \o (g \o x)) \o <<>>) \o t = ((d \o g) \o <<>>) \o (x \o t)
<1>1. \A z \in Seq(Nat) : (z \o x) \o t = z \o (x \o t)
  BY Associative, ZenonT(60)
<1>2. (d \o g) \o x = d \o (g \o x)
  BY Associative, ZenonT(60)
<1>3. d \o g \in Seq(Nat) /\ g \o x \in Seq(Nat)
  BY Closed
<1>4. d \o (g \o x) \in Seq(Nat)
  BY <1>3, Closed
<1>5. (d \o (g \o x)) \o <<>> = d \o (g \o x) /\ (d \o g) \o <<>> = d \o g
  BY <1>3, <1>4, EmptyJoins
<1>6. ((d \o g) \o x) \o t = (d \o g) \o (x \o t)
  BY <1>1, <1>3
<1> QED
  BY <1>2, <1>5, <1>6

(* What a read in progress has copied is taken away, all of it or its last *)
(* character.                                                              *)
LEMMA MoveAway ==
  ASSUME NEW d \in Seq(Nat), NEW g \in Seq(Nat), NEW a \in Seq(Nat), NEW q \in Seq(Nat),
         NEW n \in Nat, NEW D, Accounts(((d \o g) \o a) \o q, D, n)
  PROVE  Accounts(((d \o <<>>) \o a) \o q, D \cup ToSet(g), n)
<1>1. \A z \in Seq(Nat) : (z \o a) \o q = z \o (a \o q)
  BY Associative, ZenonT(60)
<1>2. d \o g \in Seq(Nat) /\ a \o q \in Seq(Nat)
  BY Closed
<1>3. ((d \o g) \o a) \o q = (d \o g) \o (a \o q) /\ (d \o a) \o q = d \o (a \o q)
  BY <1>1, <1>2
<1>4. Accounts((d \o g) \o (a \o q), D, n)
  BY <1>3
<1>5. Accounts(d \o (a \o q), D \cup ToSet(g), n)
  BY <1>2, <1>4, AccountsRemove
<1>6. d \o <<>> = d
  BY EmptyJoins
<1> QED
  BY <1>3, <1>5, <1>6

LEMMA MoveLast ==
  ASSUME NEW d \in Seq(Nat), NEW f \in Seq(Nat), NEW x \in Nat, NEW g, g = f \o <<x>>,
         NEW a \in Seq(Nat), NEW q \in Seq(Nat),
         NEW n \in Nat, NEW D, Accounts(((d \o g) \o a) \o q, D, n)
  PROVE  Accounts(((d \o f) \o a) \o q, D \cup {x}, n)
<1> DEFINE l == <<x>>
<1>1. l \in Seq(Nat) /\ Len(l) = 1 /\ l[1] = x
  OBVIOUS
<1>2. ToSet(l) = {x}
  <2>1. DOMAIN l = 1..1
    BY <1>1, LenProperties
  <2> QED
    BY <1>1, <2>1 DEF ToSet
<1>3. g = f \o l
  OBVIOUS
<1> HIDE DEF l
<1>4. d \o f \in Seq(Nat) /\ f \o l \in Seq(Nat) /\ a \o q \in Seq(Nat)
  BY <1>1, Closed
<1>5. (d \o f) \o l = d \o (f \o l)
  <2>1. \A z \in Seq(Nat) : (d \o f) \o z = d \o (f \o z)
    BY Associative, ZenonT(60)
  <2> QED
    BY <1>1, <2>1
<1>6. (d \o f) \o l \in Seq(Nat)
  BY <1>1, <1>4, Closed
<1>7. \A z \in Seq(Nat) : (z \o a) \o q = z \o (a \o q)
  BY Associative, ZenonT(60)
<1>8. Accounts(((d \o f) \o l) \o (a \o q), D, n)
  BY <1>3, <1>5, <1>6, <1>7
<1>9. Accounts((d \o f) \o (a \o q), D \cup ToSet(l), n)
  BY <1>1, <1>4, <1>8, AccountsRemove
<1> QED
  BY <1>2, <1>4, <1>7, <1>9

(* The types of the sequences, in the forms in which they are used.        *)
LEMMA InputTypes ==
  ASSUME InputTypeOK
  PROVE  /\ sent \in Nat
         /\ inq \in Seq(1..sent) /\ area \in Seq(1..sent)
         /\ got \in Seq(1..sent) /\ delivered \in Seq(1..sent)
         /\ inq \in Seq(Nat) /\ area \in Seq(Nat)
         /\ got \in Seq(Nat) /\ delivered \in Seq(Nat)
         /\ Len(inq) \in Nat /\ Len(area) \in Nat /\ Len(got) \in Nat
         /\ want \in Nat /\ <<>> \in Seq(1..sent) /\ Len(<<>>) = 0
<1>1. sent \in Nat /\ want \in Nat
  BY InputAssumption DEF InputTypeOK
<1>2. /\ inq \in Seq(1..sent) /\ area \in Seq(1..sent)
      /\ got \in Seq(1..sent) /\ delivered \in Seq(1..sent)
  BY DEF InputTypeOK
<1>3. /\ inq \in Seq(Nat) /\ area \in Seq(Nat)
      /\ got \in Seq(Nat) /\ delivered \in Seq(Nat)
  BY <1>1, <1>2, Small
<1>4. Len(inq) \in Nat /\ Len(area) \in Nat /\ Len(got) \in Nat
  BY <1>2, LenProperties
<1>5. <<>> \in Seq(1..sent) /\ Len(<<>>) = 0
  BY EmptySeq
<1> QED
  BY <1>1, <1>2, <1>3, <1>4, <1>5

LEMMA InputStart == InputInit => InputInv
<1> SUFFICES ASSUME InputInit PROVE InputInv
  OBVIOUS
<1>1. \A S : <<>> \in Seq(S) /\ Len(<<>>) = 0
  BY EmptySeq
<1>2. InputTypeOK
  <2>1. 0 \in 0..MaxBytes /\ 0 \in 0..MaxRead /\ 0 <= BufSize /\ 0 + 0 <= MaxRead
    BY InputAssumption
  <2>2. ("none" = "sgetn") = (0 > 0)
    OBVIOUS
  <2> QED
    BY <1>1, <2>1, <2>2 DEF InputInit, InputTypeOK
<1>3. Held = <<>>
  <2>1. <<>> \o <<>> = <<>>
    BY <1>1, EmptyJoins
  <2> QED
    BY <2>1 DEF InputInit, Held
<1>4. Accounts(<<>>, {}, 0)
  <2>1. DOMAIN <<>> = {} /\ 1..0 = {}
    OBVIOUS
  <2>2. <<>> = [i \in 1..0 |-> i]
    OBVIOUS
  <2> QED
    BY <2>1, <2>2 DEF Accounts, Increasing, ToSet
<1> QED
  BY <1>2, <1>3, <1>4
  DEF InputInit, InputInv, Idle, Starved, TrueWhileConnected, Kept

-----------------------------------------------------------------------------
(* One step of the input half at a time.                                   *)

LEMMA PeerSendKeeps ==
  ASSUME InputInv, PeerSend, nonblocking' = nonblocking
  PROVE  InputInv'
<1>1. InputTypeOK /\ Accounts(Held, dropped, sent)
  BY DEF InputInv
<1>2. sent \in Nat /\ sent < MaxBytes /\ 1..sent \subseteq 1..(sent + 1)
  BY <1>1, InputTypes DEF PeerSend
<1>3. /\ sent' = sent + 1 /\ inq' = Append(inq, sent + 1)
      /\ end' = end /\ connected' = connected /\ area' = area /\ past' = past
      /\ call' = call /\ want' = want /\ got' = got /\ delivered' = delivered
      /\ dropped' = dropped /\ starved' = starved /\ given' = given
      /\ corrupt' = corrupt /\ cut' = cut
  BY DEF PeerSend, buffer
<1>4. \A s \in Seq(1..sent) : s \in Seq(1..(sent + 1))
  BY <1>2, SeqMonotonic
<1>5. inq' \in Seq(1..(sent + 1))
  <2>1. inq \in Seq(1..(sent + 1)) /\ sent + 1 \in 1..(sent + 1)
    BY <1>1, <1>2, <1>4, InputTypes
  <2> QED
    BY <1>3, <2>1, AppendProperties
<1>6. InputTypeOK'
  <2>1. sent + 1 \in 0..MaxBytes
    BY <1>2, InputAssumption
  <2>2. area \in Seq(1..(sent + 1)) /\ got \in Seq(1..(sent + 1))
        /\ delivered \in Seq(1..(sent + 1)) /\ dropped \subseteq 1..(sent + 1)
    BY <1>1, <1>2, <1>4 DEF InputTypeOK
  <2> QED
    BY <1>1, <1>3, <1>5, <2>1, <2>2 DEF InputTypeOK
<1>7. Accounts(Held', dropped', sent')
  <2> DEFINE before == delivered \o got \o area
  <2>1. /\ delivered \in Seq(1..sent) /\ got \in Seq(1..sent) /\ area \in Seq(1..sent)
        /\ inq \in Seq(1..sent)
    BY <1>1, InputTypes
  <2>2. delivered \o got \in Seq(1..sent)
    BY <2>1, ConcatProperties
  <2>3. before \in Seq(1..sent)
    BY <2>1, <2>2, ConcatProperties
  <2>4. before \o inq \in Seq(1..sent)
    BY <2>1, <2>3, ConcatProperties
  <2>5. before \in Seq(Nat) /\ inq \in Seq(Nat) /\ <<sent + 1>> \in Seq(Nat)
    BY <1>2, <2>1, <2>3, Small
  <2>6. Held = before \o inq
    BY DEF Held
  <2>7. Append(inq, sent + 1) = inq \o <<sent + 1>>
    BY <1>2, <2>5, AppendIsConcat, SMTT(30)
  <2>8. Held' = before \o (inq \o <<sent + 1>>)
    BY <1>3, <2>7 DEF Held
  <2> HIDE DEF before
  <2>9. Held' = Held \o <<sent + 1>>
    BY <2>5, <2>6, <2>8, Associative
  <2> QED
    BY <1>1, <1>2, <1>3, <2>4, <2>6, <2>9, AccountsAppend
<1> QED
  BY <1>3, <1>6, <1>7 DEF InputInv, Idle, Starved, TrueWhileConnected, Kept

(* The reader is given a character that was made up,                       *)
LEMMA MadeUp ==
  ASSUME given \in Seq(Nat)
  PROVE  /\ Append(given, Stale) \in Seq(Nat)
         /\ Grows(given, Append(given, Stale))
<1>1. Stale \in Nat
  BY DEF Stale
<1>2. Append(given, Stale) = given \o <<Stale>> /\ <<Stale>> \in Seq(Nat)
  BY <1>1, AppendIsConcat
<1>3. Grows(given, Append(given, Stale))
  BY <1>2, GrowsBy
<1> QED
  BY <1>1, <1>3, AppendProperties

(* or characters that were received for it, if any.                        *)
Gives ==
  \/ given' = given /\ delivered' = delivered
  \/ \E s \in Seq(1..sent) : Give(s)

LEMMA Given ==
  ASSUME InputTypeOK, Gives
  PROVE  /\ given' \in Seq(Nat) /\ Grows(given, given')
         /\ given = delivered => given' = delivered'
<1>1. given \in Seq(Nat) /\ \A s \in Seq(1..sent) : s \in Seq(Nat)
  BY InputTypes, Small DEF InputTypeOK
<1>2. CASE given' = given /\ delivered' = delivered
  BY <1>1, <1>2, GrowsNot
<1>3. ASSUME NEW s \in Seq(1..sent), Give(s)
      PROVE  /\ given' \in Seq(Nat) /\ Grows(given, given')
             /\ given = delivered => given' = delivered'
  <2>1. given' = given \o s /\ delivered' = delivered \o s /\ s \in Seq(Nat)
    BY <1>1, <1>3 DEF Give
  <2>2. Grows(given, given')
    BY <2>1, GrowsBy
  <2> QED
    BY <1>1, <2>1, <2>2, ConcatProperties
<1> QED
  BY <1>2, <1>3 DEF Gives

LEMMA BumpGives ==
  ASSUME InputTypeOK, Bump
  PROVE  Gives
<1>1. Head(area) \in 1..sent /\ Give(<<Head(area)>>)
  BY InputTypes, CutFirst DEF Bump
<1>2. <<Head(area)>> \in Seq(1..sent)
  BY <1>1
<1> QED
  BY <1>1, <1>2 DEF Gives

LEMMA BumpKeeps ==
  ASSUME InputInv, Bump, nonblocking' = nonblocking
  PROVE  InputInv'
<1>1. InputTypeOK /\ Accounts(Held, dropped, sent) /\ got = <<>>
  BY DEF InputInv, Idle, Bump
<1>2. /\ delivered' = delivered \o <<Head(area)>> /\ area' = Tail(area) /\ area # <<>>
      /\ sent' = sent /\ end' = end /\ inq' = inq /\ connected' = connected
      /\ past' = past /\ call' = call /\ want' = want /\ got' = got
      /\ dropped' = dropped /\ starved' = starved /\ corrupt' = corrupt /\ cut' = cut
  BY DEF Bump, Give, peer
<1>3. /\ Head(area) \in 1..sent /\ Tail(area) \in Seq(1..sent)
      /\ Len(Tail(area)) = Len(area) - 1 /\ <<Head(area)>> \o Tail(area) = area
  BY <1>1, <1>2, InputTypes, CutFirst
<1>4. delivered' \in Seq(1..sent)
  <2>1. <<Head(area)>> \in Seq(1..sent)
    BY <1>3
  <2> QED
    BY <1>1, <1>2, <2>1, InputTypes, ConcatProperties
<1>g. given' \in Seq(Nat) /\ (given = delivered => given' = delivered')
  BY <1>1, BumpGives, Given
<1>5. InputTypeOK'
  <2>1. Len(Tail(area)) <= BufSize
    BY <1>1, <1>3, InputTypes, InputAssumption DEF InputTypeOK
  <2> QED
    BY <1>1, <1>2, <1>3, <1>4, <1>g, <2>1 DEF InputTypeOK
<1>6. Held' = Held
  <2>1. <<Head(area)>> \in Seq(Nat) /\ Tail(area) \in Seq(Nat) /\ delivered \in Seq(Nat)
    <3>1. Head(area) \in Nat
      BY <1>1, <1>3, InputTypes
    <3> QED
      BY <1>1, <1>3, <3>1, InputTypes, Small
  <2>2. ((delivered \o <<Head(area)>>) \o <<>>) \o Tail(area)
          = (delivered \o <<>>) \o area
    <3>1. ((delivered \o <<Head(area)>>) \o <<>>) \o Tail(area)
            = (delivered \o <<>>) \o (<<Head(area)>> \o Tail(area))
      BY <2>1, MoveArea, ZenonT(60)
    <3> QED
      BY <1>3, <3>1, ZenonT(60)
  <2> QED
    BY <1>1, <1>2, <2>2 DEF Held
<1> QED
  <2>1. Idle' /\ call = "none"
    BY <1>1, <1>2 DEF InputInv, Idle, Bump
  <2>2. Starved' /\ TrueWhileConnected'
    BY <1>2, <1>g DEF InputInv, Starved, TrueWhileConnected
  <2>3. Kept' /\ Accounts(Held', dropped', sent')
    BY <1>1, <1>2, <1>6 DEF InputInv, Kept
  <2> QED
    BY <1>5, <2>1, <2>2, <2>3 DEF InputInv

(* Nothing moves.                                                          *)
LEMMA StillAccounts ==
  ASSUME InputInv, sent' = sent, inq' = inq, area' = area, got' = got,
         delivered' = delivered, dropped' = dropped
  PROVE  Accounts(Held', dropped', sent')
<1>1. Held' = Held
  BY DEF Held
<1> QED
  BY <1>1 DEF InputInv

LEMMA PeerEndKeeps ==
  ASSUME InputInv, PeerEnd, nonblocking' = nonblocking
  PROVE  InputInv'
<1>1. /\ sent' = sent /\ inq' = inq /\ connected' = connected /\ area' = area
      /\ past' = past /\ call' = call /\ want' = want /\ got' = got
      /\ delivered' = delivered /\ dropped' = dropped
      /\ starved' = starved /\ given' = given
      /\ corrupt' = corrupt /\ cut' = cut /\ end' \in {"fin", "reset"}
  BY DEF PeerEnd, buffer
<1>2. Accounts(Held', dropped', sent')
  BY <1>1, StillAccounts
<1>3. InputTypeOK'
  BY <1>1 DEF InputInv, InputTypeOK
<1> QED
  BY <1>1, <1>2, <1>3 DEF InputInv, Idle, Starved, TrueWhileConnected, Kept

LEMMA CloseClientKeeps ==
  ASSUME InputInv, CloseClient, nonblocking' = nonblocking
  PROVE  InputInv'
<1>1. /\ sent' = sent /\ end' = end /\ inq' = inq /\ area' = area /\ past' = past
      /\ call' = call /\ want' = want /\ got' = got /\ delivered' = delivered
      /\ dropped' = dropped /\ starved' = starved /\ given' = given
      /\ corrupt' = corrupt /\ cut' = cut
      /\ connected' = FALSE
  BY DEF CloseClient, peer, buffer
<1>2. Accounts(Held', dropped', sent')
  BY <1>1, StillAccounts
<1>3. InputTypeOK'
  BY <1>1 DEF InputInv, InputTypeOK
<1> QED
  BY <1>1, <1>2, <1>3 DEF InputInv, Idle, Starved, TrueWhileConnected, Kept

LEMMA StartUnderflowKeeps ==
  ASSUME InputInv, NEW c \in {"sgetc", "sbumpc"}, StartUnderflow(c),
         nonblocking' = nonblocking
  PROVE  InputInv'
<1>1. /\ sent' = sent /\ end' = end /\ inq' = inq /\ connected' = connected
      /\ area' = area /\ past' = past /\ want' = want /\ got' = got
      /\ delivered' = delivered /\ dropped' = dropped
      /\ starved' = starved /\ given' = given
      /\ corrupt' = corrupt /\ cut' = cut /\ call' = c /\ call = "none" /\ area = <<>>
  BY DEF StartUnderflow, peer, buffer
<1>2. Accounts(Held', dropped', sent')
  BY <1>1, StillAccounts
<1>3. InputTypeOK'
  <2>1. (c = "sgetn") = (want > 0)
    BY <1>1 DEF InputInv, InputTypeOK
  <2> QED
    BY <1>1, <2>1 DEF InputInv, InputTypeOK
<1> QED
  BY <1>1, <1>2, <1>3 DEF InputInv, Idle, Starved, TrueWhileConnected, Kept

(* A character is made up only when gptr() lies behind egptr().            *)
LEMMA BumpPastKeeps ==
  ASSUME InputInv, BumpPast, nonblocking' = nonblocking
  PROVE  InputInv'
<1>1. /\ sent' = sent /\ end' = end /\ inq' = inq /\ connected' = connected
      /\ area' = area /\ past' = past /\ call' = call /\ want' = want /\ got' = got
      /\ delivered' = delivered /\ dropped' = dropped
      /\ corrupt' = corrupt /\ cut' = cut /\ past
      /\ starved' = starved /\ given' = Append(given, Stale)
  BY DEF BumpPast, peer, buffer
<1>g. given' \in Seq(Nat)
  BY <1>1, MadeUp DEF InputInv, InputTypeOK
<1>2. Accounts(Held', dropped', sent')
  BY <1>1, StillAccounts
<1>3. InputTypeOK'
  BY <1>1, <1>g DEF InputInv, InputTypeOK
<1> QED
  BY <1>1, <1>2, <1>3 DEF InputInv, Idle, Starved, TrueWhileConnected, Kept

LEMMA StartReadPastKeeps ==
  ASSUME InputInv, StartReadPast, nonblocking' = nonblocking
  PROVE  InputInv'
<1>1. /\ sent' = sent /\ end' = end /\ inq' = inq /\ connected' = connected
      /\ area' = area /\ past' = past /\ call' = call /\ want' = want /\ got' = got
      /\ delivered' = delivered /\ dropped' = dropped
      /\ starved' = starved /\ given' = given /\ cut' = cut /\ corrupt' = TRUE /\ past
  BY DEF StartReadPast, peer, buffer
<1>2. Accounts(Held', dropped', sent')
  BY <1>1, StillAccounts
<1>3. InputTypeOK'
  BY <1>1 DEF InputInv, InputTypeOK
<1> QED
  BY <1>1, <1>2, <1>3 DEF InputInv, Idle, Starved, TrueWhileConnected, Kept

LEMMA UnderflowEndKeeps ==
  ASSUME InputInv, UnderflowEnd, nonblocking' = nonblocking
  PROVE  InputInv'
<1>1. /\ sent' = sent /\ end' = end /\ inq' = inq /\ area' = area /\ want' = want
      /\ got' = got /\ delivered' = delivered /\ dropped' = dropped
      /\ corrupt' = corrupt /\ cut' = cut
      /\ connected' = FALSE /\ past' = (call = "sbumpc")
      /\ starved' = TRUE /\ given' = Append(given, Stale)
      /\ call' = "none" /\ call \in {"sgetc", "sbumpc"}
  BY DEF UnderflowEnd, peer
<1>g. given' \in Seq(Nat)
  BY <1>1, MadeUp DEF InputInv, InputTypeOK
<1>2. Accounts(Held', dropped', sent')
  BY <1>1, StillAccounts
<1>3. InputTypeOK'
  <2>1. ("none" = "sgetn") = (want > 0) /\ past' \in BOOLEAN
    BY <1>1 DEF InputInv, InputTypeOK
  <2> QED
    BY <1>1, <1>g, <2>1 DEF InputInv, InputTypeOK
<1> QED
  BY <1>1, <1>2, <1>3 DEF InputInv, Idle, Starved, TrueWhileConnected, Kept

(* Only a non-blocking socket makes the pointers cross while it is open.   *)
LEMMA UnderflowAgainKeeps ==
  ASSUME InputInv, UnderflowAgain, nonblocking' = nonblocking
  PROVE  InputInv'
<1>1. /\ sent' = sent /\ end' = end /\ inq' = inq /\ connected' = connected
      /\ area' = area /\ want' = want /\ got' = got /\ delivered' = delivered
      /\ dropped' = dropped /\ corrupt' = corrupt /\ cut' = cut
      /\ past' = TRUE /\ nonblocking
      /\ starved' = TRUE /\ given' = Append(given, Stale)
      /\ call' = "none" /\ call \in {"sgetc", "sbumpc"}
  BY DEF UnderflowAgain, WouldBlock, peer
<1>g. given' \in Seq(Nat)
  BY <1>1, MadeUp DEF InputInv, InputTypeOK
<1>2. Accounts(Held', dropped', sent')
  BY <1>1, StillAccounts
<1>3. InputTypeOK'
  <2>1. ("none" = "sgetn") = (want > 0)
    BY <1>1 DEF InputInv, InputTypeOK
  <2> QED
    BY <1>1, <1>g, <2>1 DEF InputInv, InputTypeOK
<1> QED
  BY <1>1, <1>2, <1>3 DEF InputInv, Idle, Starved, TrueWhileConnected, Kept

LEMMA RecvThrowsEnds ==
  ASSUME InputTypeOK, RecvThrows
  PROVE  end' \in {"open", "fin", "reset"} /\ cut' = TRUE
BY DEF InputTypeOK, RecvThrows

LEMMA UnderflowThrowsKeeps ==
  ASSUME InputInv, UnderflowThrows, nonblocking' = nonblocking
  PROVE  InputInv'
<1>1. /\ sent' = sent /\ inq' = inq /\ connected' = connected
      /\ area' = area /\ past' = past /\ want' = want /\ got' = got
      /\ delivered' = delivered /\ dropped' = dropped
      /\ starved' = starved /\ given' = given
      /\ corrupt' = corrupt /\ call' = "none" /\ call \in {"sgetc", "sbumpc"}
  BY DEF UnderflowThrows, buffer
<1>2. Accounts(Held', dropped', sent')
  BY <1>1, StillAccounts
<1>3. end' \in {"open", "fin", "reset"} /\ cut' = TRUE
  BY RecvThrowsEnds DEF UnderflowThrows, InputInv
<1>4. InputTypeOK'
  <2>1. ("none" = "sgetn") = (want > 0)
    BY <1>1 DEF InputInv, InputTypeOK
  <2> QED
    BY <1>1, <1>3, <2>1 DEF InputInv, InputTypeOK
<1> QED
  BY <1>1, <1>2, <1>3, <1>4 DEF InputInv, Idle, Starved, TrueWhileConnected, Kept

LEMMA ReadEndKeeps ==
  ASSUME InputInv, ReadEnd, nonblocking' = nonblocking
  PROVE  InputInv'
<1>1. /\ sent' = sent /\ end' = end /\ inq' = inq /\ area' = area /\ past' = past
      /\ call' = call /\ want' = want /\ got' = got /\ delivered' = delivered
      /\ dropped' = dropped /\ starved' = starved /\ given' = given
      /\ corrupt' = corrupt /\ cut' = cut
      /\ connected' = FALSE
  BY DEF ReadEnd, peer, buffer
<1>2. Accounts(Held', dropped', sent')
  BY <1>1, StillAccounts
<1>3. InputTypeOK'
  BY <1>1 DEF InputInv, InputTypeOK
<1> QED
  BY <1>1, <1>2, <1>3 DEF InputInv, Idle, Starved, TrueWhileConnected, Kept

(* What a recv with a buffer of n characters takes from the kernel.        *)
LEMMA Received ==
  ASSUME InputTypeOK, inq # <<>>, NEW n \in Nat \ {0}
  PROVE  /\ Count(n) \in 1..Len(inq) /\ Count(n) <= n
         /\ SubSeq(inq, 1, Count(n)) \in Seq(1..sent)
         /\ SubSeq(inq, 1, Count(n)) # <<>> /\ Len(SubSeq(inq, 1, Count(n))) = Count(n)
         /\ SubSeq(inq, Count(n) + 1, Len(inq)) \in Seq(1..sent)
         /\ SubSeq(inq, 1, Count(n)) \o SubSeq(inq, Count(n) + 1, Len(inq)) = inq
<1>1. inq \in Seq(1..sent) /\ Len(inq) \in Nat \ {0}
  <2>1. inq \in Seq(1..sent)
    BY InputTypes
  <2> QED
    BY <2>1, EmptySeq
<1>2. Count(n) \in 1..Len(inq) /\ Count(n) <= n
  BY <1>1 DEF Count
<1>3. Count(n) \in 0..Len(inq)
  BY <1>1, <1>2
<1>4. /\ SubSeq(inq, 1, Count(n)) \in Seq(1..sent)
      /\ Len(SubSeq(inq, 1, Count(n))) = Count(n)
      /\ SubSeq(inq, Count(n) + 1, Len(inq)) \in Seq(1..sent)
      /\ SubSeq(inq, 1, Count(n)) \o SubSeq(inq, Count(n) + 1, Len(inq)) = inq
  BY <1>1, <1>3, CutInTwo
<1>5. Len(<<>>) = 0 /\ Count(n) # 0
  BY <1>1, <1>2, EmptySeq
<1> QED
  BY <1>2, <1>4, <1>5

LEMMA UnderflowGives ==
  ASSUME InputTypeOK, Underflow
  PROVE  Gives
<1> DEFINE filled == SubSeq(inq, 1, Count(BufSize))
<1>1. Give(<<Head(filled)>>) \/ (given' = given /\ delivered' = delivered)
  BY DEF Underflow
<1>2. filled \in Seq(1..sent) /\ filled # <<>>
  BY Received, InputAssumption DEF Underflow
<1> HIDE DEF filled
<1>3. Head(filled) \in 1..sent
  BY <1>2, CutFirst
<1>4. <<Head(filled)>> \in Seq(1..sent)
  BY <1>3
<1> QED
  BY <1>1, <1>4 DEF Gives

LEMMA UnderflowKeeps ==
  ASSUME InputInv, Underflow, nonblocking' = nonblocking
  PROVE  InputInv'
<1> DEFINE k == Count(BufSize)
           filled == SubSeq(inq, 1, k)
           rest == SubSeq(inq, k + 1, Len(inq))
<1>1. /\ InputTypeOK /\ Accounts(Held, dropped, sent) /\ got = <<>> /\ area = <<>>
      /\ call \in {"sgetc", "sbumpc"} /\ want = 0 /\ inq # <<>>
  <2>1. /\ InputTypeOK /\ Accounts(Held, dropped, sent) /\ Idle
        /\ call \in {"sgetc", "sbumpc"} /\ inq # <<>>
    BY DEF InputInv, Underflow
  <2>2. got = <<>> /\ area = <<>>
    BY <2>1 DEF Idle
  <2>3. want \in Nat /\ ~(want > 0)
    BY <2>1, InputTypes DEF InputTypeOK
  <2> QED
    BY <2>1, <2>2, <2>3
<1>2. /\ sent' = sent /\ end' = end /\ connected' = connected /\ past' = past
      /\ want' = want /\ got' = got /\ dropped' = dropped /\ starved' = starved
      /\ corrupt' = corrupt /\ cut' = cut /\ call' = "none" /\ inq' = rest
  BY DEF Underflow, peer
<1>3. \/ /\ call = "sbumpc"
         /\ delivered' = delivered \o <<Head(filled)>> /\ area' = Tail(filled)
      \/ delivered' = delivered /\ area' = filled
  BY DEF Underflow, Give
<1>4. /\ k \in 1..Len(inq) /\ k <= BufSize
      /\ filled \in Seq(1..sent) /\ filled # <<>> /\ Len(filled) = k
      /\ rest \in Seq(1..sent) /\ filled \o rest = inq
  BY <1>1, Received, InputAssumption
<1> HIDE DEF k, filled, rest
<1>5. /\ Head(filled) \in 1..sent /\ Tail(filled) \in Seq(1..sent)
      /\ Len(Tail(filled)) = Len(filled) - 1
      /\ <<Head(filled)>> \o Tail(filled) = filled
  BY <1>4, CutFirst
<1>6. delivered \o <<Head(filled)>> \in Seq(1..sent)
  <2>1. <<Head(filled)>> \in Seq(1..sent)
    BY <1>5
  <2> QED
    BY <1>1, <2>1, InputTypes, ConcatProperties
<1>g. given' \in Seq(Nat) /\ (given = delivered => given' = delivered')
  BY <1>1, UnderflowGives, Given
<1>7. Len(filled) <= BufSize /\ Len(Tail(filled)) <= BufSize
  BY <1>1, <1>4, <1>5, InputTypes, InputAssumption
<1>8. InputTypeOK'
  <2>1. ("none" = "sgetn") = (want > 0)
    BY <1>1
  <2>2. delivered' \in Seq(1..sent) /\ area' \in Seq(1..sent) /\ Len(area') <= BufSize
    BY <1>1, <1>3, <1>4, <1>5, <1>6, <1>7, InputTypes
  <2> QED
    BY <1>1, <1>2, <1>4, <1>g, <2>1, <2>2 DEF InputTypeOK
<1>9. Held' = Held
  <2>1. rest \in Seq(Nat) /\ delivered \in Seq(Nat)
    BY <1>1, <1>4, InputTypes, Small
  <2>2. filled \in Seq(Nat)
    BY <1>1, <1>4, InputTypes, Small
  <2>3. Tail(filled) \in Seq(Nat) /\ <<Head(filled)>> \in Seq(Nat)
    <3>1. Head(filled) \in Nat
      BY <1>1, <1>5, InputTypes
    <3> QED
      BY <1>1, <1>5, <3>1, InputTypes, Small
  <2>4. ((delivered \o <<>>) \o filled) \o rest
             = ((delivered \o <<>>) \o <<>>) \o (filled \o rest)
    BY <2>1, <2>2, MoveFill
  <2>5. (((delivered \o <<Head(filled)>>) \o <<>>) \o Tail(filled)) \o rest
             = ((delivered \o <<>>) \o <<>>) \o ((<<Head(filled)>> \o Tail(filled)) \o rest)
    <3>1. \A y, x, t \in Seq(Nat) :
            (((delivered \o y) \o <<>>) \o x) \o t
              = ((delivered \o <<>>) \o <<>>) \o ((y \o x) \o t)
      BY <2>1, MoveFillFirst
    <3> QED
      BY <2>1, <2>3, <3>1, ZenonT(60)
  <2>6. Held = ((delivered \o <<>>) \o <<>>) \o (filled \o rest)
    BY <1>1, <1>4 DEF Held
  <2>7. Held' = ((delivered' \o <<>>) \o area') \o rest
    BY <1>1, <1>2 DEF Held
  <2> QED
    BY <1>3, <1>5, <2>4, <2>5, <2>6, <2>7
<1> QED
  BY <1>1, <1>2, <1>8, <1>9, <1>g
  DEF InputInv, Idle, Starved, TrueWhileConnected, Kept

LEMMA StartReadGives ==
  ASSUME InputTypeOK, NEW n \in 1..MaxRead, StartRead(n)
  PROVE  Gives
<1> DEFINE k == IF n < Len(area) THEN n ELSE Len(area)
<1>1. Give(SubSeq(area, 1, k)) \/ (given' = given /\ delivered' = delivered)
  BY DEF StartRead
<1>2. k \in 0..Len(area) /\ area \in Seq(1..sent)
  BY InputTypes
<1> HIDE DEF k
<1>3. SubSeq(area, 1, k) \in Seq(1..sent)
  BY <1>2, CutInTwo
<1> QED
  BY <1>1, <1>3 DEF Gives

LEMMA StartReadKeeps ==
  ASSUME InputInv, NEW n \in 1..MaxRead, StartRead(n), nonblocking' = nonblocking
  PROVE  InputInv'
<1> DEFINE k == IF n < Len(area) THEN n ELSE Len(area)
           first == SubSeq(area, 1, k)
           rest == SubSeq(area, k + 1, Len(area))
<1>1. /\ InputTypeOK /\ Accounts(Held, dropped, sent) /\ got = <<>> /\ call = "none"
      /\ want = 0
  BY DEF InputInv, InputTypeOK, Idle, StartRead
<1>2. /\ sent' = sent /\ end' = end /\ inq' = inq /\ connected' = connected
      /\ past' = past /\ dropped' = dropped /\ starved' = starved /\ corrupt' = corrupt
      /\ cut' = cut /\ area' = rest
  BY DEF StartRead, peer
<1>3. \/ /\ k = n /\ delivered' = delivered \o first
         /\ call' = call /\ want' = want /\ got' = got
      \/ /\ k # n /\ call' = "sgetn" /\ want' = n - k /\ got' = first
         /\ delivered' = delivered
  BY DEF StartRead, Give
<1>g. given' \in Seq(Nat) /\ (given = delivered => given' = delivered')
  BY <1>1, StartReadGives, Given
<1>4. /\ n \in Nat /\ n <= MaxRead /\ k \in 0..Len(area) /\ k <= n
      /\ (k # n => k = Len(area))
  BY <1>1, InputTypes, InputAssumption
<1> HIDE DEF k
<1>5. /\ first \in Seq(1..sent) /\ Len(first) = k /\ rest \in Seq(1..sent)
      /\ first \o rest = area
  BY <1>1, <1>4, InputTypes, CutInTwo, ZenonT(60)
<1>6. Len(rest) <= BufSize /\ (k = Len(area) => rest = <<>>)
  <2>1. \A i \in (k + 1)..Len(area) : area[i] \in 1..sent
    BY <1>1, <1>4, InputTypes, ElementOfSeq
  <2>2. Len(rest) = IF k + 1 <= Len(area) THEN Len(area) - (k + 1) + 1 ELSE 0
    BY <1>1, <1>4, <2>1, InputTypes, SubSeqProperties
  <2>3. Len(area) <= BufSize /\ Len(area) \in Nat
    BY <1>1, InputTypes DEF InputTypeOK
  <2>4. k = Len(area) => Len(rest) = 0
    BY <2>2, <2>3
  <2>5. k = Len(area) => rest = <<>>
    BY <1>5, <2>4, EmptySeq
  <2>6. Len(rest) <= BufSize
    <3>1. k \in Nat /\ BufSize \in Nat
      BY <1>4, <2>3, InputAssumption
    <3> QED
      BY <2>2, <2>3, <3>1
  <2> QED
    BY <2>5, <2>6
<1> HIDE DEF first, rest
<1>7. InputTypeOK'
  <2>1. delivered \o first \in Seq(1..sent)
    BY <1>1, <1>5, InputTypes, ConcatProperties
  <2>2. k # n => n - k \in 0..MaxRead /\ n - k > 0 /\ Len(first) + (n - k) <= MaxRead
    BY <1>1, <1>4, <1>5, InputTypes, InputAssumption
  <2>3. ("none" = "sgetn") = (0 > 0) /\ (n - k > 0 => ("sgetn" = "sgetn") = (n - k > 0))
    OBVIOUS
  <2>4. CASE k = n
    BY <1>1, <1>2, <1>3, <1>5, <1>6, <1>g, <2>1, <2>4 DEF InputTypeOK
  <2>5. CASE k # n
    BY <1>1, <1>2, <1>3, <1>5, <1>6, <1>g, <2>2, <2>3, <2>5 DEF InputTypeOK
  <2> QED
    BY <2>4, <2>5
<1>8. Held' = Held
  <2>1. first \in Seq(Nat) /\ rest \in Seq(Nat) /\ delivered \in Seq(Nat)
    BY <1>1, <1>5, InputTypes, Small
  <2>2. /\ ((delivered \o first) \o <<>>) \o rest
             = (delivered \o <<>>) \o (first \o rest)
        /\ (delivered \o first) \o rest = (delivered \o <<>>) \o (first \o rest)
    BY <2>1, MoveArea
  <2>3. Held = ((delivered \o <<>>) \o (first \o rest)) \o inq
    BY <1>1, <1>5 DEF Held
  <2>4. Held' = ((delivered' \o got') \o rest) \o inq
    BY <1>2 DEF Held
  <2> QED
    BY <1>1, <1>3, <2>2, <2>3, <2>4
<1>9. Idle'
  BY <1>1, <1>2, <1>3, <1>4, <1>6 DEF Idle
<1> QED
  BY <1>1, <1>2, <1>7, <1>8, <1>9, <1>g DEF InputInv, Starved, TrueWhileConnected, Kept

LEMMA ReadGives ==
  ASSUME InputTypeOK, Read
  PROVE  Gives
<1> DEFINE taken == SubSeq(inq, 1, Count(want))
<1>1. Give(got \o taken) \/ (given' = given /\ delivered' = delivered)
  BY DEF Read
<1>2. want \in Nat \ {0}
  <2>1. want \in Nat /\ ("sgetn" = "sgetn") = (want > 0)
    BY InputTypes DEF InputTypeOK, Read
  <2> QED
    BY <2>1
<1>3. taken \in Seq(1..sent)
  BY <1>2, Received DEF Read
<1> HIDE DEF taken
<1>4. got \o taken \in Seq(1..sent)
  BY <1>3, InputTypes, ConcatProperties
<1> QED
  BY <1>1, <1>4 DEF Gives

LEMMA ReadKeeps ==
  ASSUME InputInv, Read, nonblocking' = nonblocking
  PROVE  InputInv'
<1> DEFINE k == Count(want)
           taken == SubSeq(inq, 1, k)
           rest == SubSeq(inq, k + 1, Len(inq))
           all == got \o taken
<1>1. /\ InputTypeOK /\ Accounts(Held, dropped, sent) /\ area = <<>>
      /\ call = "sgetn" /\ inq # <<>>
  BY DEF InputInv, Idle, Read
<1>2. /\ sent' = sent /\ end' = end /\ connected' = connected /\ area' = area
      /\ past' = past /\ dropped' = dropped /\ starved' = starved /\ corrupt' = corrupt
      /\ cut' = cut /\ inq' = rest
  BY DEF Read, peer, buffer
<1>3. \/ /\ k = want /\ delivered' = delivered \o all
         /\ call' = "none" /\ want' = 0 /\ got' = <<>>
      \/ /\ k # want /\ want' = want - k /\ got' = all
         /\ call' = call /\ delivered' = delivered
  BY DEF Read, Give
<1>g. given' \in Seq(Nat) /\ (given = delivered => given' = delivered')
  BY <1>1, ReadGives, Given
<1>4. want \in Nat \ {0} /\ want <= MaxRead /\ Len(got) + want <= MaxRead
  <2>1. want \in 0..MaxRead /\ ("sgetn" = "sgetn") = (want > 0)
    BY <1>1 DEF InputTypeOK
  <2>2. want > 0
    BY <2>1
  <2> QED
    BY <1>1, <2>1, <2>2, InputTypes, InputAssumption DEF InputTypeOK
<1>5. /\ k \in 1..Len(inq) /\ k <= want
      /\ taken \in Seq(1..sent) /\ Len(taken) = k
      /\ rest \in Seq(1..sent) /\ taken \o rest = inq
  BY <1>1, <1>4, Received
<1> HIDE DEF k, taken, rest
<1>6. all \in Seq(1..sent) /\ Len(all) = Len(got) + k
  BY <1>1, <1>5, InputTypes, ConcatProperties
<1>7. delivered \o all \in Seq(1..sent)
  BY <1>1, <1>6, InputTypes, ConcatProperties
<1>8. InputTypeOK'
  <2>1. Len(got) \in Nat /\ Len(inq) \in Nat /\ MaxRead \in Nat
    BY <1>1, InputTypes, InputAssumption
  <2>2. k \in Nat \ {0}
    BY <1>5, <2>1
  <2>3. k # want => /\ want - k \in 0..MaxRead /\ want - k > 0
                    /\ (Len(got) + k) + (want - k) <= MaxRead
    BY <1>4, <1>5, <2>1, <2>2
  <2>4. /\ ("none" = "sgetn") = (0 > 0)
        /\ (want - k > 0 => ("sgetn" = "sgetn") = (want - k > 0))
        /\ 0 \in 0..MaxRead /\ 0 + 0 <= MaxRead
    BY <2>1
  <2>5. <<>> \in Seq(1..sent) /\ Len(<<>>) = 0
    BY EmptySeq
  <2>6. CASE k = want
    BY <1>1, <1>2, <1>3, <1>5, <1>7, <1>g, <2>4, <2>5, <2>6 DEF InputTypeOK
  <2>7. CASE k # want
    <3>1. call' = "sgetn" /\ want' = want - k /\ got' = all /\ delivered' = delivered
      BY <1>1, <1>3, <2>7
    <3>2. /\ got' \in Seq(1..sent) /\ want' \in 0..MaxRead /\ Len(got') + want' <= MaxRead
          /\ (call' = "sgetn") = (want' > 0)
      BY <1>6, <2>3, <2>4, <2>7, <3>1
    <3> HIDE DEF all
    <3> QED
      BY <1>1, <1>2, <1>5, <1>g, <3>1, <3>2 DEF InputTypeOK
  <2> QED
    BY <2>6, <2>7
<1>9. Held' = Held
  <2>1. delivered \in Seq(Nat) /\ got \in Seq(Nat)
    BY <1>1, InputTypes
  <2>2. taken \in Seq(Nat) /\ rest \in Seq(Nat)
    BY <1>1, <1>5, InputTypes, Small
  <2>3. \A x, t \in Seq(Nat) :
          /\ (((delivered \o (got \o x)) \o <<>>) \o <<>>) \o t
               = ((delivered \o got) \o <<>>) \o (x \o t)
          /\ ((delivered \o (got \o x)) \o <<>>) \o t
               = ((delivered \o got) \o <<>>) \o (x \o t)
    BY <2>1, MoveRead
  <2>4. /\ (((delivered \o all) \o <<>>) \o <<>>) \o rest
             = ((delivered \o got) \o <<>>) \o (taken \o rest)
        /\ ((delivered \o all) \o <<>>) \o rest
             = ((delivered \o got) \o <<>>) \o (taken \o rest)
    BY <2>2, <2>3
  <2>5. Held = ((delivered \o got) \o <<>>) \o (taken \o rest)
    BY <1>1, <1>5 DEF Held
  <2>6. Held' = ((delivered' \o got') \o <<>>) \o rest
    BY <1>1, <1>2 DEF Held
  <2> HIDE DEF all
  <2> QED
    BY <1>3, <2>4, <2>5, <2>6
<1>10. Idle'
  BY <1>1, <1>2, <1>3 DEF Idle
<1> QED
  BY <1>1, <1>2, <1>8, <1>9, <1>10, <1>g DEF InputInv, Starved, TrueWhileConnected, Kept

(* The characters copied so far are lost.                                  *)
LEMMA LoseAccounts ==
  ASSUME InputInv, sent' = sent, inq' = inq, area' = area, got' = <<>>,
         delivered' = delivered, dropped' = dropped \cup ToSet(got)
  PROVE  Accounts(Held', dropped', sent') /\ dropped' \subseteq 1..sent
<1>1. InputTypeOK /\ Accounts(((delivered \o got) \o area) \o inq, dropped, sent)
  BY DEF InputInv, Held
<1>2. /\ delivered \in Seq(Nat) /\ got \in Seq(Nat) /\ area \in Seq(Nat) /\ inq \in Seq(Nat)
      /\ sent \in Nat
  BY <1>1, InputTypes
<1>3. Accounts(((delivered \o <<>>) \o area) \o inq, dropped \cup ToSet(got), sent)
  BY <1>1, <1>2, MoveAway
<1>4. dropped \subseteq 1..sent /\ ToSet(got) \subseteq 1..sent
  BY <1>1, <1>2, InputTypes, SetBound DEF InputTypeOK
<1> QED
  BY <1>3, <1>4 DEF Held

LEMMA ReadEofKeeps ==
  ASSUME InputInv, ReadEof, nonblocking' = nonblocking
  PROVE  InputInv'
<1>1. /\ sent' = sent /\ end' = end /\ inq' = inq /\ connected' = connected
      /\ area' = area /\ past' = past /\ delivered' = delivered
      /\ starved' = starved /\ given' = given /\ corrupt' = corrupt /\ cut' = cut
      /\ call' = "none" /\ want' = 0 /\ got' = <<>>
      /\ dropped' = dropped \cup ToSet(got) /\ ~connected
  BY DEF ReadEof, peer, buffer
<1>2. Accounts(Held', dropped', sent') /\ dropped' \subseteq 1..sent
  BY <1>1, LoseAccounts
<1>3. InputTypeOK'
  <2>1. <<>> \in Seq(1..sent) /\ Len(<<>>) = 0
    BY EmptySeq
  <2>2. 0 \in 0..MaxRead /\ 0 + 0 <= MaxRead /\ ("none" = "sgetn") = (0 > 0)
    BY InputAssumption
  <2> QED
    BY <1>1, <1>2, <2>1, <2>2 DEF InputInv, InputTypeOK
<1> QED
  BY <1>1, <1>2, <1>3 DEF InputInv, Idle, Starved, TrueWhileConnected, Kept

LEMMA ReadThrowsKeeps ==
  ASSUME InputInv, ReadThrows, nonblocking' = nonblocking
  PROVE  InputInv'
<1>1. /\ sent' = sent /\ inq' = inq /\ connected' = connected
      /\ area' = area /\ past' = past /\ delivered' = delivered
      /\ starved' = starved /\ given' = given /\ corrupt' = corrupt
      /\ call' = "none" /\ want' = 0 /\ got' = <<>>
      /\ dropped' = dropped \cup ToSet(got) /\ RecvThrows
  BY DEF ReadThrows, buffer
<1>2. Accounts(Held', dropped', sent') /\ dropped' \subseteq 1..sent
  BY <1>1, LoseAccounts
<1>3. end' \in {"open", "fin", "reset"} /\ cut' = TRUE
  BY <1>1, RecvThrowsEnds DEF InputInv
<1>4. InputTypeOK'
  <2>1. <<>> \in Seq(1..sent) /\ Len(<<>>) = 0
    BY EmptySeq
  <2>2. 0 \in 0..MaxRead /\ 0 + 0 <= MaxRead /\ ("none" = "sgetn") = (0 > 0)
    BY InputAssumption
  <2> QED
    BY <1>1, <1>2, <1>3, <2>1, <2>2 DEF InputInv, InputTypeOK
<1> QED
  BY <1>1, <1>2, <1>3, <1>4 DEF InputInv, Idle, Starved, TrueWhileConnected, Kept

(* Only a non-blocking socket makes xsgetn step back.                      *)
LEMMA ReadAgainKeeps ==
  ASSUME InputInv, ReadAgain, nonblocking' = nonblocking
  PROVE  InputInv'
<1>1. /\ InputTypeOK /\ Accounts(((delivered \o got) \o area) \o inq, dropped, sent)
      /\ call = "sgetn" /\ area = <<>>
  BY DEF InputInv, Held, Idle, ReadAgain
<1>2. /\ sent' = sent /\ end' = end /\ inq' = inq /\ connected' = connected
      /\ area' = area /\ past' = past /\ delivered' = delivered
      /\ starved' = starved /\ given' = given /\ cut' = cut /\ nonblocking
  BY DEF ReadAgain, WouldBlock, peer, buffer
<1>3. CASE got = <<>>
  <2>1. /\ corrupt' = TRUE /\ call' = "none" /\ want' = 0 /\ got' = got
        /\ dropped' = dropped
    BY <1>3 DEF ReadAgain
  <2>2. Accounts(Held', dropped', sent')
    BY <1>2, <2>1, StillAccounts
  <2>3. 0 \in 0..MaxRead /\ Len(<<>>) + 0 <= MaxRead /\ ("none" = "sgetn") = (0 > 0)
    BY InputAssumption, EmptySeq
  <2>4. InputTypeOK'
    BY <1>1, <1>2, <1>3, <2>1, <2>3 DEF InputTypeOK
  <2> QED
    BY <1>2, <1>3, <2>1, <2>2, <2>4 DEF InputInv, Idle, Starved, TrueWhileConnected, Kept
<1>4. CASE got # <<>>
  <2>1. /\ got' = Front(got) /\ want' = want + 1 /\ dropped' = dropped \cup {Last(got)}
        /\ call' = call /\ corrupt' = corrupt
    BY <1>4 DEF ReadAgain
  <2>2. /\ Front(got) \in Seq(1..sent) /\ Last(got) \in 1..sent
        /\ Len(Front(got)) = Len(got) - 1 /\ Front(got) \o <<Last(got)>> = got
    BY <1>1, <1>4, InputTypes, CutLast
  <2>3. /\ delivered \in Seq(Nat) /\ area \in Seq(Nat) /\ inq \in Seq(Nat) /\ sent \in Nat
        /\ Front(got) \in Seq(Nat) /\ Last(got) \in Nat
    BY <1>1, <2>2, InputTypes, Small
  <2>4. Accounts(((delivered \o Front(got)) \o area) \o inq, dropped \cup {Last(got)}, sent)
    BY <1>1, <2>2, <2>3, MoveLast
  <2>5. Accounts(Held', dropped', sent')
    BY <1>2, <2>1, <2>4 DEF Held
  <2>6. /\ want \in Nat /\ want > 0 /\ Len(got) \in Nat \ {0} /\ Len(got) + want <= MaxRead
        /\ MaxRead \in Nat
    <3>1. Len(got) \in Nat \ {0}
      BY <1>1, <1>4, InputTypes, EmptySeq
    <3>2. ("sgetn" = "sgetn") = (want > 0)
      BY <1>1 DEF InputTypeOK
    <3> QED
      BY <1>1, <3>1, <3>2, InputTypes, InputAssumption DEF InputTypeOK
  <2>7. /\ want + 1 \in 0..MaxRead /\ Len(Front(got)) + (want + 1) <= MaxRead
        /\ ("sgetn" = "sgetn") = (want + 1 > 0)
    BY <2>2, <2>6
  <2>8. InputTypeOK'
    <3>1. dropped \cup {Last(got)} \subseteq 1..sent
      BY <1>1, <2>2 DEF InputTypeOK
    <3> QED
      BY <1>1, <1>2, <2>1, <2>2, <2>7, <3>1 DEF InputTypeOK
  <2> QED
    BY <1>1, <1>2, <2>1, <2>5, <2>8
    DEF InputInv, Idle, Starved, TrueWhileConnected, Kept
<1> QED
  BY <1>3, <1>4

-----------------------------------------------------------------------------
LEMMA InputStep ==
  ASSUME InputInv, [InputNext]_inputVars
  PROVE  InputInv'
<1>1. CASE UNCHANGED inputVars
  <2>1. /\ nonblocking' = nonblocking /\ sent' = sent /\ end' = end /\ inq' = inq
        /\ connected' = connected /\ area' = area /\ past' = past /\ call' = call
        /\ want' = want /\ got' = got /\ delivered' = delivered /\ dropped' = dropped
        /\ starved' = starved /\ given' = given /\ corrupt' = corrupt /\ cut' = cut
    BY <1>1 DEF inputVars, peer, buffer
  <2>2. Accounts(Held', dropped', sent')
    BY <2>1, StillAccounts
  <2>3. InputTypeOK'
    BY <2>1 DEF InputInv, InputTypeOK
  <2> QED
    BY <2>1, <2>2, <2>3 DEF InputInv, Idle, Starved, TrueWhileConnected, Kept
<1>2. CASE Peer
  BY <1>2, PeerSendKeeps, PeerEndKeeps DEF Peer
<1>3. CASE Start
  <2>1. nonblocking' = nonblocking
    BY <1>3 DEF Start
  <2>2. \/ Bump \/ BumpPast \/ StartReadPast \/ CloseClient
        \/ \E c \in {"sgetc", "sbumpc"} : StartUnderflow(c)
        \/ \E n \in 1..MaxRead : StartRead(n)
    BY <1>3 DEF Start
  <2>3. ASSUME NEW n \in 1..MaxRead, StartRead(n) PROVE InputInv'
    BY <2>1, <2>3, StartReadKeeps
  <2>4. ASSUME NEW c \in {"sgetc", "sbumpc"}, StartUnderflow(c) PROVE InputInv'
    BY <2>1, <2>4, StartUnderflowKeeps
  <2> QED
    BY <2>1, <2>2, <2>3, <2>4, BumpKeeps, BumpPastKeeps, StartReadPastKeeps, CloseClientKeeps
<1>4. CASE Continue
  <2>1. nonblocking' = nonblocking
    BY <1>4 DEF Continue
  <2>2. \/ Underflow \/ UnderflowEnd \/ UnderflowAgain \/ UnderflowThrows
        \/ Read \/ ReadEnd \/ ReadEof \/ ReadAgain \/ ReadThrows
    BY <1>4 DEF Continue
  <2> QED
    BY <2>1, <2>2, UnderflowKeeps, UnderflowEndKeeps, UnderflowAgainKeeps,
       UnderflowThrowsKeeps, ReadKeeps, ReadEndKeeps, ReadEofKeeps, ReadAgainKeeps,
       ReadThrowsKeeps
<1> QED
  BY <1>1, <1>2, <1>3, <1>4 DEF InputNext

(* The invariant of the input half holds whatever the reader, the peer and *)
(* the kernel do (tcp_stream.cpp:31-40, 58-69).                            *)
THEOREM InputInvariant == InputSpec => []InputInv
BY InputStart, InputStep, PTL DEF InputSpec

(* Every variable of the input half has its type; in particular the get    *)
(* area never holds more than _ibuf (tcp_stream.cpp:36-37) and xsgetn      *)
(* never copies more than it was asked for (58-69).                        *)
THEOREM InputTyped == InputSpec => []InputTypeOK
<1>1. InputInv => InputTypeOK
  BY DEF InputInv
<1> QED
  BY <1>1, InputInvariant, PTL

(* No byte is duplicated, reordered or lost track of, however recv cuts    *)
(* them up and however sgetc, sbumpc and sgetn are mixed                   *)
(* (tcp_stream.cpp:31-40, 58-69).                                          *)
THEOREM InputConserved == InputSpec => []Conserved
<1>1. InputInv => Conserved
  BY DEF InputInv, Accounts, Held, Conserved
<1> QED
  BY <1>1, InputInvariant, PTL

(* On a blocking socket the reader is given no character that was not      *)
(* received for it, and nothing is written outside its array, while the    *)
(* client is connected (tcp_stream.cpp:31-40, 58-61).                      *)
THEOREM InputTrueWhileConnected == InputSpec => []TrueWhileConnected
<1>1. InputInv => TrueWhileConnected
  BY DEF InputInv
<1> QED
  BY <1>1, InputInvariant, PTL

-----------------------------------------------------------------------------
(* Numbers(n) is what the peer has sent.                                   *)
Numbers(n) == [i \in 1..n |-> i]

LEMMA NumbersGrow ==
  ASSUME NEW n \in Nat
  PROVE  /\ Numbers(n) \in Seq(Nat) /\ Increasing(Numbers(n))
         /\ InputStream!IsPrefix(Numbers(n), Numbers(n))
         /\ InputStream!IsPrefix(Numbers(n), Numbers(n + 1))
<1>1. \A m \in Nat : /\ Numbers(m) \in Seq(Nat) /\ Len(Numbers(m)) = m
                     /\ \A i \in 1..m : Numbers(m)[i] = i
  BY DEF Numbers
<1>2. Increasing(Numbers(n))
  BY DEF Numbers, Increasing
<1>3. ASSUME NEW m \in Nat, n <= m
      PROVE  SubSeq(Numbers(n), 1, n) = SubSeq(Numbers(m), 1, n)
  <2>1. \A i \in 1..n : Numbers(n)[i] = i /\ Numbers(m)[i] = i /\ i \in Nat
    BY <1>1, <1>3
  <2>2. /\ SubSeq(Numbers(n), 1, n) \in Seq(Nat) /\ Len(SubSeq(Numbers(n), 1, n)) = n
        /\ \A i \in 1..n : SubSeq(Numbers(n), 1, n)[i] = i
    BY <2>1, SubSeqProperties
  <2>3. /\ SubSeq(Numbers(m), 1, n) \in Seq(Nat) /\ Len(SubSeq(Numbers(m), 1, n)) = n
        /\ \A i \in 1..n : SubSeq(Numbers(m), 1, n)[i] = i
    BY <2>1, SubSeqProperties
  <2> QED
    BY <2>2, <2>3, SeqEqual
<1>4. n <= n /\ n <= n + 1 /\ n + 1 \in Nat
  OBVIOUS
<1> QED
  BY <1>1, <1>2, <1>3, <1>4 DEF InputStream!IsPrefix

(* What the reader was given only grows, and so does the doubt.            *)
LEMMA InputGrows ==
  ASSUME InputInv, [InputNext]_inputVars
  PROVE  /\ Grows(given, given')
         /\ sent' = sent \/ sent' = sent + 1
         /\ starved => starved'
         /\ (connected' /\ ~cut' /\ ~nonblocking') => (connected /\ ~cut /\ ~nonblocking)
<1>1. InputTypeOK /\ given \in Seq(Nat)
  BY DEF InputInv, InputTypeOK
<1>2. /\ sent' = sent \/ sent' = sent + 1
      /\ starved => starved'
      /\ (connected' /\ ~cut' /\ ~nonblocking') => (connected /\ ~cut /\ ~nonblocking)
  BY <1>1 DEF InputTypeOK, InputNext, Peer, Start, Continue, inputVars, peer, buffer,
     PeerSend, PeerEnd, CloseClient, Bump, StartUnderflow, BumpPast, Underflow,
     UnderflowEnd, UnderflowAgain, UnderflowThrows, RecvThrows, StartRead, StartReadPast,
     Read, ReadEnd, ReadEof, ReadAgain, ReadThrows
<1>3. \/ given' = given \/ given' = Append(given, Stale)
      \/ Bump \/ Underflow \/ Read \/ \E n \in 1..MaxRead : StartRead(n)
  BY DEF InputNext, Peer, Start, Continue, inputVars, PeerSend, PeerEnd, CloseClient,
     StartUnderflow, BumpPast, UnderflowEnd, UnderflowAgain, UnderflowThrows,
     StartReadPast, ReadEnd, ReadEof, ReadAgain, ReadThrows
<1>4. Bump \/ Underflow \/ Read \/ (\E n \in 1..MaxRead : StartRead(n)) => Gives
  BY <1>1, BumpGives, UnderflowGives, ReadGives, StartReadGives
<1>5. Grows(given, given')
  BY <1>1, <1>3, <1>4, MadeUp, Given, GrowsNot
<1> QED
  BY <1>2, <1>5

(* What the reader has is the beginning of what is held.                   *)
LEMMA HeldBegins ==
  ASSUME NEW d \in Seq(Nat), NEW g \in Seq(Nat), NEW a \in Seq(Nat), NEW q \in Seq(Nat)
  PROVE  /\ Grows(d, ((d \o g) \o a) \o q)
         /\ Increasing(((d \o g) \o a) \o q) => Increasing(d)
<1>1. a \o q \in Seq(Nat) /\ d \o g \in Seq(Nat)
  BY Closed
<1>2. g \o (a \o q) \in Seq(Nat)
  BY <1>1, Closed
<1>3. ((d \o g) \o a) \o q = (d \o g) \o (a \o q)
  <2>1. \A z \in Seq(Nat) : (z \o a) \o q = z \o (a \o q)
    BY Associative, ZenonT(60)
  <2> QED
    BY <1>1, <2>1
<1>4. (d \o g) \o (a \o q) = d \o (g \o (a \o q))
  <2>1. \A z \in Seq(Nat) : (d \o g) \o z = d \o (g \o z)
    BY Associative, ZenonT(60)
  <2> QED
    BY <1>1, <2>1
<1>5. ((d \o g) \o a) \o q = d \o (g \o (a \o q))
  BY <1>3, <1>4
<1>6. Increasing(d \o (g \o (a \o q))) => Increasing(d)
  BY <1>2, SplitIncreasing
<1> QED
  BY <1>2, <1>5, <1>6, GrowsBy

(* The input half of the stream implements the byte stream: what the       *)
(* reader is given, the characters that underflow makes up included, is    *)
(* bytes of the peer in their order until a recv of underflow brings       *)
(* nothing, and all of them while the client is connected and blocks and   *)
(* no recv has thrown (tcp_stream.cpp:31-40, 58-69).                       *)
THEOREM InputImplementsByteStream == InputSpec => InputIsByteStream
<1>1. InputInit => InputStream!Init
  <2>1. [i \in 1..0 |-> i] = <<>>
    OBVIOUS
  <2> QED
    BY <2>1 DEF InputInit, InputStream!Init
<1>2. ASSUME InputInv, InputInv', [InputNext]_inputVars PROVE InputStream!Next
  <2>1. sent \in Nat /\ given \in Seq(Nat)
    BY <1>2, InputTypes DEF InputInv, InputTypeOK
  <2>2. /\ sent' \in Nat /\ delivered' \in Seq(1..sent') /\ got' \in Seq(1..sent')
        /\ area' \in Seq(1..sent') /\ inq' \in Seq(1..sent')
    BY <1>2, InputAssumption DEF InputInv, InputTypeOK
  <2>3. /\ delivered' \in Seq(Nat) /\ got' \in Seq(Nat) /\ area' \in Seq(Nat)
        /\ inq' \in Seq(Nat)
    BY <2>2, Small
  <2>4. Held' = ((delivered' \o got') \o area') \o inq' /\ Accounts(Held', dropped', sent')
    BY <1>2 DEF InputInv, Held
  <2>5. Increasing(delivered') /\ Grows(delivered', Held')
    BY <2>3, <2>4, HeldBegins DEF Accounts
  <2>6. ToSet(delivered') \subseteq 1..sent'
    BY <2>2, SetBound
  <2>7. \A s \in Seq(Nat) : \A t : Grows(s, t) => InputStream!IsPrefix(s, t)
    BY GrowsIsPrefix DEF InputStream!IsPrefix, ByteStream!IsPrefix
  <2>8. InputStream!IsPrefix(given, given')
    BY <1>2, <2>1, <2>7, InputGrows
  <2>9. InputStream!IsPrefix(Numbers(sent), Numbers(sent'))
    <3>1. sent' = sent \/ sent' = sent + 1
      BY <1>2, InputGrows
    <3> QED
      BY <2>1, <3>1, NumbersGrow
  <2>10. InputStream!Increasing(Numbers(sent')) /\ InputStream!Increasing(delivered')
    BY <2>2, <2>5, NumbersGrow DEF Increasing, InputStream!Increasing
  <2>11. InputStream!ToSet(delivered') \subseteq InputStream!ToSet(Numbers(sent'))
    <3>1. \A n \in Nat : InputStream!ToSet(Numbers(n)) = 1..n
      BY DEF InputStream!ToSet, Numbers
    <3> QED
      BY <2>2, <2>6, <3>1 DEF ToSet, InputStream!ToSet
  <2>12. /\ ~starved' => ~starved /\ given' = delivered'
         /\ (connected' /\ ~nonblocking') => ~starved'
    <3>1. starved => starved'
      BY <1>2, InputGrows
    <3> QED
      BY <1>2, <3>1 DEF InputInv, Starved
  <2>13. ~starved' => /\ ~starved /\ InputStream!Increasing(given')
                      /\ InputStream!ToSet(given') \subseteq InputStream!ToSet(Numbers(sent'))
    BY <2>10, <2>11, <2>12
  <2>14. (connected' /\ ~cut' /\ ~nonblocking') => (connected /\ ~cut /\ ~nonblocking)
    BY <1>2, InputGrows
  <2>15. (connected' /\ ~cut' /\ ~nonblocking')
          => InputStream!IsPrefix(given', Numbers(sent'))
    <3>1. (connected' /\ ~cut' /\ ~nonblocking') => dropped' = {}
      BY <1>2 DEF InputInv, Kept
    <3>2. dropped' = {} => Held' = Numbers(sent')
      BY <2>4 DEF Accounts, Numbers
    <3> QED
      BY <2>3, <2>5, <2>7, <2>12, <3>1, <3>2
  <2> QED
    BY <2>8, <2>9, <2>10, <2>12, <2>13, <2>14, <2>15 DEF InputStream!Next, Numbers
<1>3. InputSpec => InputStream!Spec
  BY InputInvariant, <1>1, <1>2, PTL DEF InputSpec, InputStream!Spec
<1> QED
  BY <1>3 DEF InputIsByteStream

=============================================================================
