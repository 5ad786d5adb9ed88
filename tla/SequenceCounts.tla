--------------------------- MODULE SequenceCounts ---------------------------
(***************************************************************************)
(* How many elements of a sequence lie in a set: what a proof needs to     *)
(* know of queues of tasks when it does not matter where in a queue a task *)
(* stands.                                                                 *)
(***************************************************************************)
EXTENDS Integers, Sequences, FiniteSets, SequenceTheorems, FiniteSetTheorems,
        FunctionTheorems, TLAPS

Positions(s, S) == {i \in DOMAIN s : s[i] \in S}
Count(s, S) == Cardinality(Positions(s, S))
Bit(e, S) == IF e \in S THEN 1 ELSE 0

LEMMA PositionsFinite ==
  ASSUME NEW T, NEW s \in Seq(T), NEW S
  PROVE  /\ IsFiniteSet(Positions(s, S)) /\ Positions(s, S) \subseteq 1 .. Len(s)
         /\ Count(s, S) \in Nat
<1>1. Len(s) \in Nat /\ DOMAIN s = 1 .. Len(s)
  BY LenProperties
<1>2. IsFiniteSet(1 .. Len(s))
  BY <1>1, FS_Interval
<1>3. Positions(s, S) \subseteq 1 .. Len(s)
  BY <1>1 DEF Positions
<1> QED  BY <1>2, <1>3, FS_Subset, FS_CardinalityType DEF Count

LEMMA CountNone ==
  ASSUME NEW S
  PROVE  Count(<<>>, S) = 0
<1>1. Positions(<<>>, S) = {}
  BY DEF Positions
<1> QED  BY <1>1, FS_EmptySet DEF Count

LEMMA CountOne ==
  ASSUME NEW e, NEW S
  PROVE  Count(<<e>>, S) = Bit(e, S)
<1>1. CASE e \in S
  <2>1. Positions(<<e>>, S) = {1}
    BY <1>1 DEF Positions
  <2> QED  BY <1>1, <2>1, FS_Singleton DEF Count, Bit
<1>2. CASE e \notin S
  <2>1. Positions(<<e>>, S) = {}
    BY <1>2 DEF Positions
  <2> QED  BY <1>2, <2>1, FS_EmptySet DEF Count, Bit
<1> QED  BY <1>1, <1>2

LEMMA CountConcat ==
  ASSUME NEW T, NEW s \in Seq(T), NEW t \in Seq(T), NEW S
  PROVE  Count(s \o t, S) = Count(s, S) + Count(t, S)
<1> DEFINE n == Len(s)
           P == Positions(s, S)
           Q == Positions(t, S)
           R == {i + n : i \in Q}
           f == [i \in Q |-> i + n]
<1>1. /\ n \in Nat /\ Len(t) \in Nat
      /\ DOMAIN s = 1 .. n /\ DOMAIN t = 1 .. Len(t)
      /\ DOMAIN (s \o t) = 1 .. n + Len(t)
      /\ \A i \in 1 .. n + Len(t) :
           (s \o t)[i] = IF i <= n THEN s[i] ELSE t[i - n]
  BY LenProperties, ConcatProperties
<1>2. /\ IsFiniteSet(P) /\ P \subseteq 1 .. n
      /\ IsFiniteSet(Q) /\ Q \subseteq 1 .. Len(t)
  BY PositionsFinite
<1>3. Positions(s \o t, S) = P \cup R
  <2>1. ASSUME NEW i \in Positions(s \o t, S) PROVE i \in P \cup R
    <3>1. CASE i <= n
      BY <1>1, <3>1 DEF Positions
    <3>2. CASE ~(i <= n)
      <4>1. i \in 1 .. n + Len(t) /\ (s \o t)[i] \in S
        BY <1>1 DEF Positions
      <4>2. i - n \in 1 .. Len(t) /\ t[i - n] \in S
        BY <1>1, <3>2, <4>1
      <4>3. i - n \in Q /\ i = (i - n) + n
        BY <1>1, <4>1, <4>2 DEF Positions
      <4> HIDE DEF Q
      <4> QED  BY <4>3
    <3> QED  BY <3>1, <3>2
  <2>2. ASSUME NEW i \in P PROVE i \in Positions(s \o t, S)
    BY <1>1, <1>2 DEF Positions
  <2>3. ASSUME NEW i \in Q PROVE i + n \in Positions(s \o t, S)
    <3>1. i \in 1 .. Len(t) /\ t[i] \in S
      BY <1>1 DEF Positions
    <3>2. i + n \in 1 .. n + Len(t) /\ ~(i + n <= n) /\ (i + n) - n = i
      BY <1>1, <3>1
    <3> QED  BY <1>1, <3>1, <3>2 DEF Positions
  <2> HIDE DEF P, Q
  <2> QED  BY <2>1, <2>2, <2>3
<1>4. IsFiniteSet(R) /\ Cardinality(R) = Cardinality(Q)
  <2> HIDE DEF Q
  <2>1. f \in [Q -> R] /\ (\A a, b \in Q : f[a] = f[b] => a = b)
    BY <1>1, <1>2
  <2>2. \A r \in R : \E q \in Q : f[q] = r
    OBVIOUS
  <2>3. ExistsBijection(Q, R)
    BY <2>1, <2>2, Fun_IsBij, Fun_ExistsBij
  <2> QED  BY <1>2, <2>3, FS_Bijection
<1>5. P \cap R = {}
  <2> HIDE DEF P, Q
  <2> QED  BY <1>1, <1>2
<1>6. Cardinality(P \cup R) = Cardinality(P) + Cardinality(R)
  <2> HIDE DEF P, R
  <2>1. Cardinality(P) \in Nat /\ Cardinality(R) \in Nat
    BY <1>2, <1>4, FS_CardinalityType
  <2>2. Cardinality(P \cap R) = 0
    BY <1>5, FS_EmptySet
  <2>3. Cardinality(P \cup R)
          = Cardinality(P) + Cardinality(R) - Cardinality(P \cap R)
    BY <1>2, <1>4, FS_Union
  <2> QED  BY <2>1, <2>2, <2>3
<1> QED  BY <1>3, <1>4, <1>6 DEF Count

(* The queue operations of the models.                                     *)
LEMMA CountAppend ==
  ASSUME NEW T, NEW s \in Seq(T), NEW e \in T, NEW S
  PROVE  Count(Append(s, e), S) = Count(s, S) + Bit(e, S)
<1>1. Append(s, e) = s \o <<e>> /\ <<e>> \in Seq(T)
  BY AppendIsConcat
<1>2. Count(s \o <<e>>, S) = Count(s, S) + Count(<<e>>, S)
  BY <1>1, CountConcat
<1> QED  BY <1>1, <1>2, CountOne

LEMMA CountPair ==
  ASSUME NEW T, NEW a \in T, NEW b \in T, NEW S
  PROVE  Count(<<a, b>>, S) = Bit(a, S) + Bit(b, S)
<1>1. <<a>> \in Seq(T) /\ <<a, b>> = Append(<<a>>, b)
  OBVIOUS
<1>2. Count(Append(<<a>>, b), S) = Count(<<a>>, S) + Bit(b, S)
  BY <1>1, CountAppend
<1> QED  BY <1>1, <1>2, CountOne

LEMMA CountPrepend ==
  ASSUME NEW T, NEW s \in Seq(T), NEW e \in T, NEW S
  PROVE  Count(<<e>> \o s, S) = Bit(e, S) + Count(s, S)
<1>1. <<e>> \in Seq(T)
  OBVIOUS
<1>2. Count(<<e>> \o s, S) = Count(<<e>>, S) + Count(s, S)
  BY <1>1, CountConcat
<1> QED  BY <1>2, CountOne

LEMMA CountTail ==
  ASSUME NEW T, NEW s \in Seq(T), s # <<>>, NEW S
  PROVE  Count(s, S) = Bit(Head(s), S) + Count(Tail(s), S)
<1>1. Head(s) \in T /\ Tail(s) \in Seq(T)
  BY HeadTailProperties
<1>2. s = <<Head(s)>> \o Tail(s)
  <2>1. <<Head(s)>> \in Seq(T)
    BY <1>1
  <2>2. /\ Len(s) \in Nat /\ Len(s) # 0 /\ Len(Tail(s)) = Len(s) - 1
        /\ \A i \in 1 .. Len(Tail(s)) : Tail(s)[i] = s[i + 1]
        /\ Head(s) = s[1]
    BY HeadTailProperties, LenProperties, EmptySeq
  <2>3. /\ <<Head(s)>> \o Tail(s) \in Seq(T)
        /\ Len(<<Head(s)>> \o Tail(s)) = Len(s)
        /\ \A i \in 1 .. Len(s) : (<<Head(s)>> \o Tail(s))[i]
                                    = IF i <= 1 THEN s[1] ELSE s[i]
    BY <1>1, <2>1, <2>2, ConcatProperties
  <2>4. \A i \in 1 .. Len(s) : (<<Head(s)>> \o Tail(s))[i] = s[i]
    BY <2>2, <2>3
  <2> QED  BY <2>2, <2>3, <2>4, SeqEqual
<1> QED  BY <1>1, <1>2, CountPrepend

(* A count that is not zero has a witness, and conversely.                 *)
LEMMA CountPositive ==
  ASSUME NEW T, NEW s \in Seq(T), NEW S
  PROVE  Count(s, S) > 0 <=> \E i \in DOMAIN s : s[i] \in S
<1>1. IsFiniteSet(Positions(s, S)) /\ Count(s, S) \in Nat
  BY PositionsFinite
<1>2. Count(s, S) = 0 <=> Positions(s, S) = {}
  BY <1>1, FS_EmptySet DEF Count
<1> QED  BY <1>1, <1>2 DEF Positions

LEMMA CountSubset ==
  ASSUME NEW T, NEW s \in Seq(T), NEW S, NEW U, S \cap T \subseteq U
  PROVE  Count(s, S) <= Count(s, U)
<1>1. IsFiniteSet(Positions(s, U))
  BY PositionsFinite
<1>2. Positions(s, S) \subseteq Positions(s, U)
  BY LenProperties, ElementOfSeq DEF Positions
<1> QED  BY <1>1, <1>2, FS_Subset DEF Count
=============================================================================
