--------------------------- MODULE SequenceFacts ----------------------------
(***************************************************************************)
(* What the operators on sequences return that the modules change their    *)
(* sequences with.                                                         *)
(***************************************************************************)
EXTENDS Integers, Sequences, SequencesExt, SequenceTheorems, TLAPS

(* What InsertAt returns: the element at its place, the rest shifted. *)
LEMMA InsertAtProperties ==
    ASSUME NEW S, NEW q \in Seq(S), NEW e \in S, NEW n \in 1 .. Len(q) + 1
    PROVE  /\ InsertAt(q, n, e) \in Seq(S)
           /\ Len(InsertAt(q, n, e)) = Len(q) + 1
           /\ \A i \in 1 .. Len(q) + 1 :
                 InsertAt(q, n, e)[i] = IF i < n THEN q[i]
                                        ELSE IF i = n THEN e ELSE q[i - 1]
<1> DEFINE a == SubSeq(q, 1, n - 1)
           b == SubSeq(q, n, Len(q))
<1>1. /\ a \in Seq(S)
      /\ Len(a) = n - 1
      /\ \A i \in 1 .. n - 1 : a[i] = q[i]
  <2>1. \A i \in 1 .. n - 1 : q[i] \in S
    BY ElementOfSeq
  <2> QED  BY <2>1, SubSeqProperties
<1>2. /\ b \in Seq(S)
      /\ Len(b) = Len(q) + 1 - n
      /\ \A i \in 1 .. Len(q) + 1 - n : b[i] = q[n + i - 1]
  <2>1. \A i \in n .. Len(q) : q[i] \in S
    BY ElementOfSeq
  <2> QED  BY <2>1, SubSeqProperties, LenProperties
<1>3. /\ <<e>> \in Seq(S)
      /\ Len(<<e>>) = 1
      /\ <<e>>[1] = e
  OBVIOUS
<1> HIDE DEF a, b
<1>4. /\ a \o <<e>> \in Seq(S)
      /\ Len(a \o <<e>>) = n
      /\ \A i \in 1 .. n : (a \o <<e>>)[i] = IF i < n THEN q[i] ELSE e
  BY <1>1, <1>3, ConcatProperties
<1>5. /\ (a \o <<e>>) \o b \in Seq(S)
      /\ Len((a \o <<e>>) \o b) = Len(q) + 1
      /\ \A i \in 1 .. Len(q) + 1 :
            ((a \o <<e>>) \o b)[i] = IF i <= n THEN (a \o <<e>>)[i]
                                     ELSE b[i - n]
  <2> DEFINE c == a \o <<e>>
  <2>1. /\ c \in Seq(S) /\ b \in Seq(S)
        /\ Len(c) = n /\ Len(b) = Len(q) + 1 - n
    BY <1>2, <1>4
  <2>2. Len(q) \in Nat /\ n \in Nat
    BY LenProperties
  <2> HIDE DEF c
  <2>3. /\ c \o b \in Seq(S)
        /\ Len(c \o b) = Len(c) + Len(b)
        /\ \A i \in 1 .. Len(c) + Len(b) :
              (c \o b)[i] = IF i <= Len(c) THEN c[i] ELSE b[i - Len(c)]
    BY <2>1, ConcatProperties
  <2>4. Len(c) + Len(b) = Len(q) + 1
    BY <2>1, <2>2
  <2> QED  BY <2>1, <2>3, <2>4 DEF c
<1>6. InsertAt(q, n, e) = (a \o <<e>>) \o b
  BY DEF InsertAt, a, b
<1> QED  BY <1>2, <1>4, <1>5, <1>6, LenProperties, SMTT(30)

(* What RemoveAt returns: the sequence without its n-th element. *)
LEMMA RemoveAtProperties ==
    ASSUME NEW S, NEW q \in Seq(S), NEW n \in 1 .. Len(q)
    PROVE  /\ RemoveAt(q, n) \in Seq(S)
           /\ Len(RemoveAt(q, n)) = Len(q) - 1
           /\ \A i \in 1 .. Len(q) - 1 :
                 RemoveAt(q, n)[i] = IF i < n THEN q[i] ELSE q[i + 1]
<1> DEFINE a == SubSeq(q, 1, n - 1)
           b == SubSeq(q, n + 1, Len(q))
<1>1. /\ a \in Seq(S)
      /\ Len(a) = n - 1
      /\ \A i \in 1 .. n - 1 : a[i] = q[i]
  <2>1. \A i \in 1 .. n - 1 : q[i] \in S
    BY ElementOfSeq
  <2> QED  BY <2>1, SubSeqProperties
<1>2. /\ b \in Seq(S)
      /\ Len(b) = Len(q) - n
      /\ \A i \in 1 .. Len(q) - n : b[i] = q[n + i]
  <2>1. \A i \in n + 1 .. Len(q) : q[i] \in S
    BY ElementOfSeq
  <2> QED  BY <2>1, SubSeqProperties, LenProperties
<1> HIDE DEF a, b
<1>3. RemoveAt(q, n) = a \o b
  BY DEF RemoveAt, a, b
<1>4. /\ a \o b \in Seq(S)
      /\ Len(a \o b) = Len(a) + Len(b)
      /\ \A i \in 1 .. Len(a) + Len(b) :
            (a \o b)[i] = IF i <= Len(a) THEN a[i] ELSE b[i - Len(a)]
  BY <1>1, <1>2, ConcatProperties
<1>5. Len(q) \in Nat /\ n \in Nat
  BY LenProperties
<1>6. Len(a) + Len(b) = Len(q) - 1
  BY <1>1, <1>2, <1>5
<1>7. \A i \in 1 .. Len(q) - 1 :
         (a \o b)[i] = IF i < n THEN q[i] ELSE q[i + 1]
  BY <1>1, <1>2, <1>4, <1>5, <1>6, SMTT(30)
<1> QED  BY <1>3, <1>4, <1>6, <1>7
=============================================================================
