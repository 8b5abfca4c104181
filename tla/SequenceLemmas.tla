--------------------------- MODULE SequenceLemmas ---------------------------
(***************************************************************************)
(* What the operations on g_TaskQueue, on vectors and on nests of calls do *)
(* to a sequence.                                                          *)
(***************************************************************************)
EXTENDS Naturals, Sequences, SequencesExt, TLAPS, SequenceTheorems

LEMMA AppendFacts ==
  ASSUME NEW S, NEW s \in Seq(S), NEW e \in S
  PROVE  /\ Append(s, e) \in Seq(S)
         /\ Append(s, e) # <<>>
         /\ Len(Append(s, e)) = Len(s) + 1
         /\ \A i \in 1..Len(s) : Append(s, e)[i] = s[i]
         /\ Append(s, e)[Len(s) + 1] = e
         /\ ToSet(Append(s, e)) = ToSet(s) \cup {e}
  BY AppendProperties DEF ToSet

LEMMA TailFacts ==
  ASSUME NEW S, NEW s \in Seq(S), s # <<>>
  PROVE  /\ Head(s) \in S
         /\ Tail(s) \in Seq(S)
         /\ Len(s) \in Nat \ {0}
         /\ Len(Tail(s)) = Len(s) - 1
         /\ \A i \in 1..(Len(s) - 1) : Tail(s)[i] = s[i + 1]
         /\ Head(s) = s[1]
         /\ ToSet(s) = {Head(s)} \cup ToSet(Tail(s))
  <1>1. /\ Head(s) \in S
        /\ Tail(s) \in Seq(S)
        /\ Len(s) \in Nat \ {0}
        /\ Len(Tail(s)) = Len(s) - 1
        /\ \A i \in 1..(Len(s) - 1) : Tail(s)[i] = s[i + 1]
        /\ Head(s) = s[1]
    OBVIOUS
  <1>2. ToSet(s) \subseteq {Head(s)} \cup ToSet(Tail(s))
    <2>1. SUFFICES ASSUME NEW i \in 1..Len(s), i # 1
                   PROVE  s[i] \in ToSet(Tail(s))
      BY <1>1 DEF ToSet
    <2>2. i - 1 \in 1..(Len(s) - 1) /\ Tail(s)[i - 1] = s[i]
      BY <1>1, <2>1
    <2>3. DOMAIN Tail(s) = 1..(Len(s) - 1)
      BY <1>1
    <2> QED BY <2>2, <2>3 DEF ToSet
  <1>3. {Head(s)} \cup ToSet(Tail(s)) \subseteq ToSet(s)
    <2>1. \A i \in 1..(Len(s) - 1) : i + 1 \in 1..Len(s)
      BY <1>1
    <2> QED BY <1>1, <2>1 DEF ToSet
  <1> QED BY <1>1, <1>2, <1>3

LEMMA FrontFacts ==
  ASSUME NEW S, NEW s \in Seq(S), s # <<>>
  PROVE  /\ Front(s) \in Seq(S)
         /\ Len(s) \in Nat \ {0}
         /\ Len(Front(s)) = Len(s) - 1
         /\ \A i \in 1..(Len(s) - 1) : Front(s)[i] = s[i]
         /\ Last(s) = s[Len(s)]
         /\ Last(s) \in S
  <1>1. Len(s) \in Nat \ {0}
    OBVIOUS
  <1>2. /\ Front(s) = SubSeq(s, 1, Len(s) - 1)
        /\ \A i \in 1..(Len(s) - 1) : i \in 1..Len(s) /\ s[i] \in S
    BY <1>1 DEF Front
  <1>3. /\ SubSeq(s, 1, Len(s) - 1) \in Seq(S)
        /\ Len(SubSeq(s, 1, Len(s) - 1)) = Len(s) - 1
        /\ \A i \in 1..(Len(s) - 1) : SubSeq(s, 1, Len(s) - 1)[i] = s[i]
    <2> DEFINE n == Len(s) - 1
               r == SubSeq(s, 1, n)
    <2>1. n \in Nat /\ n = Len(s) - 1 /\ 1 \in Int /\ n \in Int
      BY <1>1
    <2>2. \A i \in 1..n : s[i] \in S
      BY <1>2
    <2>3. /\ r \in Seq(S)
          /\ Len(r) = IF 1 <= n THEN n - 1 + 1 ELSE 0
          /\ \A i \in 1..(n - 1 + 1) : r[i] = s[1 + i - 1]
      <3> HIDE DEF n
      <3> QED BY <2>1, <2>2, SubSeqProperties
    <2> HIDE DEF r, n
    <2>4. n - 1 + 1 = n /\ \A i \in 1..n : 1 + i - 1 = i
      BY <2>1
    <2>5. Len(r) = n /\ \A i \in 1..n : r[i] = s[i]
      BY <2>1, <2>3, <2>4
    <2> QED BY <2>1, <2>3, <2>5 DEF r
  <1>4. Last(s) = s[Len(s)] /\ s[Len(s)] \in S
    BY <1>1 DEF Last
  <1> QED BY <1>1, <1>2, <1>3, <1>4

LEMMA ExceptLastFacts ==
  ASSUME NEW S, NEW s \in Seq(S), s # <<>>, NEW e \in S
  PROVE  /\ [s EXCEPT ![Len(s)] = e] \in Seq(S)
         /\ Len([s EXCEPT ![Len(s)] = e]) = Len(s)
         /\ \A i \in 1..(Len(s) - 1) : [s EXCEPT ![Len(s)] = e][i] = s[i]
         /\ [s EXCEPT ![Len(s)] = e][Len(s)] = e
  BY ExceptSeq

LEMMA RemoveFacts ==
  ASSUME NEW S, NEW s \in Seq(S), NEW i \in DOMAIN s
  PROVE  /\ RemoveAt(s, i) \in Seq(S)
         /\ ToSet(RemoveAt(s, i)) \subseteq ToSet(s)
         /\ s[i] \in ToSet(s)
         /\ s[i] \in S
         /\ Len(RemoveAt(s, i)) = Len(s) - 1
         /\ \A j \in 1..(Len(s) - 1) :
              RemoveAt(s, i)[j] = IF j < i THEN s[j] ELSE s[j + 1]
<1> DEFINE left == SubSeq(s, 1, i - 1)
           right == SubSeq(s, i + 1, Len(s))
<1>1. i \in 1..Len(s) /\ Len(s) \in Nat
  OBVIOUS
<1>2. /\ left \in Seq(S) /\ Len(left) = i - 1
      /\ \A j \in 1..(i - 1) : left[j] = s[j]
  BY <1>1, SubSeqProperties
<1>3. /\ right \in Seq(S) /\ Len(right) = Len(s) - i
      /\ \A j \in 1..(Len(s) - i) : right[j] = s[i + j]
  BY <1>1, SubSeqProperties
<1> HIDE DEF left, right
<1>4. /\ left \o right \in Seq(S)
      /\ Len(left \o right) = Len(s) - 1
      /\ \A j \in 1..(Len(s) - 1) :
           (left \o right)[j] = IF j < i THEN left[j] ELSE right[j - (i - 1)]
  <2>1. /\ left \o right \in Seq(S)
        /\ Len(left \o right) = Len(left) + Len(right)
        /\ \A j \in 1..(Len(left) + Len(right)) :
             (left \o right)[j] = IF j <= Len(left) THEN left[j] ELSE right[j - Len(left)]
    BY <1>2, <1>3, ConcatProperties
  <2>2. Len(left) + Len(right) = Len(s) - 1
    BY <1>1, <1>2, <1>3
  <2>3. \A j \in 1..(Len(s) - 1) : j <= Len(left) <=> j < i
    BY <1>1, <1>2
  <2>4. QED
    BY <2>1, <2>2, <2>3, <1>2
<1>5. ASSUME NEW j \in 1..(Len(s) - 1)
      PROVE  /\ (left \o right)[j] \in ToSet(s)
             /\ (left \o right)[j] = IF j < i THEN s[j] ELSE s[j + 1]
  <2>1. CASE j < i
    <3>1. (left \o right)[j] = s[j] /\ j \in 1..Len(s)
      BY <1>1, <1>2, <1>4, <2>1
    <3>2. QED
      BY <2>1, <3>1 DEF ToSet
  <2>2. CASE ~(j < i)
    <3>1. j - (i - 1) \in 1..(Len(s) - i) /\ i + (j - (i - 1)) = j + 1
      BY <1>1, <2>2
    <3>2. (left \o right)[j] = right[j - (i - 1)]
      BY <1>1, <1>4, <2>2
    <3>3. right[j - (i - 1)] = s[j + 1] /\ j + 1 \in 1..Len(s)
      BY <1>1, <1>3, <3>1
    <3>4. \A k \in 1..Len(s) : s[k] \in ToSet(s)
      BY DEF ToSet
    <3>5. QED
      BY <2>2, <3>2, <3>3, <3>4
  <2>3. QED
    BY <2>1, <2>2
<1>6. ToSet(left \o right) \subseteq ToSet(s)
  BY <1>1, <1>4, <1>5 DEF ToSet
<1>7. s[i] \in ToSet(s) /\ s[i] \in S
  BY <1>1 DEF ToSet
<1>8. RemoveAt(s, i) = left \o right
  BY DEF RemoveAt, left, right
<1>9. QED
  BY <1>4, <1>5, <1>6, <1>7, <1>8

LEMMA InsertFacts ==
  ASSUME NEW S, NEW s \in Seq(S), NEW i \in 1..(Len(s) + 1), NEW e \in S
  PROVE  /\ InsertAt(s, i, e) \in Seq(S)
         /\ Len(InsertAt(s, i, e)) = Len(s) + 1
         /\ \A j \in 1..(Len(s) + 1) :
              InsertAt(s, i, e)[j] =
                IF j < i THEN s[j] ELSE IF j = i THEN e ELSE s[j - 1]
         /\ ToSet(InsertAt(s, i, e)) = ToSet(s) \cup {e}
<1> DEFINE left == SubSeq(s, 1, i - 1)
           right == SubSeq(s, i, Len(s))
           front == left \o <<e>>
<1>1. Len(s) \in Nat /\ i \in Nat \ {0} /\ <<e>> \in Seq(S) /\ Len(<<e>>) = 1 /\ <<e>>[1] = e
  OBVIOUS
<1>2. /\ left \in Seq(S) /\ Len(left) = i - 1
      /\ \A j \in 1..(i - 1) : left[j] = s[j]
  BY <1>1, SubSeqProperties
<1>3. /\ right \in Seq(S) /\ Len(right) = Len(s) - i + 1
      /\ \A j \in 1..(Len(s) - i + 1) : right[j] = s[i + j - 1]
  BY <1>1, SubSeqProperties
<1> HIDE DEF left, right
<1>4. /\ front \in Seq(S)
      /\ Len(front) = i
      /\ \A j \in 1..i : front[j] = IF j < i THEN s[j] ELSE e
  <2>1. /\ front \in Seq(S)
        /\ Len(front) = Len(left) + 1
        /\ \A j \in 1..(Len(left) + 1) :
             front[j] = IF j <= Len(left) THEN left[j] ELSE <<e>>[j - Len(left)]
    BY <1>1, <1>2, ConcatProperties
  <2> HIDE DEF front
  <2>2. Len(left) + 1 = i
    BY <1>1, <1>2
  <2>3. ASSUME NEW j \in 1..i
        PROVE  front[j] = IF j < i THEN s[j] ELSE e
    <3>1. CASE j < i
      BY <1>1, <1>2, <2>1, <2>2, <3>1
    <3>2. CASE j = i
      <4>1. j - Len(left) = 1 /\ ~(j <= Len(left))
        BY <1>1, <1>2, <3>2
      <4>2. QED
        BY <1>1, <2>1, <2>2, <3>2, <4>1
    <3>3. QED
      BY <1>1, <3>1, <3>2
  <2>4. QED
    BY <2>1, <2>2, <2>3
<1> HIDE DEF front
<1> DEFINE new == front \o right
<1>5. /\ new \in Seq(S)
      /\ Len(new) = Len(s) + 1
      /\ DOMAIN new = 1..(Len(s) + 1)
      /\ \A j \in 1..(Len(s) + 1) : new[j] = IF j <= i THEN front[j] ELSE right[j - i]
  <2>1. /\ new \in Seq(S)
        /\ Len(new) = Len(front) + Len(right)
        /\ \A j \in 1..(Len(front) + Len(right)) :
             new[j] = IF j <= Len(front) THEN front[j] ELSE right[j - Len(front)]
    BY <1>3, <1>4, ConcatProperties
  <2> HIDE DEF new
  <2>2. Len(front) + Len(right) = Len(s) + 1
    BY <1>1, <1>3, <1>4
  <2>3. QED
    BY <2>1, <2>2, <1>4
<1> HIDE DEF new
<1>6. ASSUME NEW j \in 1..(Len(s) + 1)
      PROVE  new[j] =
               IF j < i THEN s[j] ELSE IF j = i THEN e ELSE s[j - 1]
  <2>1. CASE j <= i
    BY <1>1, <1>4, <1>5, <2>1
  <2>2. CASE ~(j <= i)
    <3>1. j - i \in 1..(Len(s) - i + 1) /\ i + (j - i) - 1 = j - 1
      BY <1>1, <2>2
    <3>2. QED
      BY <1>1, <1>3, <1>5, <2>2, <3>1
  <2>3. QED
    BY <2>1, <2>2
<1>7. ToSet(new) \subseteq ToSet(s) \cup {e}
  <2>1. \A j \in 1..(Len(s) + 1) :
          /\ j < i => j \in 1..Len(s)
          /\ ~(j <= i) => j - 1 \in 1..Len(s)
    BY <1>1
  <2>2. \A j \in 1..(Len(s) + 1) : new[j] \in ToSet(s) \cup {e}
    <3>1. \A j \in 1..Len(s) : s[j] \in ToSet(s)
      BY DEF ToSet
    <3>2. QED
      BY <1>1, <1>6, <2>1, <3>1
  <2>3. QED
    BY <1>1, <1>5, <2>2 DEF ToSet
<1>8. ToSet(s) \cup {e} \subseteq ToSet(new)
  <2>1. \A j \in 1..(Len(s) + 1) : new[j] \in ToSet(new)
    BY <1>1, <1>5 DEF ToSet
  <2>2. e \in ToSet(new)
    <3>1. i \in 1..(Len(s) + 1) /\ ~(i < i)
      BY <1>1
    <3>2. new[i] = e
      BY <1>6, <3>1
    <3>3. QED
      BY <2>1, <3>1, <3>2
  <2>3. ASSUME NEW j \in 1..Len(s)
        PROVE  s[j] \in ToSet(new)
    <3>1. /\ j \in 1..(Len(s) + 1) /\ j + 1 \in 1..(Len(s) + 1)
          /\ (j + 1) - 1 = j
          /\ ~(j < i) => ~(j + 1 < i) /\ j + 1 # i
      BY <1>1
    <3>2. s[j] = new[j] \/ s[j] = new[j + 1]
      BY <1>6, <3>1
    <3>3. QED
      BY <2>1, <3>1, <3>2
  <2>4. QED
    BY <2>2, <2>3 DEF ToSet
<1>9. InsertAt(s, i, e) = new
  BY DEF InsertAt, new, front, left, right
<1>10. QED
  BY <1>5, <1>6, <1>7, <1>8, <1>9
=============================================================================
