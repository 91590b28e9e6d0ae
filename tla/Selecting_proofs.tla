--------------------------- MODULE Selecting_proofs ---------------------------
(***************************************************************************)
(* What filtering a sequence yields.  A recursive function is a CHOOSE: that *)
(* the function it asks for exists, and what its values are, is shown by     *)
(* taking the least number at which it would fail.                           *)
(***************************************************************************)
EXTENDS Selecting, WellFoundedInduction, TLAPS

Below == {p \in Nat \X Nat : p[1] < p[2]}

\* Every set of natural numbers that is not empty has a least element.
LEMMA LeastNatural ==
    ASSUME NEW S \in SUBSET Nat, S # {}
    PROVE  \E m \in S : \A k \in S : m <= k
<1>1. IsWellFoundedOn(Below, Nat)
  BY NatLessThanWellFounded, Zenon DEF OpToRel, Below
<1>2. PICK m \in S : \A k \in S : ~(<<k, m>> \in Below)
  BY <1>1, WFMin
<1>3. \A k \in S : ~(k < m)
  BY <1>2 DEF Below
<1> QED
  BY <1>3

Keeps(f, s, S, n) ==
    f = [i \in 0..n |-> IF i = 0 THEN <<>>
                        ELSE IF s[i] \in S THEN Append(f[i - 1], s[i]) ELSE f[i - 1]]

\* The values of such a function.
LEMMA KeepsAt ==
    ASSUME NEW f, NEW s, NEW S, NEW n \in Nat, NEW i \in 0..n, Keeps(f, s, S, n)
    PROVE  f[i] = IF i = 0 THEN <<>>
                  ELSE IF s[i] \in S THEN Append(f[i - 1], s[i]) ELSE f[i - 1]
<1> DEFINE h(x) == IF x = 0 THEN <<>>
                   ELSE IF s[x] \in S THEN Append(f[x - 1], s[x]) ELSE f[x - 1]
<1>1. f = [x \in 0..n |-> h(x)]
  BY DEF Keeps
<1> HIDE DEF h
<1>2. f[i] = h(i)
  BY <1>1
<1> QED
  BY <1>2 DEF h

\* The function that filtering is defined by exists.
LEMMA KeptExists ==
    ASSUME NEW s, NEW S, NEW n \in Nat
    PROVE  \E f : Keeps(f, s, S, n)
<1> DEFINE Bad == {k \in Nat : ~\E f : Keeps(f, s, S, k)}
<1>1. SUFFICES ASSUME Bad # {} PROVE FALSE
  OBVIOUS
<1>2. PICK m \in Bad : \A k \in Bad : m <= k
  BY <1>1, LeastNatural
<1>3. CASE m = 0
  <2> DEFINE g == [i \in 0..0 |-> <<>>]
  <2>1. Keeps(g, s, S, 0)
    BY DEF Keeps
  <2> QED
    BY <1>3, <2>1
<1>4. CASE m # 0
  <2>1. m - 1 \in Nat /\ m - 1 \notin Bad
    BY <1>2, <1>4
  <2>2. PICK f : Keeps(f, s, S, m - 1)
    BY <2>1
  <2> DEFINE g == [i \in 0..m |-> IF i = 0 THEN <<>>
                                  ELSE IF s[i] \in S THEN Append(f[i - 1], s[i]) ELSE f[i - 1]]
  <2>3. \A i \in 0..m - 1 : i \in 0..m /\ g[i] = f[i]
    BY <2>1, <2>2, KeepsAt
  <2>4. \A i \in 0..m : i # 0 => i - 1 \in 0..m - 1
    BY <2>1
  <2>5. Keeps(g, s, S, m)
    BY <2>3, <2>4 DEF Keeps
  <2> QED
    BY <2>5
<1> QED
  BY <1>3, <1>4

\* Filtering takes the elements one after another.
LEMMA KeptIs ==
    ASSUME NEW T, NEW s \in Seq(T), NEW S
    PROVE  Keeps(KeptOf(s, S), s, S, Len(s))
<1>1. \E f : Keeps(f, s, S, Len(s))
  BY KeptExists, SMTT(30)
<1>2. KeptOf(s, S) = CHOOSE f : Keeps(f, s, S, Len(s))
  BY DEF KeptOf, Keeps
<1> QED
  BY <1>1, <1>2

\* What is kept is a sequence of elements of s that are in S, and no longer
\* than s.
LEMMA OnlyIsASeq ==
    ASSUME NEW T, NEW s \in Seq(T), NEW S
    PROVE  Only(s, S) \in Seq(T \cap S) /\ Len(Only(s, S)) <= Len(s)
<1> DEFINE f == KeptOf(s, S)
           Bad == {k \in 0..Len(s) : ~(f[k] \in Seq(T \cap S) /\ Len(f[k]) <= k)}
<1>1. Keeps(f, s, S, Len(s))
  BY KeptIs
<1> HIDE DEF f
<1>2. Bad = {}
  <2> SUFFICES ASSUME Bad # {} PROVE FALSE
    OBVIOUS
  <2>0. Bad \in SUBSET Nat
    OBVIOUS
  <2>1. PICK m \in Bad : \A k \in Bad : m <= k
    BY <2>0, LeastNatural
  <2>2. CASE m = 0
    <3>1. 0 \in 0..Len(s)
      OBVIOUS
    <3>2. f[0] = <<>>
      BY <3>1, <1>1, KeepsAt
    <3>3. <<>> \in Seq(T \cap S) /\ Len(<<>>) <= 0
      OBVIOUS
    <3>4. 0 \notin Bad
      BY <3>2, <3>3
    <3> QED
      BY <3>4, <2>1, <2>2
  <2>3. CASE m # 0
    <3>1. m - 1 \in 0..Len(s) /\ m - 1 \notin Bad /\ m \in 1..Len(s)
      BY <2>1, <2>3
    <3>2. f[m - 1] \in Seq(T \cap S) /\ Len(f[m - 1]) <= m - 1 /\ s[m] \in T
      BY <3>1
    <3>3. f[m] = IF s[m] \in S THEN Append(f[m - 1], s[m]) ELSE f[m - 1]
      BY <3>1, <2>3, <1>1, KeepsAt
    <3>4. f[m] \in Seq(T \cap S) /\ Len(f[m]) <= m
      BY <3>1, <3>2, <3>3
    <3> QED
      BY <3>4, <2>1
  <2> QED
    BY <2>2, <2>3
<1>3. Len(s) \in 0..Len(s)
  OBVIOUS
<1> QED
  BY <1>2, <1>3 DEF Only, f

\* Nothing that is in S is dropped.
LEMMA OnlyKeepsAll ==
    ASSUME NEW T, NEW s \in Seq(T), NEW S, NEW j \in DOMAIN s, s[j] \in S
    PROVE  \E i \in DOMAIN Only(s, S) : Only(s, S)[i] = s[j]
<1> DEFINE f == KeptOf(s, S)
           Bad == {k \in 0..Len(s) : k >= j /\ ~\E i \in DOMAIN f[k] : f[k][i] = s[j]}
<1>1. Keeps(f, s, S, Len(s))
  BY KeptIs
<1>2. \A k \in 0..Len(s) : f[k] \in Seq(T)
  <2> DEFINE Wrong == {k \in 0..Len(s) : f[k] \notin Seq(T)}
  <2> HIDE DEF f
  <2> SUFFICES ASSUME Wrong # {} PROVE FALSE
    OBVIOUS
  <2>0. Wrong \in SUBSET Nat
    OBVIOUS
  <2>1. PICK m \in Wrong : \A k \in Wrong : m <= k
    BY <2>0, LeastNatural
  <2>2. CASE m = 0
    <3>1. 0 \in 0..Len(s)
      OBVIOUS
    <3>2. f[0] = <<>>
      BY <3>1, <1>1, KeepsAt
    <3>3. <<>> \in Seq(T)
      OBVIOUS
    <3>4. 0 \notin Wrong
      BY <3>2, <3>3
    <3> QED
      BY <3>4, <2>1, <2>2
  <2>3. CASE m # 0
    <3>1. m - 1 \in 0..Len(s) /\ m - 1 \notin Wrong /\ m \in 1..Len(s)
      BY <2>1, <2>3
    <3>2. f[m] = IF s[m] \in S THEN Append(f[m - 1], s[m]) ELSE f[m - 1]
      BY <3>1, <2>3, <1>1, KeepsAt
    <3>3. f[m - 1] \in Seq(T) /\ s[m] \in T
      BY <3>1
    <3>4. f[m] \in Seq(T)
      BY <3>2, <3>3
    <3> QED
      BY <3>4, <2>1
  <2> QED
    BY <2>2, <2>3
<1> HIDE DEF f
<1>3. Bad = {}
  <2> SUFFICES ASSUME Bad # {} PROVE FALSE
    OBVIOUS
  <2>0. Bad \in SUBSET Nat
    OBVIOUS
  <2>1. PICK m \in Bad : \A k \in Bad : m <= k
    BY <2>0, LeastNatural
  <2>2. m \in 1..Len(s) /\ m - 1 \in 0..Len(s) /\ m - 1 \notin Bad /\ m >= j
    BY <2>1
  <2>3. f[m] = IF s[m] \in S THEN Append(f[m - 1], s[m]) ELSE f[m - 1]
    BY <2>2, <1>1, KeepsAt
  <2>4. f[m - 1] \in Seq(T)
    BY <2>2, <1>2
  <2>5. CASE m = j
    <3>1. f[m] = Append(f[m - 1], s[j])
      BY <2>3, <2>5
    <3>2. Len(f[m - 1]) + 1 \in DOMAIN f[m] /\ f[m][Len(f[m - 1]) + 1] = s[j]
      BY <3>1, <2>4
    <3> QED
      BY <3>2, <2>1
  <2>6. CASE m # j
    <3>1. PICK i \in DOMAIN f[m - 1] : f[m - 1][i] = s[j]
      BY <2>2, <2>6
    <3>2. i \in DOMAIN f[m] /\ f[m][i] = s[j]
      BY <3>1, <2>3, <2>4
    <3> QED
      BY <3>2, <2>1
  <2> QED
    BY <2>5, <2>6
<1>4. Len(s) \in 0..Len(s) /\ Len(s) >= j
  OBVIOUS
<1> QED
  BY <1>3, <1>4 DEF Only, f

\* Elements of t are elements of s up to the k-th, taken in their order.
TakenInOrder(t, s, k) ==
    \E at \in [1..Len(t) -> 1..k] :
        /\ \A i \in 1..Len(t) : t[i] = s[at[i]]
        /\ \A i, j \in 1..Len(t) : i < j => at[i] < at[j]

\* What is kept comes in the order of s.
LEMMA OnlyKeepsOrder ==
    ASSUME NEW T, NEW s \in Seq(T), NEW S
    PROVE  TakenInOrder(Only(s, S), s, Len(s))
<1> DEFINE f == KeptOf(s, S)
           Bad == {k \in 0..Len(s) : ~(f[k] \in Seq(T) /\ TakenInOrder(f[k], s, k))}
<1>1. Keeps(f, s, S, Len(s))
  BY KeptIs
<1> HIDE DEF f
<1>2. SUFFICES ASSUME Bad # {} PROVE FALSE
  <2>1. Len(s) \in 0..Len(s)
    OBVIOUS
  <2> QED
    BY <2>1 DEF Only, f
<1>3. Bad \in SUBSET Nat
  OBVIOUS
<1>4. PICK m \in Bad : \A k \in Bad : m <= k
  BY <1>2, <1>3, LeastNatural
<1>5. CASE m = 0
  <2>1. 0 \in 0..Len(s)
    OBVIOUS
  <2>2. f[0] = <<>>
    BY <2>1, <1>1, KeepsAt
  <2>3. <<>> \in Seq(T) /\ 1..Len(<<>>) = {}
    OBVIOUS
  <2>4. PICK at : at = [i \in {} |-> 0]
    OBVIOUS
  <2>5. at \in [1..Len(<<>>) -> 1..0]
    BY <2>3, <2>4
  <2>6. TakenInOrder(<<>>, s, 0)
    BY <2>3, <2>5, Zenon DEF TakenInOrder
  <2> QED
    BY <1>4, <1>5, <2>2, <2>3, <2>6
<1>6. CASE m # 0
  <2>1. m - 1 \in 0..Len(s) /\ m - 1 \notin Bad /\ m \in 1..Len(s) /\ s[m] \in T
    BY <1>4, <1>6
  <2>2. f[m] = IF s[m] \in S THEN Append(f[m - 1], s[m]) ELSE f[m - 1]
    BY <1>1, <1>6, <2>1, KeepsAt
  <2>3. f[m - 1] \in Seq(T) /\ TakenInOrder(f[m - 1], s, m - 1)
    BY <2>1
  <2>4. PICK n \in Nat : n = Len(f[m - 1])
    BY <2>3
  <2>5. PICK at \in [1..n -> 1..m - 1] :
          /\ \A i \in 1..n : f[m - 1][i] = s[at[i]]
          /\ \A i, j \in 1..n : i < j => at[i] < at[j]
    BY <2>3, <2>4 DEF TakenInOrder
  <2>6. CASE s[m] \in S
    <3>1. /\ f[m] \in Seq(T) /\ Len(f[m]) = n + 1 /\ f[m][n + 1] = s[m]
          /\ \A i \in 1..n : f[m][i] = f[m - 1][i]
      BY <2>1, <2>2, <2>3, <2>4, <2>6
    <3>2. PICK new : new = [i \in 1..n + 1 |-> IF i = n + 1 THEN m ELSE at[i]]
      OBVIOUS
    <3>3. \A i \in 1..n + 1 : i = n + 1 \/ i \in 1..n
      OBVIOUS
    <3>4. new \in [1..n + 1 -> 1..m]
      BY <2>1, <2>5, <3>2, <3>3
    <3>5. \A i \in 1..n + 1 : f[m][i] = s[new[i]]
      BY <2>5, <3>1, <3>2, <3>3
    <3>6. \A i, j \in 1..n + 1 : i < j => new[i] < new[j]
      <4> SUFFICES ASSUME NEW i \in 1..n + 1, NEW j \in 1..n + 1, i < j
                   PROVE  new[i] < new[j]
        OBVIOUS
      <4>1. i \in 1..n /\ new[i] = at[i] /\ at[i] \in 1..m - 1
        BY <2>5, <3>2, <3>3
      <4>2. CASE j = n + 1
        BY <2>1, <3>2, <4>1, <4>2
      <4>3. CASE j \in 1..n
        BY <2>5, <3>2, <4>1, <4>3
      <4> QED
        BY <3>3, <4>2, <4>3
    <3>7. TakenInOrder(f[m], s, m)
      BY <3>1, <3>4, <3>5, <3>6 DEF TakenInOrder
    <3> QED
      BY <1>4, <3>1, <3>7
  <2>7. CASE s[m] \notin S
    <3>1. f[m] = f[m - 1]
      BY <2>2, <2>7
    <3>2. at \in [1..n -> 1..m]
      BY <2>1, <2>5
    <3>3. TakenInOrder(f[m], s, m)
      BY <2>4, <2>5, <3>1, <3>2 DEF TakenInOrder
    <3> QED
      BY <1>4, <2>3, <3>1, <3>3
  <2> QED
    BY <2>6, <2>7
<1> QED
  BY <1>5, <1>6
=============================================================================
