----------------------------- MODULE ListProofs -----------------------------
(***************************************************************************)
(* Lemmas about lists that the other proofs share: a set of naturals has a *)
(* least element, which stands in for induction over the length of a list; *)
(* Kept leaves what it should, in order.                                   *)
(***************************************************************************)
EXTENDS Lists, FiniteSetTheorems, NaturalsInduction, SequenceTheorems, WellFoundedInduction, TLAPS

\* A set of naturals that is not empty has a least element.
LEMMA LeastIs ==
  ASSUME NEW S, S \subseteq Nat, S # {}
  PROVE  Least(S) \in S /\ \A k \in S : Least(S) <= k
<1> DEFINE R == OpToRel(<, Nat)
<1>1. PICK d \in S : \A e \in S : ~(<<e, d>> \in R)
  <2>1. IsWellFoundedOn(R, Nat)
    BY NatLessThanWellFounded
  <2> HIDE DEF R
  <2>2. QED
    BY <2>1, WFMin
<1>2. \A e \in S : ~(e < d)
  BY <1>1 DEF OpToRel
<1>3. \A e \in S : d <= e
  BY <1>2
<1>4. QED
  BY <1>3 DEF Least

\* The least element is the only one below all.
LEMMA LeastOnly ==
  ASSUME NEW S, S \subseteq Nat, NEW n \in S, \A k \in S : n <= k
  PROVE  Least(S) = n
<1>1. Least(S) \in Nat /\ n \in Nat /\ Least(S) <= n /\ n <= Least(S)
  BY LeastIs
<1>2. QED
  BY <1>1

\* Ranks count the elements of a finite set of naturals one by one.
LEMMA RankStep ==
  ASSUME NEW N \in Nat, NEW T, T \subseteq 1..N
  PROVE  /\ IsFiniteSet(T) /\ Cardinality(T) \in Nat
         /\ \A n \in Nat : Rank(T, n) \in Nat
         /\ Rank(T, 0) = 0 /\ Rank(T, N) = Cardinality(T)
         /\ \A n \in Nat \ {0} :
              Rank(T, n) = IF n \in T THEN Rank(T, n - 1) + 1 ELSE Rank(T, n - 1)
         /\ \A m, n \in Nat : m <= n => Rank(T, m) <= Rank(T, n)
<1>0. \A k \in T : k \in Nat /\ 1 <= k /\ k <= N
  OBVIOUS
<1>1. IsFiniteSet(T) /\ \A n : IsFiniteSet({k \in T : k <= n})
  <2>1. IsFiniteSet(1..N)
    BY FS_Interval
  <2>2. T \in SUBSET (1..N) /\ \A n : {k \in T : k <= n} \in SUBSET (1..N)
    OBVIOUS
  <2>3. QED
    BY <2>1, <2>2, FS_Subset
<1>2. Cardinality(T) \in Nat /\ \A n \in Nat : Rank(T, n) \in Nat
  BY <1>1, FS_CardinalityType DEF Rank
<1>3. Rank(T, 0) = 0
  <2>1. \A k \in T : ~(k <= 0)
    BY <1>0
  <2>2. {k \in T : k <= 0} = {}
    BY <2>1
  <2>3. QED
    BY <2>2, FS_EmptySet DEF Rank
<1>4. Rank(T, N) = Cardinality(T)
  <2>1. {k \in T : k <= N} = T
    BY <1>0
  <2>2. QED
    BY <2>1 DEF Rank
<1>5. ASSUME NEW n \in Nat \ {0}
      PROVE  Rank(T, n) = IF n \in T THEN Rank(T, n - 1) + 1 ELSE Rank(T, n - 1)
  <2>1. CASE n \in T
    <3>1. \A k \in T : k <= n <=> k <= n - 1 \/ k = n
      BY <1>0
    <3> DEFINE B == {k \in T : k <= n - 1}
    <3>2. {k \in T : k <= n} = B \cup {n} /\ n \notin B /\ IsFiniteSet(B)
      <4>1. {k \in T : k <= n} = B \cup {n}
        BY <2>1, <3>1
      <4>2. n \notin B
        OBVIOUS
      <4>3. IsFiniteSet(B)
        BY <1>1
      <4>4. QED
        BY <4>1, <4>2, <4>3
    <3>3. Rank(T, n) = Cardinality(B \cup {n}) /\ Rank(T, n - 1) = Cardinality(B)
      BY <3>2 DEF Rank
    <3> HIDE DEF B
    <3>4. Cardinality(B \cup {n}) = Cardinality(B) + 1
      BY <3>2, FS_AddElement
    <3>5. QED
      BY <2>1, <3>3, <3>4
  <2>2. CASE n \notin T
    <3>1. \A k \in T : k <= n <=> k <= n - 1
      BY <1>0, <2>2
    <3>2. {k \in T : k <= n} = {k \in T : k <= n - 1}
      BY <3>1
    <3>3. QED
      BY <2>2, <3>2 DEF Rank
  <2>3. QED
    BY <2>1, <2>2
<1>6. ASSUME NEW m \in Nat, NEW n \in Nat, m <= n
      PROVE  Rank(T, m) <= Rank(T, n)
  <2>0. \A k \in T : k <= m => k <= n
    BY <1>0, <1>6
  <2>1. {k \in T : k <= m} \in SUBSET {k \in T : k <= n}
    BY <2>0
  <2>2. QED
    BY <1>1, <2>1, FS_Subset DEF Rank
<1>7. QED
  BY <1>1, <1>2, <1>3, <1>4, <1>5, <1>6

\* Every rank is that of one element, and ranks grow.
LEMMA RankOnto ==
  ASSUME NEW N \in Nat, NEW T, T \subseteq 1..N
  PROVE  /\ \A n \in T : Rank(T, n) \in 1..Cardinality(T)
         /\ \A m, n \in T : m < n => Rank(T, m) < Rank(T, n)
         /\ \A i \in 1..Cardinality(T) : \E n \in T : Rank(T, n) = i
<1>0. \A k \in T : k \in Nat /\ 1 <= k /\ k <= N
  OBVIOUS
<1>a. /\ Cardinality(T) \in Nat /\ Rank(T, 0) = 0 /\ Rank(T, N) = Cardinality(T)
      /\ \A n \in Nat : Rank(T, n) \in Nat
  BY RankStep
<1>b. \A n \in Nat \ {0} :
        Rank(T, n) = IF n \in T THEN Rank(T, n - 1) + 1 ELSE Rank(T, n - 1)
  BY RankStep
<1>c. \A m, n \in Nat : m <= n => Rank(T, m) <= Rank(T, n)
  BY RankStep
<1>1. ASSUME NEW m \in Nat, NEW n \in T, m < n
      PROVE  Rank(T, m) < Rank(T, n)
  <2>1. n - 1 \in Nat /\ m <= n - 1 /\ (n - 1) + 1 = n
    BY <1>0, <1>1
  <2>2. Rank(T, n) = Rank(T, n - 1) + 1
    BY <2>1, <1>a, <1>b, <1>c
  <2>3. QED
    BY <2>1, <2>2, <1>a, <1>b, <1>c
<1>2. ASSUME NEW n \in T
      PROVE  Rank(T, n) \in 1..Cardinality(T)
  <2>1. n \in Nat /\ 0 < n /\ n <= N
    BY <1>0
  <2>2. Rank(T, 0) < Rank(T, n)
    BY <1>1, <2>1
  <2>3. QED
    BY <2>1, <2>2, <1>a, <1>b, <1>c
<1>3. ASSUME NEW i \in 1..Cardinality(T)
      PROVE  \E n \in T : Rank(T, n) = i
  <2> DEFINE S == {n \in 0..N : i <= Rank(T, n)}
  <2>1. S \subseteq Nat /\ N \in S
    BY <1>a, <1>b, <1>c
  <2>2. PICK n \in S : \A k \in S : n <= k
    BY <2>1, LeastIs
  <2>3. n # 0
    BY <1>a, <1>b, <1>c
  <2>4. n - 1 \in 0..N /\ n - 1 \notin S /\ (n - 1) + 1 = n
    BY <2>2, <2>3
  <2>5. Rank(T, n - 1) < i /\ i <= Rank(T, n)
    BY <2>4, <1>a, <1>b, <1>c
  <2>6. n \in T /\ Rank(T, n) = Rank(T, n - 1) + 1
    BY <2>4, <2>5, <1>a, <1>b, <1>c
  <2>7. Rank(T, n) = i
    <3>1. Rank(T, n - 1) \in Nat /\ i \in Nat
      BY <2>4, <1>a, <1>b, <1>c
    <3>2. QED
      BY <3>1, <2>5, <2>6
  <2>8. QED
    BY <2>6, <2>7
<1>4. QED
  BY <1>0, <1>1, <1>2, <1>3

\* What kept holds is at the positions pos of s.
Picks(kept, s, T, pos) ==
  /\ pos \in [DOMAIN kept -> T]
  /\ \A m \in DOMAIN kept : kept[m] = s[pos[m]]
  /\ \A l, m \in DOMAIN kept : l < m => pos[l] < pos[m]
  /\ \A n \in T : \E m \in DOMAIN kept : pos[m] = n

\* Kept picks positions in order, all of them.
LEMMA KeptIs ==
  ASSUME NEW s, NEW N \in Nat, NEW T, T \subseteq 1..N
  PROVE  \E pos : Picks(Kept(s, T), s, T, pos)
<1> DEFINE C == 1..Cardinality(T)
           pos == [m \in C |-> CHOOSE n \in T : Rank(T, n) = m]
<1>0. Cardinality(T) \in Nat /\ T \subseteq Nat
  <2>1. T \subseteq Nat
    OBVIOUS
  <2>2. QED
    BY <2>1, RankStep
<1>1. \A m \in C : pos[m] \in T /\ Rank(T, pos[m]) = m
  BY RankOnto
<1>2. DOMAIN Kept(s, T) = C /\ \A m \in C : Kept(s, T)[m] = s[pos[m]]
  BY DEF Kept
<1>3. ASSUME NEW l \in C, NEW m \in C, l < m
      PROVE  pos[l] < pos[m]
  <2>1. CASE pos[m] = pos[l]
    BY <1>0, <1>1, <1>3, <2>1
  <2>2. CASE pos[m] < pos[l]
    <3>1. Rank(T, pos[m]) < Rank(T, pos[l])
      BY <1>1, <2>2, RankOnto
    <3>2. m < l
      BY <1>1, <3>1
    <3>3. QED
      BY <1>0, <1>3, <3>2
  <2>3. pos[l] \in Nat /\ pos[m] \in Nat
    BY <1>0, <1>1
  <2>4. QED
    BY <2>1, <2>2, <2>3
<1>4. ASSUME NEW n \in T
      PROVE  \E m \in C : pos[m] = n
  <2>1. Rank(T, n) \in C
    BY RankOnto
  <2>2. pos[Rank(T, n)] \in T /\ Rank(T, pos[Rank(T, n)]) = Rank(T, n)
    BY <1>1, <2>1
  <2>3. \A m \in T : m < n \/ n < m => Rank(T, m) # Rank(T, n)
    <3>1. \A m \in T : Rank(T, m) \in Nat
      BY RankStep, <1>0
    <3>2. \A m \in T : /\ m < n => Rank(T, m) < Rank(T, n)
                       /\ n < m => Rank(T, n) < Rank(T, m)
      BY RankOnto
    <3>3. QED
      BY <3>1, <3>2
  <2>4. pos[Rank(T, n)] = n
    <3>1. PICK q \in T : q = pos[Rank(T, n)] /\ Rank(T, q) = Rank(T, n)
      BY <2>2
    <3>2. q \in Nat /\ n \in Nat /\ ~(q < n) /\ ~(n < q)
      BY <1>0, <2>3, <3>1
    <3>3. QED
      BY <3>1, <3>2
  <2>5. QED
    BY <2>1, <2>4
<1>5. pos \in [C -> T]
  BY <1>1
<1> HIDE DEF pos, C
<1>6. Picks(Kept(s, T), s, T, pos)
  BY <1>2, <1>3, <1>4, <1>5 DEF Picks
<1>7. QED
  BY <1>6

\* Kept of a sequence is one of the same elements; if nothing is left out, the same one.
LEMMA KeptType ==
  ASSUME NEW S, NEW s, NEW N \in Nat, NEW T, T \subseteq 1..N, \A n \in T : s[n] \in S
  PROVE  Kept(s, T) \in Seq(S)
<1>1. PICK pos : Picks(Kept(s, T), s, T, pos)
  BY KeptIs
<1>2. Cardinality(T) \in Nat /\ DOMAIN Kept(s, T) = 1..Cardinality(T)
  BY RankStep DEF Kept
<1>3. \A m \in 1..Cardinality(T) : Kept(s, T)[m] \in S
  BY <1>1, <1>2 DEF Picks
<1>4. Kept(s, T) = [m \in 1..Cardinality(T) |-> Kept(s, T)[m]]
  BY DEF Kept
<1>5. QED
  BY <1>2, <1>3, <1>4
=============================================================================
