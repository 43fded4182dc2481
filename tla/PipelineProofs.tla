--------------------------- MODULE PipelineProofs ---------------------------
(***************************************************************************)
(* What the documents of a request say, every sweep of it answers: the     *)
(* matrix (provider/calico/evaluate.go over the graph that feed.go builds) *)
(* is the one a reader of the documents would write, the eBPF programs     *)
(* (bpf.go) decide as the enforced ones of them say, and the filter chains *)
(* (iptables.go) are closed.                                               *)
(*                                                                         *)
(* The argument follows the pipeline: which documents are in force; what   *)
(* an endpoint is labelled with; what the graph stores of a policy; what a *)
(* rule, a policy, a tier and a side of the graph say of a flow, each from *)
(* the one before; and so what every pair of the sweep is given.           *)
(***************************************************************************)
EXTENDS EvaluateProofs
-----------------------------------------------------------------------------
(* What documents become of the graph *)

\* Records in a list have the order of their fields, and it has all of S.
Ordered(l, S) ==
  /\ \E N \in Nat : DOMAIN l = 1..N
  /\ \A k \in DOMAIN l : l[k] \in S
  /\ \A k, m \in DOMAIN l : k < m => l[k].order < l[m].order
  /\ \A x \in S : \E k \in DOMAIN l : l[k] = x

\* Records that their orders, positive and not beyond a bound, tell apart.
Orderable(S) ==
  /\ \E N \in Nat : \A x \in S : x.order \in 1..N
  /\ \A x, y \in S : x.order = y.order => x = y

\* Records that their orders tell apart are put in a list in that order.
LEMMA InOrderIs ==
  ASSUME NEW S, Orderable(S)
  PROVE  Ordered(InOrder(S), S)
<1> DEFINE orders == {x.order : x \in S}
           l == InOrder(S)
<1>1. PICK N \in Nat : orders \subseteq 1..N
  BY DEF Orderable
<1>2. /\ \A n \in orders : Rank(orders, n) \in 1..Cardinality(orders)
      /\ \A m, n \in orders : m < n => Rank(orders, m) < Rank(orders, n)
      /\ \A k \in 1..Cardinality(orders) : \E n \in orders : Rank(orders, n) = k
      /\ Cardinality(orders) \in Nat
  <2> HIDE DEF orders
  <2>1. QED
    BY <1>1, RankOnto, RankStep
<1>3. DOMAIN l = 1..Cardinality(orders)
  BY DEF InOrder
<1>4. \A k \in DOMAIN l : l[k] \in S /\ Rank(orders, l[k].order) = k
  <2> SUFFICES ASSUME NEW k \in DOMAIN l
               PROVE  l[k] \in S /\ Rank(orders, l[k].order) = k
    OBVIOUS
  <2>1. l[k] = CHOOSE x \in S : Rank(orders, x.order) = k
    BY <1>3 DEF InOrder
  <2>2. PICK n \in orders : Rank(orders, n) = k
    BY <1>2, <1>3
  <2>3. \E x \in S : x.order = n
    BY <2>2
  <2> HIDE DEF l, orders
  <2>4. \E x \in S : Rank(orders, x.order) = k
    BY <2>2, <2>3
  <2>5. QED
    BY <2>1, <2>4
<1>5. \A x \in S : x.order \in orders /\ x.order \in Nat
  BY <1>1
<1> HIDE DEF l, orders
<1>6. \A x, y \in S : x.order = y.order => x = y
  BY DEF Orderable
<1>7. ASSUME NEW k \in DOMAIN l, NEW m \in DOMAIN l, k < m
      PROVE  l[k].order < l[m].order
  <2>1. l[k].order \in Nat /\ l[m].order \in Nat /\ l[k].order \in orders /\ l[m].order \in orders
    BY <1>4, <1>5
  <2>2. CASE l[m].order < l[k].order
    <3>1. Rank(orders, l[m].order) < Rank(orders, l[k].order)
      BY <1>2, <2>1, <2>2
    <3>2. m < k
      BY <1>4, <3>1
    <3>3. QED
      BY <1>2, <1>3, <1>7, <3>2
  <2>3. CASE l[m].order = l[k].order
    <3>1. k = m
      BY <1>4, <2>3
    <3>2. QED
      BY <1>2, <1>3, <1>7, <3>1
  <2>4. QED
    BY <2>1, <2>2, <2>3
<1>8. ASSUME NEW x \in S
      PROVE  \E k \in DOMAIN l : l[k] = x
  <2> DEFINE k == Rank(orders, x.order)
  <2>1. k \in DOMAIN l /\ x.order \in Nat /\ x.order \in orders
    BY <1>2, <1>3, <1>5
  <2>2. l[k] \in S /\ Rank(orders, l[k].order) = Rank(orders, x.order)
    BY <1>4, <2>1
  <2>3. l[k].order \in Nat /\ l[k].order \in orders
    BY <1>5, <2>2
  <2>4. /\ Rank(orders, x.order) \in Nat /\ Rank(orders, l[k].order) \in Nat
        /\ x.order < l[k].order => Rank(orders, x.order) < Rank(orders, l[k].order)
        /\ l[k].order < x.order => Rank(orders, l[k].order) < Rank(orders, x.order)
    BY <1>2, <2>1, <2>3
  <2>5. ~(x.order < l[k].order) /\ ~(l[k].order < x.order)
    BY <2>2, <2>4
  <2>6. l[k].order = x.order
    BY <2>1, <2>3, <2>5
  <2>7. QED
    BY <1>6, <2>1, <2>2, <2>6
<1>9. \E M \in Nat : DOMAIN l = 1..M
  BY <1>2, <1>3
<1>10. QED
  BY <1>4, <1>7, <1>8, <1>9 DEF Ordered, l

\* The first of some records.
LEMMA FirstRecord ==
  ASSUME NEW S, S # {}, \A x \in S : x.order \in Nat
  PROVE  \E x \in S : \A y \in S : x.order <= y.order
<1> DEFINE T == {x.order : x \in S}
<1>1. T \subseteq Nat /\ T # {}
  OBVIOUS
<1>2. PICK n \in T : \A k \in T : n <= k
  <2> HIDE DEF T
  <2>1. QED
    BY <1>1, LeastIs
<1>3. QED
  BY <1>2

\* What records answer, asked in their order: nothing, or what the first says that answers.
LEMMA FirstInOrder ==
  ASSUME NEW S, NEW l, Ordered(l, S), \A x \in S : x.order \in Nat, NEW says, NEW skip,
         NEW a, DOMAIN a = DOMAIN l, \A k \in DOMAIN l : a[k] = says[l[k]]
  PROVE  /\ (\A x \in S : says[x] = skip) => FirstOf(a, skip) = skip
         /\ \A x \in S :
              says[x] # skip /\ (\A y \in S : says[y] # skip => x.order <= y.order)
                => FirstOf(a, skip) = says[x]
<1> USE DEF Ordered
<1>0. DOMAIN l \subseteq Nat
  OBVIOUS
<1>1. ASSUME \A x \in S : says[x] = skip
      PROVE  FirstOf(a, skip) = skip
  BY <1>1, FirstOfNone
<1>2. ASSUME NEW x \in S, says[x] # skip, \A y \in S : says[y] # skip => x.order <= y.order
      PROVE  FirstOf(a, skip) = says[x]
  <2>1. PICK n \in DOMAIN l : l[n] = x
    OBVIOUS
  <2>2. ASSUME NEW k \in DOMAIN a, k < n
        PROVE  a[k] = skip
    <3>1. l[k] \in S /\ l[k].order < x.order
      BY <2>1, <2>2
    <3>2. l[k].order \in Nat /\ x.order \in Nat
      BY <1>2, <3>1
    <3>3. ~(x.order <= l[k].order)
      BY <3>1, <3>2
    <3>4. QED
      BY <1>2, <2>2, <3>1, <3>3
  <2>3. QED
    BY <1>0, <1>2, <2>1, <2>2, FirstOfIs
<1>3. QED
  BY <1>1, <1>2

\* Some of the elements of an ordered list, in their order.
LEMMA PickedOrdered ==
  ASSUME NEW l, NEW S, Ordered(l, S), NEW k, NEW s, NEW T, T \subseteq DOMAIN l,
         k = Kept(s, T), NEW pos, Picks(k, s, T, pos)
  PROVE  Ordered([m \in DOMAIN k |-> l[pos[m]]], {l[i] : i \in T})
<1> DEFINE some == [m \in DOMAIN k |-> l[pos[m]]]
<1>1. /\ DOMAIN some = DOMAIN k
      /\ \A m \in DOMAIN k : pos[m] \in T /\ pos[m] \in DOMAIN l /\ some[m] = l[pos[m]]
      /\ \A m, n \in DOMAIN k : m < n => pos[m] < pos[n]
      /\ \A i \in T : \E m \in DOMAIN k : pos[m] = i
  BY DEF Picks
<1>2. \E N \in Nat : DOMAIN k = 1..N
  <2>1. PICK N \in Nat : T \subseteq 1..N
    BY DEF Ordered
  <2>2. Cardinality(T) \in Nat
    BY <2>1, RankStep
  <2>3. QED
    BY <2>2 DEF Kept
<1> HIDE DEF some
<1>3. QED
  BY <1>1, <1>2 DEF Ordered, some

\* What all say, the first says.
LEMMA FirstOfSame ==
  ASSUME NEW a, DOMAIN a \subseteq Nat, DOMAIN a # {}, NEW v, NEW skip, v # skip,
         \A k \in DOMAIN a : a[k] = v
  PROVE  FirstOf(a, skip) = v
<1>1. PICK k \in DOMAIN a : a[k] # skip
  OBVIOUS
<1>2. PICK n \in DOMAIN a : a[n] # skip /\ \A m \in DOMAIN a : m < n => a[m] = skip
  BY <1>1, FirstOfHit
<1>3. QED
  BY <1>2, FirstOfIs

\* Of the elements of s at T, the last one of each key.
Newest(s, T) ==
  {s[i] : i \in {n \in T : \A m \in T : Key(s[m]) = Key(s[n]) => m <= n}}

\* Of the elements of a, the last one of each key that no element of s at T has.
Outlived(a, s, T) ==
  {a[i] : i \in {n \in DOMAIN a : /\ \A m \in DOMAIN a : Key(a[m]) = Key(a[n]) => m <= n
                                  /\ \A m \in T : Key(s[m]) # Key(a[n])}}

\* l has the elements of s at T, in their order.
PickedFrom(l, s, T) == l \in Seq(Range(l)) /\ T \subseteq Nat /\ \E pos : Picks(l, s, T, pos)

\* Of two picked elements the one that was first in the list still is.
LEMMA PickedOrder ==
  ASSUME NEW l, NEW s, NEW T, NEW pos, Picks(l, s, T, pos), l \in Seq(Range(l)), T \subseteq Nat,
         NEW i \in DOMAIN l, NEW j \in DOMAIN l
  PROVE  i <= j <=> pos[i] <= pos[j]
<1>1. i \in Nat /\ j \in Nat /\ pos[i] \in Nat /\ pos[j] \in Nat
  <2>1. DOMAIN l = 1..Len(l) /\ Len(l) \in Nat
    OBVIOUS
  <2>2. pos[i] \in T /\ pos[j] \in T
    BY DEF Picks
  <2>3. \A n \in 1..Len(l) : n \in Nat
    BY <2>1
  <2>4. i \in Nat /\ j \in Nat
    BY <2>1, <2>3
  <2>5. \A n \in T : n \in Nat
    OBVIOUS
  <2>6. QED
    BY <2>2, <2>4, <2>5
<1>2. (i < j => pos[i] < pos[j]) /\ (j < i => pos[j] < pos[i])
  BY DEF Picks
<1>3. QED
  BY <1>1, <1>2

\* What is current of the picked elements is the last of each key among them.
LEMMA CurrentOfPicked ==
  ASSUME NEW l, NEW s, NEW T, PickedFrom(l, s, T)
  PROVE  Current(l) = Newest(s, T)
<1>1. PICK pos : Picks(l, s, T, pos)
  BY DEF PickedFrom
<1>2. /\ \A i \in DOMAIN l : pos[i] \in T /\ l[i] = s[pos[i]]
      /\ \A n \in T : \E i \in DOMAIN l : pos[i] = n
  BY <1>1 DEF Picks
<1>3. \A i, j \in DOMAIN l : i <= j <=> pos[i] <= pos[j]
  BY <1>1, PickedOrder DEF PickedFrom
<1>4. ASSUME NEW i \in DOMAIN l
      PROVE  (\A j \in DOMAIN l : Key(l[j]) = Key(l[i]) => j <= i)
               <=> (\A m \in T : Key(s[m]) = Key(s[pos[i]]) => m <= pos[i])
  <2>1. ASSUME \A j \in DOMAIN l : Key(l[j]) = Key(l[i]) => j <= i, NEW m \in T,
               Key(s[m]) = Key(s[pos[i]])
        PROVE  m <= pos[i]
    <3>1. PICK j \in DOMAIN l : pos[j] = m
      BY <1>2
    <3>2. l[j] = s[m] /\ l[i] = s[pos[i]]
      BY <1>2, <3>1
    <3>3. j <= i
      BY <2>1, <3>2
    <3>4. QED
      BY <1>3, <3>1, <3>3
  <2>2. ASSUME \A m \in T : Key(s[m]) = Key(s[pos[i]]) => m <= pos[i], NEW j \in DOMAIN l,
               Key(l[j]) = Key(l[i])
        PROVE  j <= i
    <3>1. l[j] = s[pos[j]] /\ l[i] = s[pos[i]] /\ pos[j] \in T
      BY <1>2
    <3>2. pos[j] <= pos[i]
      BY <2>2, <3>1
    <3>3. QED
      BY <1>3, <3>2
  <2>3. QED
    BY <2>1, <2>2
<1>5. ASSUME NEW x
      PROVE  x \in Current(l) <=> x \in Newest(s, T)
  <2>1. ASSUME x \in Current(l)
        PROVE  x \in Newest(s, T)
    <3>1. PICK i \in DOMAIN l : x = l[i] /\ \A j \in DOMAIN l : Key(l[j]) = Key(l[i]) => j <= i
      BY <2>1 DEF Current
    <3>2. \A m \in T : Key(s[m]) = Key(s[pos[i]]) => m <= pos[i]
      BY <1>4, <3>1
    <3>3. pos[i] \in T /\ x = s[pos[i]]
      BY <1>2, <3>1
    <3>4. QED
      BY <3>2, <3>3 DEF Newest
  <2>2. ASSUME x \in Newest(s, T)
        PROVE  x \in Current(l)
    <3>1. PICK n \in T : x = s[n] /\ \A m \in T : Key(s[m]) = Key(s[n]) => m <= n
      BY <2>2 DEF Newest
    <3>2. PICK i \in DOMAIN l : pos[i] = n
      BY <1>2
    <3>3. \A j \in DOMAIN l : Key(l[j]) = Key(l[i]) => j <= i
      BY <1>4, <3>1, <3>2
    <3>4. x = l[i]
      BY <1>2, <3>1, <3>2
    <3>5. QED
      BY <3>3, <3>4 DEF Current
  <2>3. QED
    BY <2>1, <2>2
<1>6. QED
  BY <1>5

\* The list after another: it keeps what it would alone.
LEMMA CurrentOfBoth ==
  ASSUME NEW a, a \in Seq(Range(a)), NEW l, NEW s, NEW T, PickedFrom(l, s, T)
  PROVE  Current(a \o l) = Outlived(a, s, T) \cup Newest(s, T)
<1> DEFINE both == a \o l
           last(i) == \A j \in DOMAIN both : Key(both[j]) = Key(both[i]) => j <= i
           n == Len(a)
<1>1. /\ n \in Nat /\ Len(l) \in Nat /\ DOMAIN a = 1..n /\ DOMAIN l = 1..Len(l)
      /\ DOMAIN both = 1..(n + Len(l))
      /\ \A i \in 1..n : both[i] = a[i]
      /\ \A i \in 1..Len(l) : both[n + i] = l[i]
  <2>1. a \in Seq(Range(a) \cup Range(l)) /\ l \in Seq(Range(a) \cup Range(l))
    BY DEF PickedFrom, Range
  <2>2. QED
    BY <2>1, ConcatProperties
<1>2. \A i \in DOMAIN both : i \in DOMAIN a \/ \E k \in DOMAIN l : i = n + k
  <2>1. \A i \in DOMAIN both : i \in Nat /\ (i <= n \/ (i - n \in 1..Len(l) /\ i = n + (i - n)))
    BY <1>1
  <2>2. QED
    BY <1>1, <2>1
<1>3. \A i \in DOMAIN a : i \in DOMAIN both
  BY <1>1
<1>4. \A k \in DOMAIN l : n + k \in DOMAIN both
  BY <1>1
<1>5. \A i \in DOMAIN a, k \in DOMAIN l : i <= n + k /\ ~(n + k <= i)
  BY <1>1
<1>6. \A k, j \in DOMAIN l : n + k <= n + j <=> k <= j
  BY <1>1
<1>a. (\A i \in DOMAIN a : both[i] = a[i]) /\ (\A k \in DOMAIN l : both[n + k] = l[k])
  BY <1>1
<1> HIDE DEF both, n
<1>7. ASSUME NEW i \in DOMAIN a
      PROVE  last(i) <=> /\ \A j \in DOMAIN a : Key(a[j]) = Key(a[i]) => j <= i
                         /\ \A k \in DOMAIN l : Key(l[k]) # Key(a[i])
  BY <1>2, <1>3, <1>4, <1>5, <1>a
<1>8. ASSUME NEW k \in DOMAIN l
      PROVE  last(n + k) <=> \A j \in DOMAIN l : Key(l[j]) = Key(l[k]) => j <= k
  BY <1>2, <1>3, <1>4, <1>5, <1>6, <1>a
<1>9. ASSUME NEW y
      PROVE  (\A k \in DOMAIN l : Key(l[k]) # y) <=> (\A m \in T : Key(s[m]) # y)
  <2>1. PICK pos : Picks(l, s, T, pos)
    BY DEF PickedFrom
  <2>2. /\ \A k \in DOMAIN l : pos[k] \in T /\ l[k] = s[pos[k]]
        /\ \A m \in T : \E k \in DOMAIN l : pos[k] = m
    BY <2>1 DEF Picks
  <2>3. QED
    BY <2>2
<1>10. Current(l) = Newest(s, T)
  BY CurrentOfPicked
<1>11. ASSUME NEW x
       PROVE  x \in Current(both) <=> x \in Outlived(a, s, T) \cup Current(l)
  <2>1. ASSUME x \in Current(both)
        PROVE  x \in Outlived(a, s, T) \cup Current(l)
    <3>1. PICK i \in DOMAIN both : x = both[i] /\ last(i)
      BY <2>1 DEF Current
    <3>2. CASE i \in DOMAIN a
      <4>1. /\ \A j \in DOMAIN a : Key(a[j]) = Key(a[i]) => j <= i
            /\ \A k \in DOMAIN l : Key(l[k]) # Key(a[i])
        BY <1>7, <3>1, <3>2
      <4>2. \A m \in T : Key(s[m]) # Key(a[i])
        BY <1>9, <4>1
      <4>3. QED
        BY <1>a, <3>1, <3>2, <4>1, <4>2 DEF Outlived
    <3>3. CASE \E k \in DOMAIN l : i = n + k
      <4>1. PICK k \in DOMAIN l : i = n + k
        BY <3>3
      <4>2. \A j \in DOMAIN l : Key(l[j]) = Key(l[k]) => j <= k
        BY <1>8, <3>1, <4>1
      <4>3. x = l[k]
        BY <1>a, <3>1, <4>1
      <4>4. QED
        BY <4>2, <4>3 DEF Current
    <3>4. QED
      BY <1>2, <3>2, <3>3
  <2>2. ASSUME x \in Outlived(a, s, T)
        PROVE  x \in Current(both)
    <3>1. PICK i \in DOMAIN a : /\ x = a[i]
                                /\ \A j \in DOMAIN a : Key(a[j]) = Key(a[i]) => j <= i
                                /\ \A m \in T : Key(s[m]) # Key(a[i])
      BY <2>2 DEF Outlived
    <3>2. last(i)
      BY <1>7, <1>9, <3>1
    <3>3. i \in DOMAIN both /\ x = both[i]
      BY <1>3, <1>a, <3>1
    <3>4. QED
      BY <3>2, <3>3 DEF Current
  <2>3. ASSUME x \in Current(l)
        PROVE  x \in Current(both)
    <3>1. PICK k \in DOMAIN l : x = l[k] /\ \A j \in DOMAIN l : Key(l[j]) = Key(l[k]) => j <= k
      BY <2>3 DEF Current
    <3>2. last(n + k) /\ n + k \in DOMAIN both /\ x = both[n + k]
      BY <1>4, <1>8, <1>a, <3>1
    <3>3. QED
      BY <3>2 DEF Current
  <2>4. QED
    BY <2>1, <2>2, <2>3
<1>12. QED
  BY <1>10, <1>11 DEF both

\* A list over the things in it.
IsList(a) == a \in Seq(Range(a))

\* Two lists that pick the same from a list leave the same behind another one.
LEMMA CurrentOfTwo ==
  ASSUME NEW a, IsList(a), NEW l, NEW k, NEW s, NEW T, PickedFrom(l, s, T), PickedFrom(k, s, T)
  PROVE  Current(a \o l) = Current(a \o k)
<1>1. a \in Seq(Range(a))
  BY DEF IsList
<1>2. Current(a \o l) = Outlived(a, s, T) \cup Newest(s, T)
  BY <1>1, CurrentOfBoth
<1>3. Current(a \o k) = Outlived(a, s, T) \cup Newest(s, T)
  BY <1>1, CurrentOfBoth
<1>4. QED
  BY <1>2, <1>3

\* What is picked from s, and from what is picked from s.
LEMMA KeptLists ==
  ASSUME NEW s, s \in Seq(Range(s)), NEW T, T \subseteq DOMAIN s
  PROVE  PickedFrom(Kept(s, T), s, T)
<1>1. Len(s) \in Nat /\ T \subseteq 1..Len(s) /\ T \subseteq Nat
  OBVIOUS
<1>2. \E pos : Picks(Kept(s, T), s, T, pos)
  BY <1>1, KeptIs
<1>3. DOMAIN Kept(s, T) = 1..Cardinality(T) /\ Cardinality(T) \in Nat
  BY <1>1, RankStep DEF Kept
<1>4. Kept(s, T) \in Seq(Range(s))
  <2>1. \A n \in T : s[n] \in Range(s)
    BY DEF Range
  <2>2. QED
    BY <1>1, <2>1, KeptType
<1>5. Kept(s, T) \in Seq(Range(Kept(s, T)))
  BY <1>4 DEF Range
<1>6. QED
  BY <1>1, <1>2, <1>5 DEF PickedFrom

\* The places of a list that hold things of a set.
Holding(s, A) == {i \in DOMAIN s : s[i] \in A}

\* To pick from what was picked is to pick what passes both.
LEMMA KeptTwice ==
  ASSUME NEW s, IsList(s), NEW A, NEW B, NEW l, l = Kept(s, Holding(s, A))
  PROVE  PickedFrom(Kept(l, Holding(l, B)), s, {i \in Holding(s, A) : s[i] \in B})
<1> DEFINE T == Holding(s, A)
           U == Holding(l, B)
           k == Kept(l, U)
           V == {i \in Holding(s, A) : s[i] \in B}
<1>0. s \in Seq(Range(s)) /\ T \subseteq DOMAIN s /\ U \subseteq DOMAIN l
  BY DEF IsList, Holding
<1>1. PickedFrom(l, s, T)
  BY <1>0, KeptLists
<1>2. PickedFrom(k, l, U)
  <2>1. l \in Seq(Range(l))
    BY <1>1 DEF PickedFrom
  <2>2. QED
    BY <1>0, <2>1, KeptLists
<1>3. PICK p : Picks(l, s, T, p)
  BY <1>1 DEF PickedFrom
<1>4. PICK q : Picks(k, l, U, q)
  BY <1>2 DEF PickedFrom
<1>a. T = {i \in DOMAIN s : s[i] \in A} /\ U = {i \in DOMAIN l : l[i] \in B}
      /\ V = {i \in DOMAIN s : s[i] \in A /\ s[i] \in B}
  BY DEF Holding
<1> HIDE DEF k, T, U, V
<1> DEFINE both == [m \in DOMAIN k |-> p[q[m]]]
<1>5. \A m \in DOMAIN k : q[m] \in U /\ q[m] \in DOMAIN l /\ k[m] = l[q[m]] /\ l[q[m]] \in B
  BY <1>4, <1>a DEF Picks
<1>6. \A m \in DOMAIN l : p[m] \in T /\ l[m] = s[p[m]] /\ p[m] \in DOMAIN s /\ s[p[m]] \in A
  BY <1>3, <1>a DEF Picks
<1>7. \A m \in DOMAIN k : both[m] \in V /\ k[m] = s[both[m]]
  BY <1>5, <1>6, <1>a
<1>8. \A m, n \in DOMAIN k : m < n => both[m] < both[n]
  BY <1>3, <1>4, <1>5 DEF Picks
<1>9. ASSUME NEW n \in V
      PROVE  \E m \in DOMAIN k : both[m] = n
  <2>1. n \in T /\ s[n] \in B
    BY <1>a
  <2>2. PICK i \in DOMAIN l : p[i] = n
    BY <1>3, <2>1 DEF Picks
  <2>3. i \in U
    BY <1>6, <1>a, <2>1, <2>2
  <2>4. PICK m \in DOMAIN k : q[m] = i
    BY <1>4, <2>3 DEF Picks
  <2>5. QED
    BY <2>2, <2>4
<1>10. both \in [DOMAIN k -> V]
  BY <1>7
<1> HIDE DEF both
<1>11. Picks(k, s, V, both)
  BY <1>7, <1>8, <1>9, <1>10 DEF Picks
<1>12. V \subseteq Nat
  BY <1>0, <1>a
<1>13. QED
  BY <1>2, <1>11, <1>12 DEF PickedFrom, k, U, V

\* No two of the last ones have a key in common.
LEMMA CurrentKeys ==
  ASSUME NEW s, s \in Seq(Range(s))
  PROVE  /\ \A c, d \in Current(s) : Key(c) = Key(d) => c = d
         /\ \A d \in Current(s) : \E n \in DOMAIN s : d = s[n]
<1>1. ASSUME NEW c \in Current(s), NEW d \in Current(s), Key(c) = Key(d)
      PROVE  c = d
  <2>1. PICK m \in DOMAIN s : c = s[m] /\ \A n \in DOMAIN s : Key(s[n]) = Key(s[m]) => n <= m
    BY DEF Current
  <2>2. PICK k \in DOMAIN s : d = s[k] /\ \A n \in DOMAIN s : Key(s[n]) = Key(s[k]) => n <= k
    BY DEF Current
  <2>3. m <= k /\ k <= m
    BY <1>1, <2>1, <2>2
  <2>4. m \in Nat /\ k \in Nat
    OBVIOUS
  <2>5. QED
    BY <2>1, <2>2, <2>3, <2>4
<1>2. QED
  BY <1>1 DEF Current

\* Finitely many naturals have a bound.
LEMMA BoundedList ==
  ASSUME NEW n \in Nat, NEW g \in [1..n -> Nat]
  PROVE  \E N \in Nat : \A i \in 1..n : g[i] <= N
<1> DEFINE bounded(k) == \E N \in Nat : \A i \in 1..k : g[i] <= N
           T == {k \in 0..n : ~bounded(k)}
<1>1. ASSUME T # {}
      PROVE  FALSE
  <2>1. T \subseteq Nat
    OBVIOUS
  <2>2. PICK k \in T : \A m \in T : k <= m
    <3> HIDE DEF T
    <3>1. QED
      BY <1>1, <2>1, LeastIs
  <2>3. k # 0
    <3>1. bounded(0)
      <4>1. 0 \in Nat /\ \A i \in 1..0 : g[i] <= 0
        OBVIOUS
      <4>2. QED
        BY <4>1
    <3>2. QED
      BY <2>2, <3>1
  <2>4. k - 1 \in 0..n /\ ~(k <= k - 1) /\ k \in 1..n
    BY <2>2, <2>3
  <2>5. bounded(k - 1)
    BY <2>2, <2>4
  <2>6. PICK N \in Nat : \A i \in 1..(k - 1) : g[i] <= N
    BY <2>5
  <2>7. g[k] \in Nat
    BY <2>4
  <2>8. \A i \in 1..k : i = k \/ i \in 1..(k - 1)
    BY <2>4
  <2>9. \A i \in 1..k : g[i] \in Nat
    BY <2>4
  <2>10. \A i \in 1..k : g[i] <= N + g[k]
    BY <2>6, <2>7, <2>8, <2>9
  <2>11. N + g[k] \in Nat
    BY <2>7
  <2>12. QED
    BY <2>2, <2>10, <2>11
<1>2. bounded(n)
  <2>1. n \in 0..n
    OBVIOUS
  <2> HIDE DEF bounded
  <2>2. QED
    BY <1>1, <2>1
<1>3. QED
  BY <1>2

\* Records of a list that have orders are orderable, if these tell them apart.
LEMMA BoundedOrders ==
  ASSUME NEW s, s \in Seq(Range(s)), NEW S, \A x \in S : \E i \in DOMAIN s : x.order = s[i].order,
         \A x \in S : x.order \in Nat \ {0}, \A x, y \in S : x.order = y.order => x = y
  PROVE  Orderable(S)
<1> DEFINE n == Len(s)
           g == [i \in 1..n |-> IF s[i].order \in Nat THEN s[i].order ELSE 0]
<1>1. n \in Nat /\ DOMAIN s = 1..n /\ g \in [1..n -> Nat]
  OBVIOUS
<1>2. PICK N \in Nat : \A i \in 1..n : g[i] <= N
  <2> HIDE DEF g, n
  <2>1. QED
    BY <1>1, BoundedList
<1>3. ASSUME NEW x \in S
      PROVE  x.order \in 1..N
  <2>1. PICK i \in 1..n : x.order = s[i].order
    BY <1>1
  <2>2. x.order \in Nat /\ 1 <= x.order /\ g[i] = x.order /\ g[i] <= N
    BY <1>2, <2>1
  <2>3. QED
    BY <2>2
<1>4. QED
  BY <1>3 DEF Orderable

\* The lists of a written request are lists.
LEMMA WrittenLists ==
  ASSUME NEW raw, Written(raw)
  PROVE  /\ raw.documents \in Seq(Range(raw.documents))
         /\ raw.networkSets \in Seq(Range(raw.networkSets))
         /\ raw.endpoints \in Seq(Range(raw.endpoints))
         /\ raw.serviceAccounts \in Seq(Range(raw.serviceAccounts))
         /\ raw.services \in Seq(Range(raw.services))
BY DEF Written

\* What the pasted objects leave of a request, and join.
LEMMA Inlined ==
  ASSUME NEW raw, Written(raw)
  PROVE  LET r == ApplyInlineResources(raw)
         IN  /\ r.documents = Kept(raw.documents, {i \in DOMAIN raw.documents :
                                                     raw.documents[i].kind \notin InlineKinds})
             /\ r.serviceAccounts = All(raw, raw.serviceAccounts, "ServiceAccount")
             /\ r.services = All(raw, raw.services, "Service")
             /\ r.namespaces = raw.namespaces /\ r.networkSets = raw.networkSets
             /\ r.slices = raw.slices /\ r.endpoints = raw.endpoints
             /\ r.staged = raw.staged /\ r.icmp = raw.icmp /\ r.port = raw.port
<1>1. raw = [documents |-> raw.documents, serviceAccounts |-> raw.serviceAccounts,
             namespaces |-> raw.namespaces, services |-> raw.services,
             networkSets |-> raw.networkSets, slices |-> raw.slices,
             endpoints |-> raw.endpoints, staged |-> raw.staged,
             icmp |-> raw.icmp, port |-> raw.port]
  BY DEF Written
<1>2. {"documents", "serviceAccounts", "namespaces", "services", "networkSets", "slices",
       "endpoints", "staged", "icmp", "port"} = DOMAIN raw
  BY <1>1
<1> DEFINE docs == Kept(raw.documents, {i \in DOMAIN raw.documents :
                                          raw.documents[i].kind \notin InlineKinds})
           accounts == All(raw, raw.serviceAccounts, "ServiceAccount")
           services == All(raw, raw.services, "Service")
<1>3. ApplyInlineResources(raw)
        = [raw EXCEPT !.documents = docs, !.serviceAccounts = accounts, !.services = services]
  BY DEF ApplyInlineResources, All
<1> HIDE DEF docs, accounts, services
<1>4. LET r == ApplyInlineResources(raw)
      IN  /\ r.documents = docs /\ r.serviceAccounts = accounts /\ r.services = services
          /\ r.namespaces = raw.namespaces /\ r.networkSets = raw.networkSets
          /\ r.slices = raw.slices /\ r.endpoints = raw.endpoints
          /\ r.staged = raw.staged /\ r.icmp = raw.icmp /\ r.port = raw.port
  BY <1>2, <1>3
<1>5. QED
  BY <1>4 DEF docs, accounts, services

\* What is sent of the documents that are not pasted objects.
LEMMA SentIs ==
  ASSUME NEW raw, Written(raw), NEW kinds, kinds \cap InlineKinds = {}
  PROVE  PickedFrom(Sent(ApplyInlineResources(raw), kinds), raw.documents,
                    {i \in DOMAIN raw.documents :
                       /\ raw.documents[i].kind \in kinds /\ raw.documents[i].ok
                       /\ ~Skips(raw, raw.documents[i])})
<1> DEFINE r == ApplyInlineResources(raw)
           docs == raw.documents
           A == {d \in Range(docs) : d.kind \notin InlineKinds}
           B == {d \in Range(docs) : d.kind \in kinds /\ d.ok /\ ~Skips(raw, d)}
           l == r.documents
<1>1. docs \in Seq(Range(docs)) /\ \A i \in DOMAIN docs : docs[i] \in Range(docs)
  BY WrittenLists DEF Range
<1>2. l = Kept(docs, {i \in DOMAIN docs : docs[i] \in A})
  <2>1. {i \in DOMAIN docs : docs[i] \in A} = {i \in DOMAIN docs : docs[i].kind \notin InlineKinds}
    BY <1>1
  <2>2. QED
    BY <2>1, Inlined
<1>3. \A i \in DOMAIN l : l[i] \in Range(docs)
  <2> DEFINE T == {i \in DOMAIN docs : docs[i] \in A}
  <2>1. PickedFrom(l, docs, T) /\ T \subseteq DOMAIN docs
    BY <1>1, <1>2, KeptLists
  <2> HIDE DEF l, T
  <2>2. PICK pos : Picks(l, docs, T, pos)
    BY <2>1 DEF PickedFrom
  <2>3. QED
    BY <1>1, <2>1, <2>2 DEF Picks
<1>4. \A d : Skips(r, d) <=> Skips(raw, d)
  BY Inlined DEF Skips
<1>5. Sent(r, kinds) = Kept(l, {i \in DOMAIN l : l[i] \in B})
  <2>1. {i \in DOMAIN l : l[i] \in B}
          = {i \in DOMAIN l : l[i].kind \in kinds /\ l[i].ok /\ ~Skips(r, l[i])}
    BY <1>3, <1>4
  <2>2. QED
    BY <2>1 DEF Sent
<1>6. {i \in Holding(docs, A) : docs[i] \in B}
        = {i \in DOMAIN docs : docs[i].kind \in kinds /\ docs[i].ok /\ ~Skips(raw, docs[i])}
  <2>1. \A i \in DOMAIN docs : docs[i] \in A /\ docs[i] \in B
                               <=> docs[i].kind \in kinds /\ docs[i].ok /\ ~Skips(raw, docs[i])
    BY <1>1
  <2>2. QED
    BY <2>1 DEF Holding
<1>7. IsList(docs) /\ l = Kept(docs, Holding(docs, A)) /\ Sent(r, kinds) = Kept(l, Holding(l, B))
  BY <1>1, <1>2, <1>5 DEF IsList, Holding
<1> HIDE DEF l, A, B, docs
<1>8. PickedFrom(Kept(l, Holding(l, B)), docs, {i \in Holding(docs, A) : docs[i] \in B})
  BY <1>7, KeptTwice
<1>9. QED
  BY <1>6, <1>7, <1>8 DEF docs

\* The policies that are sent and not replaced are those in force.
LEMMA PoliciesSent ==
  ASSUME NEW raw, Written(raw)
  PROVE  Current(Sent(ApplyInlineResources(raw), PolicyKinds)) = InForce(raw, raw.staged)
<1> DEFINE docs == raw.documents
           T == {i \in DOMAIN docs : docs[i].kind \in PolicyKinds /\ docs[i].ok /\ ~Skips(raw, docs[i])}
           U == {i \in DOMAIN docs : /\ docs[i].ok /\ docs[i].kind \in PolicyKinds
                                     /\ raw.staged \/ docs[i].kind \notin StagedKinds}
<1>1. T = U /\ T \subseteq DOMAIN docs
  BY DEF Skips
<1>2. PolicyKinds \cap InlineKinds = {}
  BY DEF PolicyKinds, InlineKinds, Defaulted, StagedKinds
<1>3. PickedFrom(Sent(ApplyInlineResources(raw), PolicyKinds), docs, T)
  BY <1>2, SentIs
<1>4. PickedFrom(Kept(docs, U), docs, U)
  BY <1>1, WrittenLists, KeptLists
<1>5. InForce(raw, raw.staged) = Current(Kept(docs, U))
  BY DEF InForce
<1> HIDE DEF T, U
<1>6. QED
  BY <1>1, <1>3, <1>4, <1>5, CurrentOfPicked

\* The network sets that are sent and not replaced are those of the documents and the request.
LEMMA SetsSent ==
  ASSUME NEW raw, Written(raw)
  PROVE  LET r == ApplyInlineResources(raw)
         IN  Current(r.networkSets \o Sent(r, SetKinds)) = SetsIn(raw)
<1> DEFINE docs == raw.documents
           T == {i \in DOMAIN docs : docs[i].kind \in SetKinds /\ docs[i].ok /\ ~Skips(raw, docs[i])}
           U == {i \in DOMAIN docs : docs[i].ok /\ docs[i].kind \in SetKinds}
<1>1. T = U /\ T \subseteq DOMAIN docs
  BY DEF Skips, SetKinds, StagedKinds
<1>2. SetKinds \cap InlineKinds = {}
  BY DEF SetKinds, InlineKinds
<1>3. PickedFrom(Sent(ApplyInlineResources(raw), SetKinds), docs, T)
  BY <1>2, SentIs
<1>4. PickedFrom(Kept(docs, U), docs, U)
  BY <1>1, WrittenLists, KeptLists
<1>5. SetsIn(raw) = Current(raw.networkSets \o Kept(docs, U))
  BY DEF SetsIn
<1>6. ApplyInlineResources(raw).networkSets = raw.networkSets
  BY Inlined
<1>7. raw.networkSets \in Seq(Range(raw.networkSets))
  BY WrittenLists
<1> DEFINE nets == raw.networkSets
           sent == Sent(ApplyInlineResources(raw), SetKinds)
           kept == Kept(docs, U)
<1>8. Current(nets \o sent) = Current(nets \o kept)
  <2>1. IsList(nets) /\ PickedFrom(sent, docs, T) /\ PickedFrom(kept, docs, T)
    BY <1>1, <1>3, <1>4, <1>7 DEF IsList
  <2> HIDE DEF nets, sent, kept, docs, T, U
  <2>2. QED
    BY <2>1, CurrentOfTwo
<1> HIDE DEF nets, sent, kept
<1>9. QED
  BY <1>5, <1>6, <1>8 DEF nets, sent, kept

\* The tiers of a list of Tier documents.
LEMMA TiersPicked ==
  ASSUME NEW l, NEW s, NEW T, T \subseteq DOMAIN s, PickedFrom(l, s, T)
  PROVE  PickedFrom([i \in DOMAIN l |-> LET d == l[i] IN Tier(d.name, d.order, d.default)],
                    [i \in DOMAIN s |-> Tier(s[i].name, s[i].order, s[i].default)], T)
<1> DEFINE k == [i \in DOMAIN l |-> LET d == l[i] IN Tier(d.name, d.order, d.default)]
           t == [i \in DOMAIN s |-> Tier(s[i].name, s[i].order, s[i].default)]
<1>1. PICK pos : Picks(l, s, T, pos)
  BY DEF PickedFrom
<1>2. DOMAIN k = DOMAIN l
  OBVIOUS
<1>3. \A i \in DOMAIN k : k[i] = t[pos[i]]
  BY <1>1 DEF Picks
<1>4. Picks(k, t, T, pos)
  BY <1>1, <1>2, <1>3 DEF Picks
<1>5. DOMAIN k = 1..Len(l) /\ Len(l) \in Nat
  BY DEF PickedFrom
<1>6. k \in Seq(Range(k))
  <2>1. \A i \in 1..Len(l) : k[i] \in Range(k)
    BY <1>5 DEF Range
  <2>2. k = [i \in 1..Len(l) |-> k[i]]
    BY <1>5
  <2> HIDE DEF k
  <2>3. QED
    BY <1>5, <2>1, <2>2
<1>7. QED
  BY <1>4, <1>6 DEF PickedFrom

\* The reserved tiers are a list.
LEMMA ReservedList == IsList(ReservedTiers)
<1>1. \E a, b, c : ReservedTiers = <<a, b, c>>
  BY SMT DEF ReservedTiers
<1>2. PICK a, b, c : ReservedTiers = <<a, b, c>>
  BY <1>1
<1>3. <<a, b, c>> \in Seq({a, b, c}) /\ Range(<<a, b, c>>) = {a, b, c}
  BY DEF Range
<1>4. QED
  BY <1>2, <1>3 DEF IsList

\* Pasted objects change nothing about the tiers, and their orders tell them apart.
LEMMA TiersSent ==
  ASSUME NEW raw, Written(raw)
  PROVE  /\ Tiers(ApplyInlineResources(raw)) = Tiers(raw)
         /\ Orderable(Tiers(raw))
<1> DEFINE r == ApplyInlineResources(raw)
           docs == raw.documents
           kinds == {"Tier"}
           T == {i \in DOMAIN docs : docs[i].kind \in kinds /\ docs[i].ok /\ ~Skips(raw, docs[i])}
           of(l) == [i \in DOMAIN l |-> LET d == l[i] IN Tier(d.name, d.order, d.default)]
           all == [i \in DOMAIN docs |-> Tier(docs[i].name, docs[i].order, docs[i].default)]
<1>1. kinds \cap InlineKinds = {}
  BY DEF InlineKinds
<1>2. PickedFrom(Sent(r, kinds), docs, T)
  BY <1>1, SentIs
<1>3. T \subseteq DOMAIN docs /\ Sent(raw, kinds) = Kept(docs, T)
  BY DEF Sent
<1>4. PickedFrom(Sent(raw, kinds), docs, T)
  BY <1>3, WrittenLists, KeptLists
<1>5. PickedFrom(of(Sent(r, kinds)), all, T) /\ PickedFrom(of(Sent(raw, kinds)), all, T)
  <2> HIDE DEF T, kinds, r, docs
  <2>1. QED
    BY <1>2, <1>3, <1>4, TiersPicked DEF docs
<1>6. ReservedTiers \in Seq(Range(ReservedTiers))
  BY ReservedList DEF IsList
<1> DEFINE sent == of(Sent(r, kinds))
           written == of(Sent(raw, kinds))
<1>7. /\ Tiers(r) = Current(ReservedTiers \o sent)
      /\ Tiers(raw) = Current(ReservedTiers \o written)
  BY DEF Tiers
<1>8. Tiers(r) = Tiers(raw)
  <2>1. IsList(ReservedTiers) /\ PickedFrom(sent, all, T) /\ PickedFrom(written, all, T)
    BY <1>5, <1>6 DEF IsList
  <2> HIDE DEF T, r, all, sent, written
  <2>2. QED
    BY <1>7, <2>1, CurrentOfTwo
<1>9. Orderable(Tiers(raw))
  <2> DEFINE both == ReservedTiers \o written
  <2>1. both \in Seq(Range(both))
    <3> DEFINE either == Range(ReservedTiers) \cup Range(written)
    <3>1. written \in Seq(Range(written))
      BY <1>5 DEF PickedFrom
    <3> HIDE DEF written
    <3>2. ReservedTiers \in Seq(either) /\ written \in Seq(either)
      BY <1>6, <3>1
    <3> HIDE DEF either
    <3>3. both \in Seq(either)
      BY <3>2, ConcatProperties
    <3> HIDE DEF both
    <3>4. QED
      BY <3>3 DEF Range
  <2>2. \A t \in Tiers(raw) : \E i \in DOMAIN both : t = both[i]
    <3> HIDE DEF both
    <3>1. QED
      BY <1>7, <2>1, CurrentKeys DEF both
  <2>3. /\ \A t \in Tiers(raw) : t.order \in Nat \ {0}
        /\ \A t, u \in Tiers(raw) : t.order = u.order => t = u
    BY DEF Written
  <2> HIDE DEF both
  <2>4. QED
    BY <2>1, <2>2, <2>3, BoundedOrders
<1>10. QED
  BY <1>8, <1>9

-----------------------------------------------------------------------------
(* One document, one endpoint *)

\* The labels an endpoint has in the graph are those the documents give it.
LEMMA LabelsAre ==
  ASSUME NEW raw, Written(raw), NEW e, NEW ref
  PROVE  ref \in GraphLabels(ApplyInlineResources(raw), e) <=> IsIn(raw, e, ref)
<1> DEFINE r == ApplyInlineResources(raw)
<1>1. /\ r.serviceAccounts = All(raw, raw.serviceAccounts, "ServiceAccount")
      /\ r.namespaces = raw.namespaces
  BY Inlined
<1> HIDE DEF r
<1>2. QED
  BY <1>1 DEF GraphLabels, IsIn, From, r

\* The policies that are in force are written as policies, and told apart.
LEMMA InForceAre ==
  ASSUME NEW raw, Written(raw), NEW staged
  PROVE  /\ \A d \in InForce(raw, staged) :
              /\ d.kind \in PolicyKinds /\ PolicyWritten(d)
              /\ \E i \in DOMAIN raw.documents : d = raw.documents[i]
         /\ \A c, d \in InForce(raw, staged) :
              Key(c) = Key(d) \/ (c.tier = d.tier /\ c.order = d.order) => c = d
<1> DEFINE docs == raw.documents
           T == {i \in DOMAIN docs : /\ docs[i].ok /\ docs[i].kind \in PolicyKinds
                                     /\ staged \/ docs[i].kind \notin StagedKinds}
           l == Kept(docs, T)
<1>1. docs \in Seq(Range(docs)) /\ T \subseteq DOMAIN docs
  BY WrittenLists
<1>2. PickedFrom(l, docs, T)
  <2> HIDE DEF T
  <2>1. QED
    BY <1>1, KeptLists
<1>3. PICK pos : Picks(l, docs, T, pos)
  BY <1>2 DEF PickedFrom
<1>4. l \in Seq(Range(l)) /\ InForce(raw, staged) = Current(l)
  BY <1>2 DEF PickedFrom, InForce
<1>5. \A n \in DOMAIN l : pos[n] \in T /\ l[n] = docs[pos[n]]
  BY <1>3 DEF Picks
<1> HIDE DEF l
<1>6. /\ \A c, d \in Current(l) : Key(c) = Key(d) => c = d
      /\ \A d \in Current(l) : \E n \in DOMAIN l : d = l[n]
  BY <1>4, CurrentKeys
<1>7. \A d \in InForce(raw, staged) : \E i \in T : d = docs[i]
  BY <1>4, <1>5, <1>6
<1>8. ASSUME NEW d \in InForce(raw, staged)
      PROVE  d \in Range(docs) /\ d.kind \in PolicyKinds /\ d.ok
             /\ \E i \in DOMAIN raw.documents : d = raw.documents[i]
  BY <1>7 DEF Range
<1> HIDE DEF T
<1>9. ASSUME NEW c, NEW d, c \in Range(docs), d \in Range(docs), c.kind \in PolicyKinds, c.ok,
             d.kind \in PolicyKinds, d.ok
      PROVE  PolicyWritten(d) /\ (c.tier = d.tier /\ c.order = d.order => Key(c) = Key(d))
  BY <1>9 DEF Written
<1>10. \A d \in InForce(raw, staged) : PolicyWritten(d)
  BY <1>8, <1>9
<1>11. ASSUME NEW c \in InForce(raw, staged), NEW d \in InForce(raw, staged),
              Key(c) = Key(d) \/ (c.tier = d.tier /\ c.order = d.order)
       PROVE  c = d
  <2>1. Key(c) = Key(d)
    BY <1>8, <1>9, <1>11
  <2>2. QED
    BY <1>4, <1>6, <2>1
<1>12. QED
  BY <1>8, <1>10, <1>11

\* The types the graph is sent are those the policy is about.
LEMMA TypesAre ==
  ASSUME NEW d, PolicyWritten(d), NEW probe, NEW dir \in Directions
  PROVE  dir \in FedPolicy(d, probe).types <=> Governs(d, dir)
BY DEF PolicyWritten, FedPolicy, DefaultPolicyTypes, Governs, Directions

\* The other fields.
LEMMA FedIs ==
  ASSUME NEW d, NEW probe
  PROVE  LET p == FedPolicy(d, probe)
         IN  p.id = Key(d) /\ p.tier = d.tier /\ p.order = d.order /\ p.selects = d.selects
BY DEF FedPolicy

\* The rules of a policy in a direction, as they are fed: those for the probe.
LEMMA FedRules ==
  ASSUME NEW d, NEW probe, NEW dir \in Directions
  PROVE  FedPolicy(d, probe).body[dir] =
           IF d.kind = "StagedKubernetesNetworkPolicy" \/ probe = NoIcmp THEN Rules(d, dir)
           ELSE FilterRulesByICMP(Rules(d, dir), probe)
<1>1. FedPolicy(d, probe).body["in"] =
        IF d.kind = "StagedKubernetesNetworkPolicy" THEN d.ingress ELSE FilterRulesByICMP(d.ingress, probe)
  BY DEF FedPolicy
<1>2. FedPolicy(d, probe).body["out"] =
        IF d.kind = "StagedKubernetesNetworkPolicy" THEN d.egress ELSE FilterRulesByICMP(d.egress, probe)
  BY DEF FedPolicy
<1>3. \A rules : probe = NoIcmp => FilterRulesByICMP(rules, probe) = rules
  BY DEF FilterRulesByICMP
<1>4. QED
  BY <1>1, <1>2, <1>3 DEF Rules, Directions

\* What is left of a list is in it.
LEMMA KeptRange ==
  ASSUME NEW s, s \in Seq(Range(s)), NEW T, T \subseteq DOMAIN s
  PROVE  Range(Kept(s, T)) = {s[i] : i \in T}
<1>1. PickedFrom(Kept(s, T), s, T)
  BY KeptLists
<1>2. PICK pos : Picks(Kept(s, T), s, T, pos)
  BY <1>1 DEF PickedFrom
<1> DEFINE k == Kept(s, T)
<1> HIDE DEF k
<1>3. /\ \A i \in DOMAIN k : pos[i] \in T /\ k[i] = s[pos[i]]
      /\ \A n \in T : \E i \in DOMAIN k : pos[i] = n
  BY <1>2 DEF Picks, k
<1>4. QED
  BY <1>3 DEF Range, k

\* No two endpoints have an id or an address in common.
LEMMA OneEndpoint ==
  ASSUME NEW raw, Written(raw), NEW e \in Range(raw.endpoints), NEW x \in Range(raw.endpoints)
  PROVE  (e.id = x.id => e = x) /\ (e.ip = x.ip => e = x)
BY DEF Written

\* The backends of a Service are those in the slices that are made up.
LEMMA BackendsAre ==
  ASSUME NEW raw, Written(raw), NEW x \in Range(raw.endpoints), NEW ns, NEW name
  PROVE  x.ip \in ServiceMembers(ApplyInlineResources(raw), ns, name) <=> Backs(raw, x, ns, name)
<1> DEFINE r == ApplyInlineResources(raw)
           services == Range(All(raw, raw.services, "Service"))
           auto(svc) == [ns |-> svc.ns, svc |-> svc.name, ports |-> svc.ports,
                         addresses |-> {e.ip : e \in Range(Selected(r, svc))}]
           selects(svc, e) == svc.ns = e.ns /\ svc.selector # {} /\ svc.selector \subseteq e.labels
           given(n, w) == \E s \in Range(raw.slices) : s.ns = n /\ s.svc = w
           made == {v \in services : ~given(v.ns, v.name)}
           explicit == {[ns |-> s.ns, svc |-> s.svc, addresses |-> Range(s.addresses), ports |-> {}] :
                          s \in Range(raw.slices)}
<1>1. Range(r.services) = services /\ r.endpoints = raw.endpoints /\ r.slices = raw.slices
      /\ r.port = raw.port
  BY Inlined
<1>2. \A v : HasSliceFor(r, v) <=> given(v.ns, v.name)
  BY <1>1 DEF HasSliceFor
<1>3. made = {v \in Range(r.services) : ~HasSliceFor(r, v)}
  BY <1>1, <1>2
<1>4. ASSUME NEW svc
      PROVE  x.ip \in {e.ip : e \in Range(Selected(r, svc))} <=> selects(svc, x)
  <2> DEFINE s == raw.endpoints
             T == {i \in DOMAIN s : s[i].ns = svc.ns /\ svc.selector # {} /\ svc.selector \subseteq s[i].labels}
  <2>1. s \in Seq(Range(s)) /\ T \subseteq DOMAIN s
    BY WrittenLists
  <2>2. Range(Kept(s, T)) = {s[i] : i \in T}
    <3> HIDE DEF s, T
    <3>1. QED
      BY <2>1, KeptRange
  <2>3. Selected(r, svc) = Kept(s, T)
    BY <1>1 DEF Selected
  <2>4. \A i \in T : s[i] \in Range(s)
    BY <2>1 DEF Range
  <2>5. \A i \in T : s[i].ip = x.ip => s[i] = x
    BY <2>4, OneEndpoint
  <2>6. PICK i \in DOMAIN s : s[i] = x
    BY DEF Range
  <2>7. selects(svc, x) => i \in T
    BY <2>6
  <2>8. ASSUME NEW j \in T, s[j] = x
        PROVE  selects(svc, x)
    BY <2>8
  <2> HIDE DEF s, T, selects
  <2>9. QED
    BY <2>2, <2>3, <2>5, <2>6, <2>7, <2>8
<1>5. Slices(r) = explicit \cup {auto(svc) : svc \in made}
  <2> HIDE DEF made, services
  <2>1. QED
    BY <1>1, <1>3 DEF Slices
<1>6. ServiceMembers(r, ns, name)
        = UNION {s.addresses : s \in {y \in Slices(r) : y.ns = ns /\ y.svc = name /\ raw.port \in y.ports}}
  BY <1>1 DEF ServiceMembers
<1>7. \A s \in explicit : s.ports = {}
  OBVIOUS
<1>8. ASSUME NEW svc
      PROVE  /\ auto(svc).ns = svc.ns /\ auto(svc).svc = svc.name /\ auto(svc).ports = svc.ports
             /\ x.ip \in auto(svc).addresses <=> selects(svc, x)
  BY <1>4
<1>9. Backs(raw, x, ns, name) <=>
        \E svc \in made : /\ svc.ns = ns /\ svc.name = name /\ raw.port \in svc.ports
                          /\ selects(svc, x)
  <2>1. \A svc \in services : svc.ns = ns /\ svc.name = name => (svc \in made <=> ~given(ns, name))
    OBVIOUS
  <2>2. \A svc \in made : svc \in services
    OBVIOUS
  <2>3. Backs(raw, x, ns, name) <=>
          /\ ~given(ns, name)
          /\ \E svc \in services : /\ svc.ns = ns /\ svc.name = name /\ raw.port \in svc.ports
                                   /\ selects(svc, x)
    BY DEF Backs
  <2> HIDE DEF made, given, services, selects
  <2>4. QED
    BY <2>1, <2>2, <2>3
<1> HIDE DEF explicit, auto, made, given, services, r, selects
<1>10. QED
  BY <1>5, <1>6, <1>7, <1>8, <1>9 DEF r

\* A set that the graph makes has the addresses of the endpoints it is to name.
LEMMA MemberIs ==
  ASSUME NEW raw, Written(raw), NEW x \in Range(raw.endpoints), NEW ref
  PROVE  x.ip \in Members(ApplyInlineResources(raw), ref) <=> Named(raw, x, ref)
<1> DEFINE r == ApplyInlineResources(raw)
<1>1. CASE ref[1] = "svc"
  BY <1>1, BackendsAre DEF Members, Named
<1>2. CASE ref[1] # "svc"
  <2> DEFINE own == {e.ip : e \in {y \in Range(r.endpoints) : ref \in GraphLabels(r, y)}}
             names(s) == \/ ref \in From("own", s.labels)
                         \/ s.kind = "NetworkSet" /\ ref = <<"ns", s.ns>>
  <2>1. r.endpoints = raw.endpoints
    BY Inlined
  <2>2. \A e : ref \in GraphLabels(r, e) <=> IsIn(raw, e, ref)
    BY LabelsAre
  <2>3. x.ip \in own <=> IsIn(raw, x, ref)
    <3> HIDE DEF r
    <3>1. \A e \in Range(raw.endpoints) : e.ip = x.ip => e = x
      BY OneEndpoint
    <3>2. QED
      BY <2>1, <2>2, <3>1
  <2>4. Members(r, ref) = own \cup UNION {s.nets : s \in {y \in SetsIn(raw) : names(y)}}
    <3>1. Current(r.networkSets \o Sent(r, SetKinds)) = SetsIn(raw)
      BY SetsSent
    <3> HIDE DEF r
    <3>2. QED
      BY <1>2, <3>1 DEF Members, SetMembers
  <2>5. Named(raw, x, ref) <=> IsIn(raw, x, ref) \/ \E s \in SetsIn(raw) : x.ip \in s.nets /\ names(s)
    BY <1>2 DEF Named, From
  <2> HIDE DEF r, own, names
  <2>6. QED
    BY <2>3, <2>4, <2>5 DEF r
<1>3. QED
  BY <1>1, <1>2

-----------------------------------------------------------------------------
(* The graph *)

\* The graph of a request, and the policies of it that select some endpoint.
GraphOf(raw, probe) == BuildGraph(ApplyInlineResources(raw), probe)

SelectsOne(raw, d, e) == \A ref \in d.selects : IsIn(raw, e, ref)

Felt(raw) == {d \in InForce(raw, raw.staged) : \E e \in Range(raw.endpoints) : SelectsOne(raw, d, e)}

FedSet(raw, probe) == {FedPolicy(d, probe) : d \in Felt(raw)}

\* What a rule consults.
Consults(rule, ref) ==
  ref \in UNION {rule.src.all, rule.src.none, rule.src.any, rule.dst.all, rule.dst.none, rule.dst.any}

\* The policies that select an endpoint of the resolved request are those felt by the written one.
LEMMA FedSetIs ==
  ASSUME NEW raw, Written(raw), NEW probe
  PROVE  LET r == ApplyInlineResources(raw)
         IN  {p \in {FedPolicy(d, probe) : d \in Current(Sent(r, PolicyKinds))} :
                \E e \in Range(r.endpoints) : p.selects \subseteq GraphLabels(r, e)}
               = FedSet(raw, probe)
<1> DEFINE r == ApplyInlineResources(raw)
<1>1. Current(Sent(r, PolicyKinds)) = InForce(raw, raw.staged)
  BY PoliciesSent
<1>2. r.endpoints = raw.endpoints
  BY Inlined
<1>3. \A d, e : FedPolicy(d, probe).selects \subseteq GraphLabels(r, e) <=> SelectsOne(raw, d, e)
  <2>1. \A e, ref : ref \in GraphLabels(r, e) <=> IsIn(raw, e, ref)
    BY LabelsAre
  <2>2. \A d : FedPolicy(d, probe).selects = d.selects
    BY FedIs
  <2> HIDE DEF r
  <2>3. QED
    BY <2>1, <2>2 DEF SelectsOne
<1> HIDE DEF r
<1>4. QED
  BY <1>1, <1>2, <1>3 DEF r, FedSet, Felt

\* The rules that are stored, and what they consult.
StoredRules(policies) ==
  [k \in {p.id : p \in policies} |-> (CHOOSE p \in policies : p.id = k).body]

StoredRefs(policies) ==
  UNION {RefsOf(StoredRules(policies)[k].in) \cup RefsOf(StoredRules(policies)[k].out) :
           k \in DOMAIN StoredRules(policies)}

\* An endpoint of the graph.
WepOf(raw, probe, i) ==
  Wep(ApplyInlineResources(raw), Tiers(raw), FedSet(raw, probe),
      CHOOSE e \in Range(raw.endpoints) : e.id = i)

\* What the graph stores, and what it has of an endpoint.
LEMMA StoreIs ==
  ASSUME NEW raw, Written(raw), NEW probe
  PROVE  LET r == ApplyInlineResources(raw)
             g == GraphOf(raw, probe)
             policies == FedSet(raw, probe)
         IN  /\ g.store.policies = StoredRules(policies)
             /\ g.store.profiles = [k \in {<<"kns", e.ns>> : e \in Range(raw.endpoints)} |->
                                      [in |-> AllowAll, out |-> AllowAll]]
             /\ g.store.member = [s \in StoredRefs(policies) |-> Members(r, s)]
             /\ g.wepById = [i \in {e.id : e \in Range(raw.endpoints)} |-> WepOf(raw, probe, i)]
<1> DEFINE r == ApplyInlineResources(raw)
           S == {p \in {FedPolicy(d, probe) : d \in Current(Sent(r, PolicyKinds))} :
                   \E e \in Range(r.endpoints) : p.selects \subseteq GraphLabels(r, e)}
           g == GraphOf(raw, probe)
<1>1. S = FedSet(raw, probe)
  BY FedSetIs
<1>2. r.endpoints = raw.endpoints /\ Tiers(r) = Tiers(raw)
  BY Inlined, TiersSent
<1>3. /\ g.store.policies = StoredRules(S)
      /\ g.store.profiles = [k \in {<<"kns", e.ns>> : e \in Range(r.endpoints)} |->
                               [in |-> AllowAll, out |-> AllowAll]]
      /\ g.store.member = [s \in StoredRefs(S) |-> Members(r, s)]
      /\ g.wepById = [i \in {e.id : e \in Range(r.endpoints)} |->
                        Wep(r, Tiers(r), S, CHOOSE e \in Range(r.endpoints) : e.id = i)]
  BY DEF GraphOf, BuildGraph, StoredRules, StoredRefs
<1> HIDE DEF r, S, g
<1>4. QED
  BY <1>1, <1>2, <1>3 DEF r, g, WepOf

\* The store has the rules of a policy that selects an endpoint, and every set they consult.
LEMMA PolicyStored ==
  ASSUME NEW raw, Written(raw), NEW probe, NEW d \in Felt(raw)
  PROVE  LET g == GraphOf(raw, probe)
         IN  /\ Key(d) \in DOMAIN g.store.policies
             /\ g.store.policies[Key(d)] = FedPolicy(d, probe).body
             /\ \A dir \in Directions : \A rule \in Range(FedPolicy(d, probe).body[dir]) : \A ref :
                  Consults(rule, ref) =>
                    g.store.member[ref] = Members(ApplyInlineResources(raw), ref)
<1> DEFINE policies == FedSet(raw, probe)
           byId == StoredRules(policies)
           refs == StoredRefs(policies)
           g == GraphOf(raw, probe)
           fed == FedPolicy(d, probe)
           r == ApplyInlineResources(raw)
<1>1. g.store.policies = byId /\ g.store.member = [s \in refs |-> Members(r, s)]
  BY StoreIs
<1>2. fed \in policies /\ fed.id = Key(d)
  BY FedIs DEF FedSet
<1>3. \A p \in policies : p.id = Key(d) => p = fed
  <2>1. ASSUME NEW c \in Felt(raw), FedPolicy(c, probe).id = Key(d)
        PROVE  c = d
    <3>1. Key(c) = Key(d)
      BY <2>1, FedIs
    <3>2. c \in InForce(raw, raw.staged) /\ d \in InForce(raw, raw.staged)
      BY DEF Felt
    <3>3. QED
      BY <3>1, <3>2, InForceAre
  <2>2. QED
    BY <2>1 DEF FedSet
<1> HIDE DEF policies, fed
<1>4. Key(d) \in DOMAIN byId /\ byId[Key(d)] = fed.body
  BY <1>2, <1>3 DEF StoredRules
<1>5. ASSUME NEW dir \in Directions, NEW rule \in Range(fed.body[dir]), NEW ref, Consults(rule, ref)
      PROVE  ref \in refs
  <2>1. \A rules : rule \in Range(rules) => ref \in RefsOf(rules)
    BY <1>5 DEF Consults, RefsOf
  <2>2. ref \in RefsOf(fed.body.in) \/ ref \in RefsOf(fed.body.out)
    BY <1>5, <2>1 DEF Directions
  <2>3. QED
    BY <1>4, <2>2 DEF StoredRefs
<1> HIDE DEF byId, refs, g, r
<1>6. QED
  BY <1>1, <1>4, <1>5 DEF g, fed, r

\* A rule whose sets are the graph's matches when what it says of the two ends holds.
LEMMA RuleMatches ==
  ASSUME NEW raw, Written(raw), NEW s \in Range(raw.endpoints),
         NEW x \in Range(raw.endpoints), NEW member, NEW rule,
         \A ref : Consults(rule, ref) => member[ref] = Members(ApplyInlineResources(raw), ref)
  PROVE  Matches(member, rule, Flow(s.ip, x.ip))
           <=> Describes(raw, rule.src, s) /\ Describes(raw, rule.dst, x)
<1>1. ASSUME NEW e \in Range(raw.endpoints), NEW ref, Consults(rule, ref)
      PROVE  e.ip \in member[ref] <=> Named(raw, e, ref)
  BY <1>1, MemberIs
<1>2. ASSUME NEW e \in Range(raw.endpoints), NEW peer,
             \A ref \in peer.all \cup peer.none \cup peer.any : Consults(rule, ref)
      PROVE  PeerMatches(member, peer, e.ip) <=> Describes(raw, peer, e)
  BY <1>1, <1>2 DEF PeerMatches, Describes
<1>3. /\ \A ref \in rule.src.all \cup rule.src.none \cup rule.src.any : Consults(rule, ref)
      /\ \A ref \in rule.dst.all \cup rule.dst.none \cup rule.dst.any : Consults(rule, ref)
  BY DEF Consults
<1>4. Flow(s.ip, x.ip).src = s.ip /\ Flow(s.ip, x.ip).dst = x.ip
  BY DEF Flow
<1>5. QED
  BY <1>2, <1>3, <1>4 DEF Matches

-----------------------------------------------------------------------------
(* A rule, a policy, a tier and a side, as they are written *)

\* What a rule, and a policy, says of a flow between two endpoints as it is written.
Said(raw, rule, s, x) == IF Applies(raw, rule, s, x) THEN rule.action ELSE "none"

DocSays(raw, d, dir, s, x) ==
  FirstOf([n \in DOMAIN Rules(d, dir) |-> Said(raw, Rules(d, dir)[n], s, x)], "none")

\* The rules of a written policy are a list, and each has an action.
LEMMA RulesWritten ==
  ASSUME NEW d, PolicyWritten(d), NEW dir \in Directions
  PROVE  /\ Rules(d, dir) \in Seq(Range(Rules(d, dir)))
         /\ \A n \in DOMAIN Rules(d, dir) : Rules(d, dir)[n].action \in Actions
         /\ d.kind = "StagedKubernetesNetworkPolicy" =>
              \A n \in DOMAIN Rules(d, dir) :
                Rules(d, dir)[n].icmp = NoIcmp /\ Rules(d, dir)[n].notIcmp = NoIcmp
<1>1. Rules(d, dir) \in {d.ingress, d.egress}
  BY DEF Rules, Directions
<1> DEFINE rules == Rules(d, dir)
<1> HIDE DEF rules
<1>2. rules \in Seq(Range(rules))
      /\ \A rule \in Range(rules) : /\ rule.action \in Actions
                                    /\ d.kind = "StagedKubernetesNetworkPolicy" =>
                                         rule.icmp = NoIcmp /\ rule.notIcmp = NoIcmp
  BY <1>1 DEF PolicyWritten, rules
<1>3. \A n \in DOMAIN rules : rules[n] \in Range(rules)
  BY DEF Range
<1>4. QED
  BY <1>2, <1>3 DEF rules

\* The graph's rules of a policy say of a flow what the policy does as it is written.
LEMMA PolicyAsWritten ==
  ASSUME NEW raw, Written(raw), NEW s \in Range(raw.endpoints),
         NEW x \in Range(raw.endpoints), NEW d \in Felt(raw), NEW dir \in Directions
  PROVE  LET g == GraphOf(raw, raw.icmp)
         IN  RulesOutcome(g.store.member, FedPolicy(d, raw.icmp).body[dir], Flow(s.ip, x.ip))
               = DocSays(raw, d, dir, s, x)
<1> DEFINE member == GraphOf(raw, raw.icmp).store.member
           left == FedPolicy(d, raw.icmp).body[dir]
           rules == Rules(d, dir)
           f == Flow(s.ip, x.ip)
           T == {n \in DOMAIN rules : RuleICMPMatchesProbe(rules[n], raw.icmp)}
           a == [m \in DOMAIN left |-> IF Matches(member, left[m], f) THEN left[m].action ELSE "none"]
           b == [n \in DOMAIN rules |-> Said(raw, rules[n], s, x)]
<1>1. PolicyWritten(d)
  BY InForceAre DEF Felt
<1>2. /\ rules \in Seq(Range(rules))
      /\ d.kind = "StagedKubernetesNetworkPolicy" =>
           \A n \in DOMAIN rules : rules[n].icmp = NoIcmp /\ rules[n].notIcmp = NoIcmp
  BY <1>1, RulesWritten
<1>3. \A rule \in Range(left) : Matches(member, rule, f)
                                  <=> Describes(raw, rule.src, s) /\ Describes(raw, rule.dst, x)
  <2>1. \A rule \in Range(left) : \A ref : Consults(rule, ref) =>
          member[ref] = Members(ApplyInlineResources(raw), ref)
    BY PolicyStored
  <2> HIDE DEF left, member
  <2>2. QED
    BY <2>1, RuleMatches
<1>4. ASSUME NEW rule
      PROVE  Applies(raw, rule, s, x) <=>
               /\ Describes(raw, rule.src, s) /\ Describes(raw, rule.dst, x)
               /\ raw.icmp # NoIcmp => RuleICMPMatchesProbe(rule, raw.icmp)
  BY DEF Applies, RuleICMPMatchesProbe, SaysIcmp
<1>5. RulesOutcome(member, left, f) = FirstOf(a, "none") /\ DocSays(raw, d, dir, s, x) = FirstOf(b, "none")
  BY DEF RulesOutcome, DocSays
<1>6. left = IF d.kind = "StagedKubernetesNetworkPolicy" \/ raw.icmp = NoIcmp THEN rules
             ELSE FilterRulesByICMP(rules, raw.icmp)
  BY FedRules
<1>7. \A m \in DOMAIN left : left[m] \in Range(left)
  BY DEF Range
<1>8. CASE left = rules /\ (raw.icmp = NoIcmp \/ d.kind = "StagedKubernetesNetworkPolicy")
  <2>1. \A n \in DOMAIN rules : raw.icmp # NoIcmp => RuleICMPMatchesProbe(rules[n], raw.icmp)
    BY <1>2, <1>8 DEF RuleICMPMatchesProbe, SaysIcmp, NoIcmp
  <2>2. \A n \in DOMAIN rules : Matches(member, left[n], f) <=> Applies(raw, rules[n], s, x)
    <3> HIDE DEF left, rules, member, f
    <3>1. QED
      BY <1>3, <1>4, <1>7, <1>8, <2>1
  <2>3. a = b
    <3> HIDE DEF left, rules, member, f
    <3>1. QED
      BY <1>8, <2>2 DEF Said
  <2>4. QED
    BY <1>5, <2>3
<1>9. CASE raw.icmp # NoIcmp /\ left = FilterRulesByICMP(rules, raw.icmp)
  <2>1. left = Kept(rules, T)
    BY <1>9 DEF FilterRulesByICMP
  <2>2. T \subseteq DOMAIN rules
    OBVIOUS
  <2>3. Range(left) = {rules[i] : i \in T}
    <3> HIDE DEF T, rules, left
    <3>1. QED
      BY <1>2, <2>1, <2>2, KeptRange
  <2>4. \A m \in DOMAIN left : RuleICMPMatchesProbe(left[m], raw.icmp)
    <3> HIDE DEF left
    <3>1. QED
      BY <1>7, <2>3
  <2>5. AnswerFor(a, b, rules, T)
    <3>1. ASSUME NEW m \in DOMAIN left, NEW n \in DOMAIN rules, left[m] = rules[n]
          PROVE  a[m] = b[n]
      <4>1. Matches(member, left[m], f) <=> Applies(raw, rules[n], s, x)
        <5> HIDE DEF left, rules, member, f
        <5>1. QED
          BY <1>3, <1>4, <1>7, <2>4, <3>1
      <4> HIDE DEF left, rules, member, f
      <4>2. QED
        BY <3>1, <4>1 DEF Said
    <3>2. DOMAIN a = DOMAIN left /\ DOMAIN b = DOMAIN rules
      OBVIOUS
    <3> HIDE DEF a, b, left, rules, T
    <3>3. QED
      BY <2>1, <3>1, <3>2 DEF AnswerFor
  <2>6. \A n : FirstAnswer(b, "none", n) => n \in T
    <3> HIDE DEF rules
    <3>1. QED
      BY <1>4, <1>9 DEF FirstAnswer, Said
  <2> HIDE DEF a, b, left, rules, T
  <2>7. FirstOf(a, "none") = FirstOf(b, "none")
    BY <1>2, <2>2, <2>5, <2>6, KeptAnswers
  <2>8. QED
    BY <1>5, <2>7 DEF left
<1>10. QED
  BY <1>6, <1>8, <1>9

\* What a policy says, as it is written, is the action of its first rule that applies.
LEMMA DocHit ==
  ASSUME NEW raw, NEW d, PolicyWritten(d), NEW dir \in Directions, NEW s, NEW x
  PROVE  LET rules == Rules(d, dir)
             says  == DocSays(raw, d, dir, s, x)
         IN  /\ DOMAIN rules \subseteq Nat
             /\ says = "none" => \A n \in DOMAIN rules : ~Applies(raw, rules[n], s, x)
             /\ says # "none" => \E n \in DOMAIN rules :
                  /\ Applies(raw, rules[n], s, x) /\ says = rules[n].action
                  /\ \A m \in DOMAIN rules : Applies(raw, rules[m], s, x) => n <= m
<1> DEFINE rules == Rules(d, dir)
           b == [n \in DOMAIN rules |-> Said(raw, rules[n], s, x)]
           hits == {n \in DOMAIN rules : Applies(raw, rules[n], s, x)}
<1>1. /\ rules \in Seq(Range(rules))
      /\ \A n \in DOMAIN rules : rules[n].action \in Actions
  BY RulesWritten
<1>2. DOMAIN rules \subseteq Nat
  BY <1>1
<1>3. DocSays(raw, d, dir, s, x) = FirstOf(b, "none")
  BY DEF DocSays
<1> HIDE DEF rules
<1>4. \A n \in DOMAIN rules : b[n] # "none" <=> n \in hits
  BY <1>1 DEF Said, Actions
<1>5. CASE hits = {}
  <2>1. FirstOf(b, "none") = "none"
    <3>1. \A n \in DOMAIN b : b[n] = "none"
      BY <1>4, <1>5
    <3> HIDE DEF b
    <3>2. QED
      BY <3>1, FirstOfNone
  <2>2. QED
    BY <1>2, <1>3, <1>5, <2>1 DEF rules
<1>6. CASE hits # {}
  <2>1. PICK n \in hits : \A m \in hits : n <= m
    <3>1. hits \subseteq Nat
      BY <1>2
    <3> HIDE DEF hits
    <3>2. QED
      BY <1>6, <3>1, LeastIs
  <2>2. FirstOf(b, "none") = b[n]
    <3>1. DOMAIN b = DOMAIN rules /\ n \in DOMAIN b /\ b[n] # "none"
      BY <1>4, <2>1
    <3>2. \A k \in DOMAIN b : k < n => b[k] = "none"
      <4>1. \A k \in DOMAIN rules : k \in Nat /\ n \in Nat
        BY <1>2, <2>1
      <4>2. \A k \in DOMAIN rules : k < n => ~(n <= k)
        BY <4>1
      <4> HIDE DEF hits, b
      <4>3. QED
        BY <1>4, <2>1, <3>1, <4>2
    <3> HIDE DEF b
    <3>3. QED
      BY <1>2, <3>1, <3>2, FirstOfIs
  <2>3. b[n] = rules[n].action /\ b[n] # "none"
    BY <1>4, <2>1 DEF Said
  <2>4. QED
    BY <1>2, <1>3, <2>1, <2>2, <2>3 DEF rules
<1>7. QED
  BY <1>5, <1>6

\* A tier as it is written: the first policy of it that says something decides.
LEMMA TierFirst ==
  ASSUME NEW raw, Written(raw), NEW staged, NEW owner, NEW dir \in Directions, NEW s, NEW x,
         NEW t, NEW here, here = Governing(raw, staged, owner, dir, t)
  PROVE  LET tier    == TierSays(raw, staged, owner, dir, s, x, t)
             says(d) == DocSays(raw, d, dir, s, x)
         IN  /\ here = {} => tier = "pass"
             /\ here # {} /\ (\A d \in here : says(d) = "none") => tier = t.default
             /\ \A d \in here :
                  /\ says(d) # "none"
                  /\ \A c \in here : says(c) # "none" => d.order <= c.order
                  => tier = says(d)
<1> DEFINE tier == TierSays(raw, staged, owner, dir, s, x, t)
           says(d) == DocSays(raw, d, dir, s, x)
           applies(d, n) == n \in DOMAIN Rules(d, dir) /\ Applies(raw, Rules(d, dir)[n], s, x)
           hitsOf(d) == {<<d.order, n, Rules(d, dir)[n].action>> :
                           n \in {m \in DOMAIN Rules(d, dir) : Applies(raw, Rules(d, dir)[m], s, x)}}
           hits == UNION {hitsOf(d) : d \in here}
           first(h) == \A k \in hits : h[1] < k[1] \/ (h[1] = k[1] /\ h[2] <= k[2])
<1>1. tier = IF here = {} THEN "pass" ELSE IF hits = {} THEN t.default
             ELSE (CHOOSE h \in hits : first(h))[3]
  BY DEF TierSays
<1>2. \A d \in here : PolicyWritten(d) /\ d.order \in Nat
  <2>1. \A d \in here : d \in InForce(raw, staged)
    BY DEF Governing
  <2>2. QED
    BY <2>1, InForceAre DEF PolicyWritten
<1>3. \A c, d \in here : c.order = d.order => c = d
  <2>1. \A d \in here : d \in InForce(raw, staged) /\ d.tier = t.name
    BY DEF Governing
  <2>2. QED
    BY <2>1, InForceAre
<1>4. \A h : h \in hits <=> \E d \in here : \E n : applies(d, n) /\ h = <<d.order, n, Rules(d, dir)[n].action>>
  OBVIOUS
<1>5. \A d \in here :
        /\ \A n : applies(d, n) => n \in Nat
        /\ says(d) = "none" => \A n : ~applies(d, n)
        /\ says(d) # "none" => \E n : applies(d, n) /\ says(d) = Rules(d, dir)[n].action
                                      /\ \A m : applies(d, m) => n <= m
  <2> SUFFICES ASSUME NEW d \in here
               PROVE  /\ \A n : applies(d, n) => n \in Nat
                      /\ says(d) = "none" => \A n : ~applies(d, n)
                      /\ says(d) # "none" => \E n : applies(d, n) /\ says(d) = Rules(d, dir)[n].action
                                                    /\ \A m : applies(d, m) => n <= m
    OBVIOUS
  <2>1. PolicyWritten(d)
    BY <1>2
  <2>2. QED
    BY <2>1, DocHit
<1> HIDE DEF hits, says, applies
<1>6. ASSUME here # {}, \A d \in here : says(d) = "none"
      PROVE  tier = t.default
  <2>1. hits = {}
    BY <1>4, <1>5, <1>6
  <2>2. QED
    BY <1>1, <1>6, <2>1
<1>7. ASSUME NEW d \in here, says(d) # "none",
             \A c \in here : says(c) # "none" => d.order <= c.order
      PROVE  tier = says(d)
  <2>1. PICK n : applies(d, n) /\ says(d) = Rules(d, dir)[n].action /\ \A m : applies(d, m) => n <= m
    BY <1>5, <1>7
  <2> DEFINE h == <<d.order, n, Rules(d, dir)[n].action>>
  <2>2. h \in hits
    BY <1>4, <2>1
  <2>3. ASSUME NEW k \in hits
        PROVE  /\ h[1] < k[1] \/ (h[1] = k[1] /\ h[2] <= k[2])
               /\ k[1] < h[1] \/ (k[1] = h[1] /\ k[2] <= h[2]) => k = h
    <3>a. PICK c \in here : \E m : applies(c, m) /\ k = <<c.order, m, Rules(c, dir)[m].action>>
      BY <1>4
    <3>1. PICK m : applies(c, m) /\ k = <<c.order, m, Rules(c, dir)[m].action>>
      BY <3>a
    <3>2. says(c) # "none"
      BY <1>5, <3>1
    <3>3. d.order <= c.order /\ d.order \in Nat /\ c.order \in Nat /\ n \in Nat /\ m \in Nat
      BY <1>2, <1>5, <1>7, <2>1, <3>1, <3>2
    <3>4. CASE d.order = c.order
      <4>1. c = d
        BY <1>3, <3>4
      <4>2. n <= m
        BY <2>1, <3>1, <4>1
      <4>3. m <= n => m = n
        BY <3>3, <4>2
      <4>4. ~(c.order < d.order) /\ d.order = c.order
        BY <3>3, <3>4
      <4>5. h[1] = d.order /\ h[2] = n /\ k[1] = c.order /\ k[2] = m
        BY <3>1
      <4>6. m = n => k = h
        BY <3>1, <4>1
      <4> HIDE DEF h
      <4>7. QED
        BY <4>2, <4>3, <4>4, <4>5, <4>6
    <3>5. CASE d.order # c.order
      <4>1. d.order < c.order /\ ~(c.order < d.order)
        BY <3>3, <3>5
      <4>2. QED
        BY <3>1, <3>5, <4>1
    <3>6. QED
      BY <3>4, <3>5
  <2> HIDE DEF h
  <2>4. first(h) /\ \A k \in hits : first(k) => k = h
    BY <2>2, <2>3
  <2>5. (CHOOSE k \in hits : first(k)) = h
    <3> HIDE DEF first
    <3>1. QED
      BY <2>2, <2>4
  <2>6. h[3] = says(d)
    BY <2>1 DEF h
  <2>7. QED
    BY <1>1, <2>2, <2>5, <2>6
<1>8. here = {} => tier = "pass"
  BY <1>1
<1> HIDE DEF tier
<1>9. QED
  BY <1>6, <1>7, <1>8 DEF tier, says

\* It does what the list of its policies does, if each says in it what is written of it.
Heard(raw, dir, s, x, here, fed, l, a) ==
  /\ DOMAIN a = DOMAIN l
  /\ \A d \in here, k \in DOMAIN l : l[k] = fed[d] => a[k] = DocSays(raw, d, dir, s, x)

\* The first in the list of a tier's policies that says something decides it.
LEMMA TierDecides ==
  ASSUME NEW raw, Written(raw), NEW staged, NEW owner, NEW dir \in Directions, NEW s, NEW x, NEW t,
         NEW here, here = Governing(raw, staged, owner, dir, t),
         NEW fed, \A d \in here : fed[d].order = d.order,
         NEW l, Ordered(l, {fed[d] : d \in here}), NEW a, Heard(raw, dir, s, x, here, fed, l, a)
  PROVE  /\ here = {} <=> DOMAIN l = {}
         /\ TierSays(raw, staged, owner, dir, s, x, t)
              = IF here = {} THEN "pass"
                ELSE IF FirstOf(a, "none") = "none" THEN t.default ELSE FirstOf(a, "none")
<1> DEFINE S == {fed[d] : d \in here}
           doc(p) == CHOOSE d \in here : fed[d] = p
           says == [p \in S |-> DocSays(raw, doc(p), dir, s, x)]
           tier == TierSays(raw, staged, owner, dir, s, x, t)
<1>1. /\ here = {} => tier = "pass"
      /\ here # {} /\ (\A d \in here : DocSays(raw, d, dir, s, x) = "none") => tier = t.default
      /\ \A d \in here :
           /\ DocSays(raw, d, dir, s, x) # "none"
           /\ \A c \in here : DocSays(raw, c, dir, s, x) # "none" => d.order <= c.order
           => tier = DocSays(raw, d, dir, s, x)
  BY TierFirst
<1>2. \A d \in here : d.order \in Nat
  <2>1. \A d \in here : d \in InForce(raw, staged)
    BY DEF Governing
  <2>2. QED
    BY <2>1, InForceAre DEF PolicyWritten
<1>3. \A c, d \in here : c.order = d.order => c = d
  <2>1. \A d \in here : d \in InForce(raw, staged) /\ d.tier = t.name
    BY DEF Governing
  <2>2. QED
    BY <2>1, InForceAre
<1>4. \A d \in here : fed[d] \in S /\ fed[d].order = d.order /\ doc(fed[d]) = d
  BY <1>3
<1>5. \A d \in here : says[fed[d]] = DocSays(raw, d, dir, s, x)
  BY <1>4
<1>6. \A p \in S : \E d \in here : p = fed[d]
  OBVIOUS
<1>7. \A p \in S : p.order \in Nat
  BY <1>2, <1>4, <1>6
<1>8. Ordered(l, S)
  OBVIOUS
<1> HIDE DEF S, doc, tier
<1>9. \A k \in DOMAIN l : a[k] = says[l[k]]
  <2> HIDE DEF says
  <2>1. QED
    BY <1>5, <1>6, <1>8 DEF Ordered, Heard
<1>10. /\ (\A p \in S : says[p] = "none") => FirstOf(a, "none") = "none"
       /\ \A p \in S : says[p] # "none" /\ (\A q \in S : says[q] # "none" => p.order <= q.order)
                         => FirstOf(a, "none") = says[p]
  <2> HIDE DEF says
  <2>1. QED
    BY <1>7, <1>8, <1>9, FirstInOrder DEF Heard
<1> HIDE DEF says
<1>11. here = {} <=> DOMAIN l = {}
  BY <1>4, <1>6, <1>8 DEF Ordered
<1>12. CASE \A d \in here : DocSays(raw, d, dir, s, x) = "none"
  <2>1. \A p \in S : says[p] = "none"
    BY <1>5, <1>6, <1>12
  <2>2. QED
    BY <1>1, <1>10, <1>11, <1>12, <2>1 DEF tier
<1>13. CASE \E d \in here : DocSays(raw, d, dir, s, x) # "none"
  <2> DEFINE speak == {p \in S : says[p] # "none"}
  <2>1. speak # {} /\ \A p \in speak : p.order \in Nat
    BY <1>4, <1>5, <1>7, <1>13
  <2>2. PICK p \in speak : \A q \in speak : p.order <= q.order
    <3> HIDE DEF speak
    <3>1. QED
      BY <2>1, FirstRecord
  <2>3. PICK d \in here : p = fed[d]
    BY <1>6, <2>2
  <2>4. FirstOf(a, "none") = says[p] /\ says[p] # "none"
    BY <1>10, <2>2
  <2>5. says[p] = DocSays(raw, d, dir, s, x) /\ p.order = d.order
    BY <1>4, <1>5, <2>3
  <2>6. \A c \in here : DocSays(raw, c, dir, s, x) # "none" => d.order <= c.order
    BY <1>4, <1>5, <2>2, <2>5
  <2>7. tier = DocSays(raw, d, dir, s, x)
    BY <1>1, <2>4, <2>5, <2>6
  <2>8. QED
    BY <1>11, <1>13, <2>4, <2>5, <2>7 DEF tier
<1>14. QED
  BY <1>12, <1>13

\* A side does what the list of some tiers does, if each says in it what is written of it, and
\* nothing is written of the others.
SideHeard(raw, staged, owner, dir, s, x, l, a) ==
  /\ DOMAIN a = DOMAIN l
  /\ \A k \in DOMAIN l : a[k] = TierSays(raw, staged, owner, dir, s, x, l[k])

\* The first in the list of those tiers that does not pass decides the side.
LEMMA SideDecides ==
  ASSUME NEW raw, Written(raw), NEW staged, NEW owner, NEW dir, NEW s, NEW x,
         NEW P, P \subseteq Tiers(raw),
         \A t \in Tiers(raw) \ P : TierSays(raw, staged, owner, dir, s, x, t) = "pass",
         NEW l, Ordered(l, P), NEW a, SideHeard(raw, staged, owner, dir, s, x, l, a)
  PROVE  Side(raw, staged, owner, dir, s, x)
           <=> owner.unpoliced \/ FirstOf(a, "pass") \in {"pass", "allow"}
<1> DEFINE say(t) == TierSays(raw, staged, owner, dir, s, x, t)
           says == [t \in P |-> say(t)]
           deciding == {t \in Tiers(raw) : say(t) # "pass"}
           first == CHOOSE t \in deciding : \A u \in deciding : t.order <= u.order
<1>1. Side(raw, staged, owner, dir, s, x)
        <=> owner.unpoliced \/ IF deciding = {} THEN TRUE ELSE say(first) = "allow"
  BY DEF Side
<1>2. /\ \A t \in Tiers(raw) : t.order \in Nat
      /\ \A t, u \in Tiers(raw) : t.order = u.order => t = u
  BY DEF Written
<1>a. \A t \in Tiers(raw) \ P : say(t) = "pass"
  OBVIOUS
<1>b. DOMAIN a = DOMAIN l /\ \A k \in DOMAIN l : a[k] = says[l[k]]
  BY DEF SideHeard, Ordered
<1> HIDE DEF say
<1>3. /\ (\A t \in P : says[t] = "pass") => FirstOf(a, "pass") = "pass"
      /\ \A t \in P : says[t] # "pass" /\ (\A u \in P : says[u] # "pass" => t.order <= u.order)
                        => FirstOf(a, "pass") = says[t]
  <2> HIDE DEF says
  <2>1. QED
    BY <1>2, <1>b, FirstInOrder
<1>4. CASE deciding = {}
  <2>1. \A t \in P : says[t] = "pass"
    BY <1>4
  <2>2. QED
    BY <1>1, <1>3, <1>4, <2>1
<1>5. CASE deciding # {}
  <2>1. PICK t \in deciding : \A u \in deciding : t.order <= u.order
    <3>1. \A u \in deciding : u.order \in Nat
      BY <1>2
    <3> HIDE DEF deciding
    <3>2. QED
      BY <1>5, <3>1, FirstRecord
  <2>2. \A u \in deciding : (\A v \in deciding : u.order <= v.order) => u = t
    <3>1. \A u \in deciding : u \in Tiers(raw) /\ u.order \in Nat
      BY <1>2
    <3> HIDE DEF deciding
    <3>2. \A u \in deciding : u.order <= t.order => u.order = t.order
      BY <2>1, <3>1
    <3>3. QED
      BY <1>2, <2>1, <3>1, <3>2
  <2>3. first = t
    <3> HIDE DEF deciding
    <3>1. QED
      BY <2>1, <2>2
  <2>4. t \in P /\ says[t] = say(t) /\ say(t) # "pass"
    BY <1>a, <2>1
  <2>5. \A u \in P : says[u] # "pass" => t.order <= u.order
    BY <2>1
  <2>6. FirstOf(a, "pass") = say(t)
    BY <1>3, <2>4, <2>5
  <2> HIDE DEF first, deciding
  <2>7. QED
    BY <1>1, <1>5, <2>3, <2>4, <2>6
<1>6. QED
  BY <1>4, <1>5

\* What the graph has of the policies of a tier that govern an endpoint.
FedTier(raw, probe, e, dir, t) ==
  {FedPolicy(d, probe) : d \in Governing(raw, raw.staged, e, dir, t)}

\* The policies that govern an endpoint are felt, well written and told apart by their orders.
LEMMA GoverningAre ==
  ASSUME NEW raw, Written(raw), NEW e \in Range(raw.endpoints), NEW dir \in Directions, NEW t
  PROVE  /\ Governing(raw, raw.staged, e, dir, t) \subseteq Felt(raw)
         /\ \A d \in Governing(raw, raw.staged, e, dir, t) :
              PolicyWritten(d) /\ d.order \in Nat \ {0}
              /\ \E i \in DOMAIN raw.documents : d = raw.documents[i]
         /\ \A c, d \in Governing(raw, raw.staged, e, dir, t) : c.order = d.order => c = d
<1>1. \A d \in Governing(raw, raw.staged, e, dir, t) :
        d \in InForce(raw, raw.staged) /\ d.tier = t.name /\ d \in Felt(raw)
  BY DEF Governing, Felt, SelectsOne
<1>2. \A d \in InForce(raw, raw.staged) :
        PolicyWritten(d) /\ \E i \in DOMAIN raw.documents : d = raw.documents[i]
  BY InForceAre
<1>3. \A c, d \in InForce(raw, raw.staged) : c.tier = d.tier /\ c.order = d.order => c = d
  BY InForceAre
<1>4. \A d : PolicyWritten(d) => d.order \in Nat \ {0}
  BY DEF PolicyWritten
<1>5. QED
  BY <1>1, <1>2, <1>3, <1>4

\* What the graph sends of a tier to an endpoint is what governs it, in an order of its own.
LEMMA FedTierIs ==
  ASSUME NEW raw, Written(raw), NEW probe, NEW e \in Range(raw.endpoints), NEW dir \in Directions,
         NEW t
  PROVE  /\ {p \in FedSet(raw, probe) : /\ p.selects \subseteq GraphLabels(ApplyInlineResources(raw), e)
                                        /\ p.tier = t.name /\ dir \in p.types}
              = FedTier(raw, probe, e, dir, t)
         /\ Orderable(FedTier(raw, probe, e, dir, t))
         /\ \A p \in FedTier(raw, probe, e, dir, t) : p.order \in Nat
<1> DEFINE r == ApplyInlineResources(raw)
           here == Governing(raw, raw.staged, e, dir, t)
<1>1. ASSUME NEW d \in Felt(raw)
      PROVE  /\ FedPolicy(d, probe).selects \subseteq GraphLabels(r, e) <=> SelectsOne(raw, d, e)
             /\ FedPolicy(d, probe).tier = d.tier
             /\ dir \in FedPolicy(d, probe).types <=> Governs(d, dir)
  <2>1. \A ref : ref \in GraphLabels(r, e) <=> IsIn(raw, e, ref)
    BY LabelsAre
  <2>2. FedPolicy(d, probe).selects = d.selects /\ FedPolicy(d, probe).tier = d.tier
    BY FedIs
  <2>3. PolicyWritten(d)
    BY InForceAre DEF Felt
  <2> HIDE DEF r
  <2>4. QED
    BY <2>1, <2>2, <2>3, TypesAre DEF SelectsOne
<1>2. \A d : d \in here <=> d \in Felt(raw) /\ d.tier = t.name /\ Governs(d, dir) /\ SelectsOne(raw, d, e)
  BY DEF Governing, Felt, SelectsOne
<1>3. {p \in FedSet(raw, probe) : p.selects \subseteq GraphLabels(r, e) /\ p.tier = t.name /\ dir \in p.types}
        = FedTier(raw, probe, e, dir, t)
  <2> HIDE DEF r, here
  <2>1. QED
    BY <1>1, <1>2 DEF FedSet, FedTier, here
<1>4. \A d : FedPolicy(d, probe).order = d.order
  BY FedIs
<1>a. /\ \A d \in here : d.order \in Nat \ {0} /\ \E i \in DOMAIN raw.documents : d = raw.documents[i]
      /\ \A c, d \in here : c.order = d.order => c = d
  BY GoverningAre
<1>b. FedTier(raw, probe, e, dir, t) = {FedPolicy(d, probe) : d \in here}
  BY DEF FedTier
<1> HIDE DEF here, r
<1>5. \A p \in FedTier(raw, probe, e, dir, t) :
        \E i \in DOMAIN raw.documents : p.order = raw.documents[i].order
  BY <1>4, <1>a, <1>b
<1>6. \A p \in FedTier(raw, probe, e, dir, t) : p.order \in Nat \ {0}
  BY <1>4, <1>a, <1>b
<1>7. \A p, q \in FedTier(raw, probe, e, dir, t) : p.order = q.order => p = q
  BY <1>4, <1>a, <1>b
<1>8. Orderable(FedTier(raw, probe, e, dir, t))
  BY <1>5, <1>6, <1>7, WrittenLists, BoundedOrders
<1>9. QED
  BY <1>3, <1>6, <1>8 DEF r

\* A tier of the graph, in a direction, has the default action and the policies of t.
TierIs(raw, probe, e, tier, dir, t) ==
  /\ tier.default = t.default
  /\ LET l == InOrder(FedTier(raw, probe, e, dir, t))
     IN  TierPolicies(tier, dir) = [i \in DOMAIN l |-> l[i].id]

\* A tier of the graph does what the documents of it say.
LEMMA TierAsWritten ==
  ASSUME NEW raw, Written(raw), NEW e \in Range(raw.endpoints), NEW dir \in Directions,
         NEW s \in Range(raw.endpoints), NEW x \in Range(raw.endpoints), NEW t,
         NEW tier, TierIs(raw, raw.icmp, e, tier, dir, t)
  PROVE  TierOutcome(GraphOf(raw, raw.icmp).store, tier, dir, Flow(s.ip, x.ip))
           = TierSays(raw, raw.staged, e, dir, s, x, t)
<1> DEFINE store == GraphOf(raw, raw.icmp).store
           f == Flow(s.ip, x.ip)
           S == FedTier(raw, raw.icmp, e, dir, t)
           here == Governing(raw, raw.staged, e, dir, t)
           fed == [d \in here |-> FedPolicy(d, raw.icmp)]
           l == InOrder(S)
           ids == [i \in DOMAIN l |-> l[i].id]
           a == [i \in DOMAIN ids |-> RulesOutcome(store.member, store.policies[ids[i]][dir], f)]
<1>1. Ordered(l, S)
  <2>1. Orderable(S)
    BY FedTierIs
  <2> HIDE DEF S
  <2>2. QED
    BY <2>1, InOrderIs
<1>2. S = {fed[d] : d \in here} /\ \A d \in here : fed[d] = FedPolicy(d, raw.icmp)
  <2>1. \A d \in here : fed[d] = FedPolicy(d, raw.icmp)
    OBVIOUS
  <2>2. S = {FedPolicy(d, raw.icmp) : d \in here}
    BY DEF FedTier
  <2> HIDE DEF S, here, fed
  <2>3. QED
    BY <2>1, <2>2
<1>3. ASSUME NEW d \in here
      PROVE  /\ fed[d].order = d.order /\ store.policies[fed[d].id] = fed[d].body
             /\ RulesOutcome(store.member, fed[d].body[dir], f) = DocSays(raw, d, dir, s, x)
  <2>1. d \in Felt(raw)
    BY GoverningAre
  <2>2. FedPolicy(d, raw.icmp).order = d.order /\ FedPolicy(d, raw.icmp).id = Key(d)
    BY FedIs
  <2>3. store.policies[Key(d)] = FedPolicy(d, raw.icmp).body
    BY <2>1, PolicyStored
  <2>4. RulesOutcome(store.member, FedPolicy(d, raw.icmp).body[dir], f) = DocSays(raw, d, dir, s, x)
    BY <2>1, PolicyAsWritten
  <2> HIDE DEF store, f
  <2>5. QED
    BY <1>2, <2>2, <2>3, <2>4
<1>4. TierOutcome(store, tier, dir, f)
        = IF ids = <<>> THEN "pass"
          ELSE IF FirstOf(a, "none") = "none" THEN t.default ELSE FirstOf(a, "none")
  <2>1. TierPolicies(tier, dir) = ids /\ tier.default = t.default
    BY DEF TierIs
  <2> HIDE DEF ids, store, f
  <2>2. QED
    BY <2>1 DEF TierOutcome
<1>5. ids = <<>> <=> DOMAIN l = {}
  <2>1. DOMAIN ids = DOMAIN l
    OBVIOUS
  <2> HIDE DEF l
  <2>2. DOMAIN l = {} => ids = <<>>
    BY <2>1
  <2> HIDE DEF ids
  <2>3. ids = <<>> => DOMAIN ids = {}
    OBVIOUS
  <2>4. QED
    BY <2>1, <2>2, <2>3
<1>a. \A i \in DOMAIN l : ids[i] = l[i].id
  OBVIOUS
<1>b. DOMAIN ids = DOMAIN l
  OBVIOUS
<1>6. Heard(raw, dir, s, x, here, fed, l, a)
  <2> HIDE DEF here, fed, l, store, f, ids
  <2>1. QED
    BY <1>3, <1>a, <1>b DEF Heard
<1>7. /\ here = {} <=> DOMAIN l = {}
      /\ TierSays(raw, raw.staged, e, dir, s, x, t)
           = IF here = {} THEN "pass"
             ELSE IF FirstOf(a, "none") = "none" THEN t.default ELSE FirstOf(a, "none")
  <2>1. here = Governing(raw, raw.staged, e, dir, t) /\ Ordered(l, {fed[d] : d \in here})
        /\ \A d \in here : fed[d].order = d.order
    BY <1>1, <1>2, <1>3
  <2> HIDE DEF here, fed, l, a
  <2>2. QED
    BY <1>6, <2>1, TierDecides
<1> HIDE DEF here, fed, l, a, ids, S
<1>8. QED
  BY <1>4, <1>5, <1>7

-----------------------------------------------------------------------------
(* The path of an endpoint *)

\* The tiers that are on the path of an endpoint.
OnPath(raw, probe, e) ==
  {t \in Tiers(raw) :
     \E p \in FedSet(raw, probe) :
       p.selects \subseteq GraphLabels(ApplyInlineResources(raw), e) /\ p.tier = t.name}

\* Tiers on a path are told apart by their orders; one that is not has nothing to say.
LEMMA OnPathIs ==
  ASSUME NEW raw, Written(raw), NEW probe, NEW e \in Range(raw.endpoints), NEW dir \in Directions
  PROVE  /\ Orderable(OnPath(raw, probe, e)) /\ \A t \in Tiers(raw) : t.order \in Nat
         /\ \A t \in Tiers(raw) \ OnPath(raw, probe, e) : Governing(raw, raw.staged, e, dir, t) = {}
<1> DEFINE r == ApplyInlineResources(raw)
<1>1. Orderable(Tiers(raw)) /\ \A t \in Tiers(raw) : t.order \in Nat
  BY TiersSent DEF Written
<1>2. Orderable(OnPath(raw, probe, e))
  BY <1>1 DEF Orderable, OnPath
<1>3. ASSUME NEW t \in Tiers(raw), NEW d \in Governing(raw, raw.staged, e, dir, t)
      PROVE  t \in OnPath(raw, probe, e)
  <2>1. FedPolicy(d, probe) \in FedTier(raw, probe, e, dir, t)
    BY DEF FedTier
  <2>2. \E p \in FedSet(raw, probe) : p.selects \subseteq GraphLabels(r, e) /\ p.tier = t.name
    <3>1. {p \in FedSet(raw, probe) : /\ p.selects \subseteq GraphLabels(r, e)
                                      /\ p.tier = t.name /\ dir \in p.types} = FedTier(raw, probe, e, dir, t)
      BY FedTierIs
    <3> HIDE DEF r
    <3>2. QED
      BY <2>1, <3>1
  <2>3. QED
    BY <2>2 DEF OnPath
<1>4. QED
  BY <1>1, <1>2, <1>3

\* The graph has every endpoint of the request, with what was resolved for it.
LEMMA WepStored ==
  ASSUME NEW raw, Written(raw), NEW probe, NEW x \in Range(raw.endpoints)
  PROVE  /\ x.id \in DOMAIN GraphOf(raw, probe).wepById
         /\ GraphOf(raw, probe).wepById[x.id]
              = Wep(ApplyInlineResources(raw), Tiers(raw), FedSet(raw, probe), x)
<1>1. GraphOf(raw, probe).wepById = [i \in {e.id : e \in Range(raw.endpoints)} |-> WepOf(raw, probe, i)]
  BY StoreIs
<1>2. (CHOOSE e \in Range(raw.endpoints) : e.id = x.id) = x
  <2>1. \A e \in Range(raw.endpoints) : e.id = x.id => e = x
    BY OneEndpoint
  <2>2. QED
    BY <2>1
<1>3. WepOf(raw, probe, x.id) = Wep(ApplyInlineResources(raw), Tiers(raw), FedSet(raw, probe), x)
  BY <1>2 DEF WepOf
<1>4. QED
  BY <1>1, <1>3

\* The endpoint as the graph has it.
WepHas(raw, probe, e, wep, path) ==
  /\ wep.profiles = <<<<"kns", e.ns>>>>
  /\ DOMAIN wep.tiers = DOMAIN path
  /\ \A k \in DOMAIN path, dir \in Directions : TierIs(raw, probe, e, wep.tiers[k], dir, path[k])

\* An endpoint of the graph has the tiers of its path, in order, and its namespace's profile.
LEMMA WepIs ==
  ASSUME NEW raw, Written(raw), NEW probe, NEW e \in Range(raw.endpoints)
  PROVE  WepHas(raw, probe, e, GraphOf(raw, probe).wepById[e.id], InOrder(OnPath(raw, probe, e)))
<1> DEFINE r == ApplyInlineResources(raw)
           wep == GraphOf(raw, probe).wepById[e.id]
           path == InOrder(OnPath(raw, probe, e))
           mine == {p \in FedSet(raw, probe) : p.selects \subseteq GraphLabels(r, e)}
           onPath == {t \in Tiers(raw) : \E p \in mine : p.tier = t.name}
           in(t) == InOrder({p \in mine : p.tier = t.name /\ "in" \in p.types})
           out(t) == InOrder({p \in mine : p.tier = t.name /\ "out" \in p.types})
           of(t, dir) == InOrder(FedTier(raw, probe, e, dir, t))
<1>3. wep = Wep(r, Tiers(raw), FedSet(raw, probe), e)
  BY WepStored
<1>4. onPath = OnPath(raw, probe, e)
  BY DEF OnPath
<1>5. \A t : in(t) = of(t, "in") /\ out(t) = of(t, "out")
  <2> SUFFICES ASSUME NEW t
               PROVE  in(t) = of(t, "in") /\ out(t) = of(t, "out")
    OBVIOUS
  <2>1. /\ {p \in FedSet(raw, probe) : p.selects \subseteq GraphLabels(r, e) /\ p.tier = t.name /\ "in" \in p.types}
             = FedTier(raw, probe, e, "in", t)
        /\ {p \in FedSet(raw, probe) : p.selects \subseteq GraphLabels(r, e) /\ p.tier = t.name /\ "out" \in p.types}
             = FedTier(raw, probe, e, "out", t)
    BY FedTierIs DEF Directions
  <2>2. /\ {p \in mine : p.tier = t.name /\ "in" \in p.types} = FedTier(raw, probe, e, "in", t)
        /\ {p \in mine : p.tier = t.name /\ "out" \in p.types} = FedTier(raw, probe, e, "out", t)
    <3> HIDE DEF r
    <3>1. QED
      BY <2>1
  <2> HIDE DEF mine
  <2>3. QED
    BY <2>2
<1>6. wep = [tiers |-> [k \in DOMAIN InOrder(onPath) |->
                          [name    |-> InOrder(onPath)[k].name, default |-> InOrder(onPath)[k].default,
                           ingress |-> [i \in DOMAIN in(InOrder(onPath)[k]) |-> in(InOrder(onPath)[k])[i].id],
                           egress  |-> [i \in DOMAIN out(InOrder(onPath)[k]) |-> out(InOrder(onPath)[k])[i].id]]],
             profiles |-> <<<<"kns", e.ns>>>>]
  BY <1>3 DEF Wep
<1> HIDE DEF mine, onPath, in, out, of, wep, path
<1> HIDE DEF r
<1>a. InOrder(onPath) = path
  BY <1>4 DEF path
<1>7. /\ DOMAIN wep.tiers = DOMAIN path /\ wep.profiles = <<<<"kns", e.ns>>>>
      /\ \A k \in DOMAIN path :
           /\ wep.tiers[k].default = path[k].default
           /\ wep.tiers[k].ingress = [i \in DOMAIN of(path[k], "in") |-> of(path[k], "in")[i].id]
           /\ wep.tiers[k].egress = [i \in DOMAIN of(path[k], "out") |-> of(path[k], "out")[i].id]
  <2>1. /\ DOMAIN wep.tiers = DOMAIN path /\ wep.profiles = <<<<"kns", e.ns>>>>
        /\ \A k \in DOMAIN path :
             wep.tiers[k] =
               [name    |-> path[k].name, default |-> path[k].default,
                ingress |-> [i \in DOMAIN in(path[k]) |-> in(path[k])[i].id],
                egress  |-> [i \in DOMAIN out(path[k]) |-> out(path[k])[i].id]]
    <3> DEFINE tier(t) == [name    |-> t.name, default |-> t.default,
                           ingress |-> [i \in DOMAIN in(t) |-> in(t)[i].id],
                           egress  |-> [i \in DOMAIN out(t) |-> out(t)[i].id]]
    <3>1. wep = [tiers |-> [k \in DOMAIN path |-> tier(path[k])], profiles |-> <<<<"kns", e.ns>>>>]
      BY <1>6, <1>a
    <3> HIDE DEF tier
    <3>2. \A k \in DOMAIN path : wep.tiers[k] = tier(path[k])
      BY <3>1
    <3>3. QED
      BY <3>1, <3>2 DEF tier
  <2>2. ASSUME NEW k \in DOMAIN path
        PROVE  /\ wep.tiers[k].default = path[k].default
               /\ wep.tiers[k].ingress = [i \in DOMAIN of(path[k], "in") |-> of(path[k], "in")[i].id]
               /\ wep.tiers[k].egress = [i \in DOMAIN of(path[k], "out") |-> of(path[k], "out")[i].id]
    <3>1. in(path[k]) = of(path[k], "in") /\ out(path[k]) = of(path[k], "out")
      BY <1>5
    <3>2. /\ wep.tiers[k].default = path[k].default
          /\ wep.tiers[k].ingress = [i \in DOMAIN in(path[k]) |-> in(path[k])[i].id]
          /\ wep.tiers[k].egress = [i \in DOMAIN out(path[k]) |-> out(path[k])[i].id]
      <4> DEFINE w  == wep.tiers[k]
                 fi == [i \in DOMAIN in(path[k]) |-> in(path[k])[i].id]
                 fo == [i \in DOMAIN out(path[k]) |-> out(path[k])[i].id]
      <4>1. w = [name |-> path[k].name, default |-> path[k].default, ingress |-> fi, egress |-> fo]
        BY <2>1
      <4> HIDE DEF w, fi, fo
      <4>2. w.default = path[k].default /\ w.ingress = fi /\ w.egress = fo
        BY <4>1
      <4>3. QED
        BY <4>2 DEF w, fi, fo
    <3>3. QED
      BY <3>1, <3>2
  <2>3. QED
    BY <2>1, <2>2
<1>8. QED
  <2>1. ASSUME NEW k \in DOMAIN path, NEW dir \in Directions
        PROVE  TierIs(raw, probe, e, wep.tiers[k], dir, path[k])
    BY <1>7 DEF TierIs, TierPolicies, Directions, of
  <2>2. QED
    BY <1>7, <2>1 DEF WepHas, wep, path

\* The profile of a namespace allows.
LEMMA ProfileAllows ==
  ASSUME NEW raw, Written(raw), NEW probe, NEW e \in Range(raw.endpoints), NEW dir \in Directions, NEW f
  PROVE  ProfilesOutcome(GraphOf(raw, probe).store, <<<<"kns", e.ns>>>>, dir, f) = "allow"
<1> DEFINE store == GraphOf(raw, probe).store
           says == RulesOutcome(store.member, store.profiles[<<"kns", e.ns>>][dir], f)
<1>1. store.profiles[<<"kns", e.ns>>][dir] = AllowAll
  <2>1. store.profiles = [k \in {<<"kns", y.ns>> : y \in Range(raw.endpoints)} |->
                                      [in |-> AllowAll, out |-> AllowAll]]
    BY StoreIs
  <2>2. <<"kns", e.ns>> \in {<<"kns", y.ns>> : y \in Range(raw.endpoints)}
    OBVIOUS
  <2> HIDE DEF store
  <2>3. QED
    BY <2>1, <2>2 DEF Directions
<1>2. \A member : Matches(member, AllowAll[1], f) /\ AllowAll[1].action = "allow"
  BY DEF Matches, PeerMatches, AllowAll
<1>3. DOMAIN AllowAll = {1}
  BY DEF AllowAll
<1>4. says = "allow"
  <2> DEFINE a == [i \in DOMAIN AllowAll |->
                     IF Matches(store.member, AllowAll[i], f) THEN AllowAll[i].action ELSE "none"]
  <2>1. RulesOutcome(store.member, AllowAll, f) = FirstOf(a, "none")
    BY DEF RulesOutcome
  <2>2. DOMAIN a = {1} /\ a[1] = "allow"
    BY <1>2, <1>3
  <2>3. FirstOf(a, "none") = "allow"
    <3> HIDE DEF a
    <3>1. QED
      BY <2>2, FirstOfSame
  <2>4. QED
    BY <1>1, <2>1, <2>3
<1>5. QED
  <2> DEFINE a == [i \in DOMAIN <<<<"kns", e.ns>>>> |->
                     RulesOutcome(store.member, store.profiles[<<<<"kns", e.ns>>>>[i]][dir], f)]
  <2>1. ProfilesOutcome(store, <<<<"kns", e.ns>>>>, dir, f) = FirstOf(a, "none")
    BY DEF ProfilesOutcome
  <2>2. DOMAIN a = {1} /\ a[1] = says
    <3> HIDE DEF store
    <3>1. QED
      OBVIOUS
  <2>3. FirstOf(a, "none") = "allow"
    <3> HIDE DEF a
    <3>1. QED
      BY <1>4, <2>2, FirstOfSame
  <2>4. QED
    BY <2>1, <2>3

\* The walk of an endpoint in the graph allows a flow when its side of it does as written.
LEMMA WalkAsWritten ==
  ASSUME NEW raw, Written(raw), NEW e \in Range(raw.endpoints), NEW dir \in Directions,
         NEW s \in Range(raw.endpoints), NEW x \in Range(raw.endpoints)
  PROVE  LET g == GraphOf(raw, raw.icmp)
         IN  e.unpoliced \/ Walk(g.store, g.wepById[e.id], dir, Flow(s.ip, x.ip))
               <=> Side(raw, raw.staged, e, dir, s, x)
<1> DEFINE store == GraphOf(raw, raw.icmp).store
           wep == GraphOf(raw, raw.icmp).wepById[e.id]
           f == Flow(s.ip, x.ip)
           P == OnPath(raw, raw.icmp, e)
           path == InOrder(P)
           a == [k \in DOMAIN wep.tiers |-> TierOutcome(store, wep.tiers[k], dir, f)]
<1>1. Ordered(path, P) /\ P \subseteq Tiers(raw)
  <2>1. Orderable(P)
    BY OnPathIs
  <2>2. P \subseteq Tiers(raw)
    BY DEF OnPath
  <2> HIDE DEF P
  <2>3. QED
    BY <2>1, <2>2, InOrderIs
<1>2. \A t \in Tiers(raw) \ P : TierSays(raw, raw.staged, e, dir, s, x, t) = "pass"
  <2>1. \A t \in Tiers(raw) \ P : Governing(raw, raw.staged, e, dir, t) = {}
    BY OnPathIs
  <2> HIDE DEF P
  <2>2. QED
    BY <2>1, TierFirst
<1>3. /\ DOMAIN wep.tiers = DOMAIN path /\ wep.profiles = <<<<"kns", e.ns>>>>
      /\ \A k \in DOMAIN path : TierIs(raw, raw.icmp, e, wep.tiers[k], dir, path[k])
  <2>1. WepHas(raw, raw.icmp, e, wep, path)
    BY WepIs
  <2> HIDE DEF wep, path
  <2>2. QED
    BY <2>1 DEF WepHas
<1>4. \A k \in DOMAIN path : TierOutcome(store, wep.tiers[k], dir, f)
                               = TierSays(raw, raw.staged, e, dir, s, x, path[k])
  <2> HIDE DEF wep, path
  <2>1. QED
    BY <1>3, TierAsWritten
<1>5. SideHeard(raw, raw.staged, e, dir, s, x, path, a)
  <2> HIDE DEF wep, path, store, f
  <2>1. QED
    BY <1>3, <1>4 DEF SideHeard
<1>6. Side(raw, raw.staged, e, dir, s, x) <=> e.unpoliced \/ FirstOf(a, "pass") \in {"pass", "allow"}
  <2> HIDE DEF a, P, path
  <2>1. QED
    BY <1>1, <1>2, <1>5, SideDecides
<1>7. LastAction(store, wep, dir, f)
        = IF FirstOf(a, "pass") # "pass" THEN FirstOf(a, "pass") ELSE "allow"
  <2>1. ProfilesOutcome(store, wep.profiles, dir, f) = "allow"
    BY <1>3, ProfileAllows
  <2> HIDE DEF store, wep, f
  <2>2. QED
    BY <2>1 DEF LastAction
<1> HIDE DEF a
<1>8. Walk(store, wep, dir, f) <=> FirstOf(a, "pass") \in {"pass", "allow"}
  BY <1>7 DEF Walk
<1>9. QED
  BY <1>6, <1>8

\* The actors of a request that is made of documents.
IdsOf(raw) == {e.id : e \in Range(raw.endpoints)}

FedShape(r, raw) == HepIds(r) = {} /\ Range(r.endpoints) = IdsOf(raw) /\ DOMAIN r.ep = IdsOf(raw)

\* Its actors are its endpoints, each with what the graph has of it.
LEMMA FedActors ==
  ASSUME NEW raw, Written(raw), NEW stream, NEW noCollapse, NEW r, r = Fed(raw, stream, noCollapse)
  PROVE  /\ r.store = GraphOf(raw, raw.icmp).store /\ FedShape(r, raw)
         /\ \A e \in Range(raw.endpoints) :
              LET actor == BuildActors(r).byId[e.id]
              IN  /\ actor.ip = e.ip /\ actor.unpoliced = e.unpoliced
                  /\ actor.normal = GraphOf(raw, raw.icmp).wepById[e.id]
<1> DEFINE q == ApplyInlineResources(raw)
           ids == IdsOf(raw)
           by(i) == CHOOSE e \in Range(raw.endpoints) : e.id = i
           g == GraphOf(raw, raw.icmp)
<1>1. q.endpoints = raw.endpoints
  BY Inlined
<1>2. /\ r.raw = raw /\ r.store = g.store
      /\ r.endpoints = [k \in DOMAIN raw.endpoints |-> raw.endpoints[k].id]
      /\ r.hostEndpoints = <<>> /\ r.hep = <<>>
      /\ r.ep = [i \in ids |-> [ip |-> by(i).ip, node |-> by(i).node, role |-> by(i).role,
                                unpoliced |-> by(i).unpoliced, wep |-> g.wepById[i]]]
  <2> HIDE DEF q
  <2>1. QED
    BY <1>1 DEF Fed, GraphOf, q, IdsOf
<1>3. HepIds(r) = {}
  BY <1>2 DEF HepIds, Range
<1>4. Range(r.endpoints) = ids
  BY <1>2 DEF Range, IdsOf
<1>5. DOMAIN r.ep = ids
  BY <1>2
<1>6. ASSUME NEW e \in Range(raw.endpoints)
      PROVE  /\ BuildActors(r).byId[e.id].ip = e.ip
             /\ BuildActors(r).byId[e.id].unpoliced = e.unpoliced
             /\ BuildActors(r).byId[e.id].normal = g.wepById[e.id]
  <2>1. by(e.id) = e
    <3>1. \A x \in Range(raw.endpoints) : x.id = e.id => x = e
      BY OneEndpoint
    <3>2. QED
      BY <3>1
  <2>2. BuildActors(r).byId = [i \in Range(r.endpoints) \cup HepIds(r) |->
                                 IF i \in HepIds(r) THEN HepActor(r.hep[i]) ELSE WorkloadActor(r.ep[i])]
    BY DEF BuildActors, ActorById
  <2>3. e.id \in ids
    BY DEF IdsOf
  <2> HIDE DEF g, by, ids
  <2>4. BuildActors(r).byId[e.id] = WorkloadActor(r.ep[e.id])
    BY <1>3, <1>4, <2>2, <2>3
  <2>5. r.ep[e.id] = [ip |-> by(e.id).ip, node |-> by(e.id).node, role |-> by(e.id).role,
                      unpoliced |-> by(e.id).unpoliced, wep |-> g.wepById[e.id]]
    BY <1>2, <2>3
  <2>6. r.ep[e.id].ip = e.ip /\ r.ep[e.id].unpoliced = e.unpoliced /\ r.ep[e.id].wep = g.wepById[e.id]
    BY <2>1, <2>5
  <2>7. QED
    BY <2>4, <2>6 DEF WorkloadActor
<1> HIDE DEF ids, g
<1>7. QED
  BY <1>2, <1>3, <1>4, <1>5, <1>6 DEF ids, g, FedShape

\* What the graph of the documents makes of two ends is what is written of each.
LEMMA GraphAsWritten ==
  ASSUME NEW raw, Written(raw), NEW stream, NEW noCollapse,
         NEW r, r = Fed(raw, stream, noCollapse), NEW b, b = BuildActors(r),
         NEW s \in Range(raw.endpoints), NEW x \in Range(raw.endpoints)
  PROVE  /\ OwnerVerdict(r.store, b.byId[s.id], b.byId[x.id], "out")
              <=> Side(raw, raw.staged, s, "out", s, x)
         /\ OwnerVerdict(r.store, b.byId[x.id], b.byId[s.id], "in")
              <=> Side(raw, raw.staged, x, "in", s, x)
<1>1. /\ r.store = GraphOf(raw, raw.icmp).store
      /\ \A e \in Range(raw.endpoints) :
           /\ b.byId[e.id].ip = e.ip /\ b.byId[e.id].unpoliced = e.unpoliced
           /\ b.byId[e.id].normal = GraphOf(raw, raw.icmp).wepById[e.id]
  BY FedActors
<1>2. /\ OwnerFlow(b.byId[s.id], b.byId[x.id], "out") = Flow(s.ip, x.ip)
      /\ OwnerFlow(b.byId[x.id], b.byId[s.id], "in") = Flow(s.ip, x.ip)
  BY <1>1 DEF OwnerFlow
<1>3. \A dir \in Directions : \A e \in {s, x} :
        e.unpoliced \/ Walk(GraphOf(raw, raw.icmp).store, GraphOf(raw, raw.icmp).wepById[e.id], dir, Flow(s.ip, x.ip))
          <=> Side(raw, raw.staged, e, dir, s, x)
  BY WalkAsWritten
<1>4. QED
  BY <1>1, <1>2, <1>3 DEF OwnerVerdict, Directions

-----------------------------------------------------------------------------
(* The matrix *)

\* A whole request: what is true of two of its workloads is what is written of them.
LEMMA TruthAsWritten ==
  ASSUME NEW r \in Requests, "raw" \in DOMAIN r, NEW b, b = BuildActors(r),
         NEW p \in Asked(r, b), p[2] \in DOMAIN r.ep
  PROVE  LET s == Endpoint(r.raw, p[1])
             d == Endpoint(r.raw, p[2])
         IN  Reaches(r, b, p[1], p[2])
               <=> /\ Side(r.raw, r.raw.staged, s, "out", s, d)
                   /\ Side(r.raw, r.raw.staged, d, "in", s, d)
<1> DEFINE raw == r.raw
           ids == IdsOf(raw)
<1>1. Written(raw) /\ r = Fed(raw, r.stream, r.noCollapse)
  BY DocumentsAssumption
<1>2. HepIds(r) = {} /\ DOMAIN r.ep = ids /\ Range(r.endpoints) = ids
  <2>1. FedShape(r, raw)
    <3> HIDE DEF raw
    <3>1. QED
      BY <1>1, FedActors
  <2>2. QED
    BY <2>1 DEF FedShape
<1>3. DOMAIN b.byId = ids
  BY <1>2 DEF BuildActors, ActorById
<1>4. Range(b.list) \subseteq ids
  BY <1>3, BuiltActors
<1>5. p[1] \in Range(b.list) /\ (p[2] \in ServiceCols(r) \/ p[2] \in Range(b.list))
  BY DEF Asked
<1>6. p[2] \notin ServiceCols(r)
  <2>1. Range(ActorList(r)) \cap ServiceCols(r) = {} /\ r.endpoints \in Seq(Range(ActorList(r)))
    BY NamesAssumption DEF ServiceCols
  <2>2. Range(r.endpoints) \subseteq Range(ActorList(r))
    BY <2>1 DEF Range
  <2>3. QED
    BY <1>2, <2>1, <2>2
<1>7. PICK s \in Range(raw.endpoints) : s.id = p[1]
  BY <1>4, <1>5 DEF IdsOf
<1>8. PICK d \in Range(raw.endpoints) : d.id = p[2]
  BY <1>4, <1>5, <1>6 DEF IdsOf
<1>9. Endpoint(raw, p[1]) = s /\ Endpoint(raw, p[2]) = d
  <2>1. \A e, x \in Range(raw.endpoints) : e.id = x.id => e = x
    BY <1>1, OneEndpoint
  <2>2. QED
    BY <1>7, <1>8, <2>1 DEF Endpoint
<1>10. Reaches(r, b, p[1], p[2]) <=> EvalFlow(r, b, s.id, d.id)
  BY <1>6, <1>7, <1>8 DEF Reaches
<1>11. EvalFlow(r, b, s.id, d.id) <=> /\ OwnerVerdict(r.store, b.byId[s.id], b.byId[d.id], "out")
                                      /\ OwnerVerdict(r.store, b.byId[d.id], b.byId[s.id], "in")
  BY <1>2, <1>5, <1>6, <1>7, <1>8, FlowOfTwo
<1>12. /\ OwnerVerdict(r.store, b.byId[s.id], b.byId[d.id], "out") <=> Side(raw, raw.staged, s, "out", s, d)
       /\ OwnerVerdict(r.store, b.byId[d.id], b.byId[s.id], "in") <=> Side(raw, raw.staged, d, "in", s, d)
  <2> HIDE DEF raw
  <2>1. QED
    BY <1>1, GraphAsWritten
<1>13. QED
  BY <1>9, <1>10, <1>11, <1>12

\* The matrix of a sweep is what the documents of its request say: an account, a Service or a
\* tier may stand anywhere among them, any probe and staged policies may be asked for, in
\* every order in which the pairs are filled and whether or not the matrix is streamed.
THEOREM SweepMatrixAsWritten == Spec => []MatrixAsWritten
<1>1. IInv /\ FillInv => MatrixAsWritten
  <2> SUFFICES ASSUME IInv, FillInv, HasRaw, Status = "complete",
                      NEW p \in DOMAIN Reported, p[2] \in DOMAIN req.ep
               PROVE  LET s == Endpoint(req.raw, p[1])
                          d == Endpoint(req.raw, p[2])
                      IN  Reported[p] = Word(/\ Side(req.raw, req.raw.staged, s, "out", s, d)
                                             /\ Side(req.raw, req.raw.staged, d, "in", s, d))
    BY DEF MatrixAsWritten
  <2> DEFINE b == BuildActors(req)
             s == Endpoint(req.raw, p[1])
             d == Endpoint(req.raw, p[2])
             written == /\ Side(req.raw, req.raw.staged, s, "out", s, d)
                        /\ Side(req.raw, req.raw.staged, d, "in", s, d)
  <2>1. req \in Requests
    BY DEF IInv, Shape
  <2>2. pc = "done" /\ ~Refused
    BY DEF Status, Refused
  <2>3. SinkHolds(sink, DOMAIN truth)
    BY <2>2 DEF FillInv, SinkKept, Due
  <2>4. truth = Truth(req, b)
    BY DEF FillInv, TruthKept
  <2>5. DOMAIN truth = Asked(req, b)
        /\ \A q \in DOMAIN truth : IsPair(q) /\ truth[q] = Word(Reaches(req, b, q[1], q[2]))
    BY <2>1, <2>4, TruthIs
  <2>6. req.stream \in BOOLEAN
    BY <2>1, RequestsAssumption
  <2>7. Reported = ReportedBy(sink)
    BY DEF Reported, ReportedBy, ShownBy, Lines
  <2>8. Reported = [q \in ShownBy(sink) |-> truth[q]] /\ ShownBy(sink) \subseteq DOMAIN truth
    BY <2>3, <2>5, <2>6, <2>7, ReportedIs
  <2>9. p \in Asked(req, b) /\ Reported[p] = Word(Reaches(req, b, p[1], p[2]))
    BY <2>5, <2>8
  <2>10. Reaches(req, b, p[1], p[2]) <=> written
    BY <2>1, <2>9, TruthAsWritten DEF HasRaw
  <2> HIDE DEF written, b
  <2>11. Word(Reaches(req, b, p[1], p[2])) = Word(written)
    BY <2>10 DEF Word
  <2>12. QED
    BY <2>9, <2>11 DEF written
<1>2. QED
  BY <1>1, SpecFill, PTL

-----------------------------------------------------------------------------
(* The programs *)

\* The policies that are enforced are those in force that are not staged.
LEMMA EnforcedAre ==
  ASSUME NEW raw, Written(raw)
  PROVE  InForce(raw, FALSE) = {d \in InForce(raw, raw.staged) : d.kind \notin StagedKinds}
<1> DEFINE docs == raw.documents
           T(staged) == {i \in DOMAIN docs : /\ docs[i].ok /\ docs[i].kind \in PolicyKinds
                                             /\ staged \/ docs[i].kind \notin StagedKinds}
<1>1. \A staged : T(staged) \subseteq DOMAIN docs
  OBVIOUS
<1>2. \A staged : InForce(raw, staged) = Newest(docs, T(staged))
  <2> SUFFICES ASSUME NEW staged
               PROVE  InForce(raw, staged) = Newest(docs, T(staged))
    OBVIOUS
  <2>1. InForce(raw, staged) = Current(Kept(docs, T(staged)))
    BY DEF InForce
  <2>2. docs \in Seq(Range(docs)) /\ T(staged) \subseteq DOMAIN docs
    BY WrittenLists
  <2> HIDE DEF docs, T
  <2>3. QED
    BY <2>1, <2>2, KeptLists, CurrentOfPicked
<1>3. \A i, j \in DOMAIN docs : Key(docs[i]) = Key(docs[j]) => docs[i].kind = docs[j].kind
  BY DEF Key
<1>4. \A i \in DOMAIN docs : i \in T(FALSE) <=> i \in T(raw.staged) /\ docs[i].kind \notin StagedKinds
  OBVIOUS
<1> HIDE DEF T, docs
<1>5. ASSUME NEW d
      PROVE  d \in Newest(docs, T(FALSE)) <=> d \in Newest(docs, T(raw.staged)) /\ d.kind \notin StagedKinds
  <2>1. ASSUME d \in Newest(docs, T(FALSE))
        PROVE  d \in Newest(docs, T(raw.staged)) /\ d.kind \notin StagedKinds
    <3>1. PICK n \in T(FALSE) : d = docs[n] /\ \A m \in T(FALSE) : Key(docs[m]) = Key(docs[n]) => m <= n
      BY <2>1 DEF Newest
    <3>2. \A m \in T(raw.staged) : Key(docs[m]) = Key(docs[n]) => m <= n
      BY <1>1, <1>3, <1>4, <3>1
    <3>3. n \in T(raw.staged) /\ d.kind \notin StagedKinds
      BY <1>1, <1>4, <3>1
    <3>4. QED
      BY <3>1, <3>2, <3>3 DEF Newest
  <2>2. ASSUME d \in Newest(docs, T(raw.staged)), d.kind \notin StagedKinds
        PROVE  d \in Newest(docs, T(FALSE))
    <3>1. PICK n \in T(raw.staged) :
            d = docs[n] /\ \A m \in T(raw.staged) : Key(docs[m]) = Key(docs[n]) => m <= n
      BY <2>2 DEF Newest
    <3>2. n \in T(FALSE) /\ \A m \in T(FALSE) : Key(docs[m]) = Key(docs[n]) => m <= n
      BY <1>1, <1>4, <2>2, <3>1
    <3>3. QED
      BY <3>1, <3>2 DEF Newest
  <2>3. QED
    BY <2>1, <2>2
<1>6. QED
  BY <1>2, <1>5

\* The elements of two lists are those of each.
LEMMA RangeConcat ==
  ASSUME NEW p, p \in Seq(Range(p)), NEW q, q \in Seq(Range(q))
  PROVE  Range(p \o q) = Range(p) \cup Range(q)
<1> DEFINE both == p \o q
           n == Len(p)
<1>1. /\ n \in Nat /\ Len(q) \in Nat /\ DOMAIN p = 1..n /\ DOMAIN q = 1..Len(q)
      /\ DOMAIN both = 1..(n + Len(q))
      /\ \A i \in 1..n : both[i] = p[i]
      /\ \A i \in 1..Len(q) : both[n + i] = q[i]
  <2>1. p \in Seq(Range(p) \cup Range(q)) /\ q \in Seq(Range(p) \cup Range(q))
    BY DEF Range
  <2>2. QED
    BY <2>1, ConcatProperties
<1> HIDE DEF both, n
<1>2. \A i \in DOMAIN both : i \in 1..n \/ \E k \in 1..Len(q) : i = n + k
  <2>1. \A i \in DOMAIN both : i \in 1..n \/ (i - n \in 1..Len(q) /\ i = n + (i - n))
    BY <1>1
  <2>2. QED
    BY <2>1
<1>3. \A i \in 1..n : i \in DOMAIN both
  BY <1>1
<1>4. \A k \in 1..Len(q) : n + k \in DOMAIN both
  BY <1>1
<1>5. \A i \in DOMAIN both : both[i] \in Range(p) \cup Range(q)
  BY <1>1, <1>2 DEF Range
<1>6. Range(p) \cup Range(q) \subseteq Range(both)
  BY <1>1, <1>3, <1>4 DEF Range
<1>7. QED
  BY <1>5, <1>6 DEF Range, both

\* The probe is known to the program wherever a policy asks for it.
ProbeAsked(raw) == AsksIcmp(raw) => Unset \notin {raw.icmp.type, raw.icmp.code}

\* A rule of a policy, run on the packet of the probe, says what it does as it is written.
LEMMA RuleRun ==
  ASSUME NEW raw, Written(raw), ProbeAsked(raw), NEW d \in InForce(raw, raw.staged),
         NEW dir \in Directions, NEW n \in DOMAIN Rules(d, dir), NEW s, NEW x
  PROVE  LET rule == Rules(d, dir)[n]
         IN  Applies(raw, rule, s, x)
               <=> /\ Describes(raw, rule.src, s) /\ Describes(raw, rule.dst, x)
                   /\ RuleICMPMatchesProbe(rule, raw.icmp)
<1> DEFINE rule == Rules(d, dir)[n]
<1>1. d.kind \in PolicyKinds /\ PolicyWritten(d) /\ d \in Range(raw.documents)
  BY InForceAre DEF Range
<1>2. rule \in Range(d.ingress \o d.egress)
  <2>1. /\ d.ingress \in Seq(Range(d.ingress)) /\ d.egress \in Seq(Range(d.egress))
    BY <1>1 DEF PolicyWritten
  <2>2. Range(d.ingress \o d.egress) = Range(d.ingress) \cup Range(d.egress)
    BY <2>1, RangeConcat
  <2>3. rule \in Range(d.ingress) \cup Range(d.egress)
    BY DEF Rules, Range
  <2>4. QED
    BY <2>2, <2>3
<1> HIDE DEF rule
<1>3. Applies(raw, rule, s, x) <=>
        /\ Describes(raw, rule.src, s) /\ Describes(raw, rule.dst, x)
        /\ raw.icmp # NoIcmp => RuleICMPMatchesProbe(rule, raw.icmp)
  BY DEF Applies, RuleICMPMatchesProbe, SaysIcmp
<1>4. CASE AsksIcmp(raw)
  BY <1>3, <1>4 DEF ProbeAsked, NoIcmp, rule
<1>5. CASE ~AsksIcmp(raw)
  <2>1. rule.icmp = NoIcmp /\ rule.notIcmp = NoIcmp
    BY <1>1, <1>2, <1>5 DEF AsksIcmp
  <2>2. RuleICMPMatchesProbe(rule, raw.icmp)
    BY <2>1 DEF RuleICMPMatchesProbe, SaysIcmp, NoIcmp
  <2>3. QED
    BY <1>3, <2>2 DEF rule
<1>6. QED
  BY <1>4, <1>5

\* A policy of the program says of the packet of the probe what is written.
LEMMA PolicyRunAsWritten ==
  ASSUME NEW raw, Written(raw), ProbeAsked(raw), NEW s \in Range(raw.endpoints),
         NEW x \in Range(raw.endpoints), NEW d \in Felt(raw), NEW dir \in Directions, NEW policy,
         policy.rules = FedPolicy(d, NoIcmp).body[dir]
  PROVE  PolicyRun(GraphOf(raw, NoIcmp).store.member, policy, Flow(s.ip, x.ip), raw.icmp)
           = DocSays(raw, d, dir, s, x)
<1> DEFINE member == GraphOf(raw, NoIcmp).store.member
           rules == Rules(d, dir)
           f == Flow(s.ip, x.ip)
           a == [n \in DOMAIN rules |-> IF Matches(member, rules[n], f) /\ RuleICMPMatchesProbe(rules[n], raw.icmp)
                                        THEN rules[n].action ELSE "none"]
           b == [n \in DOMAIN rules |-> Said(raw, rules[n], s, x)]
<1>1. policy.rules = rules /\ FedPolicy(d, NoIcmp).body[dir] = rules
  BY FedRules
<1>2. \A n \in DOMAIN rules : Matches(member, rules[n], f)
                                <=> Describes(raw, rules[n].src, s) /\ Describes(raw, rules[n].dst, x)
  <2>1. \A rule \in Range(rules) : \A ref : Consults(rule, ref) =>
          member[ref] = Members(ApplyInlineResources(raw), ref)
    <3>1. \A rule \in Range(FedPolicy(d, NoIcmp).body[dir]) : \A ref : Consults(rule, ref) =>
            member[ref] = Members(ApplyInlineResources(raw), ref)
      BY PolicyStored
    <3> HIDE DEF rules, member
    <3>2. QED
      BY <1>1, <3>1
  <2>2. \A n \in DOMAIN rules : rules[n] \in Range(rules)
    BY DEF Range
  <2> HIDE DEF rules, member
  <2>3. QED
    BY <2>1, <2>2, RuleMatches
<1>3. \A n \in DOMAIN rules : Applies(raw, rules[n], s, x)
        <=> /\ Describes(raw, rules[n].src, s) /\ Describes(raw, rules[n].dst, x)
            /\ RuleICMPMatchesProbe(rules[n], raw.icmp)
  BY RuleRun DEF Felt
<1>4. PolicyRun(member, policy, f, raw.icmp) = FirstOf(a, "none") /\ DocSays(raw, d, dir, s, x) = FirstOf(b, "none")
  <2>1. DocSays(raw, d, dir, s, x) = FirstOf(b, "none")
    BY DEF DocSays
  <2> HIDE DEF rules, member, f
  <2>2. QED
    BY <1>1, <2>1 DEF PolicyRun
<1> HIDE DEF rules, member, f
<1>5. a = b
  BY <1>2, <1>3 DEF Said
<1>6. QED
  BY <1>4, <1>5 DEF member, f

\* Staged policies are not evaluated.
Off(staged) == staged = FALSE

\* Of the policies that govern an endpoint those that are not staged are enforced.
LEMMA GoverningEnforced ==
  ASSUME NEW raw, Written(raw), NEW off, Off(off), NEW e, NEW dir, NEW t
  PROVE  Governing(raw, off, e, dir, t)
           = {d \in Governing(raw, raw.staged, e, dir, t) : d.kind \notin StagedKinds}
<1>1. InForce(raw, off) = {d \in InForce(raw, raw.staged) : d.kind \notin StagedKinds}
  BY EnforcedAre DEF Off
<1>2. QED
  BY <1>1 DEF Governing

\* A tier of a program does what the enforced documents of it say.
LEMMA TierRunAsWritten ==
  ASSUME NEW raw, Written(raw), ProbeAsked(raw), NEW e \in Range(raw.endpoints),
         NEW dir \in Directions, NEW s \in Range(raw.endpoints), NEW x \in Range(raw.endpoints),
         NEW t, t.default \in {"pass", "deny"}, NEW tier, TierIs(raw, NoIcmp, e, tier, dir, t),
         NEW store, store = GraphOf(raw, NoIcmp).store, NEW off, Off(off)
  PROVE  TierRun(store.member, PolprogTier(tier, dir, store), Flow(s.ip, x.ip), raw.icmp)
           = TierSays(raw, off, e, dir, s, x, t)
<1> DEFINE f == Flow(s.ip, x.ip)
           S == FedTier(raw, NoIcmp, e, dir, t)
           all == Governing(raw, raw.staged, e, dir, t)
           here == Governing(raw, off, e, dir, t)
           fed == [d \in here |-> FedPolicy(d, NoIcmp)]
           l == InOrder(S)
           ids == [i \in DOMAIN l |-> l[i].id]
           U == {i \in DOMAIN ids : ~KindIsStaged(ids[i]) /\ ids[i] \in DOMAIN store.policies}
           live == Kept(ids, U)
           policies == [i \in DOMAIN live |-> [id |-> live[i], rules |-> store.policies[live[i]][dir]]]
           a == [i \in DOMAIN policies |-> PolicyRun(store.member, policies[i], f, raw.icmp)]
<1>1. Ordered(l, S)
  <2>1. Orderable(S)
    BY FedTierIs
  <2> HIDE DEF S
  <2>2. QED
    BY <2>1, InOrderIs
<1>2. /\ DOMAIN ids = DOMAIN l /\ U \subseteq DOMAIN l /\ \A i \in DOMAIN l : ids[i] = l[i].id
      /\ \A i \in DOMAIN l : i \in U <=> ~KindIsStaged(ids[i]) /\ ids[i] \in DOMAIN store.policies
  OBVIOUS
<1>3. \E pos : Picks(live, ids, U, pos)
  <2>1. PICK N \in Nat : DOMAIN l = 1..N
    BY <1>1 DEF Ordered
  <2> HIDE DEF U, ids, l
  <2>2. QED
    BY <1>2, <2>1, KeptIs
<1>4. PICK pos : Picks(live, ids, U, pos)
  BY <1>3
<1> DEFINE some == [m \in DOMAIN live |-> l[pos[m]]]
<1>5. Ordered(some, {l[i] : i \in U})
  <2>1. live = Kept(ids, U)
    OBVIOUS
  <2> HIDE DEF U, ids, l, live
  <2>2. QED
    BY <1>1, <1>2, <1>4, <2>1, PickedOrdered
<1>6. here = {d \in all : d.kind \notin StagedKinds}
  <2>1. Off(off) /\ Written(raw)
    OBVIOUS
  <2>2. Governing(raw, off, e, dir, t)
          = {d \in Governing(raw, raw.staged, e, dir, t) : d.kind \notin StagedKinds}
    BY ONLY <2>1, GoverningEnforced
  <2>3. QED
    BY <2>2
<1>7. ASSUME NEW d \in all
      PROVE  LET p == FedPolicy(d, NoIcmp)
             IN  /\ p.order = d.order /\ p.id = Key(d)
                 /\ KindIsStaged(p.id) <=> d.kind \in StagedKinds
                 /\ Key(d) \in DOMAIN store.policies /\ store.policies[Key(d)] = p.body
                 /\ d \in Felt(raw)
  <2>1. d \in Felt(raw)
    BY GoverningAre
  <2>2. FedPolicy(d, NoIcmp).order = d.order /\ FedPolicy(d, NoIcmp).id = Key(d)
    BY FedIs
  <2>3. Key(d) \in DOMAIN store.policies /\ store.policies[Key(d)] = FedPolicy(d, NoIcmp).body
    BY <2>1, PolicyStored
  <2>4. KindIsStaged(Key(d)) <=> d.kind \in StagedKinds
    BY DEF KindIsStaged, Key
  <2>5. QED
    BY <2>1, <2>2, <2>3, <2>4
<1>8. S = {FedPolicy(d, NoIcmp) : d \in all}
  BY DEF FedTier
<1>9. \A d \in here : fed[d] = FedPolicy(d, NoIcmp)
  OBVIOUS
<1>10. {l[i] : i \in U} = {fed[d] : d \in here}
  <2> HIDE DEF U, ids, l, here, fed, all, S
  <2>1. ASSUME NEW i \in U
        PROVE  \E d \in here : l[i] = fed[d]
    <3>1. i \in DOMAIN l /\ ~KindIsStaged(l[i].id)
      BY <1>2
    <3>2. l[i] \in S
      BY <1>1, <3>1 DEF Ordered
    <3>3. PICK d \in all : l[i] = FedPolicy(d, NoIcmp)
      BY <1>8, <3>2
    <3>4. d \in here
      BY <1>6, <1>7, <3>1, <3>3
    <3>5. QED
      BY <1>9, <3>3, <3>4
  <2>2. ASSUME NEW d \in here
        PROVE  \E i \in U : l[i] = fed[d]
    <3>1. d \in all /\ d.kind \notin StagedKinds
      BY <1>6
    <3>2. PICK i \in DOMAIN l : l[i] = FedPolicy(d, NoIcmp)
      BY <1>1, <1>8, <3>1 DEF Ordered
    <3>3. i \in U
      BY <1>2, <1>7, <3>1, <3>2
    <3>4. QED
      BY <1>9, <3>2, <3>3
  <2>3. QED
    BY <2>1, <2>2
<1>11. DOMAIN a = DOMAIN some /\ DOMAIN some = DOMAIN live
  OBVIOUS
<1>12. ASSUME NEW d \in here, NEW k \in DOMAIN live, some[k] = fed[d]
       PROVE  a[k] = DocSays(raw, d, dir, s, x)
  <2>1. pos[k] \in DOMAIN l /\ live[k] = ids[pos[k]] /\ some[k] = l[pos[k]]
    <3>1. pos[k] \in U /\ live[k] = ids[pos[k]]
      BY <1>4 DEF Picks
    <3> HIDE DEF U, ids, l, live
    <3>2. QED
      BY <1>2, <3>1
  <2>2. live[k] = fed[d].id
    <3> HIDE DEF U, ids, l, live, some, fed
    <3>1. QED
      BY <1>2, <1>12, <2>1
  <2>3. d \in all
    BY <1>6
  <2>4. live[k] = Key(d) /\ store.policies[live[k]] = FedPolicy(d, NoIcmp).body /\ d \in Felt(raw)
    <3> HIDE DEF U, ids, l, live, some, fed, all, here
    <3>1. QED
      BY <1>7, <1>9, <2>2, <2>3
  <2> DEFINE policy == policies[k]
  <2>5. policy.rules = FedPolicy(d, NoIcmp).body[dir] /\ a[k] = PolicyRun(store.member, policy, f, raw.icmp)
    <3> HIDE DEF U, ids, l, live, some, fed, all, here, f
    <3>1. QED
      BY <2>4
  <2> HIDE DEF policy
  <2>6. PolicyRun(GraphOf(raw, NoIcmp).store.member, policy, Flow(s.ip, x.ip), raw.icmp)
          = DocSays(raw, d, dir, s, x)
    BY <2>4, <2>5, PolicyRunAsWritten
  <2>7. QED
    BY <2>5, <2>6
<1>13. TierRun(store.member, PolprogTier(tier, dir, store), f, raw.icmp)
         = IF FirstOf(a, "none") = "none" THEN TierEnd(tier, live) ELSE FirstOf(a, "none")
  <2>1. TierPolicies(tier, dir) = ids
    BY DEF TierIs
  <2> HIDE DEF ids, f
  <2>2. /\ PolprogTier(tier, dir, store).policies = policies
        /\ PolprogTier(tier, dir, store).end = TierEnd(tier, live)
    BY <2>1 DEF PolprogTier
  <2> HIDE DEF policies, live
  <2>3. QED
    BY <2>2 DEF TierRun, PoliciesRun
<1>14. tier.default = t.default
  BY DEF TierIs
<1>15. live = <<>> <=> DOMAIN live = {}
  <2>1. \E N \in Nat : DOMAIN live = 1..N
    BY <1>5 DEF Ordered
  <2>2. live = [i \in DOMAIN live |-> live[i]]
    BY DEF Kept
  <2> HIDE DEF live
  <2>3. DOMAIN live = {} => live = <<>>
    BY <2>2
  <2>4. live = <<>> => DOMAIN live = {}
    OBVIOUS
  <2>5. QED
    BY <2>3, <2>4
<1>16. Heard(raw, dir, s, x, here, fed, some, a)
  <2> HIDE DEF here, fed, some, a, live
  <2>1. QED
    BY <1>11, <1>12 DEF Heard
<1>17. /\ here = {} <=> DOMAIN some = {}
       /\ TierSays(raw, off, e, dir, s, x, t)
            = IF here = {} THEN "pass"
              ELSE IF FirstOf(a, "none") = "none" THEN t.default ELSE FirstOf(a, "none")
  <2>1. here = Governing(raw, off, e, dir, t) /\ Ordered(some, {fed[d] : d \in here})
    BY <1>5, <1>10
  <2>2. \A d \in here : fed[d].order = d.order
    BY <1>6, <1>7, <1>9
  <2> HIDE DEF here, fed, some, a
  <2>3. QED
    BY <1>16, <2>1, <2>2, TierDecides
<1>18. DOMAIN a = {} => FirstOf(a, "none") = "none"
  <2> HIDE DEF a
  <2>1. QED
    BY FirstOfNone
<1> HIDE DEF here, a, some, live
<1>19. QED
  BY <1>11, <1>13, <1>14, <1>15, <1>17, <1>18 DEF TierEnd

\* The tiers of a program are those of its endpoint's path that have a policy in the
\* direction; of the others nothing is written.
LEMMA ProgramTiers ==
  ASSUME NEW raw, Written(raw), NEW off, Off(off), NEW e \in Range(raw.endpoints),
         NEW dir \in Directions, NEW s, NEW x, NEW wep, NEW path,
         WepHas(raw, NoIcmp, e, wep, path), path = InOrder(OnPath(raw, NoIcmp, e)),
         NEW V, V = {k \in DOMAIN wep.tiers : TierPolicies(wep.tiers[k], dir) # <<>>},
         NEW kept, kept = Kept(wep.tiers, V)
  PROVE  \E some, P :
           /\ DOMAIN some = DOMAIN kept /\ Ordered(some, P) /\ P \subseteq Tiers(raw)
           /\ \A t \in Tiers(raw) \ P : TierSays(raw, off, e, dir, s, x, t) = "pass"
           /\ \A m \in DOMAIN kept : TierIs(raw, NoIcmp, e, kept[m], dir, some[m])
<1> DEFINE all == OnPath(raw, NoIcmp, e)
<1>1. Ordered(path, all) /\ all \subseteq Tiers(raw)
  <2>1. Orderable(all)
    BY OnPathIs
  <2>2. all \subseteq Tiers(raw) /\ path = InOrder(all)
    BY DEF OnPath
  <2> HIDE DEF all
  <2>3. QED
    BY <2>1, <2>2, InOrderIs
<1>2. /\ DOMAIN wep.tiers = DOMAIN path
      /\ \A k \in DOMAIN path : TierIs(raw, NoIcmp, e, wep.tiers[k], dir, path[k])
  BY DEF WepHas
<1>3. \A t \in Tiers(raw) \ all : Governing(raw, raw.staged, e, dir, t) = {}
  BY OnPathIs
<1> HIDE DEF all
<1>4. V \subseteq DOMAIN path
  BY <1>2
<1>5. PICK pos : Picks(kept, wep.tiers, V, pos)
  <2>1. PICK N \in Nat : DOMAIN path = 1..N
    BY <1>1 DEF Ordered
  <2>2. QED
    BY <1>4, <2>1, KeptIs
<1> DEFINE some == [m \in DOMAIN kept |-> path[pos[m]]]
           P == {path[k] : k \in V}
<1>6. Ordered(some, P)
  BY <1>1, <1>4, <1>5, PickedOrdered
<1>7. P \subseteq Tiers(raw)
  BY <1>1, <1>4 DEF Ordered
<1>8. ASSUME NEW t \in Tiers(raw) \ P
      PROVE  Governing(raw, raw.staged, e, dir, t) = {}
  <2>1. CASE t \notin all
    BY <1>3, <2>1
  <2>2. CASE t \in all
    <3>1. PICK k \in DOMAIN path : path[k] = t
      BY <1>1, <2>2 DEF Ordered
    <3>2. k \notin V
      BY <3>1
    <3>3. TierPolicies(wep.tiers[k], dir) = <<>>
      BY <1>2, <3>1, <3>2
    <3> DEFINE l == InOrder(FedTier(raw, NoIcmp, e, dir, t))
    <3>4. [i \in DOMAIN l |-> l[i].id] = <<>>
      BY <1>2, <3>1, <3>3 DEF TierIs
    <3>5. DOMAIN l = {}
      <4> DEFINE ids == [i \in DOMAIN l |-> l[i].id]
      <4>1. DOMAIN ids = DOMAIN l
        OBVIOUS
      <4>2. DOMAIN ids = {}
        <5>1. ids = <<>>
          BY <3>4
        <5> HIDE DEF ids
        <5>2. QED
          BY <5>1
      <4>3. QED
        BY <4>1, <4>2
    <3>6. Ordered(l, FedTier(raw, NoIcmp, e, dir, t))
      <4>1. Orderable(FedTier(raw, NoIcmp, e, dir, t))
        BY FedTierIs
      <4>2. QED
        BY <4>1, InOrderIs
    <3> HIDE DEF l
    <3>7. FedTier(raw, NoIcmp, e, dir, t) = {}
      BY <3>5, <3>6 DEF Ordered
    <3>8. QED
      BY <3>7 DEF FedTier
  <2>3. QED
    BY <2>1, <2>2
<1>9. ASSUME NEW t \in Tiers(raw) \ P
      PROVE  TierSays(raw, off, e, dir, s, x, t) = "pass"
  <2>1. Governing(raw, off, e, dir, t) = {}
    <3>1. Governing(raw, off, e, dir, t)
            = {d \in Governing(raw, raw.staged, e, dir, t) : d.kind \notin StagedKinds}
      BY GoverningEnforced
    <3>2. QED
      BY <1>8, <3>1
  <2>2. QED
    BY <2>1, TierFirst
<1>10. \A m \in DOMAIN kept : TierIs(raw, NoIcmp, e, kept[m], dir, some[m])
  BY <1>2, <1>4, <1>5 DEF Picks
<1>11. DOMAIN some = DOMAIN kept
  OBVIOUS
<1> HIDE DEF some, P
<1>12. QED
  BY <1>6, <1>7, <1>9, <1>10, <1>11

\* The profile at the end of a program allows.
LEMMA ProfilesAllow ==
  ASSUME NEW member, NEW profiles, DOMAIN profiles = {1}, profiles[1].rules = AllowAll, NEW f, NEW icmp
  PROVE  PoliciesRun(member, profiles, f, icmp) = "allow"
<1> DEFINE a == [i \in DOMAIN AllowAll |->
                   IF Matches(member, AllowAll[i], f) /\ RuleICMPMatchesProbe(AllowAll[i], icmp)
                   THEN AllowAll[i].action ELSE "none"]
           b == [i \in DOMAIN profiles |-> PolicyRun(member, profiles[i], f, icmp)]
<1>1. /\ Matches(member, AllowAll[1], f) /\ AllowAll[1].action = "allow"
      /\ RuleICMPMatchesProbe(AllowAll[1], icmp) /\ DOMAIN AllowAll = {1}
  BY DEF Matches, PeerMatches, AllowAll, RuleICMPMatchesProbe, SaysIcmp, NoIcmp
<1>2. DOMAIN a = {1} /\ a[1] = "allow"
  BY <1>1
<1>3. FirstOf(a, "none") = "allow"
  <2> HIDE DEF a
  <2>1. QED
    BY <1>2, FirstOfSame
<1>4. PolicyRun(member, profiles[1], f, icmp) = FirstOf(a, "none")
  BY DEF PolicyRun
<1>5. DOMAIN b = {1} /\ b[1] = "allow"
  <2> HIDE DEF a
  <2>1. QED
    BY <1>3, <1>4
<1>6. FirstOf(b, "none") = "allow"
  <2> HIDE DEF b
  <2>1. QED
    BY <1>5, FirstOfSame
<1>7. QED
  BY <1>6 DEF PoliciesRun

\* The only profile of a program is that of its namespace, which allows.
LEMMA ProgramProfiles ==
  ASSUME NEW raw, Written(raw), NEW e \in Range(raw.endpoints), NEW dir \in Directions,
         NEW wep, wep.profiles = <<<<"kns", e.ns>>>>, NEW store, store = GraphOf(raw, NoIcmp).store,
         NEW f, NEW icmp
  PROVE  PoliciesRun(store.member, PolprogRules(wep, dir, store).profiles, f, icmp) = "allow"
<1> DEFINE own == <<"kns", e.ns>>
           one == <<own>>
           T == {i \in DOMAIN one : one[i] \in DOMAIN store.profiles}
           l == Kept(one, T)
           profiles == [i \in DOMAIN l |-> [id |-> l[i], rules |-> store.profiles[l[i]][dir]]]
<1>1. own \in DOMAIN store.profiles /\ store.profiles[own][dir] = AllowAll
  <2>1. store.profiles = [k \in {<<"kns", y.ns>> : y \in Range(raw.endpoints)} |->
                                      [in |-> AllowAll, out |-> AllowAll]]
    BY StoreIs
  <2>2. <<"kns", e.ns>> \in {<<"kns", y.ns>> : y \in Range(raw.endpoints)}
    OBVIOUS
  <2>3. QED
    BY <2>1, <2>2 DEF Directions
<1>2. DOMAIN one = 1..1 /\ one[1] = own
  <2> HIDE DEF own
  <2>1. QED
    OBVIOUS
<1>3. T = 1..1
  <2> HIDE DEF one, own
  <2>1. QED
    BY <1>1, <1>2
<1>4. PICK pos : Picks(l, one, T, pos)
  <2> HIDE DEF one, T
  <2>1. QED
    BY <1>3, KeptIs
<1>5. DOMAIN l = {1} /\ l[1] = own
  <2>1. /\ \A m \in DOMAIN l : pos[m] \in T /\ l[m] = one[pos[m]]
        /\ \A m, n \in DOMAIN l : m < n => pos[m] < pos[n]
        /\ \A i \in T : \E m \in DOMAIN l : pos[m] = i
    BY <1>4 DEF Picks
  <2>2. DOMAIN l = 1..Cardinality(T)
    BY DEF Kept
  <2>3. Cardinality(T) \in Nat
    <3>1. T \subseteq 1..1
      BY <1>3
    <3> HIDE DEF T
    <3>2. QED
      BY <3>1, RankStep
  <2>4. Cardinality(T) = 1
    <3> HIDE DEF T, one, l
    <3>1. QED
      BY <1>3, <2>1, <2>2, <2>3
  <2> HIDE DEF T, one, l, own
  <2>5. QED
    BY <1>2, <1>3, <2>1, <2>2, <2>4
<1>6. DOMAIN profiles = {1} /\ profiles[1].rules = AllowAll
  <2> HIDE DEF l, own, T, one
  <2>1. QED
    BY <1>1, <1>5
<1>7. PolprogRules(wep, dir, store).profiles = profiles
  BY DEF PolprogRules
<1> HIDE DEF profiles
<1>8. QED
  BY <1>6, <1>7, ProfilesAllow

\* The program of an endpoint allows the packet of the probe when its side does as written.
LEMMA ProgramAsWritten ==
  ASSUME NEW raw, Written(raw), ProbeAsked(raw), NEW off, Off(off),
         NEW e \in Range(raw.endpoints), NEW dir \in Directions,
         NEW s \in Range(raw.endpoints), NEW x \in Range(raw.endpoints)
  PROVE  LET g == GraphOf(raw, NoIcmp)
         IN  e.unpoliced \/ ProgramAllows(g.store.member, PolprogRules(g.wepById[e.id], dir, g.store),
                                          Flow(s.ip, x.ip), raw.icmp)
               <=> Side(raw, off, e, dir, s, x)
<1> DEFINE store == GraphOf(raw, NoIcmp).store
           wep == GraphOf(raw, NoIcmp).wepById[e.id]
           prog == PolprogRules(wep, dir, store)
           path == InOrder(OnPath(raw, NoIcmp, e))
           V == {k \in DOMAIN wep.tiers : TierPolicies(wep.tiers[k], dir) # <<>>}
           kept == Kept(wep.tiers, V)
           f == Flow(s.ip, x.ip)
           a == [i \in DOMAIN prog.tiers |-> TierRun(store.member, prog.tiers[i], f, raw.icmp)]
<1>1. WepHas(raw, NoIcmp, e, wep, path)
  BY WepIs
<1>2. PICK some, P :
        /\ DOMAIN some = DOMAIN kept /\ Ordered(some, P) /\ P \subseteq Tiers(raw)
        /\ \A t \in Tiers(raw) \ P : TierSays(raw, off, e, dir, s, x, t) = "pass"
        /\ \A m \in DOMAIN kept : TierIs(raw, NoIcmp, e, kept[m], dir, some[m])
  <2> HIDE DEF wep
  <2>1. QED
    BY <1>1, ProgramTiers
<1>3. prog.tiers = [i \in DOMAIN kept |-> PolprogTier(kept[i], dir, store)]
  BY DEF PolprogRules
<1>4. ASSUME NEW m \in DOMAIN kept
      PROVE  TierRun(store.member, PolprogTier(kept[m], dir, store), f, raw.icmp)
               = TierSays(raw, off, e, dir, s, x, some[m])
  <2>1. some[m] \in Tiers(raw)
    BY <1>2 DEF Ordered
  <2>2. some[m].default \in {"pass", "deny"}
    BY <2>1 DEF Written
  <2>3. TierIs(raw, NoIcmp, e, kept[m], dir, some[m])
    BY <1>2
  <2> HIDE DEF kept
  <2>4. QED
    BY <2>2, <2>3, TierRunAsWritten
<1>5. SideHeard(raw, off, e, dir, s, x, some, a)
  <2> HIDE DEF kept, store, f, prog
  <2>1. QED
    BY <1>2, <1>3, <1>4 DEF SideHeard
<1>6. Side(raw, off, e, dir, s, x) <=> e.unpoliced \/ FirstOf(a, "pass") \in {"pass", "allow"}
  <2> HIDE DEF a, kept
  <2>1. QED
    BY <1>2, <1>5, SideDecides
<1>7. PoliciesRun(store.member, prog.profiles, f, raw.icmp) = "allow"
  <2>1. wep.profiles = <<<<"kns", e.ns>>>>
    BY <1>1 DEF WepHas
  <2> HIDE DEF wep
  <2>2. QED
    BY <2>1, ProgramProfiles
<1>8. ProgramAllows(store.member, prog, f, raw.icmp) <=> FirstOf(a, "pass") \in {"pass", "allow"}
  <2> HIDE DEF prog, store, f
  <2>1. QED
    BY <1>7 DEF ProgramAllows
<1> HIDE DEF a
<1>9. QED
  BY <1>6, <1>8

\* Every program that a written request needs does what the enforced documents say.
LEMMA ProgramsOf ==
  ASSUME NEW raw, Written(raw), ProbeAsked(raw)
  PROVE  LET g == BuildGraph(ApplyInlineResources(raw), NoIcmp)
         IN  \A e, x \in Range(raw.endpoints), dir \in Directions :
               e # x /\ ~e.unpoliced =>
                 LET s == IF dir = "in" THEN x ELSE e
                     d == IF dir = "in" THEN e ELSE x
                 IN  ProgramAllows(g.store.member, PolprogRules(g.wepById[e.id], dir, g.store),
                                   Flow(s.ip, d.ip), raw.icmp)
                       = Side(raw, FALSE, e, dir, s, d)
<1> DEFINE g == GraphOf(raw, NoIcmp)
<1>1. g = BuildGraph(ApplyInlineResources(raw), NoIcmp)
  BY DEF GraphOf
<1>2. Off(FALSE)
  BY DEF Off
<1>3. ASSUME NEW e \in Range(raw.endpoints), NEW x \in Range(raw.endpoints), NEW dir \in Directions,
             NEW s \in {e, x}, NEW d \in {e, x}, ~e.unpoliced
      PROVE  ProgramAllows(g.store.member, PolprogRules(g.wepById[e.id], dir, g.store),
                           Flow(s.ip, d.ip), raw.icmp)
               = Side(raw, FALSE, e, dir, s, d)
  <2>1. PICK off : off = FALSE
    OBVIOUS
  <2>2. Off(off)
    BY <2>1 DEF Off
  <2>3. e.unpoliced \/ ProgramAllows(g.store.member, PolprogRules(g.wepById[e.id], dir, g.store),
                                          Flow(s.ip, d.ip), raw.icmp)
               <=> Side(raw, off, e, dir, s, d)
    BY <2>2, ProgramAsWritten
  <2>4. QED
    BY <1>3, <2>1, <2>3 DEF ProgramAllows, Side
<1> HIDE DEF g
<1>4. QED
  BY <1>1, <1>3

\* In every sweep the eBPF programs decide the probe as the enforced documents say: staged ones
\* leave no trace, whichever of them are in a tier (polprogRules of bpf.go).
THEOREM SweepProgramsAgree == Spec => []ProgramsAgree
<1>1. IInv => ProgramsAgree
  <2> SUFFICES ASSUME IInv, HasRaw, ProbeAsked(req.raw)
               PROVE  LET raw == req.raw
                          g == BuildGraph(ApplyInlineResources(raw), NoIcmp)
         IN  \A e, x \in Range(raw.endpoints), dir \in Directions :
               e # x /\ ~e.unpoliced =>
                 LET s == IF dir = "in" THEN x ELSE e
                     d == IF dir = "in" THEN e ELSE x
                 IN  ProgramAllows(g.store.member, PolprogRules(g.wepById[e.id], dir, g.store),
                                   Flow(s.ip, d.ip), raw.icmp)
                       = Side(raw, FALSE, e, dir, s, d)
    BY DEF ProgramsAgree, ProbeAsked
  <2>1. req \in Requests
    BY DEF IInv, Shape
  <2>2. Written(req.raw)
    BY <2>1, DocumentsAssumption DEF HasRaw
  <2>3. QED
    BY <2>2, ProgramsOf
<1>2. QED
  BY <1>1, SpecIInv, PTL

-----------------------------------------------------------------------------
(* The chains *)

\* A policy that a tier of an endpoint names is stored, and looked up by either direction.
LEMMA NamedStored ==
  ASSUME NEW raw, Written(raw), NEW probe, NEW y \in Range(raw.endpoints), NEW g, g = GraphOf(raw, probe),
         NEW wep, wep = g.wepById[y.id], NEW k \in DOMAIN wep.tiers, NEW dir \in Directions,
         NEW id \in Range(TierPolicies(wep.tiers[k], dir))
  PROVE  id \in DOMAIN g.store.policies /\ id \in TiersPolicies(wep)
<1> DEFINE path == InOrder(OnPath(raw, probe, y))
<1>1. WepHas(raw, probe, y, wep, path)
  BY WepIs
<1> HIDE DEF path
<1>2. TierIs(raw, probe, y, wep.tiers[k], dir, path[k])
  BY <1>1 DEF WepHas
<1> DEFINE S == FedTier(raw, probe, y, dir, path[k])
           l == InOrder(S)
<1>3. Ordered(l, S)
  <2>1. Orderable(S)
    BY FedTierIs
  <2> HIDE DEF S
  <2>2. QED
    BY <2>1, InOrderIs
<1>4. PICK i \in DOMAIN l : id = l[i].id
  <2>1. TierPolicies(wep.tiers[k], dir) = [i \in DOMAIN l |-> l[i].id]
    BY <1>2 DEF TierIs
  <2> HIDE DEF l
  <2>2. QED
    BY <2>1 DEF Range
<1>5. PICK d \in Governing(raw, raw.staged, y, dir, path[k]) : l[i] = FedPolicy(d, probe)
  <2>1. l[i] \in S
    <3> HIDE DEF l, S
    <3>1. QED
      BY <1>3, <1>4 DEF Ordered
  <2> HIDE DEF l
  <2>2. QED
    BY <2>1 DEF FedTier
<1>6. d \in Felt(raw)
  BY GoverningAre
<1> HIDE DEF l, S
<1>7. id = Key(d)
  BY <1>4, <1>5, FedIs
<1>8. id \in DOMAIN g.store.policies
  BY <1>6, <1>7, PolicyStored
<1>9. id \in TiersPolicies(wep)
  BY DEF TiersPolicies, TierPolicies, Directions
<1>10. QED
  BY <1>8, <1>9

\* The chains rendered for some endpoints of a written request are closed.
LEMMA ChainsOf ==
  ASSUME NEW raw, Written(raw), NEW g, g = GraphOf(raw, NoIcmp), NEW matched,
         matched \subseteq DOMAIN g.wepById
  PROVE  Closed(g, matched)
<1> DEFINE chains == PolicyChains(g, matched, TRUE)
<1>1. ASSUME NEW e \in matched
      PROVE  /\ JumpedTo(g.wepById[e]) \subseteq chains
             /\ Range(g.wepById[e].profiles) \subseteq ProfileChains(g, matched, TRUE)
  <2> DEFINE wep == g.wepById[e]
  <2>1. PICK y \in Range(raw.endpoints) : y.id = e
    <3>1. g.wepById = [i \in {x.id : x \in Range(raw.endpoints)} |-> WepOf(raw, NoIcmp, i)]
      BY StoreIs
    <3>2. QED
      BY <3>1
  <2>2. JumpedTo(wep) \subseteq chains
    <3> SUFFICES ASSUME NEW id \in JumpedTo(wep)
                 PROVE  id \in chains
      OBVIOUS
    <3>1. PICK k \in DOMAIN wep.tiers, dir \in Directions : id \in Range(TierPolicies(wep.tiers[k], dir))
      BY DEF JumpedTo
    <3>2. id \in DOMAIN g.store.policies /\ id \in TiersPolicies(wep)
      BY <2>1, <3>1, NamedStored
    <3> HIDE DEF wep
    <3>3. QED
      BY <3>2 DEF PolicyChains, wep
  <2>3. Range(wep.profiles) \subseteq ProfileChains(g, matched, TRUE)
    <3>1. wep.profiles = <<<<"kns", y.ns>>>>
      <4>1. WepHas(raw, NoIcmp, y, GraphOf(raw, NoIcmp).wepById[y.id], InOrder(OnPath(raw, NoIcmp, y)))
        BY WepIs
      <4>2. QED
        BY <2>1, <4>1 DEF WepHas
    <3>2. g.store.profiles = [p \in {<<"kns", x.ns>> : x \in Range(raw.endpoints)} |->
                                [in |-> AllowAll, out |-> AllowAll]]
      BY StoreIs
    <3>3. \A p \in Range(wep.profiles) : p = <<"kns", y.ns>>
      BY <3>1 DEF Range
    <3>4. <<"kns", y.ns>> \in DOMAIN g.store.profiles
      BY <3>2
    <3>5. QED
      BY <3>3, <3>4 DEF ProfileChains
  <2>4. QED
    BY <2>2, <2>3
<1>2. ASSUME NEW id \in chains
      PROVE  \E e \in matched : \E own \in TiersPolicies(g.wepById[e]) : own[2] = id[2] /\ own[3] = id[3]
  <2>1. PolicyIDKey(id) \in {PolicyIDKey(own) : own \in UNION {TiersPolicies(g.wepById[e]) : e \in matched}}
    BY DEF PolicyChains
  <2>2. PICK e \in matched : \E own \in TiersPolicies(g.wepById[e]) : PolicyIDKey(id) = PolicyIDKey(own)
    BY <2>1
  <2>3. QED
    BY <2>2 DEF PolicyIDKey
<1> HIDE DEF chains
<1>3. QED
  BY <1>1, <1>2 DEF Closed, chains

\* In every sweep the chains that iptables and nftables render for any choice of endpoints are
\* closed under the jumps between them (collectFilterChains of iptables.go).
THEOREM SweepChainsClosed == Spec => []ChainsClosed
<1>1. IInv => ChainsClosed
  <2> SUFFICES ASSUME IInv, HasRaw,
                      NEW matched \in SUBSET DOMAIN BuildGraph(ApplyInlineResources(req.raw), NoIcmp).wepById
               PROVE  Closed(BuildGraph(ApplyInlineResources(req.raw), NoIcmp), matched)
    BY DEF ChainsClosed
  <2>1. req \in Requests
    BY DEF IInv, Shape
  <2>2. Written(req.raw)
    BY <2>1, DocumentsAssumption DEF HasRaw
  <2>3. BuildGraph(ApplyInlineResources(req.raw), NoIcmp) = GraphOf(req.raw, NoIcmp)
    BY DEF GraphOf
  <2>4. QED
    BY <2>2, <2>3, ChainsOf
<1>2. QED
  BY <1>1, SpecIInv, PTL

-----------------------------------------------------------------------------
(* Requests that read alike have the same matrix *)

\* An endpoint is among those a peer names by the same documents in both requests.
SameReading(raw, raw2) ==
  /\ raw2.icmp = raw.icmp /\ Tiers(raw2) = Tiers(raw)
  /\ \A e, ref : IsIn(raw2, e, ref) <=> IsIn(raw, e, ref)
  /\ \A e, ref : Named(raw2, e, ref) <=> Named(raw, e, ref)

\* A policy of one request does there what another does in the other.
SameSay(raw, raw2, d, c) ==
  /\ c.tier = d.tier /\ c.order = d.order /\ c.selects = d.selects
  /\ \A dir \in Directions :
       /\ Governs(c, dir) <=> Governs(d, dir)
       /\ \A s, x : DocSays(raw2, c, dir, s, x) = DocSays(raw, d, dir, s, x)

\* What f makes of the members of S.
Image(f, S) == {f[d] : d \in S}

\* f takes each policy in force in one request to one that says the same in the other.
SamePolicies(raw, raw2, f) ==
  /\ InForce(raw2, raw2.staged) = Image(f, InForce(raw, raw.staged))
  /\ \A d \in InForce(raw, raw.staged) : SameSay(raw, raw2, d, f[d])

\* Two requests that read alike, policy by policy.
Corresponds(raw, raw2, f) ==
  Written(raw) /\ Written(raw2) /\ SameReading(raw, raw2) /\ SamePolicies(raw, raw2, f)

\* Who governs, and what a tier says, in both.
GovernAlike(raw, raw2, f, owner, dir, t) ==
  Governing(raw2, raw2.staged, owner, dir, t) = Image(f, Governing(raw, raw.staged, owner, dir, t))

SaysAlike(raw, raw2, owner, dir, s, x, t) ==
  TierSays(raw2, raw2.staged, owner, dir, s, x, t) = TierSays(raw, raw.staged, owner, dir, s, x, t)

\* Rules apply alike where peers are read alike.
LEMMA AppliesAlike ==
  ASSUME NEW raw, NEW raw2, SameReading(raw, raw2), NEW rule, NEW s, NEW x
  PROVE  Applies(raw2, rule, s, x) <=> Applies(raw, rule, s, x)
<1>1. \A peer, e : Describes(raw2, peer, e) <=> Describes(raw, peer, e)
  BY DEF SameReading, Describes
<1>2. raw2.icmp = raw.icmp
  BY DEF SameReading
<1>3. QED
  BY <1>1, <1>2 DEF Applies

\* The policies of a tier that govern an endpoint are those that correspond.
LEMMA GoverningAlike ==
  ASSUME NEW raw, NEW raw2, NEW f, Corresponds(raw, raw2, f), NEW owner, NEW dir \in Directions, NEW t
  PROVE  GovernAlike(raw, raw2, f, owner, dir, t)
<1> DEFINE in(w, d) == d.tier = t.name /\ Governs(d, dir) /\ \A ref \in d.selects : IsIn(w, owner, ref)
<1>0. SameReading(raw, raw2) /\ SamePolicies(raw, raw2, f)
  BY DEF Corresponds
<1>1. ASSUME NEW d \in InForce(raw, raw.staged)
      PROVE  in(raw2, f[d]) <=> in(raw, d)
  <2>1. f[d].tier = d.tier /\ f[d].selects = d.selects /\ (Governs(f[d], dir) <=> Governs(d, dir))
    BY <1>0, <1>1 DEF SamePolicies, SameSay
  <2>2. \A e, ref : IsIn(raw2, e, ref) <=> IsIn(raw, e, ref)
    BY <1>0 DEF SameReading
  <2>3. QED
    BY <2>1, <2>2
<1>2. InForce(raw2, raw2.staged) = {f[d] : d \in InForce(raw, raw.staged)}
  BY <1>0 DEF SamePolicies, Image
<1>3. /\ Governing(raw2, raw2.staged, owner, dir, t) = {d \in InForce(raw2, raw2.staged) : in(raw2, d)}
      /\ Governing(raw, raw.staged, owner, dir, t) = {d \in InForce(raw, raw.staged) : in(raw, d)}
  BY DEF Governing
<1> HIDE DEF in
<1>4. QED
  BY <1>1, <1>2, <1>3 DEF Image, GovernAlike

\* A tier says the same.
LEMMA TierAlike ==
  ASSUME NEW raw, NEW raw2, NEW f, Corresponds(raw, raw2, f), NEW owner, NEW dir \in Directions,
         NEW s, NEW x, NEW t
  PROVE  SaysAlike(raw, raw2, owner, dir, s, x, t)
<1>0. Written(raw) /\ Written(raw2) /\ SameReading(raw, raw2) /\ SamePolicies(raw, raw2, f)
  BY DEF Corresponds
<1> DEFINE here == Governing(raw, raw.staged, owner, dir, t)
           there == Governing(raw2, raw2.staged, owner, dir, t)
           says(d) == DocSays(raw, d, dir, s, x)
           tier == TierSays(raw, raw.staged, owner, dir, s, x, t)
           tier2 == TierSays(raw2, raw2.staged, owner, dir, s, x, t)
<1> SUFFICES tier2 = tier
  BY DEF SaysAlike
<1>1. there = {f[d] : d \in here}
  <2>1. GovernAlike(raw, raw2, f, owner, dir, t)
    BY GoverningAlike
  <2>2. QED
    BY <2>1 DEF Image, GovernAlike
<1>2. \A d \in here : f[d].order = d.order /\ DocSays(raw2, f[d], dir, s, x) = says(d)
  <2>1. \A d \in here : d \in InForce(raw, raw.staged)
    BY DEF Governing
  <2>2. QED
    BY <1>0, <2>1 DEF SamePolicies, SameSay
<1>3. /\ here = {} => tier = "pass"
      /\ here # {} /\ (\A d \in here : says(d) = "none") => tier = t.default
      /\ \A d \in here :
           says(d) # "none" /\ (\A c \in here : says(c) # "none" => d.order <= c.order)
             => tier = says(d)
  BY <1>0, TierFirst
<1>4. /\ there = {} => tier2 = "pass"
      /\ there # {} /\ (\A d \in there : DocSays(raw2, d, dir, s, x) = "none") => tier2 = t.default
      /\ \A d \in there :
           /\ DocSays(raw2, d, dir, s, x) # "none"
           /\ \A c \in there : DocSays(raw2, c, dir, s, x) # "none" => d.order <= c.order
           => tier2 = DocSays(raw2, d, dir, s, x)
  BY <1>0, TierFirst
<1>5. \A d \in here : d.order \in Nat
  <2>1. \A d \in here : d \in InForce(raw, raw.staged)
    BY DEF Governing
  <2>2. QED
    BY <1>0, <2>1, InForceAre DEF PolicyWritten
<1> HIDE DEF here, there, says, tier, tier2
<1>6. CASE here = {}
  BY <1>1, <1>3, <1>4, <1>6
<1>7. CASE here # {} /\ \A d \in here : says(d) = "none"
  <2>1. there # {} /\ \A c \in there : DocSays(raw2, c, dir, s, x) = "none"
    BY <1>1, <1>2, <1>7
  <2>2. QED
    BY <1>3, <1>4, <1>7, <2>1
<1>8. CASE \E d \in here : says(d) # "none"
  <2> DEFINE speak == {d \in here : says(d) # "none"}
  <2>1. speak # {} /\ \A d \in speak : d.order \in Nat
    BY <1>5, <1>8
  <2>2. PICK d \in speak : \A c \in speak : d.order <= c.order
    <3> HIDE DEF speak
    <3>1. QED
      BY <2>1, FirstRecord
  <2>3. tier = says(d)
    BY <1>3, <2>2
  <2>4. f[d] \in there /\ DocSays(raw2, f[d], dir, s, x) = says(d) /\ says(d) # "none"
    BY <1>1, <1>2, <2>2
  <2>5. \A c \in there : DocSays(raw2, c, dir, s, x) # "none" => f[d].order <= c.order
    <3>1. \A c \in here : DocSays(raw2, f[c], dir, s, x) # "none" => f[d].order <= f[c].order
      BY <1>2, <2>2
    <3>2. QED
      BY <1>1, <3>1
  <2>6. tier2 = says(d)
    BY <1>4, <2>4, <2>5
  <2>7. QED
    BY <2>3, <2>6
<1>9. QED
  BY <1>6, <1>7, <1>8

\* So does a side.
LEMMA SideAlike ==
  ASSUME NEW raw, NEW raw2, NEW f, Corresponds(raw, raw2, f), NEW owner, NEW dir \in Directions,
         NEW s, NEW x
  PROVE  Side(raw2, raw2.staged, owner, dir, s, x) <=> Side(raw, raw.staged, owner, dir, s, x)
<1>1. \A t : SaysAlike(raw, raw2, owner, dir, s, x, t)
  BY TierAlike
<1>2. Tiers(raw2) = Tiers(raw)
  BY DEF Corresponds, SameReading
<1>3. QED
  BY <1>1, <1>2 DEF Side, SaysAlike

\* Requests whose workloads and Services are the same.
SameFrame(raw, raw2) ==
  /\ raw2.endpoints = raw.endpoints /\ raw2.slices = raw.slices
  /\ Range(All(raw2, raw2.services, "Service")) = Range(All(raw, raw.services, "Service"))

\* Every side of every flow is written alike in both.
SidesAlike(raw, raw2) ==
  \A s, x \in Range(raw.endpoints), dir \in Directions :
    LET owner == IF dir = "out" THEN s ELSE x
    IN  Side(raw2, raw2.staged, owner, dir, s, x) <=> Side(raw, raw.staged, owner, dir, s, x)

\* A Service of the request, with the addresses of its slices and of its selector.
ServiceMade(raw, svc) ==
  LET sel == Selected(raw, svc)
  IN  [col      |-> svc.col,
       slices   |-> {s.addresses : s \in {x \in Range(raw.slices) : x.svc = svc.name /\ x.ns = svc.ns}},
       selected |-> [n \in DOMAIN sel |-> sel[n].ip]]

\* What a request is made of.
MadeOf(r, raw) ==
  /\ r.endpoints = [k \in DOMAIN raw.endpoints |-> raw.endpoints[k].id]
  /\ r.hostEndpoints = <<>> /\ r.hep = <<>> /\ r.pairs = <<>>
  /\ DOMAIN r.ep = IdsOf(raw)
  /\ \A i \in IdsOf(raw) : r.ep[i].ip = Endpoint(raw, i).ip
                           /\ r.ep[i].role = Endpoint(raw, i).role
  /\ Range(r.services) = {ServiceMade(raw, svc) : svc \in Range(All(raw, raw.services, "Service"))}

\* Of the same endpoints and slices a Service is made the same.
LEMMA ServiceAlike ==
  ASSUME NEW raw, NEW raw2, raw2.endpoints = raw.endpoints, raw2.slices = raw.slices, NEW svc
  PROVE  ServiceMade(raw2, svc) = ServiceMade(raw, svc)
BY DEF ServiceMade, Selected

\* So is every request that is fed.
LEMMA MadeIs ==
  ASSUME NEW raw, Written(raw), NEW stream, NEW noCollapse, NEW r, r = Fed(raw, stream, noCollapse)
  PROVE  MadeOf(r, raw)
<1> DEFINE q == ApplyInlineResources(raw)
           by(i) == CHOOSE e \in Range(raw.endpoints) : e.id = i
           g == GraphOf(raw, raw.icmp)
           all == All(raw, raw.services, "Service")
<1>1. q.endpoints = raw.endpoints /\ q.slices = raw.slices /\ q.services = all
  BY Inlined
<1> HIDE DEF all
<1>2. \A svc : ServiceMade(q, svc) = ServiceMade(raw, svc)
  <2> HIDE DEF q
  <2>1. QED
    BY <1>1, ServiceAlike
<1>3. /\ r.endpoints = [k \in DOMAIN raw.endpoints |-> raw.endpoints[k].id]
      /\ r.hostEndpoints = <<>> /\ r.hep = <<>> /\ r.pairs = <<>>
      /\ r.ep = [i \in IdsOf(raw) |-> [ip |-> by(i).ip, node |-> by(i).node, role |-> by(i).role,
                                unpoliced |-> by(i).unpoliced, wep |-> g.wepById[i]]]
  <2> HIDE DEF q
  <2>1. QED
    BY <1>1 DEF Fed, GraphOf, q, IdsOf
<1>4. Range(r.services) = {ServiceMade(raw, svc) : svc \in Range(all)}
  <2>1. r.services = [k \in DOMAIN q.services |-> ServiceMade(q, q.services[k])]
    BY DEF Fed, q, ServiceMade
  <2> HIDE DEF q
  <2>2. r.services = [k \in DOMAIN all |-> ServiceMade(raw, all[k])]
    BY <1>1, <1>2, <2>1
  <2>3. QED
    BY <2>2 DEF Range
<1>5. \A i \in IdsOf(raw) : r.ep[i].ip = by(i).ip /\ r.ep[i].role = by(i).role
  BY <1>3
<1>6. DOMAIN r.ep = IdsOf(raw)
  BY <1>3
<1> HIDE DEF by
<1>7. \A i : Endpoint(raw, i) = by(i)
  BY DEF Endpoint, by
<1>8. QED
  BY <1>3, <1>4, <1>5, <1>6, <1>7 DEF MadeOf, all

\* Who is asked for, and the backends of a column, are the same in both.
SameAsked(r, r2) ==
  /\ ActorList(r2) = ActorList(r) /\ HepIds(r2) = HepIds(r)
  /\ Asked(r2, BuildActors(r2)) = Asked(r, BuildActors(r))
  /\ ServiceCols(r2) = ServiceCols(r)
  /\ \A svc : BackendIds(r2, svc) = BackendIds(r, svc)
  /\ \A col : ServiceOf(r2, col) = ServiceOf(r, col)

\* The same endpoints, slices and Services are asked for alike.
LEMMA AskedAlike ==
  ASSUME NEW raw, NEW raw2, SameFrame(raw, raw2), NEW r, MadeOf(r, raw), NEW r2, MadeOf(r2, raw2)
  PROVE  SameAsked(r, r2)
<1>1. raw2.endpoints = raw.endpoints /\ raw2.slices = raw.slices
      /\ Range(All(raw2, raw2.services, "Service")) = Range(All(raw, raw.services, "Service"))
  BY DEF SameFrame
<1>2. IdsOf(raw2) = IdsOf(raw) /\ \A i : Endpoint(raw2, i) = Endpoint(raw, i)
  BY <1>1 DEF IdsOf, Endpoint
<1>3. /\ r2.endpoints = r.endpoints /\ r2.hostEndpoints = r.hostEndpoints /\ r2.hep = r.hep
      /\ r2.pairs = r.pairs /\ \A i \in IdsOf(raw) : r2.ep[i].ip = r.ep[i].ip
  BY <1>1, <1>2 DEF MadeOf
<1>4. \A k \in DOMAIN r.endpoints : r.endpoints[k] \in IdsOf(raw)
  <2>1. r.endpoints = [k \in DOMAIN raw.endpoints |-> raw.endpoints[k].id]
    BY DEF MadeOf
  <2>2. QED
    BY <2>1 DEF IdsOf, Range
<1>5. Range(r2.services) = Range(r.services)
  <2>1. \A svc : ServiceMade(raw2, svc) = ServiceMade(raw, svc)
    BY <1>1, ServiceAlike
  <2>2. QED
    BY <1>1, <2>1 DEF MadeOf
<1>6. ActorList(r2) = ActorList(r)
  BY <1>3 DEF ActorList
<1>7. HepIds(r2) = HepIds(r)
  BY <1>3 DEF HepIds
<1>8. ServiceCols(r2) = ServiceCols(r) /\ \A col : ServiceOf(r2, col) = ServiceOf(r, col)
  BY <1>5 DEF ServiceCols, ServiceOf
<1>9. Asked(r2, BuildActors(r2)) = Asked(r, BuildActors(r))
  BY <1>3, <1>6, <1>8 DEF Asked, BuildActors
<1>10. EndpointIps(r2) = EndpointIps(r)
  <2>1. \A i \in Range(r.endpoints) : r2.ep[i].ip = r.ep[i].ip
    BY <1>3, <1>4 DEF Range
  <2>2. QED
    BY <1>3, <2>1 DEF EndpointIps
<1>11. \A ip : IpToId(r2, ip) = IpToId(r, ip)
  <2>1. \A k \in DOMAIN r.endpoints : r2.ep[r2.endpoints[k]].ip = r.ep[r.endpoints[k]].ip
    BY <1>3, <1>4
  <2>2. QED
    BY <1>3, <2>1 DEF IpToId
<1>12. \A svc : BackendIds(r2, svc) = BackendIds(r, svc)
  BY <1>10, <1>11 DEF BackendIds
<1>13. QED
  BY <1>6, <1>7, <1>8, <1>9, <1>12 DEF SameAsked

\* Without HostEndpoints the two sides decide.
LEMMA FlowOfActors ==
  ASSUME NEW r, NEW b, b = BuildActors(r), HepIds(r) = {},
         NEW x \in DOMAIN b.byId, NEW y \in DOMAIN b.byId
  PROVE  EvalFlow(r, b, x, y) <=> /\ OwnerVerdict(r.store, b.byId[x], b.byId[y], "out")
                                  /\ OwnerVerdict(r.store, b.byId[y], b.byId[x], "in")
<1>1. b.heps = {} /\ b.byId = ActorById(r)
  BY DEF BuildActors
<1>2. \A i \in DOMAIN b.byId : b.byId[i].kind = "wep"
  BY <1>1 DEF ActorById, WorkloadActor
<1>3. \A n, i : OthersOn(b, n, i) = {}
  BY <1>1 DEF OthersOn
<1>4. \A i, dir, f : ForwardAllows(r, b, i, dir, f) /\ PreDnatAllows(r, b, i, f)
  BY <1>3 DEF ForwardAllows, PreDnatAllows
<1>5. \A i \in DOMAIN b.byId : \A d, e, f, g : UntrackedAllows(r, b.byId[i], d, e, f, g)
  BY <1>2 DEF UntrackedAllows
<1> QED BY <1>4, <1>5 DEF EvalFlow

\* Two requests ask for the same pairs and have the same verdicts.
SameTruth(r, r2) == Truth(r2, BuildActors(r2)) = Truth(r, BuildActors(r))

\* A flow between two workloads is decided as it is written.
LEMMA FlowAsWritten ==
  ASSUME NEW raw, Written(raw), NEW stream, NEW noCollapse, NEW r, r = Fed(raw, stream, noCollapse),
         NEW s \in Range(raw.endpoints), NEW x \in Range(raw.endpoints)
  PROVE  EvalFlow(r, BuildActors(r), s.id, x.id)
           <=> Side(raw, raw.staged, s, "out", s, x) /\ Side(raw, raw.staged, x, "in", s, x)
<1> DEFINE b == BuildActors(r)
<1>1. HepIds(r) = {} /\ DOMAIN b.byId = IdsOf(raw)
  <2>1. FedShape(r, raw)
    BY FedActors
  <2>2. QED
    BY <2>1 DEF FedShape, BuildActors, ActorById
<1>2. s.id \in DOMAIN b.byId /\ x.id \in DOMAIN b.byId
  BY <1>1 DEF IdsOf
<1>3. EvalFlow(r, b, s.id, x.id) <=> /\ OwnerVerdict(r.store, b.byId[s.id], b.byId[x.id], "out")
                                     /\ OwnerVerdict(r.store, b.byId[x.id], b.byId[s.id], "in")
  BY <1>1, <1>2, FlowOfActors
<1>4. /\ OwnerVerdict(r.store, b.byId[s.id], b.byId[x.id], "out")
           <=> Side(raw, raw.staged, s, "out", s, x)
      /\ OwnerVerdict(r.store, b.byId[x.id], b.byId[s.id], "in")
           <=> Side(raw, raw.staged, x, "in", s, x)
  BY GraphAsWritten
<1>5. QED
  BY <1>3, <1>4

\* Two requests of the same workloads and Services whose documents read alike have the same matrix.
LEMMA TruthAlike ==
  ASSUME NEW raw, Written(raw), NEW raw2, Written(raw2), SameFrame(raw, raw2), SidesAlike(raw, raw2),
         NEW stream, NEW noCollapse, NEW r \in Requests, r = Fed(raw, stream, noCollapse),
         NEW stream2, NEW noCollapse2, NEW r2, r2 = Fed(raw2, stream2, noCollapse2)
  PROVE  SameTruth(r, r2)
<1> DEFINE b == BuildActors(r)
           b2 == BuildActors(r2)
<1>1. MadeOf(r, raw) /\ MadeOf(r2, raw2)
  BY MadeIs
<1>2. SameAsked(r, r2)
  BY <1>1, AskedAlike
<1>3. raw2.endpoints = raw.endpoints
  BY DEF SameFrame
<1>4. \A x \in IdsOf(raw) : \E e \in Range(raw.endpoints) : e.id = x
  BY DEF IdsOf
<1>5. \A x, y \in IdsOf(raw) : EvalFlow(r2, b2, x, y) <=> EvalFlow(r, b, x, y)
  <2> SUFFICES ASSUME NEW x \in IdsOf(raw), NEW y \in IdsOf(raw)
               PROVE  EvalFlow(r2, b2, x, y) <=> EvalFlow(r, b, x, y)
    OBVIOUS
  <2>1. PICK e \in Range(raw.endpoints) : e.id = x
    BY <1>4
  <2>2. PICK f \in Range(raw.endpoints) : f.id = y
    BY <1>4
  <2>3. EvalFlow(r, b, e.id, f.id)
          <=> Side(raw, raw.staged, e, "out", e, f) /\ Side(raw, raw.staged, f, "in", e, f)
    BY FlowAsWritten
  <2>4. EvalFlow(r2, b2, e.id, f.id)
          <=> Side(raw2, raw2.staged, e, "out", e, f) /\ Side(raw2, raw2.staged, f, "in", e, f)
    BY <1>3, FlowAsWritten
  <2>5. /\ Side(raw2, raw2.staged, e, "out", e, f) <=> Side(raw, raw.staged, e, "out", e, f)
        /\ Side(raw2, raw2.staged, f, "in", e, f) <=> Side(raw, raw.staged, f, "in", e, f)
    BY DEF SidesAlike, Directions
  <2>6. QED
    BY <2>1, <2>2, <2>3, <2>4, <2>5
<1>6. Range(b.list) \subseteq IdsOf(raw)
  <2>1. Range(b.list) \subseteq DOMAIN b.byId
    BY BuiltActors
  <2>2. FedShape(r, raw)
    BY FedActors
  <2>3. QED
    BY <2>1, <2>2 DEF FedShape, BuildActors, ActorById
<1> HIDE DEF b, b2
<1>7. \A p \in Asked(r, b) : Reaches(r2, b2, p[1], p[2]) <=> Reaches(r, b, p[1], p[2])
  <2> SUFFICES ASSUME NEW p \in Asked(r, b)
               PROVE  Reaches(r2, b2, p[1], p[2]) <=> Reaches(r, b, p[1], p[2])
    OBVIOUS
  <2>1. p[1] \in IdsOf(raw) /\ (p[2] \notin ServiceCols(r) => p[2] \in IdsOf(raw))
    BY <1>6 DEF Asked
  <2>2. /\ ServiceCols(r2) = ServiceCols(r) /\ \A svc : BackendIds(r2, svc) = BackendIds(r, svc)
        /\ \A col : ServiceOf(r2, col) = ServiceOf(r, col)
    BY <1>2 DEF SameAsked
  <2>3. CASE p[2] \in ServiceCols(r)
    <3>1. ServiceOf(r, p[2]) \in Range(r.services)
      BY <2>3 DEF ServiceCols, ServiceOf
    <3>2. BackendIds(r, ServiceOf(r, p[2])) \subseteq IdsOf(raw)
      BY <1>6, <3>1, BackendsListed DEF b
    <3>3. \A k \in BackendIds(r, ServiceOf(r, p[2])) : EvalFlow(r2, b2, p[1], k) <=> EvalFlow(r, b, p[1], k)
      BY <1>5, <2>1, <3>2
    <3>4. QED
      BY <2>2, <2>3, <3>3 DEF Reaches
  <2>4. CASE p[2] \notin ServiceCols(r)
    BY <1>5, <2>1, <2>2, <2>4 DEF Reaches
  <2>5. QED
    BY <2>3, <2>4
<1>8. Asked(r2, b2) = Asked(r, b)
  BY <1>2 DEF SameAsked, b, b2
<1>9. \A p \in Asked(r, b) : Word(Reaches(r2, b2, p[1], p[2])) = Word(Reaches(r, b, p[1], p[2]))
  BY <1>7 DEF Word
<1>10. Truth(r2, b2) = Truth(r, b)
  BY <1>8, <1>9 DEF Truth
<1>11. QED
  BY <1>10 DEF b, b2, SameTruth

-----------------------------------------------------------------------------
(* The advice of the cost report *)

\* What is kept of two lists that agree where they are kept is the same.
LEMMA KeptSame ==
  ASSUME NEW s, NEW t, NEW N \in Nat, NEW T, T \subseteq 1..N, \A n \in T : t[n] = s[n]
  PROVE  Kept(t, T) = Kept(s, T)
<1>1. \A i \in 1..Cardinality(T) : \E n \in T : Rank(T, n) = i
  BY RankOnto
<1> DEFINE place(m) == CHOOSE n \in T : Rank(T, n) = m
<1>2. \A m \in 1..Cardinality(T) : place(m) \in T
  BY <1>1
<1>3. /\ Kept(t, T) = [m \in 1..Cardinality(T) |-> t[place(m)]]
      /\ Kept(s, T) = [m \in 1..Cardinality(T) |-> s[place(m)]]
  BY DEF Kept
<1> HIDE DEF place
<1>4. \A m \in 1..Cardinality(T) : t[place(m)] = s[place(m)]
  BY <1>2
<1>5. QED
  BY <1>3, <1>4

\* Only the rules of readable policies are touched.
Touched(docs, docs2) ==
  /\ DOMAIN docs2 = DOMAIN docs
  /\ \A i \in DOMAIN docs : docs2[i] = WithoutDeadRules(docs[i])

\* The advice changes the documents of a request and nothing else of it.
LEMMA AdvisedIs ==
  ASSUME NEW raw, Written(raw)
  PROVE  LET raw2 == Advised(raw)
         IN  /\ Touched(raw.documents, raw2.documents)
             /\ raw2.serviceAccounts = raw.serviceAccounts /\ raw2.services = raw.services
             /\ raw2.namespaces = raw.namespaces /\ raw2.networkSets = raw.networkSets
             /\ raw2.slices = raw.slices /\ raw2.endpoints = raw.endpoints
             /\ raw2.staged = raw.staged /\ raw2.icmp = raw.icmp /\ raw2.port = raw.port
             /\ raw2 = [documents |-> raw2.documents, serviceAccounts |-> raw2.serviceAccounts,
                namespaces |-> raw2.namespaces, services |-> raw2.services,
                networkSets |-> raw2.networkSets, slices |-> raw2.slices,
                endpoints |-> raw2.endpoints, staged |-> raw2.staged,
                icmp |-> raw2.icmp, port |-> raw2.port]
<1>1. raw = [documents |-> raw.documents, serviceAccounts |-> raw.serviceAccounts,
             namespaces |-> raw.namespaces, services |-> raw.services,
             networkSets |-> raw.networkSets, slices |-> raw.slices,
             endpoints |-> raw.endpoints, staged |-> raw.staged,
             icmp |-> raw.icmp, port |-> raw.port]
  BY DEF Written
<1>2. {"documents", "serviceAccounts", "namespaces", "services", "networkSets", "slices",
       "endpoints", "staged", "icmp", "port"} = DOMAIN raw
  BY <1>1
<1> DEFINE docs2 == [i \in DOMAIN raw.documents |-> WithoutDeadRules(raw.documents[i])]
<1>3. Advised(raw) = [raw EXCEPT !.documents = docs2]
  BY DEF Advised
<1>4. Touched(raw.documents, docs2)
  BY DEF Touched
<1> HIDE DEF docs2
<1>5. QED
  BY <1>2, <1>3, <1>4

\* Without dead rules a document is what it was, but for the rules of a policy.
LEMMA WithoutIs ==
  ASSUME NEW d, d.kind \in PolicyKinds /\ d.ok => PolicyWritten(d), NEW c, c = WithoutDeadRules(d)
  PROVE  /\ d.kind \notin PolicyKinds => c = d
         /\ c.kind = d.kind /\ c.ok = d.ok /\ Key(c) = Key(d)
         /\ d.kind \in PolicyKinds /\ d.ok =>
              /\ PolicyFields \subseteq DOMAIN c
              /\ c.tier = d.tier /\ c.order = d.order /\ c.selects = d.selects /\ c.types = d.types
              /\ c.ingress = Trimmed(d.ingress) /\ c.egress = Trimmed(d.egress)
<1>1. CASE d.kind \in PolicyKinds /\ d.ok
  <2>1. c = [d EXCEPT !.ingress = Trimmed(d.ingress), !.egress = Trimmed(d.egress)]
    BY <1>1 DEF WithoutDeadRules
  <2>2. {"kind", "ok", "ns", "name", "tier", "order", "selects", "types", "ingress", "egress"} \subseteq DOMAIN d
    BY <1>1 DEF PolicyWritten, PolicyFields
  <2>3. DOMAIN c = DOMAIN d
    BY <2>1
  <2>4. QED
    BY <1>1, <2>1, <2>2, <2>3 DEF PolicyFields, Key
<1>2. CASE ~(d.kind \in PolicyKinds /\ d.ok)
  BY <1>2 DEF WithoutDeadRules
<1>3. QED
  BY <1>1, <1>2

\* What is left of rules is a list of rules that were there, and the first of them always is.
LEMMA TrimmedIs ==
  ASSUME NEW rules, rules \in Seq(Range(rules))
  PROVE  /\ Trimmed(rules) \in Seq(Range(Trimmed(rules)))
         /\ Range(Trimmed(rules)) \subseteq Range(rules)
         /\ Trimmed(rules) = <<>> <=> rules = <<>>
<1> DEFINE T == DOMAIN rules \ (Unreachable(rules) \cup Duplicates(rules))
           left == Kept(rules, T)
<1>1. T \subseteq DOMAIN rules /\ left = Trimmed(rules)
  BY DEF Trimmed
<1>2. Len(rules) \in Nat /\ DOMAIN rules = 1..Len(rules)
  OBVIOUS
<1>3. 1 \in DOMAIN rules => 1 \in T
  BY DEF Unreachable, Duplicates
<1>4. Range(left) = {rules[i] : i \in T}
  <2> HIDE DEF T
  <2>1. QED
    BY <1>1, KeptRange
<1>5. left \in Seq(Range(left))
  <2> HIDE DEF T
  <2>1. PickedFrom(left, rules, T)
    BY <1>1, KeptLists
  <2>2. QED
    BY <2>1 DEF PickedFrom
<1>6. Range(left) \subseteq Range(rules)
  BY <1>1, <1>4 DEF Range
<1> HIDE DEF T, left
<1>7. ASSUME rules # <<>>
      PROVE  left # <<>>
  <2>1. 1 \in DOMAIN rules
    BY <1>2, <1>7
  <2>2. Range(left) # {}
    BY <1>3, <1>4, <2>1
  <2>3. QED
    BY <2>2 DEF Range
<1>8. ASSUME rules = <<>>
      PROVE  left = <<>>
  <2>1. DOMAIN rules = {}
    BY <1>8
  <2>2. Range(left) = {}
    BY <1>1, <1>4, <2>1
  <2>3. 1 \notin DOMAIN left
    BY <2>2 DEF Range
  <2>4. Len(left) \in Nat /\ DOMAIN left = 1..Len(left)
    BY <1>5
  <2>5. Len(left) = 0
    BY <2>3, <2>4
  <2>6. QED
    BY <1>5, <2>5
<1>9. QED
  BY <1>1, <1>5, <1>6, <1>7, <1>8

\* The documents at each place are of the same kind; those that are no policies are the same.
OthersSame(docs, docs2) ==
  /\ DOMAIN docs2 = DOMAIN docs
  /\ \A i \in DOMAIN docs :
       /\ docs2[i].kind = docs[i].kind /\ docs2[i].ok = docs[i].ok /\ Key(docs2[i]) = Key(docs[i])
       /\ docs[i].kind \notin PolicyKinds => docs2[i] = docs[i]

\* The places of the readable policies that are looked at.
PolicyPlaces(docs, staged) ==
  {i \in DOMAIN docs : /\ docs[i].ok /\ docs[i].kind \in PolicyKinds
                       /\ staged \/ docs[i].kind \notin StagedKinds}

\* Requests that differ in their policies only.
SameBut(raw, raw2) ==
  /\ OthersSame(raw.documents, raw2.documents)
  /\ raw2.serviceAccounts = raw.serviceAccounts /\ raw2.services = raw.services
  /\ raw2.namespaces = raw.namespaces /\ raw2.networkSets = raw.networkSets
  /\ raw2.slices = raw.slices /\ raw2.endpoints = raw.endpoints
  /\ raw2.staged = raw.staged /\ raw2.icmp = raw.icmp /\ raw2.port = raw.port

\* The advice leaves alone what is no policy.
LEMMA AdvisedBut ==
  ASSUME NEW raw, Written(raw)
  PROVE  SameBut(raw, Advised(raw))
<1> DEFINE docs == raw.documents
           docs2 == Advised(raw).documents
<1>1. Touched(docs, docs2)
  BY AdvisedIs
<1>2. ASSUME NEW i \in DOMAIN docs
      PROVE  /\ docs2[i].kind = docs[i].kind /\ docs2[i].ok = docs[i].ok
             /\ Key(docs2[i]) = Key(docs[i])
             /\ docs[i].kind \notin PolicyKinds => docs2[i] = docs[i]
  <2>1. docs[i].kind \in PolicyKinds /\ docs[i].ok => PolicyWritten(docs[i])
    BY DEF Written, Range
  <2>2. docs2[i] = WithoutDeadRules(docs[i])
    BY <1>1 DEF Touched
  <2> HIDE DEF docs, docs2
  <2>3. QED
    BY <2>1, <2>2, WithoutIs
<1>3. OthersSame(docs, docs2)
  BY <1>1, <1>2 DEF Touched, OthersSame
<1>4. QED
  BY <1>3, AdvisedIs DEF SameBut

\* Accounts, Services, sets and tiers are then the same.
LEMMA ReadAlike ==
  ASSUME NEW raw, Written(raw), NEW raw2, SameBut(raw, raw2)
  PROVE  SameReading(raw, raw2) /\ SameFrame(raw, raw2)
<1> DEFINE docs == raw.documents
           docs2 == raw2.documents
           kind(d, k) == {i \in DOMAIN d : d[i].kind \in {k}}
           ok(d) == {i \in DOMAIN d : d[i].ok}
           tier(d) == {i \in DOMAIN d : d[i].kind \in {"Tier"} /\ d[i].ok /\ ~Skips(raw, d[i])}
           sets(d) == {i \in DOMAIN d : d[i].ok /\ d[i].kind \in SetKinds}
           n == Len(docs)
<1>0. OthersSame(docs, docs2)
  BY DEF SameBut
<1>1. n \in Nat /\ DOMAIN docs = 1..n
  BY WrittenLists
<1>2. ASSUME NEW k, k \in {"ServiceAccount", "Service"}
      PROVE  OfKinds(docs2, {k}) = OfKinds(docs, {k})
  <2>1. kind(docs2, k) = kind(docs, k) /\ kind(docs, k) \subseteq 1..n
    BY <1>0, <1>1 DEF OthersSame
  <2>2. \A i \in kind(docs, k) : docs2[i] = docs[i]
    BY <1>0, <1>2 DEF OthersSame, PolicyKinds, Defaulted, StagedKinds
  <2>3. OfKinds(docs2, {k}) = Kept(docs2, kind(docs2, k)) /\ OfKinds(docs, {k}) = Kept(docs, kind(docs, k))
    BY DEF OfKinds
  <2> DEFINE T == kind(docs, k)
  <2>4. T \subseteq 1..n /\ \A i \in T : docs2[i] = docs[i]
    BY <2>1, <2>2
  <2> HIDE DEF docs, docs2, n, T
  <2>5. Kept(docs2, T) = Kept(docs, T)
    BY <1>1, <2>4, KeptSame
  <2>6. QED
    BY <2>1, <2>3, <2>5 DEF T
<1>3. \A typed, k : k \in {"ServiceAccount", "Service"} => All(raw2, typed, k) = All(raw, typed, k)
  BY <1>2 DEF All
<1>4. Sent(raw2, {"Tier"}) = Sent(raw, {"Tier"})
  <2>1. tier(docs2) = tier(docs) /\ tier(docs) \subseteq 1..n
    BY <1>0, <1>1 DEF OthersSame, Skips
  <2>2. \A i \in tier(docs) : docs2[i] = docs[i]
    BY <1>0 DEF OthersSame, PolicyKinds, Defaulted, StagedKinds
  <2>3. Sent(raw, {"Tier"}) = Kept(docs, tier(docs))
    BY DEF Sent
  <2>4. Sent(raw2, {"Tier"}) = Kept(docs2, tier(docs2))
    BY DEF Sent, Skips, SameBut
  <2> HIDE DEF docs, docs2, tier, n
  <2>5. QED
    BY <1>1, <2>1, <2>2, <2>3, <2>4, KeptSame
<1>5. Tiers(raw2) = Tiers(raw)
  BY <1>4 DEF Tiers
<1>6. SetsIn(raw2) = SetsIn(raw)
  <2>1. sets(docs2) = sets(docs) /\ sets(docs) \subseteq 1..n
    BY <1>0, <1>1 DEF OthersSame
  <2>2. \A i \in sets(docs) : docs2[i] = docs[i]
    BY <1>0 DEF OthersSame, PolicyKinds, SetKinds, Defaulted, StagedKinds
  <2>3. /\ SetsIn(raw) = Current(raw.networkSets \o Kept(docs, sets(docs)))
        /\ SetsIn(raw2) = Current(raw2.networkSets \o Kept(docs2, sets(docs2)))
    BY DEF SetsIn
  <2>4. raw2.networkSets = raw.networkSets
    BY DEF SameBut
  <2> HIDE DEF docs, docs2, sets, n
  <2>5. QED
    BY <1>1, <2>1, <2>2, <2>3, <2>4, KeptSame
<1>7. /\ All(raw2, raw2.serviceAccounts, "ServiceAccount") = All(raw, raw.serviceAccounts, "ServiceAccount")
      /\ All(raw2, raw2.services, "Service") = All(raw, raw.services, "Service")
  BY <1>3 DEF SameBut
<1> HIDE DEF docs, docs2, kind, ok, tier, sets, n
<1>8. \A e, ref : IsIn(raw2, e, ref) <=> IsIn(raw, e, ref)
  BY <1>7 DEF IsIn, SameBut
<1>9. \A e, a, b : Backs(raw2, e, a, b) <=> Backs(raw, e, a, b)
  BY <1>7 DEF Backs, SameBut
<1>10. \A e, ref : Named(raw2, e, ref) <=> Named(raw, e, ref)
  BY <1>6, <1>8, <1>9 DEF Named
<1>11. SameReading(raw, raw2)
  BY <1>5, <1>8, <1>10 DEF SameReading, SameBut
<1>12. SameFrame(raw, raw2)
  BY <1>7 DEF SameFrame, SameBut
<1>13. QED
  BY <1>11, <1>12

\* The policies in force are those at the same places.
LEMMA InForceNewest ==
  ASSUME NEW raw, IsList(raw.documents), NEW staged
  PROVE  InForce(raw, staged) = Newest(raw.documents, PolicyPlaces(raw.documents, staged))
<1> DEFINE docs == raw.documents
           T == PolicyPlaces(docs, staged)
<1>1. InForce(raw, staged) = Current(Kept(docs, T))
  BY DEF InForce, PolicyPlaces
<1>2. T \subseteq DOMAIN docs
  BY DEF PolicyPlaces
<1>3. docs \in Seq(Range(docs))
  BY DEF IsList
<1> HIDE DEF docs, T
<1>4. PickedFrom(Kept(docs, T), docs, T)
  BY <1>2, <1>3, KeptLists
<1>5. Current(Kept(docs, T)) = Newest(docs, T)
  BY <1>4, CurrentOfPicked
<1>6. QED
  BY <1>1, <1>5 DEF docs, T

\* What a list of rules says of a flow, as they are written.
RulesSay(raw, rules, s, x) ==
  FirstOf([n \in DOMAIN rules |-> Said(raw, rules[n], s, x)], "none")

\* Rules without the dead ones say of every flow what the rules say.
LEMMA TrimmedSays ==
  ASSUME NEW raw, NEW raw2, SameReading(raw, raw2), NEW rules, rules \in Seq(Range(rules)), NEW s, NEW x
  PROVE  RulesSay(raw2, Trimmed(rules), s, x) = RulesSay(raw, rules, s, x)
<1> DEFINE T == DOMAIN rules \ (Unreachable(rules) \cup Duplicates(rules))
           left == Kept(rules, T)
           a == [m \in DOMAIN left |-> Said(raw2, left[m], s, x)]
           b == [n \in DOMAIN rules |-> Said(raw, rules[n], s, x)]
<1>1. left = Trimmed(rules)
  BY DEF Trimmed
<1>2. \A rule : Said(raw2, rule, s, x) = Said(raw, rule, s, x)
  <2>1. \A rule : Applies(raw2, rule, s, x) <=> Applies(raw, rule, s, x)
    BY AppliesAlike
  <2>2. QED
    BY <2>1 DEF Said
<1>3. Len(rules) \in Nat /\ DOMAIN rules = 1..Len(rules) /\ T \subseteq DOMAIN rules
  OBVIOUS
<1>4. ASSUME NEW n, FirstAnswer(b, "none", n)
      PROVE  n \in T
  <2> USE <1>4 DEF FirstAnswer
  <2>1. \A k \in 1..(n - 1) : k \in DOMAIN b /\ k < n
    BY <1>3
  <2>2. n \notin Duplicates(rules)
    BY <1>4, <2>1 DEF Duplicates
  <2>3. n \notin Unreachable(rules)
    <3>1. ASSUME NEW k \in DOMAIN b, IsMatchAll(rules[k]), IsTerminalAction(rules[k])
          PROVE  b[k] # "none"
      <4>1. Describes(raw, rules[k].src, s) /\ Describes(raw, rules[k].dst, x)
        BY <3>1 DEF IsMatchAll, AnyPeer, Describes
      <4>2. Applies(raw, rules[k], s, x)
        BY <3>1, <4>1 DEF IsMatchAll, Applies, NoIcmp
      <4>3. QED
        BY <3>1, <4>2 DEF Said, IsTerminalAction
    <3>2. QED
      BY <1>4, <2>1, <3>1 DEF Unreachable
  <2>4. QED
    BY <2>2, <2>3
<1>5. AnswerFor(a, b, rules, T)
  BY <1>2 DEF AnswerFor
<1>6. FirstOf(a, "none") = FirstOf(b, "none")
  <2> HIDE DEF T, a, b
  <2>1. QED
    BY <1>3, <1>4, <1>5, KeptAnswers
<1>7. QED
  BY <1>1, <1>6 DEF RulesSay

\* So does a policy.
LEMMA WithoutSays ==
  ASSUME NEW raw, NEW raw2, SameReading(raw, raw2), NEW d, d.kind \in PolicyKinds, d.ok,
         PolicyWritten(d), NEW c, c = WithoutDeadRules(d)
  PROVE  SameSay(raw, raw2, d, c)
<1>1. /\ c.tier = d.tier /\ c.order = d.order /\ c.selects = d.selects /\ c.types = d.types
      /\ c.ingress = Trimmed(d.ingress) /\ c.egress = Trimmed(d.egress)
  BY WithoutIs
<1>2. \A rules \in {d.ingress, d.egress} : rules \in Seq(Range(rules))
  BY DEF PolicyWritten
<1>3. (c.ingress = <<>> <=> d.ingress = <<>>) /\ (c.egress = <<>> <=> d.egress = <<>>)
  BY <1>1, <1>2, TrimmedIs
<1>4. ASSUME NEW dir \in Directions
      PROVE  Governs(c, dir) <=> Governs(d, dir)
  BY <1>1, <1>3 DEF Governs
<1>5. ASSUME NEW dir \in Directions, NEW s, NEW x
      PROVE  DocSays(raw2, c, dir, s, x) = DocSays(raw, d, dir, s, x)
  <2>1. Rules(c, dir) = Trimmed(Rules(d, dir)) /\ Rules(d, dir) \in Seq(Range(Rules(d, dir)))
    BY <1>1, <1>2 DEF Rules
  <2>2. /\ DocSays(raw, d, dir, s, x) = RulesSay(raw, Rules(d, dir), s, x)
        /\ DocSays(raw2, c, dir, s, x) = RulesSay(raw2, Rules(c, dir), s, x)
    BY DEF DocSays, RulesSay
  <2>3. RulesSay(raw2, Trimmed(Rules(d, dir)), s, x) = RulesSay(raw, Rules(d, dir), s, x)
    BY <2>1, TrimmedSays
  <2>4. QED
    BY <2>1, <2>2, <2>3
<1>6. QED
  BY <1>1, <1>4, <1>5 DEF SameSay

\* A policy without its dead rules is still written as one.
LEMMA WithoutWritten ==
  ASSUME NEW d, d.kind \in PolicyKinds, d.ok, PolicyWritten(d), NEW c, c = WithoutDeadRules(d)
  PROVE  PolicyWritten(c)
<1>1. /\ PolicyFields \subseteq DOMAIN c
      /\ c.kind = d.kind /\ c.order = d.order /\ c.types = d.types
      /\ c.ingress = Trimmed(d.ingress) /\ c.egress = Trimmed(d.egress)
  BY WithoutIs
<1>2. d.order \in Nat \ {0} /\ (d.kind \notin Defaulted => d.types # {})
  BY DEF PolicyWritten
<1>3. ASSUME NEW rules, rules \in {d.ingress, d.egress}
      PROVE  /\ Trimmed(rules) \in Seq(Range(Trimmed(rules)))
             /\ \A rule \in Range(Trimmed(rules)) :
                  /\ rule.action \in Actions
                  /\ d.kind = "StagedKubernetesNetworkPolicy" =>
                       rule.icmp = NoIcmp /\ rule.notIcmp = NoIcmp
  <2>1. rules \in Seq(Range(rules))
        /\ \A rule \in Range(rules) : /\ rule.action \in Actions
                                      /\ d.kind = "StagedKubernetesNetworkPolicy" =>
                                           rule.icmp = NoIcmp /\ rule.notIcmp = NoIcmp
    BY <1>3 DEF PolicyWritten
  <2>2. Trimmed(rules) \in Seq(Range(Trimmed(rules))) /\ Range(Trimmed(rules)) \subseteq Range(rules)
    BY <2>1, TrimmedIs
  <2>3. QED
    BY <2>1, <2>2
<1>4. \A rules \in {c.ingress, c.egress} :
        /\ rules \in Seq(Range(rules))
        /\ \A rule \in Range(rules) :
             /\ rule.action \in Actions
             /\ c.kind = "StagedKubernetesNetworkPolicy" => rule.icmp = NoIcmp /\ rule.notIcmp = NoIcmp
  BY <1>1, <1>3
<1>5. QED
  BY <1>1, <1>2, <1>4 DEF PolicyWritten

\* So is the request.
LEMMA AdvisedWritten ==
  ASSUME NEW raw, Written(raw)
  PROVE  Written(Advised(raw))
<1> DEFINE raw2 == Advised(raw)
           docs == raw.documents
           docs2 == raw2.documents
           isPolicy(d) == d.kind \in PolicyKinds /\ d.ok
<1>1. /\ raw2 = [documents |-> raw2.documents, serviceAccounts |-> raw2.serviceAccounts,
                namespaces |-> raw2.namespaces, services |-> raw2.services,
                networkSets |-> raw2.networkSets, slices |-> raw2.slices,
                endpoints |-> raw2.endpoints, staged |-> raw2.staged,
                icmp |-> raw2.icmp, port |-> raw2.port]
      /\ raw2.networkSets = raw.networkSets /\ raw2.endpoints = raw.endpoints
      /\ raw2.serviceAccounts = raw.serviceAccounts /\ raw2.services = raw.services
      /\ Touched(docs, docs2)
  BY AdvisedIs
<1>2. SameReading(raw, raw2)
  BY AdvisedBut, ReadAlike
<1>3. \A d \in Range(docs2) : \E c \in Range(docs) : d = WithoutDeadRules(c)
  BY <1>1 DEF Range, Touched
<1>4. \A c \in Range(docs) : isPolicy(c) => PolicyWritten(c)
  BY DEF Written
<1>5. docs2 \in Seq(Range(docs2))
  <2>1. DOMAIN docs2 = 1..Len(docs) /\ Len(docs) \in Nat
    BY <1>1, WrittenLists DEF Touched
  <2>2. docs2 = [i \in 1..Len(docs) |-> docs2[i]]
    BY <2>1 DEF Advised, Touched
  <2>3. \A i \in 1..Len(docs) : docs2[i] \in Range(docs2)
    BY <2>1 DEF Range
  <2> HIDE DEF docs, docs2
  <2>4. QED
    BY <2>1, <2>2, <2>3
<1>6. /\ \A s \in {docs2, raw2.serviceAccounts, raw2.services, raw2.networkSets, raw2.endpoints} :
           s \in Seq(Range(s))
      /\ \A d \in Range(docs2) : d.kind = "Tier" => d.ns = ""
  <2>1. \A s \in {docs2, raw2.serviceAccounts, raw2.services, raw2.networkSets, raw2.endpoints} :
          s \in Seq(Range(s))
    BY <1>1, <1>5, WrittenLists
  <2>2. \A c \in Range(docs) : c.kind = "Tier" => c.ns = ""
    BY DEF Written
  <2>3. \A c : c.kind \notin PolicyKinds => WithoutDeadRules(c) = c
    BY DEF WithoutDeadRules
  <2>4. "Tier" \notin PolicyKinds
    BY DEF PolicyKinds, Defaulted, StagedKinds
  <2>5. ASSUME NEW d \in Range(docs2), d.kind = "Tier"
        PROVE  d.ns = ""
    <3>1. PICK c \in Range(docs) : d = WithoutDeadRules(c)
      BY <1>3
    <3>2. c.kind = d.kind
      BY <1>4, <3>1, WithoutIs
    <3>3. QED
      BY <2>2, <2>3, <2>4, <2>5, <3>1, <3>2
  <2>6. QED
    BY <2>1, <2>5
<1>7. \A e, x \in Range(raw2.endpoints) : e.id = x.id \/ e.ip = x.ip => e = x
  BY <1>1 DEF Written
<1>8. ASSUME NEW d \in Range(docs2), isPolicy(d)
      PROVE  \E c \in Range(docs) :
               /\ isPolicy(c) /\ PolicyWritten(d)
               /\ d.tier = c.tier /\ d.order = c.order /\ Key(d) = Key(c)
  <2>1. PICK c \in Range(docs) : d = WithoutDeadRules(c)
    BY <1>3
  <2>2. isPolicy(c) /\ d.tier = c.tier /\ d.order = c.order /\ Key(d) = Key(c)
    BY <1>4, <1>8, <2>1, WithoutIs
  <2>3. PolicyWritten(d)
    BY <1>4, <2>1, <2>2, WithoutWritten
  <2>4. QED
    BY <2>2, <2>3
<1>9. \A c, d \in Range(docs) :
        isPolicy(c) /\ isPolicy(d) /\ c.tier = d.tier /\ c.order = d.order => Key(c) = Key(d)
  BY DEF Written
<1>10. \A c, d \in Range(docs2) :
         isPolicy(c) /\ isPolicy(d) /\ c.tier = d.tier /\ c.order = d.order => Key(c) = Key(d)
  <2> HIDE DEF isPolicy, docs, docs2
  <2>1. QED
    BY <1>8, <1>9
<1>11. \A d \in Range(docs2) : isPolicy(d) => PolicyWritten(d)
  BY <1>8
<1>12. /\ \A t \in Tiers(raw2) : t.order \in Nat \ {0} /\ t.default \in {"pass", "deny"}
       /\ \A t, u \in Tiers(raw2) : t.order = u.order => t = u
  BY <1>2 DEF Written, SameReading
<1> DEFINE policies == {d \in Range(docs2) : d.kind \in PolicyKinds /\ d.ok}
<1>13. /\ \A d \in policies : PolicyWritten(d)
       /\ \A c, d \in policies : c.tier = d.tier /\ c.order = d.order => Key(c) = Key(d)
  BY <1>10, <1>11
<1> HIDE DEF raw2
<1>14. Written(raw2) <=>
         /\ raw2 = [documents |-> raw2.documents, serviceAccounts |-> raw2.serviceAccounts,
                namespaces |-> raw2.namespaces, services |-> raw2.services,
                networkSets |-> raw2.networkSets, slices |-> raw2.slices,
                endpoints |-> raw2.endpoints, staged |-> raw2.staged,
                icmp |-> raw2.icmp, port |-> raw2.port]
         /\ \A s \in {docs2, raw2.serviceAccounts, raw2.services, raw2.networkSets, raw2.endpoints} :
              s \in Seq(Range(s))
         /\ \A d \in Range(docs2) : d.kind = "Tier" => d.ns = ""
         /\ \A e, x \in Range(raw2.endpoints) : e.id = x.id \/ e.ip = x.ip => e = x
         /\ \A d \in policies : PolicyWritten(d)
         /\ \A c, d \in policies : c.tier = d.tier /\ c.order = d.order => Key(c) = Key(d)
         /\ \A t \in Tiers(raw2) : t.order \in Nat \ {0} /\ t.default \in {"pass", "deny"}
         /\ \A t, u \in Tiers(raw2) : t.order = u.order => t = u
  BY DEF Written
<1> HIDE DEF policies
<1>15. QED
  BY <1>1, <1>6, <1>7, <1>12, <1>13, <1>14 DEF raw2

\* The policies in force are those that were, without their dead rules.
LEMMA AdvisedPolicies ==
  ASSUME NEW raw, Written(raw)
  PROVE  SamePolicies(raw, Advised(raw), [d \in InForce(raw, raw.staged) |-> WithoutDeadRules(d)])
<1> DEFINE raw2 == Advised(raw)
           docs == raw.documents
           docs2 == raw2.documents
           force == InForce(raw, raw.staged)
           f == [d \in force |-> WithoutDeadRules(d)]
           T == PolicyPlaces(docs, raw.staged)
           latest(d) == {n \in T : \A m \in T : Key(d[m]) = Key(d[n]) => m <= n}
<1>1. Touched(docs, docs2) /\ raw2.staged = raw.staged
  BY AdvisedIs
<1>2. OthersSame(docs, docs2)
  BY AdvisedBut DEF SameBut
<1>3. IsList(docs) /\ IsList(docs2)
  <2>1. Written(raw2)
    BY AdvisedWritten
  <2>2. QED
    BY <2>1, WrittenLists DEF IsList
<1>4. PolicyPlaces(docs2, raw.staged) = T /\ T \subseteq DOMAIN docs
  BY <1>2 DEF PolicyPlaces, OthersSame
<1>5. force = Newest(docs, T)
  <2> HIDE DEF raw2
  <2>1. QED
    BY <1>3, InForceNewest
<1>6. InForce(raw2, raw2.staged) = Newest(docs2, T)
  <2>1. InForce(raw2, raw2.staged) = Newest(docs2, PolicyPlaces(docs2, raw2.staged))
    <3> HIDE DEF raw2
    <3>1. QED
      BY <1>3, InForceNewest
  <2>2. QED
    BY <1>1, <1>4, <2>1
<1>7. latest(docs2) = latest(docs)
  BY <1>2, <1>4 DEF OthersSame
<1>8. \A n \in latest(docs) : docs2[n] = WithoutDeadRules(docs[n])
  BY <1>1, <1>4 DEF Touched
<1>9. /\ force = {docs[n] : n \in latest(docs)}
      /\ InForce(raw2, raw2.staged) = {docs2[n] : n \in latest(docs)}
  BY <1>5, <1>6, <1>7 DEF Newest
<1>10. \A d \in force : d.kind \in PolicyKinds /\ d.ok /\ PolicyWritten(d)
  <2>1. \A n \in latest(docs) : docs[n].kind \in PolicyKinds /\ docs[n].ok
    BY DEF PolicyPlaces
  <2>2. \A d \in force : PolicyWritten(d)
    BY InForceAre
  <2>3. QED
    BY <1>9, <2>1, <2>2
<1> HIDE DEF docs, docs2, latest, T, force, raw2
<1>11. InForce(raw2, raw2.staged) = Image(f, force)
  <2>1. \A n \in latest(docs) : docs[n] \in force /\ f[docs[n]] = docs2[n]
    BY <1>8, <1>9
  <2>2. \A d \in force : \E n \in latest(docs) : d = docs[n]
    BY <1>9
  <2> HIDE DEF f
  <2>3. QED
    BY <1>9, <2>1, <2>2 DEF Image
<1>12. ASSUME NEW d \in force
       PROVE  SameSay(raw, raw2, d, f[d])
  <2>1. SameReading(raw, raw2)
    BY AdvisedBut, ReadAlike DEF raw2
  <2>2. d.kind \in PolicyKinds /\ d.ok /\ PolicyWritten(d) /\ f[d] = WithoutDeadRules(d)
    BY <1>10
  <2>3. QED
    BY <2>1, <2>2, WithoutSays
<1> HIDE DEF f
<1>13. SamePolicies(raw, raw2, f)
  BY <1>11, <1>12 DEF SamePolicies, force
<1>14. QED
  BY <1>13 DEF raw2, f, force

\* The rules that the cost report of a request calls unreachable or duplicates decide nothing:
\* the matrix of the request without them, all at once and in every policy, is its matrix.
THEOREM SweepAdviceIsSafe == Spec => []AdviceIsSafe
<1>1. IInv /\ FillInv => AdviceIsSafe
  <2> SUFFICES ASSUME IInv, FillInv, HasRaw
               PROVE  LET trimmed == Fed(Advised(req.raw), req.stream, req.noCollapse)
                      IN  Truth(trimmed, BuildActors(trimmed)) = truth
    BY DEF AdviceIsSafe
  <2> DEFINE raw == req.raw
             raw2 == Advised(raw)
             trimmed == Fed(raw2, req.stream, req.noCollapse)
             f == [d \in InForce(raw, raw.staged) |-> WithoutDeadRules(d)]
  <2>1. req \in Requests /\ truth = Truth(req, BuildActors(req))
    BY DEF IInv, Shape, FillInv, TruthKept
  <2>2. Written(raw) /\ req = Fed(raw, req.stream, req.noCollapse)
    BY <2>1, DocumentsAssumption DEF HasRaw
  <2> HIDE DEF raw
  <2>3. Written(raw2)
    BY <2>2, AdvisedWritten
  <2>4. SameReading(raw, raw2) /\ SameFrame(raw, raw2)
    BY <2>2, AdvisedBut, ReadAlike
  <2>5. SamePolicies(raw, raw2, f)
    BY <2>2, AdvisedPolicies
  <2> HIDE DEF raw2, f
  <2>6. Corresponds(raw, raw2, f)
    BY <2>2, <2>3, <2>4, <2>5 DEF Corresponds
  <2>7. SidesAlike(raw, raw2)
    <3>1. \A owner, s, x : \A dir \in Directions :
            Side(raw2, raw2.staged, owner, dir, s, x) <=> Side(raw, raw.staged, owner, dir, s, x)
      BY <2>6, SideAlike
    <3>2. QED
      BY <3>1 DEF SidesAlike
  <2>8. SameTruth(req, trimmed)
    BY <2>1, <2>2, <2>3, <2>4, <2>7, TruthAlike
  <2>9. QED
    BY <2>1, <2>8 DEF SameTruth, raw, raw2
<1>2. QED
  BY <1>1, SpecFill, PTL

-----------------------------------------------------------------------------
(* What counts of the documents *)

\* The kinds that count by their name, of which a later one replaces an earlier one.
CountedKinds == PolicyKinds \cup SetKinds \cup {"Tier", "ServiceAccount"}

\* The places of readable documents, and those of readable documents of some kinds.
ReadablePlaces(docs) == {i \in DOMAIN docs : docs[i].ok}

PlacesOf(docs, kinds) == {i \in DOMAIN docs : docs[i].ok /\ docs[i].kind \in kinds}

\* The documents that are read, looked at and not replaced by a later one of their name.
Counted(raw) ==
  {d \in Newest(raw.documents, ReadablePlaces(raw.documents)) :
     d.kind \in CountedKinds /\ ~Skips(raw, d)}

\* A Service that is pasted twice is two Services.
ServicesPasted(raw) == {d \in Range(raw.documents) : d.kind = "Service" /\ d.ok}

\* Requests that are the same but for documents that do not count.
SameCounted(raw, raw2) ==
  /\ Counted(raw2) = Counted(raw) /\ ServicesPasted(raw2) = ServicesPasted(raw)
  /\ raw2.serviceAccounts = raw.serviceAccounts /\ raw2.services = raw.services
  /\ raw2.namespaces = raw.namespaces /\ raw2.networkSets = raw.networkSets
  /\ raw2.slices = raw.slices /\ raw2.endpoints = raw.endpoints
  /\ raw2.staged = raw.staged /\ raw2.icmp = raw.icmp /\ raw2.port = raw.port

\* A key has a kind, so one kind does not replace another.
LEMMA NewestOfKinds ==
  ASSUME NEW docs, NEW kinds
  PROVE  Newest(docs, PlacesOf(docs, kinds))
           = {d \in Newest(docs, ReadablePlaces(docs)) : d.kind \in kinds}
<1> DEFINE T == PlacesOf(docs, kinds)
           U == ReadablePlaces(docs)
<1>1. \A i, j : Key(docs[i]) = Key(docs[j]) => docs[i].kind = docs[j].kind
  BY DEF Key
<1>2. \A i : i \in T <=> i \in U /\ docs[i].kind \in kinds
  BY DEF PlacesOf, ReadablePlaces
<1> HIDE DEF T, U
<1>3. ASSUME NEW d \in Newest(docs, T)
      PROVE  d \in Newest(docs, U) /\ d.kind \in kinds
  <2>1. PICK n \in T : d = docs[n] /\ \A m \in T : Key(docs[m]) = Key(docs[n]) => m <= n
    BY DEF Newest
  <2>2. \A m \in U : Key(docs[m]) = Key(docs[n]) => m <= n
    BY <1>1, <1>2, <2>1
  <2>3. n \in U /\ d.kind \in kinds
    BY <1>2, <2>1
  <2>4. QED
    BY <2>1, <2>2, <2>3 DEF Newest
<1>4. ASSUME NEW d \in Newest(docs, U), d.kind \in kinds
      PROVE  d \in Newest(docs, T)
  <2>1. PICK n \in U : d = docs[n] /\ \A m \in U : Key(docs[m]) = Key(docs[n]) => m <= n
    BY DEF Newest
  <2>2. n \in T /\ \A m \in T : Key(docs[m]) = Key(docs[n]) => m <= n
    BY <1>2, <1>4, <2>1
  <2>3. QED
    BY <2>1, <2>2 DEF Newest
<1>5. QED
  BY <1>3, <1>4 DEF T, U

\* What a kind's documents come down to is part of what counts.
LEMMA CountedOfKinds ==
  ASSUME NEW raw, NEW kinds, kinds \subseteq CountedKinds,
         \A d : d.kind \in kinds => ~Skips(raw, d)
  PROVE  Newest(raw.documents, PlacesOf(raw.documents, kinds)) = {d \in Counted(raw) : d.kind \in kinds}
BY NewestOfKinds DEF Counted

\* Every key at T is that of a newest element.
LEMMA NewestKeys ==
  ASSUME NEW s, NEW n \in Nat, NEW T, T \subseteq 1..n, NEW i \in T
  PROVE  \E d \in Newest(s, T) : Key(d) = Key(s[i])
<1> DEFINE same == {m \in T : Key(s[m]) = Key(s[i])}
<1>1. same \subseteq 1..n /\ same # {}
  OBVIOUS
<1>2. PICK m \in same : \A k \in same : k <= m
  <2> HIDE DEF same
  <2>1. QED
    BY <1>1, GreatestElement
<1>3. m \in T /\ Key(s[m]) = Key(s[i]) /\ \A k \in T : Key(s[k]) = Key(s[m]) => k <= m
  BY <1>2
<1>4. s[m] \in Newest(s, T)
  BY <1>3 DEF Newest
<1>5. QED
  BY <1>3, <1>4

\* Lists with the same newest elements outlive the same.
LEMMA OutlivedAlike ==
  ASSUME NEW a, NEW s, NEW n \in Nat, NEW T, T \subseteq 1..n,
         NEW t, NEW m \in Nat, NEW U, U \subseteq 1..m, Newest(s, T) = Newest(t, U)
  PROVE  Outlived(a, s, T) = Outlived(a, t, U)
<1>1. \A k : (\A i \in T : Key(s[i]) # k) <=> (\A d \in Newest(s, T) : Key(d) # k)
  <2>1. \A d \in Newest(s, T) : \E i \in T : d = s[i]
    BY DEF Newest
  <2>2. \A i \in T : \E d \in Newest(s, T) : Key(d) = Key(s[i])
    BY NewestKeys
  <2>3. QED
    BY <2>1, <2>2
<1>2. \A k : (\A i \in U : Key(t[i]) # k) <=> (\A d \in Newest(t, U) : Key(d) # k)
  <2>1. \A d \in Newest(t, U) : \E i \in U : d = t[i]
    BY DEF Newest
  <2>2. \A i \in U : \E d \in Newest(t, U) : Key(d) = Key(t[i])
    BY NewestKeys
  <2>3. QED
    BY <2>1, <2>2
<1>3. \A k : (\A i \in T : Key(s[i]) # k) <=> (\A i \in U : Key(t[i]) # k)
  BY <1>1, <1>2
<1>4. QED
  BY <1>3 DEF Outlived

\* The pasted objects of a kind are the readable documents of that kind.
LEMMA PastedIs ==
  ASSUME NEW docs, IsList(docs), NEW k
  PROVE  PickedFrom(Parsed(OfKinds(docs, {k})), docs, PlacesOf(docs, {k}))
<1> DEFINE A == {d \in Range(docs) : d.kind \in {k}}
           B == {d \in Range(docs) : d.ok}
           l == OfKinds(docs, {k})
<1>1. {i \in DOMAIN docs : docs[i].kind \in {k}} = Holding(docs, A)
  BY DEF Holding, Range
<1>2. l = Kept(docs, Holding(docs, A))
  BY <1>1 DEF OfKinds
<1>3. Holding(docs, A) \subseteq DOMAIN docs /\ docs \in Seq(Range(docs))
  BY DEF Holding, IsList
<1> HIDE DEF l, A
<1>4. PickedFrom(l, docs, Holding(docs, A))
  BY <1>2, <1>3, KeptLists
<1>5. \A i \in DOMAIN l : l[i] \in Range(docs)
  <2>1. PICK pos : Picks(l, docs, Holding(docs, A), pos)
    BY <1>4 DEF PickedFrom
  <2>2. QED
    BY <1>3, <2>1 DEF Picks, Range
<1>6. {i \in DOMAIN l : l[i].ok} = Holding(l, B)
  BY <1>5 DEF Holding
<1>7. Parsed(l) = Kept(l, Holding(l, B))
  BY <1>6 DEF Parsed
<1>8. {i \in Holding(docs, A) : docs[i] \in B} = PlacesOf(docs, {k})
  BY DEF Holding, PlacesOf, A, Range
<1> HIDE DEF B
<1>9. PickedFrom(Kept(l, Holding(l, B)), docs, {i \in Holding(docs, A) : docs[i] \in B})
  BY <1>2, KeptTwice
<1>10. QED
  BY <1>7, <1>8, <1>9 DEF l

\* The objects at T are of one kind.
OneKind(s, T) == \A i, j \in T : s[i].kind = s[j].kind

\* The labels are those of the object in N of this name, or others when there is none.
LabelledBy(labels, N, ns, name, others) ==
  /\ \A d \in N : d.ns = ns /\ d.name = name => labels = d.labels
  /\ (\A d \in N : ~(d.ns = ns /\ d.name = name)) => labels = others

\* What a list read after another adds to it.
LEMMA LabelsOfBoth ==
  ASSUME NEW a, IsList(a), NEW l, NEW s, NEW n \in Nat, NEW T, T \subseteq 1..n, PickedFrom(l, s, T),
         OneKind(s, T), NEW ns, NEW name
  PROVE  LabelledBy(LabelsOf(a \o l, ns, name), Newest(s, T), ns, name, LabelsOf(a, ns, name))
<1> DEFINE both == a \o l
           m == Len(a)
           in(q) == {i \in DOMAIN q : q[i].ns = ns /\ q[i].name = name}
<1>1. a \in Seq(Range(a)) /\ l \in Seq(Range(l))
  BY DEF IsList, PickedFrom
<1>a. \A i \in T : i \in Nat
  OBVIOUS
<1>2. /\ m \in Nat /\ Len(l) \in Nat /\ DOMAIN a = 1..m /\ DOMAIN l = 1..Len(l)
      /\ DOMAIN both = 1..(m + Len(l))
      /\ \A i \in 1..m : both[i] = a[i]
      /\ \A i \in 1..Len(l) : both[m + i] = l[i]
  <2>1. a \in Seq(Range(a) \cup Range(l)) /\ l \in Seq(Range(a) \cup Range(l))
    BY <1>1 DEF Range
  <2>2. QED
    BY <1>1, <2>1, ConcatProperties
<1>3. PICK pos : Picks(l, s, T, pos)
  BY DEF PickedFrom
<1>4. /\ \A i \in DOMAIN l : pos[i] \in T /\ l[i] = s[pos[i]]
      /\ \A i \in T : \E k \in DOMAIN l : pos[k] = i
      /\ \A i, j \in DOMAIN l : i < j => pos[i] < pos[j]
  BY <1>3 DEF Picks
<1> HIDE DEF both, m
<1>5. LabelsOf(both, ns, name) = IF in(both) = {} THEN {}
                                 ELSE both[CHOOSE i \in in(both) : \A j \in in(both) : j <= i].labels
  BY DEF LabelsOf
<1>6. ASSUME NEW i \in in(both), \A j \in in(both) : j <= i
      PROVE  LabelsOf(both, ns, name) = both[i].labels
  <2>1. in(both) \subseteq Nat
    BY <1>2
  <2>2. \A j \in in(both) : (\A k \in in(both) : k <= j) => j = i
    BY <1>6, <2>1
  <2> HIDE DEF in
  <2>3. (CHOOSE j \in in(both) : \A k \in in(both) : k <= j) = i
    BY <1>6, <2>2
  <2>4. QED
    BY <1>5, <1>6, <2>3
<1>7. ASSUME NEW d \in Newest(s, T), d.ns = ns, d.name = name
      PROVE  LabelsOf(both, ns, name) = d.labels
  <2>1. PICK p \in T : d = s[p] /\ \A q \in T : Key(s[q]) = Key(s[p]) => q <= p
    BY DEF Newest
  <2>2. PICK k \in DOMAIN l : pos[k] = p
    BY <1>4, <2>1
  <2>3. m + k \in in(both) /\ both[m + k] = d
    BY <1>2, <1>4, <1>7, <2>1, <2>2
  <2>4. ASSUME NEW j \in in(both)
        PROVE  j <= m + k
    <3>1. CASE j \in 1..m
      BY <1>2, <3>1
    <3>2. CASE j \notin 1..m
      <4>1. j - m \in DOMAIN l /\ j = m + (j - m)
        BY <1>2, <3>2
      <4>2. both[j] = l[j - m]
        BY <1>2, <4>1
      <4>3. l[j - m].ns = ns /\ l[j - m].name = name
        BY <2>4, <4>2
      <4>4. pos[j - m] \in T /\ l[j - m] = s[pos[j - m]]
        BY <1>4, <4>1
      <4>5. Key(s[pos[j - m]]) = Key(s[p])
        BY <1>7, <2>1, <4>3, <4>4 DEF Key, OneKind
      <4>6. pos[j - m] <= p
        BY <2>1, <4>4, <4>5
      <4>7. ~(k < j - m)
        <5>1. ASSUME k < j - m
              PROVE  FALSE
          <6>1. pos[k] < pos[j - m]
            BY <1>4, <2>2, <4>1, <5>1
          <6>2. p \in Nat /\ pos[j - m] \in Nat
            BY <1>a, <4>4
          <6>3. QED
            BY <2>2, <4>6, <6>1, <6>2
        <5>2. QED
          BY <5>1
      <4>8. QED
        BY <1>2, <4>1, <4>7
    <3>3. QED
      BY <3>1, <3>2
  <2> HIDE DEF in
  <2>5. QED
    BY <1>6, <2>3, <2>4
<1>8. ASSUME \A d \in Newest(s, T) : ~(d.ns = ns /\ d.name = name)
      PROVE  LabelsOf(both, ns, name) = LabelsOf(a, ns, name)
  <2>1. ASSUME NEW i \in DOMAIN l
        PROVE  ~(l[i].ns = ns /\ l[i].name = name)
    <3>1. PICK d \in Newest(s, T) : Key(d) = Key(s[pos[i]])
      BY <1>4, NewestKeys
    <3>2. QED
      BY <1>4, <1>8, <3>1 DEF Key
  <2>2. in(both) = in(a)
    <3>1. ASSUME NEW i \in in(both)
          PROVE  i \in in(a)
      <4>1. i \in 1..m
        <5>1. ASSUME i \notin 1..m
              PROVE  FALSE
          <6>1. i - m \in DOMAIN l /\ i = m + (i - m)
            BY <1>2, <5>1
          <6>2. both[i] = l[i - m]
            BY <1>2, <6>1
          <6>3. QED
            BY <2>1, <3>1, <6>1, <6>2
        <5>2. QED
          BY <5>1
      <4>2. QED
        BY <1>2, <3>1, <4>1
    <3>2. ASSUME NEW i \in in(a)
          PROVE  i \in in(both)
      BY <1>2, <3>2
    <3>3. QED
      BY <3>1, <3>2
  <2>3. \A i \in in(a) : both[i] = a[i]
    BY <1>2
  <2>4. LabelsOf(a, ns, name) = IF in(a) = {} THEN {}
                                ELSE a[CHOOSE i \in in(a) : \A j \in in(a) : j <= i].labels
    BY DEF LabelsOf
  <2>5. in(a) # {} => \E i \in in(a) : \A j \in in(a) : j <= i
    <3>1. in(a) \subseteq 1..m /\ m \in Nat
      BY <1>2
    <3> HIDE DEF in
    <3>2. QED
      BY <3>1, GreatestElement
  <2> HIDE DEF in
  <2>6. CASE in(a) = {}
    BY <1>5, <2>2, <2>4, <2>6
  <2>7. CASE in(a) # {}
    <3>1. (CHOOSE i \in in(a) : \A j \in in(a) : j <= i) \in in(a)
      BY <2>5, <2>7
    <3>2. QED
      BY <1>5, <2>2, <2>3, <2>4, <2>7, <3>1
  <2>8. QED
    BY <2>6, <2>7
<1>9. QED
  BY <1>7, <1>8 DEF both, LabelledBy

\* The places of a list of documents are naturals.
LEMMA PlacesBounded ==
  ASSUME NEW docs, IsList(docs), NEW kinds
  PROVE  \E n \in Nat : PlacesOf(docs, kinds) \subseteq 1..n
BY DEF IsList, PlacesOf

\* The same policies are in force.
LEMMA CountedPolicies ==
  ASSUME NEW raw, IsList(raw.documents)
  PROVE  InForce(raw, raw.staged) = {d \in Counted(raw) : d.kind \in PolicyKinds}
<1> DEFINE docs == raw.documents
           kinds == {k \in PolicyKinds : raw.staged \/ k \notin StagedKinds}
<1>1. PolicyPlaces(docs, raw.staged) = PlacesOf(docs, kinds)
  BY DEF PolicyPlaces, PlacesOf
<1>2. InForce(raw, raw.staged) = Newest(docs, PolicyPlaces(docs, raw.staged))
  BY InForceNewest
<1>3. kinds \subseteq CountedKinds
  BY DEF CountedKinds
<1>4. \A d : d.kind \in kinds => ~Skips(raw, d)
  BY DEF Skips
<1>5. \A d : d.kind \in PolicyKinds /\ ~Skips(raw, d) => d.kind \in kinds
  BY DEF Skips
<1>6. kinds \subseteq PolicyKinds
  OBVIOUS
<1> HIDE DEF kinds, docs
<1>7. Newest(docs, PlacesOf(docs, kinds)) = {d \in Counted(raw) : d.kind \in kinds}
  BY <1>3, <1>4, CountedOfKinds DEF docs
<1>8. \A d \in Counted(raw) : ~Skips(raw, d)
  BY DEF Counted
<1>9. QED
  BY <1>1, <1>2, <1>5, <1>6, <1>7, <1>8 DEF docs

\* Two lists of documents that count alike, of kinds that are never skipped.
LEMMA NewestAlike ==
  ASSUME NEW raw, NEW raw2, SameCounted(raw, raw2), NEW kinds, kinds \subseteq CountedKinds,
         kinds \cap StagedKinds = {}
  PROVE  Newest(raw2.documents, PlacesOf(raw2.documents, kinds))
           = Newest(raw.documents, PlacesOf(raw.documents, kinds))
<1>1. \A w, d : d.kind \in kinds => ~Skips(w, d)
  BY DEF Skips
<1>2. /\ Newest(raw.documents, PlacesOf(raw.documents, kinds)) = {d \in Counted(raw) : d.kind \in kinds}
      /\ Newest(raw2.documents, PlacesOf(raw2.documents, kinds)) = {d \in Counted(raw2) : d.kind \in kinds}
  BY <1>1, CountedOfKinds
<1>3. QED
  BY <1>2 DEF SameCounted

\* Network sets.
LEMMA CountedSets ==
  ASSUME NEW raw, Written(raw), NEW raw2, Written(raw2), SameCounted(raw, raw2)
  PROVE  SetsIn(raw2) = SetsIn(raw)
<1> DEFINE nets == raw.networkSets
           T(w) == PlacesOf(w.documents, SetKinds)
<1>1. IsList(raw.documents) /\ IsList(raw2.documents) /\ IsList(nets) /\ raw2.networkSets = nets
  BY WrittenLists DEF IsList, SameCounted
<1>2. ASSUME NEW w, IsList(w.documents), w.networkSets = nets
      PROVE  SetsIn(w) = Outlived(nets, w.documents, T(w)) \cup Newest(w.documents, T(w))
  <2>1. SetsIn(w) = Current(nets \o Kept(w.documents, T(w)))
    BY <1>2 DEF SetsIn, PlacesOf
  <2>2. T(w) \subseteq DOMAIN w.documents /\ w.documents \in Seq(Range(w.documents))
    BY <1>2 DEF PlacesOf, IsList
  <2> HIDE DEF T
  <2>3. PickedFrom(Kept(w.documents, T(w)), w.documents, T(w))
    BY <2>2, KeptLists
  <2>4. nets \in Seq(Range(nets))
    BY <1>1 DEF IsList
  <2> HIDE DEF nets
  <2>5. QED
    BY <2>1, <2>3, <2>4, CurrentOfBoth
<1>3. SetKinds \subseteq CountedKinds /\ SetKinds \cap StagedKinds = {}
  BY DEF CountedKinds, SetKinds, StagedKinds
<1>4. Newest(raw2.documents, T(raw2)) = Newest(raw.documents, T(raw))
  BY <1>3, NewestAlike
<1>5. PICK n \in Nat : T(raw) \subseteq 1..n
  BY <1>1, PlacesBounded
<1>6. PICK m \in Nat : T(raw2) \subseteq 1..m
  BY <1>1, PlacesBounded
<1>7. SetsIn(raw) = Outlived(nets, raw.documents, T(raw)) \cup Newest(raw.documents, T(raw))
  BY <1>1, <1>2
<1>8. SetsIn(raw2) = Outlived(nets, raw2.documents, T(raw2)) \cup Newest(raw2.documents, T(raw2))
  BY <1>1, <1>2
<1> HIDE DEF T, nets
<1>9. Outlived(nets, raw.documents, T(raw)) = Outlived(nets, raw2.documents, T(raw2))
  BY <1>4, <1>5, <1>6, OutlivedAlike
<1>10. QED
  BY <1>4, <1>7, <1>8, <1>9

\* Accounts.
LEMMA CountedLabels ==
  ASSUME NEW raw, Written(raw), NEW raw2, Written(raw2), SameCounted(raw, raw2), NEW ns, NEW name
  PROVE  LabelsOf(All(raw2, raw2.serviceAccounts, "ServiceAccount"), ns, name)
           = LabelsOf(All(raw, raw.serviceAccounts, "ServiceAccount"), ns, name)
<1> DEFINE a == raw.serviceAccounts
           kinds == {"ServiceAccount"}
           T(w) == PlacesOf(w.documents, kinds)
           N == Newest(raw.documents, T(raw))
<1>1. IsList(raw.documents) /\ IsList(raw2.documents) /\ IsList(a) /\ raw2.serviceAccounts = a
  BY WrittenLists DEF IsList, SameCounted
<1>2. ASSUME NEW w, IsList(w.documents), w.serviceAccounts = a, Newest(w.documents, T(w)) = N
      PROVE  LabelledBy(LabelsOf(All(w, w.serviceAccounts, "ServiceAccount"), ns, name), N, ns, name,
                        LabelsOf(a, ns, name))
  <2> DEFINE l == Parsed(OfKinds(w.documents, {"ServiceAccount"}))
  <2>1. All(w, w.serviceAccounts, "ServiceAccount") = a \o l
    BY <1>2 DEF All
  <2>2. PickedFrom(l, w.documents, T(w))
    BY <1>2, PastedIs
  <2>3. PICK n \in Nat : T(w) \subseteq 1..n
    BY <1>2, PlacesBounded
  <2>4. OneKind(w.documents, T(w))
    BY DEF PlacesOf, OneKind
  <2> HIDE DEF l, T, N, a
  <2>5. LabelledBy(LabelsOf(a \o l, ns, name), Newest(w.documents, T(w)), ns, name, LabelsOf(a, ns, name))
    BY <1>1, <2>2, <2>3, <2>4, LabelsOfBoth
  <2>6. QED
    BY <1>2, <2>1, <2>5
<1>3. Newest(raw2.documents, T(raw2)) = N
  <2>1. kinds \subseteq CountedKinds /\ kinds \cap StagedKinds = {}
    BY DEF CountedKinds, StagedKinds
  <2> HIDE DEF kinds
  <2>2. QED
    BY <2>1, NewestAlike
<1>4. Newest(raw.documents, T(raw)) = N
  OBVIOUS
<1> DEFINE labels(w) == LabelsOf(All(w, w.serviceAccounts, "ServiceAccount"), ns, name)
           others == LabelsOf(a, ns, name)
<1> HIDE DEF a, T, N
<1>5. LabelledBy(labels(raw), N, ns, name, others)
  <2>1. IsList(raw.documents) /\ raw.serviceAccounts = a /\ Newest(raw.documents, T(raw)) = N
    BY <1>1, <1>4 DEF a
  <2>2. QED
    BY <1>2, <2>1
<1>6. LabelledBy(labels(raw2), N, ns, name, others)
  BY <1>1, <1>2, <1>3
<1> HIDE DEF labels, others
<1>7. labels(raw2) = labels(raw)
  BY <1>5, <1>6 DEF LabelledBy
<1>8. QED
  BY <1>7 DEF labels

\* Services.
LEMMA CountedServices ==
  ASSUME NEW raw, Written(raw), NEW raw2, Written(raw2), SameCounted(raw, raw2)
  PROVE  Range(All(raw2, raw2.services, "Service")) = Range(All(raw, raw.services, "Service"))
<1>1. ASSUME NEW w, Written(w)
      PROVE  Range(All(w, w.services, "Service")) = Range(w.services) \cup ServicesPasted(w)
  <2> DEFINE docs == w.documents
             l == Parsed(OfKinds(docs, {"Service"}))
             T == PlacesOf(docs, {"Service"})
  <2>1. w.services \in Seq(Range(w.services)) /\ IsList(docs)
    BY <1>1, WrittenLists DEF IsList
  <2>2. PickedFrom(l, docs, T)
    BY <2>1, PastedIs
  <2>3. PICK pos : Picks(l, docs, T, pos)
    BY <2>2 DEF PickedFrom
  <2>4. l \in Seq(Range(l))
    BY <2>2 DEF PickedFrom
  <2>5. All(w, w.services, "Service") = w.services \o l
    BY DEF All
  <2> HIDE DEF l
  <2>6. Range(w.services \o l) = Range(w.services) \cup Range(l)
    BY <2>1, <2>4, RangeConcat
  <2>7. Range(l) = {docs[i] : i \in T}
    BY <2>3 DEF Picks, Range
  <2>8. {docs[i] : i \in T} = ServicesPasted(w)
    BY DEF PlacesOf, ServicesPasted, Range
  <2>9. QED
    BY <2>5, <2>6, <2>7, <2>8
<1>2. raw2.services = raw.services /\ ServicesPasted(raw2) = ServicesPasted(raw)
  BY DEF SameCounted
<1>3. QED
  BY <1>1, <1>2

\* The documents are a list, and a Tier among them has no namespace.
TiersPasted(raw) ==
  IsList(raw.documents) /\ \A d \in Range(raw.documents) : d.kind = "Tier" => d.ns = ""

\* Tiers.
LEMMA CountedTiers ==
  ASSUME NEW raw, TiersPasted(raw), NEW raw2, TiersPasted(raw2), SameCounted(raw, raw2)
  PROVE  Tiers(raw2) = Tiers(raw)
<1> DEFINE kinds == {"Tier"}
           T(w) == PlacesOf(w.documents, kinds)
           tier(d) == Tier(d.name, d.order, d.default)
           all(w) == [i \in DOMAIN w.documents |-> Tier(w.documents[i].name, w.documents[i].order,
                                                        w.documents[i].default)]
           made(S) == {tier(d) : d \in S}
<1>1. ASSUME NEW w, TiersPasted(w)
      PROVE  Tiers(w) = Outlived(ReservedTiers, all(w), T(w)) \cup Newest(all(w), T(w))
  <2> DEFINE docs == w.documents
             sent == Sent(w, kinds)
             of == [i \in DOMAIN sent |-> LET d == sent[i] IN Tier(d.name, d.order, d.default)]
  <2>1. IsList(docs)
    BY <1>1 DEF TiersPasted
  <2>2. T(w) \subseteq DOMAIN docs /\ docs \in Seq(Range(docs))
    BY <2>1 DEF PlacesOf, IsList
  <2>3. T(w) = {i \in DOMAIN docs : docs[i].kind \in kinds /\ docs[i].ok /\ ~Skips(w, docs[i])}
    BY DEF PlacesOf, Skips, StagedKinds
  <2>4. sent = Kept(docs, T(w))
    BY <2>3 DEF Sent
  <2>5. Tiers(w) = Current(ReservedTiers \o of)
    BY DEF Tiers
  <2> HIDE DEF T, kinds
  <2>6. PickedFrom(sent, docs, T(w))
    BY <2>2, <2>4, KeptLists
  <2> HIDE DEF sent
  <2>7. PickedFrom(of, all(w), T(w))
    BY <2>2, <2>6, TiersPicked
  <2>8. ReservedTiers \in Seq(Range(ReservedTiers))
    BY ReservedList DEF IsList
  <2> HIDE DEF of, docs, all
  <2>9. QED
    BY <2>5, <2>7, <2>8, CurrentOfBoth
<1>2. ASSUME NEW w, TiersPasted(w)
      PROVE  Newest(all(w), T(w)) = made(Newest(w.documents, T(w)))
  <2> DEFINE docs == w.documents
             U == T(w)
  <2>1. \A i \in U : i \in DOMAIN docs /\ docs[i].kind = "Tier" /\ docs[i].ns = ""
    BY <1>2 DEF TiersPasted, PlacesOf, Range
  <2>2. \A i, j \in U : Key(all(w)[i]) = Key(all(w)[j]) <=> Key(docs[i]) = Key(docs[j])
    BY <2>1 DEF Key, Tier
  <2>3. \A i \in U : all(w)[i] = tier(docs[i])
    BY <2>1
  <2> HIDE DEF all, tier, T, kinds, docs, U
  <2>4. Newest(all(w), U) \subseteq made(Newest(docs, U))
    BY <2>2, <2>3 DEF Newest
  <2>5. made(Newest(docs, U)) \subseteq Newest(all(w), U)
    BY <2>2, <2>3 DEF Newest
  <2>6. QED
    BY <2>4, <2>5 DEF docs, U
<1>3. kinds \subseteq CountedKinds /\ kinds \cap StagedKinds = {}
  BY DEF CountedKinds, StagedKinds
<1> HIDE DEF kinds, all, made
<1>4. Newest(raw2.documents, T(raw2)) = Newest(raw.documents, T(raw))
  BY <1>3, NewestAlike
<1>5. Newest(all(raw2), T(raw2)) = Newest(all(raw), T(raw))
  BY <1>2, <1>4
<1>6. IsList(raw.documents) /\ IsList(raw2.documents)
  BY DEF TiersPasted
<1>7. PICK n \in Nat : T(raw) \subseteq 1..n
  BY <1>6, PlacesBounded
<1>8. PICK m \in Nat : T(raw2) \subseteq 1..m
  BY <1>6, PlacesBounded
<1> HIDE DEF T
<1>9. Outlived(ReservedTiers, all(raw2), T(raw2)) = Outlived(ReservedTiers, all(raw), T(raw))
  BY <1>5, <1>7, <1>8, OutlivedAlike
<1>10. QED
  BY <1>1, <1>5, <1>9

\* The requests read alike, and their workloads and Services are the same.
LEMMA CountedReads ==
  ASSUME NEW raw, Written(raw), NEW raw2, Written(raw2), SameCounted(raw, raw2)
  PROVE  SameReading(raw, raw2) /\ SameFrame(raw, raw2)
<1>1. /\ raw2.icmp = raw.icmp /\ raw2.namespaces = raw.namespaces
      /\ raw2.slices = raw.slices /\ raw2.endpoints = raw.endpoints /\ raw2.port = raw.port
  BY DEF SameCounted
<1>2. \A e, ref : IsIn(raw2, e, ref) <=> IsIn(raw, e, ref)
  <2>1. \A ns, name : LabelsOf(All(raw2, raw2.serviceAccounts, "ServiceAccount"), ns, name)
                        = LabelsOf(All(raw, raw.serviceAccounts, "ServiceAccount"), ns, name)
    BY CountedLabels
  <2>2. QED
    BY <1>1, <2>1 DEF IsIn
<1>3. \A e, ref : Named(raw2, e, ref) <=> Named(raw, e, ref)
  <2>1. SetsIn(raw2) = SetsIn(raw)
    BY CountedSets
  <2>2. Range(All(raw2, raw2.services, "Service")) = Range(All(raw, raw.services, "Service"))
    BY CountedServices
  <2>3. \A e, ns, name : Backs(raw2, e, ns, name) <=> Backs(raw, e, ns, name)
    BY <1>1, <2>2 DEF Backs
  <2>4. QED
    BY <1>2, <2>1, <2>3 DEF Named
<1>4. Tiers(raw2) = Tiers(raw)
  <2>1. TiersPasted(raw) /\ TiersPasted(raw2)
    BY WrittenLists DEF Written, TiersPasted, IsList
  <2>2. QED
    BY <2>1, CountedTiers
<1>5. Range(All(raw2, raw2.services, "Service")) = Range(All(raw, raw.services, "Service"))
  BY CountedServices
<1>6. QED
  BY <1>1, <1>2, <1>3, <1>4, <1>5 DEF SameReading, SameFrame

\* The policies in force are the same, and say the same.
LEMMA CountedCorrespond ==
  ASSUME NEW raw, Written(raw), NEW raw2, Written(raw2), SameCounted(raw, raw2)
  PROVE  Corresponds(raw, raw2, [d \in InForce(raw, raw.staged) |-> d])
<1> DEFINE S == InForce(raw, raw.staged)
           f == [d \in S |-> d]
<1>1. SameReading(raw, raw2)
  BY CountedReads
<1>2. InForce(raw2, raw2.staged) = S
  <2>1. IsList(raw.documents) /\ IsList(raw2.documents)
    BY WrittenLists DEF IsList
  <2>2. /\ S = {d \in Counted(raw) : d.kind \in PolicyKinds}
        /\ InForce(raw2, raw2.staged) = {d \in Counted(raw2) : d.kind \in PolicyKinds}
    BY <2>1, CountedPolicies
  <2>3. QED
    BY <2>2 DEF SameCounted
<1>3. \A rule, s, x : Applies(raw2, rule, s, x) <=> Applies(raw, rule, s, x)
  BY <1>1, AppliesAlike
<1>4. \A d, dir, s, x : DocSays(raw2, d, dir, s, x) = DocSays(raw, d, dir, s, x)
  <2>1. \A rule, s, x : Said(raw2, rule, s, x) = Said(raw, rule, s, x)
    BY <1>3 DEF Said
  <2>2. QED
    BY <2>1 DEF DocSays
<1>5. \A d \in S : SameSay(raw, raw2, d, f[d])
  BY <1>4 DEF SameSay
<1>6. Image(f, S) = S
  BY DEF Image
<1> HIDE DEF f, S
<1>7. SamePolicies(raw, raw2, f)
  BY <1>2, <1>5, <1>6 DEF SamePolicies, S
<1>8. QED
  BY <1>1, <1>7 DEF Corresponds, f, S

\* The matrix is a function of what counts of the documents.
THEOREM OnlyWhatCounts ==
  ASSUME NEW r \in Requests, "raw" \in DOMAIN r, NEW raw2, Written(raw2), SameCounted(r.raw, raw2),
         NEW stream2, NEW noCollapse2, NEW r2, r2 = Fed(raw2, stream2, noCollapse2)
  PROVE  Truth(r2, BuildActors(r2)) = Truth(r, BuildActors(r))
<1> DEFINE raw == r.raw
           f == [d \in InForce(raw, raw.staged) |-> d]
<1>1. Written(raw) /\ r = Fed(raw, r.stream, r.noCollapse)
  BY DocumentsAssumption
<1>2. Corresponds(raw, raw2, f) /\ SameFrame(raw, raw2)
  BY <1>1, CountedCorrespond, CountedReads
<1> HIDE DEF raw, f
<1>3. SidesAlike(raw, raw2)
  BY <1>2, SideAlike DEF SidesAlike
<1>4. SameTruth(r, r2)
  BY <1>1, <1>2, <1>3, TruthAlike
<1>5. QED
  BY <1>4 DEF SameTruth

\* The documents at this place are idle: unreadable, of no kind that counts, staged while
\* staged policies are not evaluated, or replaced by a later document of their name.
Idle(raw, i) ==
  LET docs == raw.documents
  IN  \/ ~docs[i].ok
      \/ docs[i].kind \notin CountedKinds \cup {"Service"}
      \/ Skips(raw, docs[i])
      \/ docs[i].kind # "Service"
         /\ \E j \in DOMAIN docs : i < j /\ docs[j].ok /\ Key(docs[j]) = Key(docs[i])

\* The request with other documents.
With(raw, docs2) == [raw EXCEPT !.documents = docs2]

\* Two requests that differ in their documents only.
SameButDocuments(raw, raw2) ==
  /\ raw2.serviceAccounts = raw.serviceAccounts /\ raw2.services = raw.services
  /\ raw2.namespaces = raw.namespaces /\ raw2.networkSets = raw.networkSets
  /\ raw2.slices = raw.slices /\ raw2.endpoints = raw.endpoints
  /\ raw2.staged = raw.staged /\ raw2.icmp = raw.icmp /\ raw2.port = raw.port

\* Without idle documents the same counts.
LEMMA WithoutIdle ==
  ASSUME NEW raw, IsList(raw.documents), NEW raw2, SameButDocuments(raw, raw2), NEW P,
         PickedFrom(raw2.documents, raw.documents, P), P \subseteq DOMAIN raw.documents,
         \A i \in DOMAIN raw.documents \ P : Idle(raw, i)
  PROVE  SameCounted(raw, raw2)
<1> DEFINE docs == raw.documents
           docs2 == raw2.documents
           R == ReadablePlaces(docs)
           R2 == ReadablePlaces(docs2)
<1>1. PICK pos : Picks(docs2, docs, P, pos)
  BY DEF PickedFrom
<1>2. /\ \A k \in DOMAIN docs2 : pos[k] \in P /\ docs2[k] = docs[pos[k]]
      /\ \A i \in P : \E k \in DOMAIN docs2 : pos[k] = i
      /\ \A k, l \in DOMAIN docs2 : k < l => pos[k] < pos[l]
  BY <1>1 DEF Picks
<1>3. DOMAIN docs = 1..Len(docs) /\ Len(docs) \in Nat /\ DOMAIN docs2 = 1..Len(docs2) /\ Len(docs2) \in Nat
  BY DEF IsList, PickedFrom
<1>4. R = {i \in DOMAIN docs : docs[i].ok} /\ R2 = {k \in DOMAIN docs2 : docs2[k].ok}
  BY DEF ReadablePlaces
<1>5. \A c, d : Key(c) = Key(d) => c.kind = d.kind /\ (Skips(raw, c) <=> Skips(raw, d))
  BY DEF Key, Skips
<1>6. \A d : Skips(raw2, d) <=> Skips(raw, d)
  BY DEF Skips, SameButDocuments
<1>7. "Service" \notin CountedKinds
  BY DEF CountedKinds, PolicyKinds, Defaulted, StagedKinds, SetKinds
<1>8. ASSUME NEW n \in R, docs[n].kind \in CountedKinds, ~Skips(raw, docs[n]),
             \A m \in R : Key(docs[m]) = Key(docs[n]) => m <= n
      PROVE  n \in P
  <2>1. ~Idle(raw, n)
    BY <1>3, <1>4, <1>7, <1>8 DEF Idle
  <2>2. QED
    BY <1>4, <1>8, <2>1
<1> HIDE DEF docs, docs2, R, R2
<1>9. ASSUME NEW d \in Newest(docs, R), d.kind \in CountedKinds, ~Skips(raw, d)
      PROVE  d \in Newest(docs2, R2)
  <2>1. PICK n \in R : d = docs[n] /\ \A m \in R : Key(docs[m]) = Key(docs[n]) => m <= n
    BY DEF Newest
  <2>2. n \in P
    BY <1>8, <1>9, <2>1
  <2>3. PICK k \in DOMAIN docs2 : pos[k] = n
    BY <1>2, <2>2
  <2>4. k \in R2 /\ docs2[k] = d
    BY <1>2, <1>4, <2>1, <2>3
  <2>5. ASSUME NEW l \in R2, Key(docs2[l]) = Key(docs2[k])
        PROVE  l <= k
    <3>1. pos[l] \in P /\ docs2[l] = docs[pos[l]] /\ l \in DOMAIN docs2
      BY <1>2, <1>4
    <3>2. pos[l] \in R /\ pos[l] \in Nat /\ n \in Nat
      BY <1>3, <1>4, <3>1 DEF docs
    <3>3. pos[l] <= n
      BY <2>1, <2>4, <2>5, <3>1, <3>2
    <3>4. ~(k < l)
      BY <1>2, <2>3, <3>1, <3>2, <3>3
    <3>5. QED
      BY <1>3, <3>1, <3>4
  <2>6. QED
    BY <2>4, <2>5 DEF Newest
<1>10. ASSUME NEW d \in Newest(docs2, R2), d.kind \in CountedKinds, ~Skips(raw, d)
       PROVE  d \in Newest(docs, R)
  <2>1. PICK k \in R2 : d = docs2[k] /\ \A l \in R2 : Key(docs2[l]) = Key(docs2[k]) => l <= k
    BY DEF Newest
  <2> DEFINE same == {m \in R : Key(docs[m]) = Key(d)}
  <2>2. k \in DOMAIN docs2 /\ pos[k] \in P /\ d = docs[pos[k]]
    BY <1>2, <1>4, <2>1
  <2>3. pos[k] \in same
    BY <1>4, <2>1, <2>2 DEF docs
  <2>4. same \subseteq 1..Len(docs)
    BY <1>3, <1>4
  <2>5. PICK n \in same : \A m \in same : m <= n
    <3> HIDE DEF same
    <3>1. QED
      BY <1>3, <2>3, <2>4, GreatestElement
  <2>6. n \in R /\ Key(docs[n]) = Key(d) /\ \A m \in R : Key(docs[m]) = Key(docs[n]) => m <= n
    BY <2>5
  <2>7. n \in P
    BY <1>5, <1>8, <1>10, <2>6
  <2>8. PICK l \in DOMAIN docs2 : pos[l] = n
    BY <1>2, <2>7
  <2>9. l \in R2 /\ docs2[l] = docs[n]
    BY <1>2, <1>4, <2>6, <2>8
  <2>10. l <= k
    BY <2>1, <2>6, <2>9
  <2>11. pos[k] <= n
    BY <2>3, <2>5
  <2>12. l = k
    <3>1. ASSUME l < k
          PROVE  FALSE
      <4>1. pos[l] < pos[k]
        BY <1>2, <2>2, <2>8, <3>1
      <4>2. pos[k] \in Nat /\ n \in Nat
        BY <2>3, <2>4, <2>5
      <4>3. QED
        BY <2>8, <2>11, <4>1, <4>2
    <3>2. QED
      BY <1>3, <2>2, <2>8, <2>10, <3>1
  <2>13. d = docs[n]
    BY <2>2, <2>8, <2>12
  <2>14. QED
    BY <2>6, <2>13 DEF Newest
<1>11. Counted(raw2) = Counted(raw)
  BY <1>6, <1>9, <1>10 DEF Counted, docs, docs2, R, R2
<1>12. ServicesPasted(raw2) = ServicesPasted(raw)
  <2>1. ASSUME NEW i \in DOMAIN docs, docs[i].kind = "Service", docs[i].ok
        PROVE  i \in P
    <3>1. ~Idle(raw, i)
      BY <2>1 DEF Idle, Skips, StagedKinds, docs
    <3>2. QED
      BY <3>1 DEF docs
  <2>2. ASSUME NEW d \in ServicesPasted(raw)
        PROVE  d \in ServicesPasted(raw2)
    <3>1. PICK i \in DOMAIN docs : d = docs[i]
      BY DEF ServicesPasted, Range, docs
    <3>2. d.kind = "Service" /\ d.ok
      BY DEF ServicesPasted
    <3>3. PICK k \in DOMAIN docs2 : pos[k] = i
      BY <1>2, <2>1, <3>1, <3>2
    <3>4. d = docs2[k]
      BY <1>2, <3>1, <3>3
    <3>5. QED
      BY <3>2, <3>4 DEF ServicesPasted, Range, docs2
  <2>3. ASSUME NEW d \in ServicesPasted(raw2)
        PROVE  d \in ServicesPasted(raw)
    <3>1. PICK k \in DOMAIN docs2 : d = docs2[k]
      BY DEF ServicesPasted, Range, docs2
    <3>2. d = docs[pos[k]] /\ pos[k] \in DOMAIN docs
      BY <1>2, <3>1 DEF docs
    <3>3. QED
      BY <3>2 DEF ServicesPasted, Range, docs
  <2>4. QED
    BY <2>2, <2>3
<1>13. QED
  BY <1>11, <1>12 DEF SameCounted, SameButDocuments

\* A request with other documents differs in nothing else.
LEMMA WithIs ==
  ASSUME NEW raw, Written(raw), NEW docs2
  PROVE  /\ SameButDocuments(raw, With(raw, docs2)) /\ With(raw, docs2).documents = docs2
         /\ With(raw, docs2) = [documents |-> docs2, serviceAccounts |-> raw.serviceAccounts,
              namespaces |-> raw.namespaces, services |-> raw.services,
              networkSets |-> raw.networkSets, slices |-> raw.slices,
              endpoints |-> raw.endpoints, staged |-> raw.staged,
              icmp |-> raw.icmp, port |-> raw.port]
<1>1. raw = [documents |-> raw.documents, serviceAccounts |-> raw.serviceAccounts,
             namespaces |-> raw.namespaces, services |-> raw.services,
             networkSets |-> raw.networkSets, slices |-> raw.slices,
             endpoints |-> raw.endpoints, staged |-> raw.staged,
             icmp |-> raw.icmp, port |-> raw.port]
  BY DEF Written
<1>2. With(raw, docs2) = [documents |-> docs2, serviceAccounts |-> raw.serviceAccounts,
              namespaces |-> raw.namespaces, services |-> raw.services,
              networkSets |-> raw.networkSets, slices |-> raw.slices,
              endpoints |-> raw.endpoints, staged |-> raw.staged,
              icmp |-> raw.icmp, port |-> raw.port]
  BY <1>1 DEF With
<1>3. QED
  BY <1>2 DEF SameButDocuments

\* Of documents that are written, any list that counts alike is written.
LEMMA OthersWritten ==
  ASSUME NEW raw, Written(raw), NEW docs2, IsList(docs2), Range(docs2) \subseteq Range(raw.documents),
         SameCounted(raw, With(raw, docs2))
  PROVE  Written(With(raw, docs2))
<1> DEFINE raw2 == With(raw, docs2)
<1>1. /\ SameButDocuments(raw, raw2) /\ raw2.documents = docs2
      /\ raw2 = [documents |-> docs2, serviceAccounts |-> raw.serviceAccounts,
                 namespaces |-> raw.namespaces, services |-> raw.services,
                 networkSets |-> raw.networkSets, slices |-> raw.slices,
                 endpoints |-> raw.endpoints, staged |-> raw.staged,
                 icmp |-> raw.icmp, port |-> raw.port]
  BY WithIs
<1>2. SameCounted(raw, raw2)
  OBVIOUS
<1> HIDE DEF raw2
<1>3. \A d \in Range(docs2) : d.kind = "Tier" => d.ns = ""
  BY DEF Written
<1>4. TiersPasted(raw) /\ TiersPasted(raw2)
  BY <1>1, <1>3, WrittenLists DEF Written, TiersPasted, IsList
<1>5. Tiers(raw2) = Tiers(raw)
  BY <1>2, <1>4, CountedTiers
<1>6. raw2 = [documents |-> raw2.documents, serviceAccounts |-> raw2.serviceAccounts,
              namespaces |-> raw2.namespaces, services |-> raw2.services,
              networkSets |-> raw2.networkSets, slices |-> raw2.slices,
              endpoints |-> raw2.endpoints, staged |-> raw2.staged,
              icmp |-> raw2.icmp, port |-> raw2.port]
  BY <1>1 DEF SameButDocuments
<1>7. \A s \in {raw2.documents, raw2.serviceAccounts, raw2.services, raw2.networkSets, raw2.endpoints} :
        s \in Seq(Range(s))
  BY <1>1 DEF Written, SameButDocuments, IsList
<1>8. \A e, x \in Range(raw2.endpoints) : e.id = x.id \/ e.ip = x.ip => e = x
  BY <1>1 DEF Written, SameButDocuments
<1> DEFINE policies(w) == {d \in Range(w.documents) : d.kind \in PolicyKinds /\ d.ok}
<1>9. policies(raw2) \subseteq policies(raw)
  BY <1>1
<1>10. /\ \A d \in policies(raw) : PolicyWritten(d)
       /\ \A c, d \in policies(raw) : c.tier = d.tier /\ c.order = d.order => Key(c) = Key(d)
  BY DEF Written
<1> HIDE DEF policies
<1>11. /\ \A d \in policies(raw2) : PolicyWritten(d)
       /\ \A c, d \in policies(raw2) : c.tier = d.tier /\ c.order = d.order => Key(c) = Key(d)
  BY <1>9, <1>10
<1>12. /\ \A t \in Tiers(raw2) : t.order \in Nat \ {0} /\ t.default \in {"pass", "deny"}
       /\ \A t, u \in Tiers(raw2) : t.order = u.order => t = u
  BY <1>5 DEF Written
<1>13. Written(raw2)
  BY <1>1, <1>3, <1>6, <1>7, <1>8, <1>11, <1>12 DEF Written, policies
<1>14. QED
  BY <1>13 DEF raw2

\* Leaving out documents that are idle leaves the matrix as it is: what cannot be read, what is
\* staged while staged policies are not evaluated, and what a later document replaces.
THEOREM IdleDocuments ==
  ASSUME NEW r \in Requests, "raw" \in DOMAIN r, NEW docs2, NEW P,
         PickedFrom(docs2, r.raw.documents, P), P \subseteq DOMAIN r.raw.documents,
         \A i \in DOMAIN r.raw.documents \ P : Idle(r.raw, i),
         NEW stream2, NEW noCollapse2, NEW r2, r2 = Fed(With(r.raw, docs2), stream2, noCollapse2)
  PROVE  Truth(r2, BuildActors(r2)) = Truth(r, BuildActors(r))
<1> DEFINE raw == r.raw
           raw2 == With(raw, docs2)
<1>1. Written(raw)
  BY DocumentsAssumption
<1>2. SameButDocuments(raw, raw2) /\ raw2.documents = docs2
  BY <1>1, WithIs
<1>3. IsList(raw.documents) /\ IsList(docs2)
  BY <1>1, WrittenLists DEF IsList, PickedFrom
<1>4. Range(docs2) \subseteq Range(raw.documents)
  <2>1. PICK pos : Picks(docs2, raw.documents, P, pos)
    BY DEF PickedFrom
  <2>2. \A k \in DOMAIN docs2 : pos[k] \in DOMAIN raw.documents /\ docs2[k] = raw.documents[pos[k]]
    BY <2>1 DEF Picks
  <2>3. QED
    BY <2>2 DEF Range
<1>5. SameCounted(raw, raw2)
  <2> HIDE DEF raw2
  <2>1. QED
    BY <1>2, <1>3, WithoutIdle
<1>6. Written(raw2)
  BY <1>1, <1>3, <1>4, <1>5, OthersWritten
<1> HIDE DEF raw2
<1>7. QED
  BY <1>5, <1>6, OnlyWhatCounts DEF raw2

\* Documents whose names tell the readable ones apart.
ToldApart(docs) ==
  \A c, d \in Range(docs) : c.ok /\ d.ok /\ Key(c) = Key(d) => c = d

\* When names tell them apart, what is newest is what is readable.
LEMMA NewestApart ==
  ASSUME NEW docs, IsList(docs), ToldApart(docs)
  PROVE  Newest(docs, ReadablePlaces(docs)) = {d \in Range(docs) : d.ok}
<1> DEFINE R == ReadablePlaces(docs)
<1>1. R \subseteq 1..Len(docs) /\ Len(docs) \in Nat
  BY DEF ReadablePlaces, IsList
<1>2. \A i \in R : docs[i] \in Range(docs) /\ docs[i].ok
  BY DEF ReadablePlaces, Range
<1>3. \A d \in Range(docs) : d.ok => \E i \in R : d = docs[i]
  BY DEF ReadablePlaces, Range
<1> HIDE DEF R
<1>4. \A d \in Newest(docs, R) : \E i \in R : d = docs[i]
  BY DEF Newest
<1>5. ASSUME NEW d \in Range(docs), d.ok
      PROVE  d \in Newest(docs, R)
  <2>1. PICK i \in R : d = docs[i]
    BY <1>3, <1>5
  <2>2. PICK c \in Newest(docs, R) : Key(c) = Key(docs[i])
    BY <1>1, <2>1, NewestKeys
  <2>3. c \in Range(docs) /\ c.ok
    BY <1>2, <1>4, <2>2
  <2>4. c = d
    BY <1>5, <2>1, <2>2, <2>3 DEF ToldApart
  <2>5. QED
    BY <2>2, <2>4
<1>6. QED
  BY <1>2, <1>4, <1>5 DEF R

\* Documents with names of their own may be pasted in any order.
THEOREM OrderOfDocuments ==
  ASSUME NEW r \in Requests, "raw" \in DOMAIN r, ToldApart(r.raw.documents),
         NEW docs2, IsList(docs2), Range(docs2) = Range(r.raw.documents),
         NEW stream2, NEW noCollapse2, NEW r2, r2 = Fed(With(r.raw, docs2), stream2, noCollapse2)
  PROVE  Truth(r2, BuildActors(r2)) = Truth(r, BuildActors(r))
<1> DEFINE raw == r.raw
           raw2 == With(raw, docs2)
<1>1. Written(raw)
  BY DocumentsAssumption
<1>2. SameButDocuments(raw, raw2) /\ raw2.documents = docs2
  BY <1>1, WithIs
<1>3. IsList(raw.documents)
  BY <1>1, WrittenLists DEF IsList
<1>4. Newest(docs2, ReadablePlaces(docs2)) = Newest(raw.documents, ReadablePlaces(raw.documents))
  <2>1. ToldApart(docs2)
    BY DEF ToldApart
  <2>2. QED
    BY <1>3, <2>1, NewestApart
<1>5. SameCounted(raw, raw2)
  <2> HIDE DEF raw2
  <2>1. \A d : Skips(raw2, d) <=> Skips(raw, d)
    BY <1>2 DEF Skips, SameButDocuments
  <2>2. Counted(raw2) = Counted(raw)
    BY <1>2, <1>4, <2>1 DEF Counted
  <2>3. ServicesPasted(raw2) = ServicesPasted(raw)
    BY <1>2 DEF ServicesPasted
  <2>4. QED
    BY <1>2, <2>2, <2>3 DEF SameCounted, SameButDocuments
<1>6. Written(raw2)
  BY <1>1, <1>5, OthersWritten
<1> HIDE DEF raw2
<1>7. QED
  BY <1>5, <1>6, OnlyWhatCounts DEF raw2

-----------------------------------------------------------------------------
(* The tier view *)

\* The request of the tier view, before pasted objects join it.
Viewed(raw) == [raw EXCEPT !.staged = TRUE]

\* No pasted account has labels that the typed ones do not give an endpoint anyway.
AccountsTyped(raw) ==
  \A e \in Range(raw.endpoints) : e.sa # "" =>
    LabelsOf(raw.serviceAccounts, e.ns, e.sa)
      = LabelsOf(All(raw, raw.serviceAccounts, "ServiceAccount"), e.ns, e.sa)

\* What is viewed is written too, and pasted objects join it as they join the request.
LEMMA ViewedIs ==
  ASSUME NEW raw, Written(raw)
  PROVE  LET v == Viewed(raw)
         IN  /\ Written(v) /\ v.staged = TRUE
             /\ v.documents = raw.documents /\ v.serviceAccounts = raw.serviceAccounts
             /\ v.namespaces = raw.namespaces /\ v.endpoints = raw.endpoints
             /\ [ApplyInlineResources(raw) EXCEPT !.staged = TRUE] = ApplyInlineResources(v)
<1> DEFINE v == Viewed(raw)
<1>1. raw = [documents |-> raw.documents, serviceAccounts |-> raw.serviceAccounts,
             namespaces |-> raw.namespaces, services |-> raw.services,
             networkSets |-> raw.networkSets, slices |-> raw.slices,
             endpoints |-> raw.endpoints, staged |-> raw.staged,
             icmp |-> raw.icmp, port |-> raw.port]
  BY DEF Written
<1>2. v = [documents |-> raw.documents, serviceAccounts |-> raw.serviceAccounts,
           namespaces |-> raw.namespaces, services |-> raw.services,
           networkSets |-> raw.networkSets, slices |-> raw.slices,
           endpoints |-> raw.endpoints, staged |-> TRUE,
           icmp |-> raw.icmp, port |-> raw.port]
  <2>1. \A b : [raw EXCEPT !.staged = b]
               = [documents |-> raw.documents, serviceAccounts |-> raw.serviceAccounts,
                  namespaces |-> raw.namespaces, services |-> raw.services,
                  networkSets |-> raw.networkSets, slices |-> raw.slices,
                  endpoints |-> raw.endpoints, staged |-> b,
                  icmp |-> raw.icmp, port |-> raw.port]
    BY <1>1
  <2>2. QED
    BY <2>1, Zenon DEF Viewed
<1>3. /\ v.documents = raw.documents /\ v.serviceAccounts = raw.serviceAccounts
      /\ v.namespaces = raw.namespaces /\ v.services = raw.services
      /\ v.networkSets = raw.networkSets /\ v.slices = raw.slices
      /\ v.endpoints = raw.endpoints /\ v.staged = TRUE /\ v.icmp = raw.icmp /\ v.port = raw.port
  BY <1>2
<1>4. v = [documents |-> v.documents, serviceAccounts |-> v.serviceAccounts,
           namespaces |-> v.namespaces, services |-> v.services,
           networkSets |-> v.networkSets, slices |-> v.slices,
           endpoints |-> v.endpoints, staged |-> v.staged,
           icmp |-> v.icmp, port |-> v.port]
  BY <1>2, <1>3
<1> HIDE DEF v
<1>5. Sent(v, {"Tier"}) = Sent(raw, {"Tier"})
  <2>1. \A d : d.kind \in {"Tier"} => ~Skips(v, d) /\ ~Skips(raw, d)
    BY DEF Skips, StagedKinds
  <2>2. \A d : d.kind \in {"Tier"} /\ d.ok /\ ~Skips(v, d) <=> d.kind \in {"Tier"} /\ d.ok /\ ~Skips(raw, d)
    BY <2>1
  <2>3. QED
    BY <1>3, <2>2 DEF Sent
<1>6. Tiers(v) = Tiers(raw)
  BY <1>5 DEF Tiers
<1>7. Written(v)
  BY <1>3, <1>4, <1>6 DEF Written
<1>8. [ApplyInlineResources(raw) EXCEPT !.staged = TRUE] = ApplyInlineResources(v)
  <2> DEFINE docs == Kept(raw.documents, {i \in DOMAIN raw.documents :
                                            raw.documents[i].kind \notin InlineKinds})
             accounts == raw.serviceAccounts \o Parsed(OfKinds(raw.documents, {"ServiceAccount"}))
             services == raw.services \o Parsed(OfKinds(raw.documents, {"Service"}))
  <2>1. /\ ApplyInlineResources(raw)
             = [raw EXCEPT !.documents = docs, !.serviceAccounts = accounts, !.services = services]
        /\ ApplyInlineResources(v)
             = [v EXCEPT !.documents = docs, !.serviceAccounts = accounts, !.services = services]
    BY <1>3 DEF ApplyInlineResources
  <2>2. v = [raw EXCEPT !.staged = TRUE]
    BY DEF v, Viewed
  <2> HIDE DEF docs, accounts, services
  <2>3. QED
    BY <1>1, <2>1, <2>2
<1>9. QED
  BY <1>3, <1>7, <1>8 DEF v

\* The endpoints of the graph are a function of the policies in force, of the tiers and of the
\* labels of each.
LEMMA EndpointsAlike ==
  ASSUME NEW raw, NEW raw2, raw2.endpoints = raw.endpoints, Tiers(raw2) = Tiers(raw),
         Current(Sent(raw2, PolicyKinds)) = Current(Sent(raw, PolicyKinds)),
         \A e \in Range(raw.endpoints) : GraphLabels(raw2, e) = GraphLabels(raw, e),
         \A e, x \in Range(raw.endpoints) : e.id = x.id => e = x, NEW probe
  PROVE  BuildGraph(raw2, probe).wepById = BuildGraph(raw, probe).wepById
<1> DEFINE E == Range(raw.endpoints)
           fed == {FedPolicy(d, probe) : d \in Current(Sent(raw, PolicyKinds))}
           policies(w) == {p \in fed : \E e \in E : p.selects \subseteq GraphLabels(w, e)}
           one(i) == CHOOSE e \in E : e.id = i
           wep(w, i) == Wep(w, Tiers(raw), policies(w), one(i))
<1>1. policies(raw2) = policies(raw)
  <2> HIDE DEF fed
  <2>1. QED
    OBVIOUS
<1>2. /\ BuildGraph(raw, probe).wepById = [i \in {e.id : e \in E} |-> wep(raw, i)]
      /\ BuildGraph(raw2, probe).wepById = [i \in {e.id : e \in E} |-> wep(raw2, i)]
  BY DEF BuildGraph
<1>3. ASSUME NEW e \in E
      PROVE  wep(raw2, e.id) = wep(raw, e.id)
  <2>1. one(e.id) = e
    OBVIOUS
  <2>2. GraphLabels(raw2, e) = GraphLabels(raw, e)
    OBVIOUS
  <2> HIDE DEF policies, one, E
  <2>3. Wep(raw2, Tiers(raw), policies(raw), e) = Wep(raw, Tiers(raw), policies(raw), e)
    BY <2>2 DEF Wep
  <2>4. QED
    BY <1>1, <2>1, <2>3
<1> HIDE DEF wep, E
<1>4. \A i \in {e.id : e \in E} : wep(raw2, i) = wep(raw, i)
  BY <1>3
<1>5. QED
  BY <1>2, <1>4

\* Unless a pasted account labels an endpoint, the tier view shows every endpoint as the graph
\* of the resolved request has it.
LEMMA ViewAlike ==
  ASSUME NEW raw, Written(raw), AccountsTyped(raw)
  PROVE  TierView(raw).wepById
           = BuildGraph([ApplyInlineResources(raw) EXCEPT !.staged = TRUE], NoIcmp).wepById
<1> DEFINE v == Viewed(raw)
           r == ApplyInlineResources(v)
<1>1. /\ Written(v) /\ v.staged = TRUE
      /\ v.documents = raw.documents /\ v.serviceAccounts = raw.serviceAccounts
      /\ v.namespaces = raw.namespaces /\ v.endpoints = raw.endpoints
      /\ [ApplyInlineResources(raw) EXCEPT !.staged = TRUE] = r
  BY ViewedIs
<1>2. TierView(raw) = BuildGraph(v, NoIcmp)
  BY DEF TierView, Viewed
<1> HIDE DEF v
<1>3. /\ r.endpoints = v.endpoints /\ r.namespaces = v.namespaces
      /\ r.serviceAccounts = All(v, v.serviceAccounts, "ServiceAccount")
  BY <1>1, Inlined
<1> HIDE DEF r
<1>4. Tiers(r) = Tiers(v)
  BY <1>1, TiersSent DEF r
<1>5. Current(Sent(r, PolicyKinds)) = Current(Sent(v, PolicyKinds))
  <2>1. Current(Sent(r, PolicyKinds)) = InForce(v, v.staged)
    BY <1>1, PoliciesSent DEF r
  <2>2. Sent(v, PolicyKinds) = Kept(v.documents, {i \in DOMAIN v.documents :
                                 /\ v.documents[i].ok /\ v.documents[i].kind \in PolicyKinds
                                 /\ v.staged \/ v.documents[i].kind \notin StagedKinds})
    <3>1. \A d : d.kind \in PolicyKinds /\ d.ok /\ ~Skips(v, d)
                 <=> d.ok /\ d.kind \in PolicyKinds /\ (v.staged \/ d.kind \notin StagedKinds)
      BY DEF Skips
    <3>2. QED
      BY <3>1 DEF Sent
  <2>3. QED
    BY <2>1, <2>2 DEF InForce
<1>6. \A e \in Range(v.endpoints) : GraphLabels(r, e) = GraphLabels(v, e)
  <2>1. All(v, v.serviceAccounts, "ServiceAccount") = All(raw, raw.serviceAccounts, "ServiceAccount")
    BY <1>1 DEF All
  <2>2. \A e \in Range(v.endpoints) : e.sa # "" =>
          LabelsOf(r.serviceAccounts, e.ns, e.sa) = LabelsOf(v.serviceAccounts, e.ns, e.sa)
    BY <1>1, <1>3, <2>1 DEF AccountsTyped
  <2>3. QED
    BY <1>3, <2>2 DEF GraphLabels
<1>7. \A e, x \in Range(v.endpoints) : e.id = x.id => e = x
  BY <1>1 DEF Written
<1>8. BuildGraph(r, NoIcmp).wepById = BuildGraph(v, NoIcmp).wepById
  BY <1>3, <1>4, <1>5, <1>6, <1>7, EndpointsAlike
<1>9. QED
  BY <1>1, <1>2, <1>8

\* In every sweep the tier view (ResolveTierMatches of tiermatch.go), which is built of the
\* request as it is, is what the resolved request has, unless a pasted ServiceAccount gives
\* an endpoint labels.  A run shows that with one it need not be.
THEOREM SweepTierView == Spec => [](HasRaw /\ AccountsTyped(req.raw) => TierViewIsTheGraph)
<1>1. IInv => (HasRaw /\ AccountsTyped(req.raw) => TierViewIsTheGraph)
  <2> SUFFICES ASSUME IInv, HasRaw, AccountsTyped(req.raw), NEW i
               PROVE  TierMatch(TierView(req.raw).wepById[i])
                        = TierMatch(BuildGraph([ApplyInlineResources(req.raw) EXCEPT !.staged = TRUE],
                                               NoIcmp).wepById[i])
    BY DEF TierViewIsTheGraph
  <2>1. req \in Requests
    BY DEF IInv, Shape
  <2>2. Written(req.raw)
    BY <2>1, DocumentsAssumption DEF HasRaw
  <2>3. TierView(req.raw).wepById
          = BuildGraph([ApplyInlineResources(req.raw) EXCEPT !.staged = TRUE], NoIcmp).wepById
    BY <2>2, ViewAlike
  <2>4. QED
    BY <2>3
<1>2. QED
  BY <1>1, SpecIInv, PTL
=============================================================================
