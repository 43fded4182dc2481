----------------------------- MODULE HnsProofs -----------------------------
(***************************************************************************)
(* What is proved of the Windows renderer for all endpoints and packets:   *)
(* the priorities keep the order of the rules that matters, and the list   *)
(* decides every packet as Linux does, unless the linter warned or lists   *)
(* of ports were combined wrongly, and for which rules they never are.     *)
(***************************************************************************)
EXTENDS HnsRender, ListProofs

(* The first rule that is hit *)

Touches(list, p) == \E k \in DOMAIN list : Hits(list[k], p)

LEMMA FirstIs ==
  ASSUME NEW list, DOMAIN list \subseteq Nat, NEW p, NEW o, NEW n \in DOMAIN list,
         Hits(list[n], p), \A k \in DOMAIN list : k < n => ~Hits(list[k], p)
  PROVE  First(list, p, o) = list[n].action
<1> DEFINE hit == {k \in DOMAIN list : Hits(list[k], p)}
<1>1. hit \subseteq Nat /\ n \in hit /\ \A k \in hit : ~(k < n)
  OBVIOUS
<1>2. \A k \in hit : n <= k
  BY <1>1
<1>3. Least(hit) = n
  <2> HIDE DEF hit
  <2>1. QED
    BY <1>1, <1>2, LeastOnly
<1>4. QED
  BY <1>1, <1>3 DEF First

LEMMA FirstNone ==
  ASSUME NEW list, NEW p, NEW o, ~Touches(list, p)
  PROVE  First(list, p, o) = o
BY DEF First, Touches

\* Either nothing is hit or there is a first one.
LEMMA FirstExists ==
  ASSUME NEW list, DOMAIN list \subseteq Nat, NEW p, Touches(list, p)
  PROVE  \E m \in DOMAIN list : Hits(list[m], p)
                                /\ \A k \in DOMAIN list : k < m => ~Hits(list[k], p)
<1> DEFINE hit == {k \in DOMAIN list : Hits(list[k], p)}
<1>1. hit \subseteq Nat /\ hit # {}
  BY DEF Touches
<1>2. PICK m \in hit : \A k \in hit : m <= k
  <2> HIDE DEF hit
  <2>1. QED
    BY <1>1, LeastIs
<1>3. \A k \in DOMAIN list : k < m => k \notin hit
  BY <1>1, <1>2
<1>4. QED
  BY <1>2, <1>3

\* The rules of a are hit as those of b at the positions pos are, in the same order, and
\* none that is hit is left out.
Mirrors(a, b, p, pos) ==
  /\ pos \in [DOMAIN a -> DOMAIN b]
  /\ \A l, m \in DOMAIN a : l < m => pos[l] < pos[m]
  /\ \A m \in DOMAIN a : /\ Hits(a[m], p) <=> Hits(b[pos[m]], p)
                         /\ a[m].action = b[pos[m]].action
  /\ \A n \in DOMAIN b : Hits(b[n], p) => \E m \in DOMAIN a : pos[m] = n

LEMMA SameFirst ==
  ASSUME NEW a, DOMAIN a \subseteq Nat, NEW b, DOMAIN b \subseteq Nat, NEW p, NEW o,
         NEW pos, Mirrors(a, b, p, pos)
  PROVE  First(a, p, o) = First(b, p, o) /\ (Touches(a, p) <=> Touches(b, p))
<1>0. Touches(a, p) <=> Touches(b, p)
  BY DEF Mirrors, Touches
<1>1. CASE ~Touches(a, p)
  BY <1>0, <1>1, FirstNone
<1>2. CASE Touches(a, p)
  <2>1. PICK m \in DOMAIN a : Hits(a[m], p) /\ \A k \in DOMAIN a : k < m => ~Hits(a[k], p)
    BY <1>2, FirstExists
  <2>2. First(a, p, o) = a[m].action
    BY <2>1, FirstIs
  <2>3. pos[m] \in DOMAIN b /\ Hits(b[pos[m]], p)
    BY <2>1 DEF Mirrors
  <2>4. ASSUME NEW k \in DOMAIN b, k < pos[m], Hits(b[k], p)
        PROVE  FALSE
    <3>1. PICK l \in DOMAIN a : pos[l] = k
      BY <2>4 DEF Mirrors
    <3>2. Hits(a[l], p) /\ ~(l < m)
      BY <2>1, <2>4, <3>1 DEF Mirrors
    <3>3. l = m \/ m < l
      BY <3>2
    <3>4. pos[m] \in Nat /\ k \in Nat /\ (m < l => pos[m] < k)
      BY <3>1 DEF Mirrors
    <3>5. QED
      BY <2>4, <3>1, <3>3, <3>4
  <2>5. First(b, p, o) = b[pos[m]].action
    BY <2>3, <2>4, FirstIs
  <2>6. a[m].action = b[pos[m]].action
    BY <2>1 DEF Mirrors
  <2>7. QED
    BY <1>0, <2>2, <2>5, <2>6
<1>3. QED
  BY <1>0, <1>1, <1>2

\* A concatenation is decided by its front if that decides.
LEMMA FirstConcat ==
  ASSUME NEW S, NEW a \in Seq(S), NEW b \in Seq(S), NEW p, NEW o
  PROVE  /\ Touches(a, p) => First(a \o b, p, o) = First(a, p, o)
         /\ ~Touches(a, p) => First(a \o b, p, o) = First(b, p, o)
         /\ Touches(a \o b, p) <=> Touches(a, p) \/ Touches(b, p)
<1> DEFINE c == a \o b
           m == Len(a)
<1>1. /\ m \in Nat /\ Len(b) \in Nat /\ DOMAIN a = 1..m /\ DOMAIN b = 1..Len(b)
      /\ c \in Seq(S) /\ DOMAIN c = 1..(m + Len(b))
  OBVIOUS
<1>0. DOMAIN a \subseteq Nat /\ DOMAIN b \subseteq Nat
  OBVIOUS
<1>2. \A k \in DOMAIN a : k \in DOMAIN c /\ c[k] = a[k]
  OBVIOUS
<1>3. \A k \in DOMAIN b : m + k \in DOMAIN c /\ c[m + k] = b[k]
  OBVIOUS
<1>4. \A k \in DOMAIN c : k \in DOMAIN a \/ (k > m /\ \E j \in DOMAIN b : k = m + j)
  <2>1. \A k \in DOMAIN c : k > m => k - m \in DOMAIN b /\ k = m + (k - m)
    BY <1>1
  <2>2. QED
    BY <1>1, <2>1
<1> HIDE DEF c
<1>5. Touches(c, p) <=> Touches(a, p) \/ Touches(b, p)
  BY <1>2, <1>3, <1>4 DEF Touches
<1>6. ASSUME Touches(a, p)
      PROVE  First(c, p, o) = First(a, p, o)
  <2>1. PICK n \in DOMAIN a : Hits(a[n], p) /\ \A k \in DOMAIN a : k < n => ~Hits(a[k], p)
    BY <1>0, <1>6, FirstExists
  <2>2. \A k \in DOMAIN c : k < n => k \in DOMAIN a
    BY <1>1
  <2>3. \A k \in DOMAIN c : k < n => ~Hits(c[k], p)
    BY <1>2, <2>1, <2>2
  <2>4. n \in DOMAIN c /\ c[n] = a[n] /\ DOMAIN c \subseteq Nat /\ DOMAIN a \subseteq Nat
    BY <1>1, <1>2
  <2>5. First(c, p, o) = c[n].action
    BY <2>1, <2>3, <2>4, FirstIs
  <2>6. First(a, p, o) = a[n].action
    BY <2>1, <2>4, FirstIs
  <2>7. QED
    BY <2>4, <2>5, <2>6
<1>7. ASSUME ~Touches(a, p)
      PROVE  First(c, p, o) = First(b, p, o)
  <2>1. CASE ~Touches(b, p)
    BY <1>5, <1>7, <2>1, FirstNone
  <2>2. CASE Touches(b, p)
    <3>1. PICK n \in DOMAIN b : Hits(b[n], p) /\ \A k \in DOMAIN b : k < n => ~Hits(b[k], p)
      BY <1>0, <2>2, FirstExists
    <3>2. m + n \in DOMAIN c /\ c[m + n] = b[n] /\ DOMAIN c \subseteq Nat /\ DOMAIN b \subseteq Nat
      BY <1>1, <1>3
    <3>3. ASSUME NEW k \in DOMAIN c, k < m + n
          PROVE  ~Hits(c[k], p)
      <4>1. CASE k \in DOMAIN a
        BY <1>2, <1>7, <4>1 DEF Touches
      <4>2. ASSUME NEW j \in DOMAIN b, k = m + j
            PROVE  ~Hits(c[k], p)
        <5>1. j < n
          BY <1>1, <3>2, <3>3, <4>2
        <5>2. QED
          BY <1>3, <3>1, <4>2, <5>1
      <4>3. QED
        BY <1>4, <4>1, <4>2
    <3>4. First(c, p, o) = c[m + n].action
      BY <3>1, <3>2, <3>3, FirstIs
    <3>5. First(b, p, o) = b[n].action
      BY <3>1, <3>2, FirstIs
    <3>6. QED
      BY <3>2, <3>4, <3>5
  <2>3. QED
    BY <2>1, <2>2
<1>8. QED
  BY <1>5, <1>6, <1>7 DEF c

\* What is hit does not depend on what there is otherwise.
LEMMA FirstOtherwise ==
  ASSUME NEW list, NEW p, NEW o, NEW o2, Touches(list, p)
  PROVE  First(list, p, o) = First(list, p, o2)
BY DEF First, Touches

\* What is left of the rules of a tier, and what it answers if nothing is dropped.
LEMMA GatheredType ==
  ASSUME NEW rules \in Seq(Rules), NEW drop \in BOOLEAN
  PROVE  GetPolicySetRules(rules, drop) \in Seq(Rules)
<1> DEFINE T == {n \in DOMAIN rules : ~rules[n].unsupported}
<1>1. Len(rules) \in Nat /\ T \subseteq 1..Len(rules) /\ \A n \in T : rules[n] \in Rules
  OBVIOUS
<1>2. Kept(rules, T) \in Seq(Rules)
  <2> HIDE DEF T
  <2>1. QED
    BY <1>1, KeptType
<1>3. Catch("Block") \in Rules /\ Catch("Pass") \in Rules
  BY DEF Catch, Rules
<1>4. QED
  BY <1>2, <1>3 DEF GetPolicySetRules

LEMMA GatheredAnswer ==
  ASSUME NEW rules \in Seq(Rules), NEW drop \in BOOLEAN, NEW p,
         \A n \in DOMAIN rules : ~rules[n].unsupported
  PROVE  LET list == GetPolicySetRules(rules, drop)
         IN  /\ Touches(list, p)
             /\ First(list, p, "Pass") = First(rules, p, IF drop THEN "Block" ELSE "Pass")
             /\ drop /\ (\A n \in DOMAIN rules : rules[n].action # "Pass") => ~Passes(list)
<1> DEFINE T == {n \in DOMAIN rules : ~rules[n].unsupported}
           kept == Kept(rules, T)
           last == IF drop THEN "Block" ELSE "Pass"
           list == GetPolicySetRules(rules, drop)
<1>0. Len(rules) \in Nat /\ DOMAIN rules = 1..Len(rules) /\ DOMAIN rules \subseteq Nat
      /\ \A n \in DOMAIN rules : rules[n] \in Rules
  OBVIOUS
<1>1. Len(rules) \in Nat /\ T \subseteq 1..Len(rules) /\ T = DOMAIN rules
      /\ DOMAIN rules \subseteq Nat /\ \A n \in T : rules[n] \in Rules
  BY <1>0
<1>2. kept \in Seq(Rules) /\ DOMAIN kept \subseteq Nat
  <2> HIDE DEF T
  <2>1. kept \in Seq(Rules)
    BY <1>1, KeptType
  <2>2. QED
    BY <2>1
<1>3. PICK pos : Picks(kept, rules, T, pos)
  <2> HIDE DEF T
  <2>1. QED
    BY <1>1, KeptIs
<1>4. Catch(last) \in Rules /\ Hits(Catch(last), p) /\ Catch(last).action = last
  BY DEF Catch, Rules, Hits
<1> DEFINE one == <<Catch(last)>>
<1>5. list = kept \o one /\ one \in Seq(Rules)
  <2>1. list = Append(kept, Catch(last))
    BY DEF GetPolicySetRules
  <2> HIDE DEF list, kept, last
  <2>2. QED
    BY <1>2, <1>4, <2>1
<1> HIDE DEF T, kept, list, last
<1>6. \A o : First(kept, p, o) = First(rules, p, o)
  <2>1. Mirrors(kept, rules, p, pos)
    BY <1>1, <1>3 DEF Mirrors, Picks
  <2>2. QED
    BY <1>1, <1>2, <2>1, SameFirst
<1>7. First(one, p, "Pass") = last
  <2>1. DOMAIN one \subseteq Nat /\ 1 \in DOMAIN one /\ one[1] = Catch(last) /\ DOMAIN one = {1}
    OBVIOUS
  <2> HIDE DEF one
  <2>2. \A k \in DOMAIN one : k < 1 => ~Hits(one[k], p)
    BY <2>1
  <2>3. First(one, p, "Pass") = one[1].action
    BY <1>4, <2>1, <2>2, FirstIs
  <2>4. QED
    BY <1>4, <2>1, <2>3
<1>8. First(list, p, "Pass") = First(rules, p, last)
  <2> HIDE DEF one
  <2>1. CASE Touches(kept, p)
    <3>1. First(kept \o one, p, "Pass") = First(kept, p, "Pass")
      BY <1>2, <1>5, <2>1, FirstConcat
    <3>2. First(kept, p, "Pass") = First(kept, p, last)
      BY <2>1, FirstOtherwise
    <3>3. QED
      BY <1>5, <1>6, <3>1, <3>2
  <2>2. CASE ~Touches(kept, p)
    <3>1. First(kept \o one, p, "Pass") = First(one, p, "Pass")
      BY <1>2, <1>5, <2>2, FirstConcat
    <3>2. First(kept, p, last) = last
      BY <2>2, FirstNone
    <3>3. QED
      BY <1>5, <1>6, <1>7, <3>1, <3>2
  <2>3. QED
    BY <2>1, <2>2
<1>9. Touches(list, p)
  <2>1. Len(kept) + 1 \in DOMAIN list /\ list[Len(kept) + 1] = Catch(last)
    BY <1>2, <1>4, <1>5
  <2>2. QED
    BY <1>4, <2>1 DEF Touches
<1>10. ASSUME drop, \A n \in DOMAIN rules : rules[n].action # "Pass"
       PROVE  ~Passes(list)
  <2>1. \A k \in DOMAIN list : (k \in DOMAIN kept /\ list[k] = kept[k]) \/ list[k] = Catch(last)
    BY <1>2, <1>4, <1>5
  <2>2. \A k \in DOMAIN kept : kept[k].action # "Pass"
    BY <1>1, <1>3, <1>10 DEF Picks
  <2>3. Catch(last).action # "Pass"
    BY <1>4, <1>10 DEF last
  <2>4. QED
    BY <2>1, <2>2, <2>3 DEF Passes
<1>11. QED
  BY <1>8, <1>9, <1>10 DEF list, last
-----------------------------------------------------------------------------
(* Two rules at once *)

\* A field of a rule: no match, or a set with members.
Field(S) == {Any} \cup Some(S)

\* What both fields match the combined one does.
LEMMA CIDRsBoth ==
  ASSUME NEW S, \A x \in SUBSET S : Any # x, NEW a \in Field(S), NEW b \in Field(S), NEW v
  PROVE  /\ CombineCIDRs(a, b) # {} => CombineCIDRs(a, b) \in Field(S)
         /\ (CombineCIDRs(a, b) = Any \/ v \in CombineCIDRs(a, b)) /\ CombineCIDRs(a, b) # {}
              <=> (a = Any \/ v \in a) /\ (b = Any \/ v \in b)
<1>1. Any # {}
  OBVIOUS
<1>2. CASE a = Any \/ b = Any
  BY <1>1, <1>2 DEF CombineCIDRs, Field, Some
<1>3. CASE a # Any /\ b # Any
  <2>1. a \in SUBSET S /\ b \in SUBSET S /\ a \cap b \in SUBSET S
    BY <1>3 DEF Field, Some
  <2>2. CombineCIDRs(a, b) = a \cap b /\ Any # a \cap b
    BY <1>3, <2>1 DEF CombineCIDRs
  <2>3. QED
    BY <1>3, <2>1, <2>2 DEF Field, Some
<1>4. QED
  BY <1>2, <1>3

\* Of ports this is so if they are kept; what is made of them is a field in any case.
LEMMA PortsBoth ==
  ASSUME NEW a \in Field(Ports), NEW b \in Field(Ports), NEW v
  PROVE  /\ CombinePorts(a, b) \in Field(Ports)
         /\ PortsKept(a, b) => ((CombinePorts(a, b) = Any \/ v \in CombinePorts(a, b))
                                 <=> (a = Any \/ v \in a) /\ (b = Any \/ v \in b))
<1>1. \A x \in SUBSET Ports : Any # x
  BY AnyAssumption
<1>2. CASE a = Any \/ b = Any
  BY <1>2 DEF CombinePorts, Field, Some
<1>3. CASE a # Any /\ b # Any
  <2>1. a \in SUBSET Ports /\ b \in SUBSET Ports /\ a \cap b \in SUBSET Ports
    BY <1>3 DEF Field, Some
  <2>2. CombinePorts(a, b) \in Field(Ports)
    BY <1>3, <2>1 DEF CombinePorts, Field, Some
  <2>3. ASSUME PortsKept(a, b)
        PROVE  CombinePorts(a, b) = a \cap b /\ Any # a \cap b
    BY <1>1, <1>3, <2>1, <2>3 DEF PortsKept
  <2>4. QED
    BY <1>3, <2>2, <2>3
<1>4. QED
  BY <1>2, <1>3

\* A combined rule that does not match other ports than both matches what both do, and
\* takes the action of the second.
LEMMA CombineBoth ==
  ASSUME NEW r1 \in Rules, NEW r2 \in Rules, NEW p
  PROVE  /\ CombineRules(r1, r2) # NoRule =>
              /\ CombineRules(r1, r2) \in Rules
              /\ CombineRules(r1, r2).action = r2.action
         /\ Exact(r1, r2) =>
              (CombineRules(r1, r2) # NoRule /\ Hits(CombineRules(r1, r2), p)
                 <=> Hits(r1, p) /\ Hits(r2, p))
<1> DEFINE local  == CombineCIDRs(r1.local, r2.local)
           remote == CombineCIDRs(r1.remote, r2.remote)
           lports == CombinePorts(r1.lports, r2.lports)
           rports == CombinePorts(r1.rports, r2.rports)
           none   == r1.protocol # Any /\ r2.protocol # Any /\ r1.protocol # r2.protocol
           proto  == IF r1.protocol = Any \/ r2.protocol # Any THEN r2.protocol ELSE r1.protocol
           both   == [action |-> r2.action, unsupported |-> r2.unsupported, protocol |-> proto,
                      local |-> local, remote |-> remote, lports |-> lports, rports |-> rports]
           at1(f, v) == f = Any \/ v \in f
<1>1. \A r \in {r1, r2} :
        /\ r.action \in {"Allow", "Block", "Pass"} /\ r.unsupported \in BOOLEAN
        /\ r.protocol \in {Any} \cup Protocols
        /\ r.local \in Field(Addresses) /\ r.remote \in Field(Addresses)
        /\ r.lports \in Field(Ports) /\ r.rports \in Field(Ports)
  BY DEF Rules, Field
<1>2. \A x \in SUBSET Addresses : Any # x
  BY AnyAssumption
<1>3. CombineRules(r1, r2) = IF none \/ local = {} \/ remote = {} THEN NoRule ELSE both
  BY DEF CombineRules
<1>4. /\ local # {} => local \in Field(Addresses)
      /\ at1(local, p.local) /\ local # {} <=> at1(r1.local, p.local) /\ at1(r2.local, p.local)
  BY <1>1, <1>2, CIDRsBoth
<1>5. /\ remote # {} => remote \in Field(Addresses)
      /\ at1(remote, p.remote) /\ remote # {} <=> at1(r1.remote, p.remote) /\ at1(r2.remote, p.remote)
  BY <1>1, <1>2, CIDRsBoth
<1>6. /\ lports \in Field(Ports)
      /\ PortsKept(r1.lports, r2.lports) =>
           (at1(lports, p.lport) <=> at1(r1.lports, p.lport) /\ at1(r2.lports, p.lport))
  BY <1>1, PortsBoth
<1>7. /\ rports \in Field(Ports)
      /\ PortsKept(r1.rports, r2.rports) =>
           (at1(rports, p.rport) <=> at1(r1.rports, p.rport) /\ at1(r2.rports, p.rport))
  BY <1>1, PortsBoth
<1>8. /\ proto \in {Any} \cup Protocols
      /\ proto \in {Any, p.protocol} /\ ~none
           <=> r1.protocol \in {Any, p.protocol} /\ r2.protocol \in {Any, p.protocol}
  BY <1>1
<1>9. \A r \in {r1, r2} :
        Hits(r, p) <=> /\ r.protocol \in {Any, p.protocol}
                       /\ at1(r.local, p.local) /\ at1(r.remote, p.remote)
                       /\ at1(r.lports, p.lport) /\ at1(r.rports, p.rport)
  BY DEF Hits
<1>10. Hits(both, p) <=> /\ proto \in {Any, p.protocol}
                         /\ at1(local, p.local) /\ at1(remote, p.remote)
                         /\ at1(lports, p.lport) /\ at1(rports, p.rport)
  <2> HIDE DEF proto, local, remote, lports, rports
  <2>1. QED
    BY DEF Hits
<1>11. both.action = r2.action /\ both # NoRule
  <2>1. both.action = r2.action
    OBVIOUS
  <2>2. NoRule.action = "none"
    BY DEF NoRule
  <2>3. QED
    BY <1>1, <2>1, <2>2
<1>12. local # {} /\ remote # {} => both \in Rules
  <2> HIDE DEF proto, local, remote, lports, rports
  <2>1. QED
    BY <1>1, <1>4, <1>5, <1>6, <1>7, <1>8 DEF Rules, Field
<1> HIDE DEF local, remote, lports, rports, none, proto, both, at1
<1>13. Exact(r1, r2) => \/ CombineRules(r1, r2) = NoRule
                        \/ PortsKept(r1.lports, r2.lports) /\ PortsKept(r1.rports, r2.rports)
  BY DEF Exact
<1>14. CASE none \/ local = {} \/ remote = {}
  BY <1>3, <1>4, <1>5, <1>8, <1>9, <1>14
<1>15. CASE ~none /\ local # {} /\ remote # {}
  <2>1. CombineRules(r1, r2) = both
    BY <1>3, <1>15
  <2>2. ASSUME Exact(r1, r2)
        PROVE  Hits(both, p) <=> Hits(r1, p) /\ Hits(r2, p)
    <3>1. PortsKept(r1.lports, r2.lports) /\ PortsKept(r1.rports, r2.rports)
      BY <1>11, <1>13, <2>1, <2>2
    <3>2. QED
      BY <1>4, <1>5, <1>6, <1>7, <1>8, <1>9, <1>10, <1>15, <3>1
  <2>3. QED
    BY <1>11, <1>12, <1>15, <2>1, <2>2
<1>16. QED
  BY <1>14, <1>15

\* What a rule passes into is hit where it and the next tier are, and answers as that does.
LEMMA ExpandedIs ==
  ASSUME NEW rule \in Rules, NEW second \in Seq(Rules)
  PROVE  /\ Expanded(rule, second) \in Seq(Rules)
         /\ ~Passes(second) => ~Passes(Expanded(rule, second))
<1> DEFINE combined == [n \in DOMAIN second |-> CombineRules(rule, second[n])]
           T == {n \in DOMAIN combined : combined[n] # NoRule}
           kept == Kept(combined, T)
<1>1. /\ Len(second) \in Nat /\ T \subseteq 1..Len(second) /\ T \subseteq DOMAIN second
      /\ \A n \in DOMAIN second : second[n] \in Rules
  OBVIOUS
<1>2. \A n \in T : combined[n] \in Rules /\ combined[n].action = second[n].action
  BY <1>1, CombineBoth
<1>3. Expanded(rule, second) = kept
  BY DEF Expanded
<1> HIDE DEF combined, T
<1>4. kept \in Seq(Rules)
  BY <1>1, <1>2, KeptType
<1>5. PICK pos : Picks(kept, combined, T, pos)
  BY <1>1, KeptIs
<1>6. \A m \in DOMAIN kept : pos[m] \in T /\ kept[m] = combined[pos[m]]
  BY <1>5 DEF Picks
<1>7. \A m \in DOMAIN kept : pos[m] \in DOMAIN second /\ kept[m].action = second[pos[m]].action
  BY <1>1, <1>2, <1>6
<1>8. ~Passes(second) => ~Passes(kept)
  BY <1>7 DEF Passes
<1>9. QED
  BY <1>3, <1>4, <1>8

LEMMA ExpandedAnswer ==
  ASSUME NEW rule \in Rules, NEW second \in Seq(Rules), NEW p, NEW o,
         \A k \in DOMAIN second : Exact(rule, second[k])
  PROVE  /\ Hits(rule, p) => /\ Touches(Expanded(rule, second), p) <=> Touches(second, p)
                             /\ First(Expanded(rule, second), p, o) = First(second, p, o)
         /\ ~Hits(rule, p) => ~Touches(Expanded(rule, second), p)
<1> DEFINE combined == [n \in DOMAIN second |-> CombineRules(rule, second[n])]
           T == {n \in DOMAIN combined : combined[n] # NoRule}
           kept == Kept(combined, T)
<1>1. /\ Len(second) \in Nat /\ T \subseteq 1..Len(second) /\ T \subseteq DOMAIN second
      /\ \A n \in DOMAIN second : second[n] \in Rules
  OBVIOUS
<1>2. \A n \in T : /\ combined[n].action = second[n].action
                   /\ Hits(combined[n], p) <=> Hits(rule, p) /\ Hits(second[n], p)
  BY <1>1, CombineBoth
<1>3. \A n \in DOMAIN second : Hits(rule, p) /\ Hits(second[n], p) => n \in T
  BY <1>1, CombineBoth
<1>4. Expanded(rule, second) = kept /\ kept \in Seq(Rules)
  BY ExpandedIs DEF Expanded
<1>5. DOMAIN second \subseteq Nat
  OBVIOUS
<1> HIDE DEF combined, T
<1>6. PICK pos : Picks(kept, combined, T, pos)
  BY <1>1, KeptIs
<1>7. \A m \in DOMAIN kept : pos[m] \in T /\ kept[m] = combined[pos[m]]
  BY <1>6 DEF Picks
<1> DEFINE exp == Expanded(rule, second)
<1>8. exp = kept /\ DOMAIN kept \subseteq Nat
  BY <1>4
<1> HIDE DEF kept, exp
<1>9. ASSUME Hits(rule, p)
      PROVE  Mirrors(kept, second, p, pos)
  <2>1. pos \in [DOMAIN kept -> DOMAIN second]
    BY <1>1, <1>6 DEF Picks
  <2>2. \A m \in DOMAIN kept : /\ Hits(kept[m], p) <=> Hits(second[pos[m]], p)
                               /\ kept[m].action = second[pos[m]].action
    BY <1>2, <1>7, <1>9
  <2>3. \A n \in DOMAIN second : Hits(second[n], p) => \E m \in DOMAIN kept : pos[m] = n
    BY <1>3, <1>6, <1>9 DEF Picks
  <2>4. QED
    BY <1>6, <2>1, <2>2, <2>3 DEF Mirrors, Picks
<1>10. Hits(rule, p) => /\ Touches(kept, p) <=> Touches(second, p)
                        /\ First(kept, p, o) = First(second, p, o)
  BY <1>5, <1>8, <1>9, SameFirst
<1>11. ~Hits(rule, p) => ~Touches(kept, p)
  BY <1>2, <1>7 DEF Touches
<1>12. QED
  BY <1>8, <1>10, <1>11 DEF exp
-----------------------------------------------------------------------------
(* The first tier that decides *)

LEMMA DecisionIs ==
  ASSUME NEW a, DOMAIN a \subseteq Nat, NEW n \in DOMAIN a, a[n] # "Pass",
         \A k \in DOMAIN a : k < n => a[k] = "Pass"
  PROVE  Decision(a) = a[n]
<1> DEFINE decided == {k \in DOMAIN a : a[k] # "Pass"}
<1>1. decided \subseteq Nat /\ n \in decided /\ \A k \in decided : ~(k < n)
  OBVIOUS
<1>2. \A k \in decided : n <= k
  BY <1>1
<1>3. Least(decided) = n
  <2> HIDE DEF decided
  <2>1. QED
    BY <1>1, <1>2, LeastOnly
<1>4. QED
  BY <1>1, <1>3 DEF Decision

\* There is a first tier that decides, or none does.
LEMMA DecisionCases ==
  ASSUME NEW a, DOMAIN a \subseteq Nat
  PROVE  \/ Decision(a) = "Pass" /\ \A k \in DOMAIN a : a[k] = "Pass"
         \/ \E n \in DOMAIN a : /\ a[n] # "Pass" /\ Decision(a) = a[n]
                                /\ \A k \in DOMAIN a : k < n => a[k] = "Pass"
<1> DEFINE decided == {k \in DOMAIN a : a[k] # "Pass"}
<1>1. CASE decided = {}
  BY <1>1 DEF Decision
<1>2. CASE decided # {}
  <2>1. decided \subseteq Nat
    OBVIOUS
  <2>2. PICK n \in decided : \A k \in decided : n <= k
    <3> HIDE DEF decided
    <3>1. QED
      BY <1>2, <2>1, LeastIs
  <2>3. n \in DOMAIN a /\ a[n] # "Pass"
    OBVIOUS
  <2>4. \A k \in DOMAIN a : k < n => k \notin decided
    BY <2>1, <2>2
  <2>5. \A k \in DOMAIN a : k < n => a[k] = "Pass"
    BY <2>4
  <2>6. QED
    BY <2>3, <2>5, DecisionIs
<1>3. QED
  BY <1>1, <1>2

\* One more tier decides if none before it does.
LEMMA DecisionAppend ==
  ASSUME NEW n \in Nat, NEW a, DOMAIN a = 1..n, NEW b, DOMAIN b = 1..(n + 1),
         \A k \in 1..n : b[k] = a[k]
  PROVE  Decision(b) = IF Decision(a) = "Pass" THEN b[n + 1] ELSE Decision(a)
<1>0. DOMAIN a \subseteq Nat /\ DOMAIN b \subseteq Nat /\ n + 1 \in DOMAIN b
      /\ \A k \in DOMAIN b : k \in DOMAIN a \/ k = n + 1
  OBVIOUS
<1>1. CASE \A k \in DOMAIN a : a[k] = "Pass"
  <2>1. Decision(a) = "Pass"
    BY <1>0, <1>1, DecisionCases
  <2>2. \A k \in DOMAIN b : k < n + 1 => b[k] = "Pass"
    BY <1>0, <1>1
  <2>3. CASE b[n + 1] = "Pass"
    <3>1. \A k \in DOMAIN b : b[k] = "Pass"
      BY <1>0, <2>2, <1>1, <2>3
    <3>2. QED
      BY <1>0, <2>1, <2>3, <3>1, DecisionCases
  <2>4. CASE b[n + 1] # "Pass"
    BY <1>0, <2>1, <2>2, <2>4, DecisionIs
  <2>5. QED
    BY <2>3, <2>4
<1>2. ASSUME NEW m \in DOMAIN a, a[m] # "Pass", Decision(a) = a[m],
             \A k \in DOMAIN a : k < m => a[k] = "Pass"
      PROVE  Decision(b) = Decision(a)
  <2>1. m \in DOMAIN b /\ b[m] # "Pass" /\ b[m] = a[m]
    BY <1>2
  <2>2. \A k \in DOMAIN b : k < m => b[k] = "Pass"
    BY <1>0, <1>2
  <2>3. QED
    BY <1>0, <1>2, <2>1, <2>2, DecisionIs
<1>3. QED
  BY <1>0, <1>1, <1>2, DecisionCases

\* A pass of the last tier becomes a block.
LEMMA DecisionBlockLast ==
  ASSUME NEW n \in Nat \ {0}, NEW a, DOMAIN a = 1..n, NEW b, DOMAIN b = 1..n,
         \A k \in 1..(n - 1) : b[k] = a[k],
         b[n] = IF a[n] = "Pass" THEN "Block" ELSE a[n]
  PROVE  Decision(b) = IF Decision(a) = "Pass" THEN "Block" ELSE Decision(a)
<1>0. DOMAIN a \subseteq Nat /\ DOMAIN b \subseteq Nat /\ n \in DOMAIN b
      /\ \A k \in DOMAIN b : k \in 1..(n - 1) \/ k = n
  OBVIOUS
<1>1. CASE \A k \in DOMAIN a : a[k] = "Pass"
  <2>1. Decision(a) = "Pass"
    BY <1>0, <1>1, DecisionCases
  <2>2. b[n] = "Block" /\ \A k \in DOMAIN b : k < n => b[k] = "Pass"
    BY <1>0, <1>1
  <2>3. QED
    BY <1>0, <2>1, <2>2, DecisionIs
<1>2. ASSUME NEW m \in DOMAIN a, a[m] # "Pass", Decision(a) = a[m],
             \A k \in DOMAIN a : k < m => a[k] = "Pass"
      PROVE  Decision(b) = Decision(a)
  <2>1. m \in DOMAIN b /\ b[m] # "Pass" /\ b[m] = a[m]
    BY <1>0, <1>2
  <2>2. \A k \in DOMAIN b : k < m => b[k] = "Pass"
    <3>1. \A k \in DOMAIN b : k < m => k \in 1..(n - 1)
      BY <1>0
    <3>2. QED
      BY <1>2, <3>1
  <2>3. QED
    BY <1>0, <1>2, <2>1, <2>2, DecisionIs
<1>3. QED
  BY <1>0, <1>1, <1>2, DecisionCases

\* The first two tiers as one.
LEMMA DecisionMerge ==
  ASSUME NEW n \in Nat, n > 1, NEW a, DOMAIN a = 1..n, NEW b, DOMAIN b = 1..(n - 1),
         b[1] = IF a[1] = "Pass" THEN a[2] ELSE a[1],
         \A k \in 2..(n - 1) : b[k] = a[k + 1]
  PROVE  Decision(b) = Decision(a)
<1>0. /\ DOMAIN a \subseteq Nat /\ DOMAIN b \subseteq Nat /\ 1 \in DOMAIN b
      /\ 1 \in DOMAIN a /\ 2 \in DOMAIN a
      /\ \A k \in DOMAIN b : k = 1 \/ k \in 2..(n - 1)
      /\ \A k \in DOMAIN b : k \in Nat /\ k + 1 \in DOMAIN a
      /\ \A k \in DOMAIN a : k = 1 \/ k = 2 \/ k - 1 \in 2..(n - 1)
  OBVIOUS
<1>1. CASE \A k \in DOMAIN a : a[k] = "Pass"
  <2>1. \A k \in DOMAIN b : b[k] = "Pass"
    BY <1>0, <1>1
  <2>2. QED
    BY <1>0, <1>1, <2>1, DecisionCases
<1>2. ASSUME NEW m \in DOMAIN a, a[m] # "Pass", Decision(a) = a[m],
             \A k \in DOMAIN a : k < m => a[k] = "Pass"
      PROVE  Decision(b) = Decision(a)
  <2>1. CASE m = 1 \/ m = 2
    <3>1. b[1] = a[m]
      BY <1>0, <1>2, <2>1
    <3>2. \A k \in DOMAIN b : k < 1 => b[k] = "Pass"
      BY <1>0
    <3>3. QED
      BY <1>0, <1>2, <3>1, <3>2, DecisionIs
  <2>2. CASE m - 1 \in 2..(n - 1)
    <3>1. m - 1 \in DOMAIN b /\ b[m - 1] = a[m]
      BY <2>2
    <3>2. a[1] = "Pass" /\ a[2] = "Pass"
      BY <1>0, <1>2, <2>2
    <3>3. \A k \in 2..(n - 1) : k < m - 1 => b[k] = "Pass"
      <4>1. \A k \in 2..(n - 1) : k < m - 1 => k + 1 \in DOMAIN a /\ k + 1 < m /\ b[k] = a[k + 1]
        BY <1>0
      <4>2. QED
        BY <1>2, <4>1
    <3>4. \A k \in DOMAIN b : k < m - 1 => b[k] = "Pass"
      BY <1>0, <3>2, <3>3
    <3>5. QED
      BY <1>0, <1>2, <3>1, <3>4, DecisionIs
  <2>3. QED
    BY <1>0, <2>1, <2>2
<1>3. QED
  BY <1>0, <1>1, <1>2, DecisionCases

\* The tiers behind the first one do not matter if that decides.
LEMMA DecisionFirst ==
  ASSUME NEW n \in Nat \ {0}, NEW a, DOMAIN a = 1..n, a[1] # "Pass"
  PROVE  Decision(a) = a[1]
<1>1. DOMAIN a \subseteq Nat /\ 1 \in DOMAIN a /\ \A k \in DOMAIN a : ~(k < 1)
  OBVIOUS
<1>2. QED
  BY <1>1, DecisionIs
-----------------------------------------------------------------------------
(* The loop over the rules of the first tier *)

\* What a rule of the first tier comes to for a packet it matches.
Passed(rule, second, p) ==
  IF rule.action = "Pass" THEN First(second, p, "Pass") ELSE rule.action

\* list decides as the rules of first before i do, with what they pass into.
Flattened(first, second, list, i, p) ==
  /\ (\A n \in DOMAIN first : n < i => ~Hits(first[n], p)) => ~Touches(list, p)
  /\ \A n \in DOMAIN first :
       n < i /\ Hits(first[n], p) /\ (\A k \in DOMAIN first : k < n => ~Hits(first[k], p)) =>
         Touches(list, p) /\ First(list, p, "Pass") = Passed(first[n], second, p)

LEMMA FlattenStep ==
  ASSUME NEW first \in Seq(Rules), NEW second \in Seq(Rules), NEW list \in Seq(Rules),
         NEW piece \in Seq(Rules), NEW i \in DOMAIN first, NEW p,
         Flattened(first, second, list, i, p),
         Touches(piece, p) <=> Hits(first[i], p),
         Hits(first[i], p) => First(piece, p, "Pass") = Passed(first[i], second, p)
  PROVE  Flattened(first, second, list \o piece, i + 1, p)
<1> DEFINE new == list \o piece
<1>1. /\ Touches(list, p) => First(new, p, "Pass") = First(list, p, "Pass")
      /\ ~Touches(list, p) => First(new, p, "Pass") = First(piece, p, "Pass")
      /\ Touches(new, p) <=> Touches(list, p) \/ Touches(piece, p)
  BY FirstConcat
<1>2. i \in Nat /\ \A n \in DOMAIN first : n \in Nat /\ (n < i + 1 <=> n < i \/ n = i)
  OBVIOUS
<1> HIDE DEF new
<1>3. ASSUME \A n \in DOMAIN first : n < i + 1 => ~Hits(first[n], p)
      PROVE  ~Touches(new, p)
  BY <1>1, <1>2, <1>3 DEF Flattened
<1>4. ASSUME NEW n \in DOMAIN first, n < i + 1, Hits(first[n], p),
             \A k \in DOMAIN first : k < n => ~Hits(first[k], p)
      PROVE  Touches(new, p) /\ First(new, p, "Pass") = Passed(first[n], second, p)
  <2>1. CASE n < i
    BY <1>1, <1>4, <2>1 DEF Flattened
  <2>2. CASE n = i
    BY <1>1, <1>4, <2>2 DEF Flattened
  <2>3. QED
    BY <1>2, <1>4, <2>1, <2>2
<1>5. QED
  BY <1>3, <1>4 DEF Flattened, new

\* The pieces the loop adds.
LEMMA PieceKept ==
  ASSUME NEW r \in Rules, NEW p, NEW second
  PROVE  /\ <<r>> \in Seq(Rules)
         /\ Touches(<<r>>, p) <=> Hits(r, p)
         /\ r.action # "Pass" /\ Hits(r, p) => First(<<r>>, p, "Pass") = Passed(r, second, p)
<1> DEFINE one == <<r>>
<1>1. one \in Seq(Rules) /\ DOMAIN one \subseteq Nat /\ 1 \in DOMAIN one /\ one[1] = r
      /\ \A k \in DOMAIN one : k = 1 /\ ~(k < 1)
  OBVIOUS
<1> HIDE DEF one
<1>2. Touches(one, p) <=> Hits(r, p)
  BY <1>1 DEF Touches
<1>3. ASSUME Hits(r, p), r.action # "Pass"
      PROVE  First(one, p, "Pass") = Passed(r, second, p)
  <2>1. First(one, p, "Pass") = one[1].action
    BY <1>1, <1>3, FirstIs
  <2>2. QED
    BY <1>1, <1>3, <2>1 DEF Passed
<1>4. QED
  BY <1>1, <1>2, <1>3 DEF one

LEMMA PieceExpanded ==
  ASSUME NEW r \in Rules, NEW second \in Seq(Rules), NEW p, r.action = "Pass",
         Touches(second, p), \A k \in DOMAIN second : Exact(r, second[k])
  PROVE  /\ Touches(Expanded(r, second), p) <=> Hits(r, p)
         /\ Hits(r, p) => First(Expanded(r, second), p, "Pass") = Passed(r, second, p)
BY ExpandedAnswer DEF Passed

\* After the loop.
LEMMA FlattenEnd ==
  ASSUME NEW first \in Seq(Rules), NEW second, NEW list, NEW i \in Nat, i > Len(first), NEW p,
         Flattened(first, second, list, i, p), Touches(first, p)
  PROVE  /\ Touches(list, p)
         /\ First(list, p, "Pass") = IF First(first, p, "Pass") = "Pass" THEN First(second, p, "Pass")
                                     ELSE First(first, p, "Pass")
<1>1. DOMAIN first \subseteq Nat /\ \A n \in DOMAIN first : n < i
  OBVIOUS
<1>2. PICK n \in DOMAIN first : Hits(first[n], p)
                                /\ \A k \in DOMAIN first : k < n => ~Hits(first[k], p)
  BY <1>1, FirstExists
<1>3. First(first, p, "Pass") = first[n].action
  BY <1>1, <1>2, FirstIs
<1>4. Touches(list, p) /\ First(list, p, "Pass") = Passed(first[n], second, p)
  BY <1>1, <1>2 DEF Flattened
<1>5. QED
  BY <1>3, <1>4 DEF Passed
-----------------------------------------------------------------------------
(* Priorities *)

\* Priorities never fall, and rise between two rules of different actions.
LEMMA PrioritiesOrder ==
  ASSUME NEW list \in Seq(Rules), NEW m \in DOMAIN list, NEW n \in DOMAIN list, m <= n
  PROVE  /\ Priorities(list)[m] \in Nat /\ Priorities(list)[n] \in Nat
         /\ Priorities(list)[m] <= Priorities(list)[n]
         /\ list[m].action # list[n].action => Priorities(list)[m] < Priorities(list)[n]
<1> DEFINE T == Changes(list)
<1>1. Len(list) \in Nat /\ DOMAIN list = 1..Len(list) /\ m \in 1..Len(list) /\ n \in 1..Len(list)
  OBVIOUS
<1>2. T \subseteq 1..Len(list)
  BY <1>1 DEF Changes
<1>a. \A k \in Nat : Rank(T, k) \in Nat
  <2> HIDE DEF T
  <2>1. QED
    BY <1>1, <1>2, RankStep
<1>b. \A k, l \in Nat : k <= l => Rank(T, k) <= Rank(T, l)
  <2> HIDE DEF T
  <2>1. QED
    BY <1>1, <1>2, RankStep
<1>3. Rank(T, m) \in Nat /\ Rank(T, n) \in Nat /\ Rank(T, m) <= Rank(T, n)
  <2>1. m \in Nat /\ n \in Nat
    BY <1>1
  <2> HIDE DEF T
  <2>2. QED
    BY <1>a, <1>b, <2>1
<1>4. ASSUME list[m].action # list[n].action
      PROVE  m < n /\ Rank(T, m) < Rank(T, n)
  <2> DEFINE S == {k \in m..n : list[k].action # list[m].action}
  <2>1. S \subseteq Nat /\ n \in S /\ m \notin S
    BY <1>1, <1>4
  <2>2. PICK k \in S : \A l \in S : k <= l
    <3> HIDE DEF S
    <3>1. QED
      BY <2>1, LeastIs
  <2>3. k \in m..n /\ k # m /\ list[k].action # list[m].action
    BY <2>1, <2>2
  <2>4. k - 1 \in m..n /\ k - 1 \notin S
    <3>1. k - 1 \in m..n /\ ~(k <= k - 1)
      BY <1>1, <2>3
    <3>2. QED
      BY <2>2, <3>1
  <2>5. k \in T
    BY <1>1, <2>3, <2>4 DEF Changes
  <2>6. k \in Nat \ {0} /\ k - 1 \in Nat /\ m <= k - 1 /\ k <= n /\ m < n
    BY <1>1, <2>3, <2>4
  <2> HIDE DEF T, S
  <2>7. Rank(T, k) = Rank(T, k - 1) + 1
    BY <1>1, <1>2, <2>5, <2>6, RankStep
  <2>8. Rank(T, m) <= Rank(T, k - 1) /\ Rank(T, k) <= Rank(T, n) /\ Rank(T, k - 1) \in Nat
    <3>1. m \in Nat /\ n \in Nat /\ k \in Nat
      BY <1>1, <2>6
    <3>2. QED
      BY <1>a, <1>b, <2>6, <3>1
  <2>9. QED
    BY <1>3, <2>6, <2>7, <2>8
<1>5. \A k \in DOMAIN list :
        Priorities(list)[k] = BasePriority + (IF Len(list) < MaxPriority - BasePriority THEN k - 1
                                              ELSE Rank(T, k))
  BY DEF Priorities
<1> HIDE DEF T
<1>6. BasePriority \in Nat
  BY HnsAssumption
<1>7. CASE Len(list) < MaxPriority - BasePriority
  <2>1. Priorities(list)[m] = BasePriority + (m - 1) /\ Priorities(list)[n] = BasePriority + (n - 1)
    BY <1>5, <1>7
  <2>2. QED
    BY <1>1, <1>4, <1>6, <2>1
<1>8. CASE ~(Len(list) < MaxPriority - BasePriority)
  <2>1. /\ Priorities(list)[m] = BasePriority + Rank(T, m)
        /\ Priorities(list)[n] = BasePriority + Rank(T, n)
    BY <1>5, <1>8
  <2>2. QED
    BY <1>3, <1>4, <1>6, <2>1
<1>9. QED
  BY <1>7, <1>8
-----------------------------------------------------------------------------
(* Types, and where passes can be left *)

LEMMA AppendedList ==
  ASSUME NEW S, NEW ls \in Seq(S), NEW l \in S
  PROVE  Append(ls, l) \in Seq(S) /\ Append(ls, l) # <<>>
BY AppendProperties

\* The first two of some lists replaced by one.
LEMMA MergedLists ==
  ASSUME NEW S, NEW ls \in Seq(S), Len(ls) > 1, NEW m \in S
  PROVE  LET merged == <<m>> \o SubSeq(ls, 3, Len(ls))
         IN  /\ merged \in Seq(S) /\ Len(merged) = Len(ls) - 1 /\ merged[1] = m
             /\ \A k \in 2..(Len(ls) - 1) : merged[k] = ls[k + 1]
<1> DEFINE n == Len(ls)
           rest == SubSeq(ls, 3, n)
           one == <<m>>
           merged == one \o rest
<1>1. n \in Nat /\ n > 1
  OBVIOUS
<1>2. /\ rest \in Seq(S) /\ Len(rest) = n - 2
      /\ \A k \in 1..(n - 2) : rest[k] = ls[k + 2]
  <2>1. \A k \in 3..n : ls[k] \in S
    BY <1>1
  <2>2. /\ rest \in Seq(S) /\ Len(rest) = IF 3 <= n THEN n - 3 + 1 ELSE 0
        /\ \A k \in 1..(n - 3 + 1) : rest[k] = ls[3 + k - 1]
    BY <1>1, <2>1, SubSeqProperties
  <2> HIDE DEF rest, n
  <2>3. QED
    BY <1>1, <2>2
<1>3. one \in Seq(S) /\ Len(one) = 1 /\ one[1] = m
  OBVIOUS
<1> HIDE DEF n, rest, one
<1>c. /\ merged \in Seq(S) /\ Len(merged) = Len(one) + Len(rest)
      /\ \A i \in 1..(Len(one) + Len(rest)) :
           merged[i] = IF i <= Len(one) THEN one[i] ELSE rest[i - Len(one)]
  BY <1>2, <1>3, ConcatProperties
<1>4. merged \in Seq(S) /\ Len(merged) = 1 + (n - 2) /\ merged[1] = m
  BY <1>1, <1>2, <1>3, <1>c
<1>5. ASSUME NEW k \in 2..(n - 1)
      PROVE  merged[k] = ls[k + 1]
  <2>1. k - 1 \in 1..(n - 2) /\ (k - 1) + 2 = k + 1 /\ k \in 2..(1 + (n - 2))
    BY <1>1
  <2>2. merged[k] = rest[k - 1]
    BY <1>1, <1>2, <1>3, <1>c, <2>1
  <2>3. QED
    BY <1>2, <2>1, <2>2
<1>6. QED
  BY <1>1, <1>4, <1>5 DEF n, rest, one

TypeInv ==
  /\ TypeOK
  /\ ep \in Endpoints
  /\ pc \in {"tiers", "last"} => made = <<>>
  /\ pc = "flatten" => /\ ~Passes(lists[Len(lists)])
                       /\ Len(lists) = 2 => ~Passes(made)

LEMMA InitTypeInv == Init => TypeInv
<1> SUFFICES ASSUME Init
             PROVE  TypeInv
  OBVIOUS
<1>1. \A S : <<>> \in Seq(S)
  OBVIOUS
<1>2. /\ pc = "tiers" /\ at = 1 /\ lists = <<>> /\ made = <<>> /\ exact = TRUE
      /\ applies = FALSE /\ acls = <<>> /\ ep \in Endpoints
  BY DEF Init
<1>3. at \in Nat \ {0}
  BY <1>2
<1>4. TypeOK
  BY <1>1, <1>2, <1>3 DEF TypeOK
<1>5. QED
  BY <1>2, <1>4 DEF TypeInv

\* A step of the renderer keeps the types, and only the first lists pass.
LEMMA NextTypeInv == TypeInv /\ [Next]_vars => TypeInv'
<1> SUFFICES ASSUME TypeInv, [Next]_vars
             PROVE  TypeInv'
  OBVIOUS
<1>0. lists \in Seq(Seq(Rules)) /\ made \in Seq(Rules) /\ at \in Nat \ {0}
  BY DEF TypeInv, TypeOK
<1> USE DEF TypeInv, TypeOK
<1>1. CASE Gather
  <2>0. ep.tiers \in Seq(Tiers)
    BY EndpointsAssumption
  <2>1. ep.tiers[at] \in Tiers
    <3>1. at \in Nat /\ 1 <= at /\ at <= Len(ep.tiers)
      BY <1>0, <1>1 DEF Gather
    <3>2. QED
      BY <2>0, <3>1
  <2>2. ep.tiers[at].rules \in Seq(Rules)
    BY <2>1 DEF Tiers
  <2>3. \A d \in BOOLEAN : GetPolicySetRules(ep.tiers[at].rules, d) \in Seq(Rules)
    BY <2>2, GatheredType
  <2> DEFINE t == ep.tiers[at]
             g == GetPolicySetRules(t.rules, t.defaultAction # "Pass")
  <2>4. g \in Seq(Rules)
    BY <2>3
  <2>5. /\ \/ lists' = lists /\ applies' = applies
           \/ lists' = Append(lists, g) /\ applies' = (applies \/ t.name = "default")
        /\ pc = "tiers" /\ at' = at + 1 /\ UNCHANGED <<ep, pc, made, exact, acls>>
    BY <1>1 DEF Gather
  <2> HIDE DEF g
  <2>6. lists' \in Seq(Seq(Rules)) /\ applies' \in BOOLEAN /\ at' \in Nat \ {0}
    <3>1. Append(lists, g) \in Seq(Seq(Rules))
      BY Zenon, <1>0, <2>4, AppendedList
    <3>2. at' \in Nat \ {0}
      BY <1>0, <2>5
    <3>3. QED
      BY <2>5, <3>1, <3>2
  <2>7. QED
    BY <2>5, <2>6
<1>2. CASE Panic
  BY <1>2 DEF Panic
<1>3. CASE Profiles
  <2>1. ep.profiles \in Seq(Rules)
    <3>1. ep.profiles \in Seq({r \in Rules : r.action # "Pass" /\ ~r.unsupported})
      BY EndpointsAssumption
    <3>2. QED
      BY <3>1
  <2>2. GetPolicySetRules(ep.profiles, TRUE) \in Seq(Rules)
    BY <2>1, GatheredType
  <2> DEFINE g == GetPolicySetRules(ep.profiles, TRUE)
  <2>3. /\ lists' = IF lists = <<>> \/ ~applies THEN Append(lists, g) ELSE lists
        /\ pc = "tiers" /\ pc' = "last" /\ UNCHANGED <<ep, at, made, exact, applies, acls>>
    BY <1>3 DEF Profiles
  <2> HIDE DEF g
  <2>4. g \in Seq(Rules)
    BY <2>2 DEF g
  <2>5. Append(lists, g) \in Seq(Seq(Rules)) /\ Append(lists, g) # <<>>
    BY Zenon, <1>0, <2>4, AppendedList
  <2>6. lists' \in Seq(Seq(Rules)) /\ lists' # <<>>
    BY <2>3, <2>5
  <2>7. QED
    BY <2>3, <2>6
<1>4. CASE BlockLast
  <2> DEFINE n == Len(lists)
             old == lists[n]
             new == [k \in DOMAIN old |-> IF old[k].action = "Pass"
                                          THEN [old[k] EXCEPT !.action = "Block"] ELSE old[k]]
  <2>1. lists \in Seq(Seq(Rules)) /\ lists # <<>> /\ n \in DOMAIN lists /\ old \in Seq(Rules)
    BY <1>4 DEF BlockLast
  <2>2. lists' = [lists EXCEPT ![n] = new]
    BY <1>4 DEF BlockLast
  <2>3. \A r \in Rules : [r EXCEPT !.action = "Block"] \in Rules
                         /\ [r EXCEPT !.action = "Block"].action = "Block"
    BY DEF Rules
  <2>4. \A k \in DOMAIN old : old[k] \in Rules
    BY <2>1
  <2>5. \A k \in DOMAIN old : new[k] \in Rules /\ new[k].action # "Pass"
    BY <2>3, <2>4
  <2>6. new \in Seq(Rules) /\ ~Passes(new)
    <3>1. DOMAIN new = DOMAIN old /\ DOMAIN old = 1..Len(old) /\ Len(old) \in Nat
      BY <2>1
    <3>2. new = [k \in 1..Len(old) |-> new[k]]
      BY <3>1
    <3> HIDE DEF new, old
    <3>3. new \in Seq(Rules)
      BY <2>5, <3>1, <3>2
    <3>4. QED
      BY <2>5, <3>1, <3>3 DEF Passes
  <2> HIDE DEF new, old
  <2>7. lists' \in Seq(Seq(Rules)) /\ Len(lists') = n /\ lists'[n] = new /\ lists' # <<>>
    BY <2>1, <2>2, <2>6
  <2>8. made' = <<>> /\ ~Passes(made')
    BY <1>4 DEF BlockLast, Passes
  <2>9. pc' = "flatten" /\ at' = 1 /\ UNCHANGED <<ep, made, exact, applies, acls>>
    BY <1>4 DEF BlockLast
  <2>10. ~Passes(lists'[Len(lists')])
    BY <2>6, <2>7
  <2>11. QED
    BY <2>7, <2>8, <2>9, <2>10
<1>5. CASE FlattenRule
  <2> DEFINE r == lists[1][at]
  <2>1. /\ Len(lists) \in Nat /\ Len(lists) > 1 /\ lists[1] \in Seq(Rules)
        /\ lists[2] \in Seq(Rules) /\ r \in Rules
    BY <1>5 DEF FlattenRule
  <2>2. Expanded(r, lists[2]) \in Seq(Rules) /\ (~Passes(lists[2]) => ~Passes(Expanded(r, lists[2])))
    BY <2>1, ExpandedIs
  <2>3. /\ pc = "flatten" /\ pc' = pc /\ lists' = lists /\ at' \in Nat \ {0}
        /\ UNCHANGED <<ep, applies, acls>> /\ exact' \in BOOLEAN
    <3>1. pc = "flatten" /\ pc' = pc /\ lists' = lists /\ at' = at + 1 /\ UNCHANGED <<ep, applies, acls>>
      BY <1>5 DEF FlattenRule
    <3>2. \/ exact' = (exact /\ \A k \in DOMAIN lists[2] : Exact(r, lists[2][k]))
          \/ exact' = exact
      BY <1>5 DEF FlattenRule
    <3>3. exact' \in BOOLEAN
      BY <3>2
    <3>4. QED
      BY <3>1, <3>3
  <2>4. \/ r.action = "Pass" /\ made' = made \o Expanded(r, lists[2])
        \/ r.action # "Pass" /\ made' = Append(made, r)
    BY <1>5 DEF FlattenRule
  <2>5. made' \in Seq(Rules)
    <3> DEFINE e == Expanded(r, lists[2])
    <3> HIDE DEF e, r
    <3>1. made \o e \in Seq(Rules)
      BY <2>2 DEF e
    <3>2. Append(made, r) \in Seq(Rules)
      BY <2>1
    <3>3. QED
      BY <2>4, <3>1, <3>2 DEF e
  <2>6. ASSUME Len(lists) = 2
        PROVE  ~Passes(made')
    <3>1. ~Passes(made) /\ ~Passes(lists[2])
      BY <2>3, <2>6
    <3>2. CASE r.action = "Pass" /\ made' = made \o Expanded(r, lists[2])
      <4> DEFINE e == Expanded(r, lists[2])
      <4>1. e \in Seq(Rules) /\ ~Passes(e)
        BY <2>2, <3>1
      <4> HIDE DEF e
      <4>2. \A k \in DOMAIN (made \o e) :
              \/ k \in DOMAIN made /\ (made \o e)[k] = made[k]
              \/ k - Len(made) \in DOMAIN e /\ (made \o e)[k] = e[k - Len(made)]
        BY <4>1
      <4>3. ~Passes(made \o e)
        BY <3>1, <4>1, <4>2 DEF Passes
      <4>4. QED
        BY <3>2, <4>3 DEF e
    <3>3. CASE r.action # "Pass" /\ made' = Append(made, r)
      <4>1. \A k \in DOMAIN made' : (k \in DOMAIN made /\ made'[k] = made[k]) \/ made'[k] = r
        BY <2>1, <3>3
      <4>2. QED
        BY <3>1, <3>3, <4>1 DEF Passes
    <3>4. QED
      BY <2>4, <3>2, <3>3
  <2>7. QED
    BY <2>3, <2>5, <2>6
<1>6. CASE Merge
  <2> DEFINE n == Len(lists)
             merged == <<made>> \o SubSeq(lists, 3, n)
  <2>1. n \in Nat /\ n > 1 /\ lists[1] \in Seq(Rules) /\ \A k \in 1..n : lists[k] \in Seq(Rules)
    BY <1>6 DEF Merge
  <2>2. /\ merged \in Seq(Seq(Rules)) /\ Len(merged) = n - 1 /\ merged[1] = made
        /\ \A k \in 2..(n - 1) : merged[k] = lists[k + 1]
    BY <1>0, <2>1, MergedLists
  <2>3. merged # <<>> /\ ~Passes(merged[Len(merged)])
    <3>1. CASE n = 2
      BY <1>6, <2>2, <3>1 DEF Merge
    <3>2. CASE n > 2
      <4>1. merged[n - 1] = lists[n]
        BY <2>1, <2>2, <3>2
      <4>2. QED
        BY <1>6, <2>1, <2>2, <4>1 DEF Merge
    <3>3. n = 2 \/ n > 2
      <4> HIDE DEF n
      <4>1. QED
        BY <2>1
    <3>4. merged # <<>>
      BY <2>1, <2>2
    <3>5. QED
      BY <3>1, <3>2, <3>3, <3>4
  <2> HIDE DEF merged
  <2>4. /\ lists' = IF Passes(lists[1]) THEN merged ELSE <<lists[1]>>
        /\ made' = <<>> /\ at' = 1 /\ UNCHANGED <<ep, pc, exact, applies, acls>> /\ pc = "flatten"
    BY <1>6 DEF Merge, merged
  <2>5. lists' \in Seq(Seq(Rules)) /\ lists' # <<>> /\ ~Passes(lists'[Len(lists')])
    <3>1. CASE Passes(lists[1])
      BY <2>2, <2>3, <2>4, <3>1
    <3>2. CASE ~Passes(lists[1])
      BY <2>1, <2>4, <3>2
    <3>3. QED
      BY <3>1, <3>2
  <2>6. made' \in Seq(Rules) /\ ~Passes(made')
    BY <2>4 DEF Passes
  <2>7. QED
    BY <2>4, <2>5, <2>6
<1>7. CASE RewritePriorities
  <2> DEFINE l == lists[1]
  <2>1. l \in Seq(Rules) /\ ~Passes(l)
    BY <1>7 DEF RewritePriorities
  <2>2. \A k \in DOMAIN l : l[k] \in {r \in Rules : r.action # "Pass"} /\ Priorities(l)[k] \in Nat
    <3>1. \A k \in DOMAIN l : k \in Nat /\ k <= k
      BY <2>1
    <3>2. \A k \in DOMAIN l : Priorities(l)[k] \in Nat
      BY <2>1, <3>1, PrioritiesOrder
    <3>3. QED
      BY <2>1, <3>2 DEF Passes
  <2>3. acls' = [k \in DOMAIN l |-> [rule |-> l[k], priority |-> Priorities(l)[k]]]
    BY <1>7 DEF RewritePriorities
  <2> HIDE DEF l
  <2>4. acls' \in Seq([rule : {r \in Rules : r.action # "Pass"}, priority : Nat])
    <3> DEFINE E == [rule : {r \in Rules : r.action # "Pass"}, priority : Nat]
    <3>1. \A k \in DOMAIN l : [rule |-> l[k], priority |-> Priorities(l)[k]] \in E
      BY <2>2
    <3>2. DOMAIN l = 1..Len(l) /\ Len(l) \in Nat
      BY <2>1
    <3> HIDE DEF E
    <3>3. QED
      BY <2>3, <3>1, <3>2 DEF E
  <2>5. QED
    BY <1>7, <2>4 DEF RewritePriorities
<1>8. CASE UNCHANGED vars
  BY <1>8 DEF vars, Passes
<1>9. QED
  BY <1>1, <1>2, <1>3, <1>4, <1>5, <1>6, <1>7, <1>8 DEF Next

\* Whatever endpoint is rendered, the lists hold rules, and the list for HNS does not pass.
THEOREM HnsTypeOK == Spec => []TypeOK
<1>1. TypeInv => TypeOK
  BY DEF TypeInv
<1>2. QED
  BY <1>1, InitTypeInv, NextTypeInv, PTL DEF Spec
-----------------------------------------------------------------------------
(* The order of priorities *)

Prioritised == pc # "done" => acls = <<>>

\* The priorities of the list are those of its rules.
AclsOf ==
  pc = "done" =>
    /\ lists # <<>> /\ DOMAIN acls = DOMAIN lists[1]
    /\ \A n \in DOMAIN acls : /\ acls[n].rule = lists[1][n]
                              /\ acls[n].priority = Priorities(lists[1])[n]

LEMMA InitAcls == Init => Prioritised /\ AclsOf
BY DEF Init, Prioritised, AclsOf

LEMMA NextAcls == TypeInv /\ Prioritised /\ AclsOf /\ [Next]_vars => (Prioritised /\ AclsOf)'
<1> SUFFICES ASSUME TypeInv, Prioritised, AclsOf, [Next]_vars
             PROVE  (Prioritised /\ AclsOf)'
  OBVIOUS
<1> USE DEF Prioritised, AclsOf
<1>1. CASE Gather
  BY <1>1 DEF Gather
<1>2. CASE Panic
  BY <1>2 DEF Panic
<1>3. CASE Profiles
  BY <1>3 DEF Profiles
<1>4. CASE BlockLast
  BY <1>4 DEF BlockLast
<1>5. CASE FlattenRule
  BY <1>5 DEF FlattenRule
<1>6. CASE Merge
  BY <1>6 DEF Merge
<1>7. CASE RewritePriorities
  BY <1>7 DEF RewritePriorities, TypeInv, TypeOK
<1>8. CASE UNCHANGED vars
  BY <1>8 DEF vars
<1>9. QED
  BY <1>1, <1>2, <1>3, <1>4, <1>5, <1>6, <1>7, <1>8 DEF Next

LEMMA AclsOrdered ==
  ASSUME TypeInv, Prioritised, AclsOf, NEW m \in DOMAIN acls, NEW n \in DOMAIN acls, m <= n
  PROVE  /\ acls[m].priority \in Nat /\ acls[n].priority \in Nat
         /\ acls[m].priority <= acls[n].priority
         /\ acls[m].rule.action # acls[n].rule.action => acls[m].priority < acls[n].priority
<1>1. pc = "done"
  BY DEF Prioritised
<1>2. lists[1] \in Seq(Rules)
  <2>1. lists \in Seq(Seq(Rules)) /\ lists # <<>>
    BY <1>1 DEF AclsOf, TypeInv, TypeOK
  <2>2. QED
    BY <2>1
<1>3. /\ m \in DOMAIN lists[1] /\ n \in DOMAIN lists[1]
      /\ acls[m].rule = lists[1][m] /\ acls[m].priority = Priorities(lists[1])[m]
      /\ acls[n].rule = lists[1][n] /\ acls[n].priority = Priorities(lists[1])[n]
  BY <1>1 DEF AclsOf
<1>4. QED
  BY <1>2, <1>3, PrioritiesOrder

\* HNS, which decides among rules of one priority by itself, never has to between rules of
\* different actions, however many rules there are for the priorities.
THEOREM HnsOrderKept == Spec => []OrderKept
<1>1. TypeInv /\ Prioritised /\ AclsOf => OrderKept
  <2> SUFFICES ASSUME TypeInv, Prioritised, AclsOf, NEW m \in DOMAIN acls, NEW n \in DOMAIN acls,
                      m < n, acls[m].rule.action # acls[n].rule.action
               PROVE  acls[m].priority < acls[n].priority
    BY DEF OrderKept
  <2>1. m <= n
    <3>1. DOMAIN acls \subseteq Nat
      BY DEF TypeInv, TypeOK
    <3>2. QED
      BY <3>1
  <2>2. QED
    BY <2>1, AclsOrdered
<1>2. QED
  BY <1>1, InitTypeInv, NextTypeInv, InitAcls, NextAcls, PTL DEF Spec
-----------------------------------------------------------------------------
(* What HNS decides *)

\* A list that does not pass never answers so where it is hit.
LEMMA FirstNoPass ==
  ASSUME NEW list, DOMAIN list \subseteq Nat, NEW p, NEW o, Touches(list, p), ~Passes(list)
  PROVE  First(list, p, o) # "Pass"
<1>1. PICK n \in DOMAIN list : Hits(list[n], p) /\ \A k \in DOMAIN list : k < n => ~Hits(list[k], p)
  BY FirstExists
<1>2. First(list, p, o) = list[n].action
  BY <1>1, FirstIs
<1>3. QED
  BY <1>2 DEF Passes

\* HNS takes the action of the first rule of the list that is hit.
LEMMA HnsIsFirst ==
  ASSUME TypeInv, Prioritised, AclsOf, pc = "done", NEW p, Touches(lists[1], p)
  PROVE  Hns(p) = First(lists[1], p, "Pass")
<1> DEFINE hit == {n \in DOMAIN acls : Hits(acls[n].rule, p)}
           top == {n \in hit : \A k \in hit : acls[n].priority <= acls[k].priority}
<1>1. /\ DOMAIN acls = DOMAIN lists[1] /\ DOMAIN acls \subseteq Nat
      /\ \A n \in DOMAIN acls : acls[n].rule = lists[1][n] /\ acls[n].rule.action \in {"Allow", "Block"}
  <2> DEFINE E == [rule : {r \in Rules : r.action # "Pass"}, priority : Nat]
  <2>1. acls \in Seq(E)
    BY DEF TypeInv, TypeOK
  <2>2. DOMAIN acls \subseteq Nat
    BY <2>1
  <2>3. \A n \in DOMAIN acls : acls[n] \in E
    <3> HIDE DEF E
    <3>1. QED
      BY <2>1
  <2>4. \A n \in DOMAIN acls : acls[n].rule.action \in {"Allow", "Block"}
    BY <2>3 DEF Rules
  <2>5. QED
    BY <2>2, <2>4 DEF AclsOf
<1>2. PICK n \in DOMAIN lists[1] : /\ Hits(lists[1][n], p)
                                   /\ \A k \in DOMAIN lists[1] : k < n => ~Hits(lists[1][k], p)
  BY <1>1, FirstExists
<1>3. First(lists[1], p, "Pass") = acls[n].rule.action
  BY <1>1, <1>2, FirstIs
<1>4. n \in hit /\ \A k \in hit : k \in DOMAIN acls /\ n <= k
  <2>1. \A k \in hit : k \in DOMAIN acls /\ ~(k < n)
    BY <1>1, <1>2
  <2>2. QED
    BY <1>1, <1>2, <2>1
<1>5. \A k \in hit : /\ acls[n].priority \in Nat /\ acls[k].priority \in Nat
                     /\ acls[n].priority <= acls[k].priority
                     /\ acls[k].rule.action # acls[n].rule.action => acls[n].priority < acls[k].priority
  BY <1>4, AclsOrdered
<1>6. n \in top
  BY <1>4, <1>5
<1>7. \A k \in top : acls[k].rule.action = acls[n].rule.action
  <2>1. \A k \in top : k \in hit /\ acls[k].priority <= acls[n].priority
    BY <1>4
  <2>2. \A k \in top : ~(acls[n].priority < acls[k].priority)
    BY <1>5, <2>1
  <2>3. QED
    BY <1>5, <2>1, <2>2
<1>8. Hns(p) = IF hit = {} \/ \E k \in top : acls[k].rule.action = "Block" THEN "Block" ELSE "Allow"
  BY DEF Hns
<1> HIDE DEF hit, top
<1>9. QED
  BY <1>1, <1>3, <1>4, <1>6, <1>7, <1>8
-----------------------------------------------------------------------------
(* What the lists decide *)

\* The answers of some lists, and of the first tiers of the endpoint.
Answers(ls, p)            == [k \in DOMAIN ls |-> First(ls[k], p, "Pass")]
TierAnswers(tiers, n, p) == [k \in 1..n |-> TierAnswer(tiers[k], p)]

Total == \A k \in DOMAIN lists, p \in Packets : Touches(lists[k], p)
Gathered ==
  pc = "tiers" =>
    /\ at <= Len(ep.tiers) + 1
    /\ \A p \in Packets : /\ Decision(Answers(lists, p)) = Decision(TierAnswers(ep.tiers, at - 1, p))
                          /\ applies => Decision(Answers(lists, p)) # "Pass"
Resolved ==
  pc \in {"last", "flatten"} =>
    \A p \in Packets : Linux(p) = IF Decision(Answers(lists, p)) = "Pass" THEN "Block"
                                  ELSE Decision(Answers(lists, p))
Loop ==
  pc = "flatten" /\ Len(lists) > 1 =>
    \A p \in Packets : Flattened(lists[1], lists[2], made, at, p)
Rendered == pc = "done" => \A p \in Packets : Hns(p) = Linux(p)

Sound == exact /\ ~Warned => Total /\ Gathered /\ Resolved /\ Loop /\ Rendered

\* Without a warning nothing is dropped, and the default tier does not pass.
LEMMA NoWarning ==
  ASSUME ep \in Endpoints, ~Warned, NEW k \in DOMAIN ep.tiers
  PROVE  /\ ep.tiers[k].rules \in Seq(Rules)
         /\ \A n \in DOMAIN ep.tiers[k].rules :
              /\ ~ep.tiers[k].rules[n].unsupported
              /\ ep.tiers[k].name = "default" => ep.tiers[k].rules[n].action # "Pass"
<1>1. ep.tiers \in Seq(Tiers)
  BY EndpointsAssumption
<1>a. ep.tiers[k] \in Tiers
  BY <1>1
<1>2. ep.tiers[k].rules \in Seq(Rules)
  BY <1>a DEF Tiers
<1>3. \A n \in DOMAIN ep.tiers[k].rules : ep.tiers[k].rules[n] \in Range(ep.tiers[k].rules)
  BY DEF Range
<1>4. QED
  BY <1>2, <1>3 DEF Warned

\* One more list.
LEMMA AnswersAppend ==
  ASSUME NEW ls \in Seq(Seq(Rules)), NEW g \in Seq(Rules), NEW p
  PROVE  Decision(Answers(Append(ls, g), p)) =
           IF Decision(Answers(ls, p)) = "Pass" THEN First(g, p, "Pass") ELSE Decision(Answers(ls, p))
<1> DEFINE n == Len(ls)
           new == Append(ls, g)
           a == Answers(ls, p)
           b == Answers(new, p)
<1>1. /\ n \in Nat /\ DOMAIN ls = 1..n /\ DOMAIN new = 1..(n + 1) /\ new[n + 1] = g
      /\ \A k \in 1..n : new[k] = ls[k]
  OBVIOUS
<1> HIDE DEF n, new
<1>2. DOMAIN a = 1..n /\ DOMAIN b = 1..(n + 1) /\ n + 1 \in 1..(n + 1)
  BY <1>1 DEF Answers
<1>3. b[n + 1] = First(g, p, "Pass") /\ \A k \in 1..n : k \in DOMAIN b /\ b[k] = a[k]
  BY <1>1, <1>2 DEF Answers
<1> HIDE DEF a, b
<1>4. Decision(b) = IF Decision(a) = "Pass" THEN b[n + 1] ELSE Decision(a)
  BY <1>1, <1>2, <1>3, DecisionAppend
<1>5. QED
  BY <1>3, <1>4 DEF a, b, new

\* One more tier.
LEMMA TierAnswersNext ==
  ASSUME NEW tiers, NEW n \in Nat \ {0}, NEW p
  PROVE  Decision(TierAnswers(tiers, n, p)) =
           IF Decision(TierAnswers(tiers, n - 1, p)) = "Pass" THEN TierAnswer(tiers[n], p)
           ELSE Decision(TierAnswers(tiers, n - 1, p))
<1> DEFINE m == n - 1
           a == TierAnswers(tiers, m, p)
           b == TierAnswers(tiers, n, p)
<1>1. m \in Nat /\ n = m + 1 /\ n \in 1..n /\ \A k \in 1..m : k \in 1..n
  OBVIOUS
<1>2. DOMAIN a = 1..m /\ DOMAIN b = 1..(m + 1)
  BY <1>1 DEF TierAnswers
<1>3. b[m + 1] = TierAnswer(tiers[n], p) /\ \A k \in 1..m : b[k] = a[k]
  BY <1>1 DEF TierAnswers
<1>4. m = n - 1
  OBVIOUS
<1> HIDE DEF a, b, m
<1>5. Decision(b) = IF Decision(a) = "Pass" THEN b[m + 1] ELSE Decision(a)
  BY <1>1, <1>2, <1>3, DecisionAppend
<1>6. QED
  BY <1>3, <1>4, <1>5 DEF a, b

LEMMA AppendCases ==
  ASSUME NEW S, NEW ls \in Seq(S), NEW g \in S, NEW k \in DOMAIN Append(ls, g)
  PROVE  Append(ls, g)[k] = g \/ (k \in DOMAIN ls /\ Append(ls, g)[k] = ls[k])
<1>1. /\ Len(ls) \in Nat /\ DOMAIN ls = 1..Len(ls) /\ DOMAIN Append(ls, g) = 1..(Len(ls) + 1)
      /\ Append(ls, g)[Len(ls) + 1] = g /\ \A i \in 1..Len(ls) : Append(ls, g)[i] = ls[i]
  OBVIOUS
<1>2. k \in 1..Len(ls) \/ k = Len(ls) + 1
  BY <1>1
<1>3. QED
  BY <1>1, <1>2

\* The list of one more tier answers as the tier.
LEMMA SoundGather == ASSUME TypeInv, Sound, Gather PROVE Sound'
<1> SUFFICES ASSUME exact', ~Warned'
             PROVE  (Total /\ Gathered /\ Resolved /\ Loop /\ Rendered)'
  BY DEF Sound
<1> DEFINE t == ep.tiers[at]
           drop == t.defaultAction # "Pass"
           g == GetPolicySetRules(t.rules, drop)
<1>1. /\ pc = "tiers" /\ pc' = "tiers" /\ ep' = ep /\ at' = at + 1 /\ at <= Len(ep.tiers)
      /\ exact' = exact /\ Warned' = Warned
  BY DEF Gather, Warned
<1>2. Total /\ Gathered
  BY <1>1 DEF Sound
<1>3. at \in Nat \ {0} /\ ep \in Endpoints /\ lists \in Seq(Seq(Rules))
  BY DEF TypeInv, TypeOK
<1>4. ep.tiers \in Seq(Tiers)
  BY <1>3, EndpointsAssumption
<1>5. at \in DOMAIN ep.tiers /\ t \in Tiers
  BY <1>1, <1>3, <1>4
<1>6. at' \in Nat \ {0} /\ at' - 1 = at /\ at' <= Len(ep'.tiers) + 1
  BY <1>1, <1>3, <1>4
<1>7. \A p : Decision(TierAnswers(ep.tiers, at, p)) =
               IF Decision(TierAnswers(ep.tiers, at - 1, p)) = "Pass" THEN TierAnswer(t, p)
               ELSE Decision(TierAnswers(ep.tiers, at - 1, p))
  BY <1>3, TierAnswersNext
<1>8. CASE ~t.policies
  <2>1. lists' = lists /\ applies' = applies
    BY <1>8 DEF Gather
  <2>2. \A p : TierAnswer(t, p) = "Pass"
    BY <1>8 DEF TierAnswer
  <2>3. Total'
    BY <1>2, <2>1 DEF Total
  <2>4. \A p \in Packets : /\ Decision(Answers(lists', p)) = Decision(TierAnswers(ep'.tiers, at' - 1, p))
                           /\ applies' => Decision(Answers(lists', p)) # "Pass"
    BY <1>1, <1>2, <1>6, <1>7, <2>1, <2>2 DEF Gathered
  <2>5. Gathered'
    BY <1>6, <2>4 DEF Gathered
  <2>6. QED
    BY <1>1, <2>3, <2>5 DEF Resolved, Loop, Rendered
<1>9. CASE t.policies
  <2>1. lists' = Append(lists, g) /\ applies' = (applies \/ t.name = "default")
    BY <1>9 DEF Gather
  <2>2. /\ t.rules \in Seq(Rules)
        /\ \A n \in DOMAIN t.rules : /\ ~t.rules[n].unsupported
                                     /\ t.name = "default" => t.rules[n].action # "Pass"
    BY <1>1, <1>3, <1>5, NoWarning
  <2>3. g \in Seq(Rules) /\ drop \in BOOLEAN
    BY <2>2, GatheredType
  <2>4. \A p : Touches(g, p) /\ First(g, p, "Pass") = First(t.rules, p, IF drop THEN "Block" ELSE "Pass")
    <3>1. drop \in BOOLEAN
      OBVIOUS
    <3>2. QED
      BY <2>2, <3>1, GatheredAnswer
  <2>5. \A p : First(g, p, "Pass") = TierAnswer(t, p)
    BY <1>9, <2>4 DEF TierAnswer
  <2> HIDE DEF g
  <2>6. \A p : Decision(Answers(lists', p)) =
                 IF Decision(Answers(lists, p)) = "Pass" THEN First(g, p, "Pass")
                 ELSE Decision(Answers(lists, p))
    BY <1>3, <2>1, <2>3, AnswersAppend
  <2>7. Total'
    <3>1. \A k \in DOMAIN lists' : lists'[k] = g \/ (k \in DOMAIN lists /\ lists'[k] = lists[k])
      BY <1>3, <2>1, <2>3, AppendCases
    <3>2. QED
      BY <1>2, <2>4, <3>1 DEF Total
  <2>8. ASSUME NEW p \in Packets, t.name = "default"
        PROVE  TierAnswer(t, p) # "Pass"
    <3>1. \A k \in DOMAIN ep.tiers : ep.tiers[k].name = "default" => ep.tiers[k].defaultAction = "Deny"
      BY <1>3, EndpointsAssumption
    <3>2. TierAnswer(t, p) = First(t.rules, p, "Block")
      BY <1>5, <1>9, <2>8, <3>1 DEF TierAnswer
    <3>3. ~Passes(t.rules) /\ DOMAIN t.rules \subseteq Nat
      BY <2>2, <2>8 DEF Passes
    <3>4. CASE Touches(t.rules, p)
      BY <3>2, <3>3, <3>4, FirstNoPass
    <3>5. CASE ~Touches(t.rules, p)
      BY <3>2, <3>5, FirstNone
    <3>6. QED
      BY <3>4, <3>5
  <2> HIDE DEF t, drop
  <2>9. ASSUME NEW p \in Packets
        PROVE  /\ Decision(Answers(lists', p)) = Decision(TierAnswers(ep'.tiers, at' - 1, p))
               /\ applies' => Decision(Answers(lists', p)) # "Pass"
    <3>1. /\ Decision(Answers(lists, p)) = Decision(TierAnswers(ep.tiers, at - 1, p))
          /\ applies => Decision(Answers(lists, p)) # "Pass"
      BY <1>1, <1>2 DEF Gathered
    <3>2. QED
      BY <1>1, <1>6, <1>7, <2>1, <2>5, <2>6, <2>8, <3>1
  <2>10. Gathered'
    BY <1>6, <2>9 DEF Gathered
  <2>11. QED
    BY <1>1, <2>7, <2>10 DEF Resolved, Loop, Rendered
<1>10. QED
  BY <1>5, <1>8, <1>9 DEF Tiers

\* The profiles decide what no tier does.
LEMMA SoundProfiles == ASSUME TypeInv, Sound, Profiles PROVE Sound'
<1> SUFFICES ASSUME exact', ~Warned'
             PROVE  (Total /\ Gathered /\ Resolved /\ Loop /\ Rendered)'
  BY DEF Sound
<1> DEFINE g == GetPolicySetRules(ep.profiles, TRUE)
<1>1. /\ pc = "tiers" /\ pc' = "last" /\ ep' = ep /\ at > Len(ep.tiers)
      /\ exact' = exact /\ Warned' = Warned
  BY DEF Profiles, Warned
<1>2. Total /\ Gathered
  BY <1>1 DEF Sound
<1>3. at \in Nat \ {0} /\ ep \in Endpoints /\ lists \in Seq(Seq(Rules))
  BY DEF TypeInv, TypeOK
<1>4. ep.tiers \in Seq(Tiers) /\ ep.profiles \in Seq({r \in Rules : r.action # "Pass" /\ ~r.unsupported})
  BY <1>3, EndpointsAssumption
<1>5. at - 1 = Len(ep.tiers) /\ DOMAIN ep.tiers = 1..Len(ep.tiers)
  <2>1. at <= Len(ep.tiers) + 1
    BY <1>1, <1>2 DEF Gathered
  <2>2. QED
    BY <1>1, <1>3, <1>4, <2>1
<1>6. \A p : Linux(p)' = Linux(p)
  BY <1>1 DEF Linux
<1>7. ASSUME NEW p \in Packets
      PROVE  Linux(p) = IF Decision(Answers(lists, p)) = "Pass" THEN First(ep.profiles, p, "Block")
                        ELSE Decision(Answers(lists, p))
  <2>1. Linux(p) = LET answer == Decision(TierAnswers(ep.tiers, at - 1, p))
                   IN  IF answer = "Pass" THEN First(ep.profiles, p, "Block") ELSE answer
    BY <1>5 DEF Linux, TierAnswers
  <2>2. QED
    BY <1>1, <1>2, <2>1 DEF Gathered
<1>8. /\ ep.profiles \in Seq(Rules) /\ ~Passes(ep.profiles)
      /\ \A n \in DOMAIN ep.profiles : ~ep.profiles[n].unsupported
  BY <1>4 DEF Passes
<1>9. g \in Seq(Rules)
  BY <1>8, GatheredType
<1>10. \A p : Touches(g, p) /\ First(g, p, "Pass") = First(ep.profiles, p, "Block")
  BY <1>8, GatheredAnswer
<1>11. \A p : First(ep.profiles, p, "Block") # "Pass"
  <2>1. DOMAIN ep.profiles \subseteq Nat
    BY <1>8
  <2>2. QED
    BY <1>8, <2>1, FirstNoPass, FirstNone
<1> HIDE DEF g
<1>12. CASE lists' = lists /\ applies
  <2>1. \A p \in Packets : Decision(Answers(lists, p)) # "Pass"
    BY <1>1, <1>2, <1>12 DEF Gathered
  <2>2. Total' /\ Resolved'
    BY <1>2, <1>6, <1>7, <1>12, <2>1 DEF Total, Resolved
  <2>3. QED
    BY <1>1, <2>2 DEF Gathered, Loop, Rendered
<1>13. CASE lists' = Append(lists, g)
  <2>1. \A p : Decision(Answers(lists', p)) =
                 IF Decision(Answers(lists, p)) = "Pass" THEN First(g, p, "Pass")
                 ELSE Decision(Answers(lists, p))
    BY <1>3, <1>9, <1>13, AnswersAppend
  <2>2. \A k \in DOMAIN lists' : lists'[k] = g \/ (k \in DOMAIN lists /\ lists'[k] = lists[k])
    BY <1>3, <1>9, <1>13, AppendCases
  <2>3. Total'
    BY <1>2, <1>10, <2>2 DEF Total
  <2>4. \A p \in Packets : Linux(p)' = IF Decision(Answers(lists', p)) = "Pass" THEN "Block"
                                       ELSE Decision(Answers(lists', p))
    BY <1>6, <1>7, <1>10, <1>11, <2>1
  <2>5. Resolved'
    BY <2>4 DEF Resolved
  <2>6. QED
    BY <1>1, <2>3, <2>5 DEF Gathered, Loop, Rendered
<1>14. QED
  BY <1>12, <1>13 DEF Profiles, g

\* The rules of the last list that pass block instead.
LEMMA FirstBlocked ==
  ASSUME NEW old, NEW new, DOMAIN old \subseteq Nat, DOMAIN new = DOMAIN old, NEW p,
         \A n \in DOMAIN old : Hits(new[n], p) <=> Hits(old[n], p),
         \A n \in DOMAIN old : new[n].action = IF old[n].action = "Pass" THEN "Block" ELSE old[n].action,
         Touches(old, p)
  PROVE  /\ Touches(new, p)
         /\ First(new, p, "Pass") = IF First(old, p, "Pass") = "Pass" THEN "Block"
                                    ELSE First(old, p, "Pass")
<1>1. PICK n \in DOMAIN old : Hits(old[n], p) /\ \A k \in DOMAIN old : k < n => ~Hits(old[k], p)
  BY FirstExists
<1>2. First(old, p, "Pass") = old[n].action
  BY <1>1, FirstIs
<1>3. n \in DOMAIN new /\ Hits(new[n], p) /\ \A k \in DOMAIN new : k < n => ~Hits(new[k], p)
  BY <1>1
<1>4. First(new, p, "Pass") = new[n].action
  BY <1>3, FirstIs
<1>5. QED
  BY <1>1, <1>2, <1>3, <1>4 DEF Touches

\* A block where the last tier passes is what Linux ends with, too.
LEMMA SoundBlockLast == ASSUME TypeInv, Sound, BlockLast PROVE Sound'
<1> SUFFICES ASSUME exact', ~Warned'
             PROVE  (Total /\ Gathered /\ Resolved /\ Loop /\ Rendered)'
  BY DEF Sound
<1> DEFINE n == Len(lists)
           old == lists[n]
           blocked(r) == IF r.action = "Pass" THEN [r EXCEPT !.action = "Block"] ELSE r
           new == [k \in DOMAIN old |-> blocked(old[k])]
<1>1. /\ pc = "last" /\ pc' = "flatten" /\ ep' = ep /\ at' = 1 /\ made' = made
      /\ exact' = exact /\ Warned' = Warned
  BY DEF BlockLast, Warned
<1>2. Total /\ Resolved
  BY <1>1 DEF Sound
<1>3. lists \in Seq(Seq(Rules)) /\ lists # <<>> /\ made = <<>>
  BY <1>1 DEF TypeInv, TypeOK
<1>4. lists' = [lists EXCEPT ![n] = new]
  BY DEF BlockLast
<1>5. n \in Nat \ {0} /\ DOMAIN lists = 1..n /\ n \in DOMAIN lists
  BY <1>3
<1>6. old \in Seq(Rules) /\ DOMAIN old \subseteq Nat /\ \A k \in DOMAIN old : old[k] \in Rules
  BY <1>3, <1>5
<1>7. \A r \in Rules : \A p : /\ Hits(blocked(r), p) <=> Hits(r, p)
                             /\ blocked(r).action = IF r.action = "Pass" THEN "Block" ELSE r.action
  BY DEF Rules, Hits
<1>8. /\ DOMAIN lists' = 1..n /\ lists'[n] = new
      /\ \A k \in DOMAIN lists : k # n => lists'[k] = lists[k]
  BY <1>4, <1>5
<1>9. ASSUME NEW p \in Packets
      PROVE  /\ Touches(new, p)
             /\ First(new, p, "Pass") = IF First(old, p, "Pass") = "Pass" THEN "Block"
                                        ELSE First(old, p, "Pass")
  <2>1. Touches(old, p)
    BY <1>2, <1>5 DEF Total
  <2>2. \A k \in DOMAIN old : /\ Hits(new[k], p) <=> Hits(old[k], p)
                              /\ new[k].action = IF old[k].action = "Pass" THEN "Block" ELSE old[k].action
    BY <1>6, <1>7
  <2>3. DOMAIN new = DOMAIN old
    OBVIOUS
  <2> HIDE DEF new, old
  <2>4. QED
    BY <1>6, <2>1, <2>2, <2>3, FirstBlocked
<1> HIDE DEF new, blocked
<1>10. Total'
  BY <1>2, <1>5, <1>8, <1>9 DEF Total
<1>11. ASSUME NEW p \in Packets
       PROVE  /\ Linux(p)' = IF Decision(Answers(lists', p)) = "Pass" THEN "Block"
                             ELSE Decision(Answers(lists', p))
  <2> DEFINE a == Answers(lists, p)
             b == Answers(lists', p)
  <2>1. DOMAIN a = 1..n /\ DOMAIN b = 1..n
    BY <1>5, <1>8 DEF Answers
  <2>2. \A k \in 1..(n - 1) : b[k] = a[k]
    <3>1. \A k \in 1..(n - 1) : k \in DOMAIN lists /\ k \in DOMAIN lists' /\ k # n
      <4> HIDE DEF n
      <4>1. QED
        BY <1>5, <1>8
    <3>2. QED
      BY <1>8, <3>1 DEF Answers
  <2>3. b[n] = IF a[n] = "Pass" THEN "Block" ELSE a[n]
    <3>1. b[n] = First(new, p, "Pass") /\ a[n] = First(old, p, "Pass")
      BY <1>5, <1>8 DEF Answers
    <3>2. QED
      BY <1>9, <3>1
  <2> HIDE DEF a, b
  <2>4. Decision(b) = IF Decision(a) = "Pass" THEN "Block" ELSE Decision(a)
    <3> HIDE DEF n
    <3>1. QED
      BY <1>5, <2>1, <2>2, <2>3, DecisionBlockLast
  <2>5. Linux(p) = IF Decision(a) = "Pass" THEN "Block" ELSE Decision(a)
    BY <1>1, <1>2 DEF Resolved, a
  <2>6. Linux(p)' = Linux(p)
    BY <1>1 DEF Linux
  <2>7. QED
    BY <2>4, <2>5, <2>6 DEF b
<1>12. Resolved'
  BY <1>11 DEF Resolved
<1>13. Loop'
  <2>1. ASSUME Len(lists') > 1, NEW p \in Packets
        PROVE  Flattened(lists'[1], lists'[2], made', at', p)
    <3>1. \A k \in DOMAIN lists'[1] : ~(k < 1)
      <4>1. lists'[1] = lists[1] /\ lists[1] \in Seq(Rules)
        BY <1>3, <1>4, <1>5, <1>8, <2>1
      <4>2. QED
        BY <4>1
    <3>2. ~Touches(made', p)
      BY <1>1, <1>3 DEF Touches
    <3>3. QED
      BY <1>1, <3>1, <3>2 DEF Flattened
  <2>2. QED
    BY <2>1 DEF Loop
<1>14. QED
  BY <1>1, <1>10, <1>12, <1>13 DEF Gathered, Rendered

\* A rule of the first tier, or what it passes into, comes behind those before it.
LEMMA SoundFlattenRule == ASSUME TypeInv, Sound, FlattenRule PROVE Sound'
<1> SUFFICES ASSUME exact', ~Warned'
             PROVE  (Total /\ Gathered /\ Resolved /\ Loop /\ Rendered)'
  BY DEF Sound
<1> DEFINE first == lists[1]
           second == lists[2]
           r == first[at]
<1>1. /\ pc = "flatten" /\ pc' = "flatten" /\ ep' = ep /\ at' = at + 1 /\ lists' = lists
      /\ Len(lists) > 1 /\ at <= Len(first) /\ Warned' = Warned
      /\ exact
  BY DEF FlattenRule, Warned
<1>2. Total /\ Resolved /\ Loop
  BY <1>1 DEF Sound
<1>3. lists \in Seq(Seq(Rules)) /\ made \in Seq(Rules) /\ at \in Nat \ {0}
  BY DEF TypeInv, TypeOK
<1>4. /\ 1 \in DOMAIN lists /\ 2 \in DOMAIN lists
      /\ first \in Seq(Rules) /\ second \in Seq(Rules)
  BY <1>1, <1>3
<1>5. at \in DOMAIN first /\ r \in Rules
  BY <1>1, <1>3, <1>4
<1>6. \A p \in Packets : Flattened(first, second, made, at, p) /\ Touches(second, p)
  BY <1>1, <1>2, <1>4 DEF Loop, Total
<1> HIDE DEF first, second
<1>7. ASSUME NEW p \in Packets
      PROVE  Flattened(first, second, made', at + 1, p)
  <2>1. CASE r.action = "Pass"
    <3>1. made' = made \o Expanded(r, second) /\ \A k \in DOMAIN second : Exact(r, second[k])
      BY <2>1 DEF FlattenRule, first, second
    <3>2. Expanded(r, second) \in Seq(Rules)
      BY <1>4, <1>5, ExpandedIs
    <3>3. /\ Touches(Expanded(r, second), p) <=> Hits(r, p)
          /\ Hits(r, p) => First(Expanded(r, second), p, "Pass") = Passed(r, second, p)
      <4> HIDE DEF r
      <4>1. QED
        BY <1>4, <1>5, <1>6, <2>1, <3>1, PieceExpanded
    <3>4. QED
      BY <1>3, <1>4, <1>5, <1>6, <3>1, <3>2, <3>3, FlattenStep
  <2>2. CASE r.action # "Pass"
    <3>1. made' = Append(made, r)
      BY <2>2 DEF FlattenRule, first
    <3>2. made' = made \o <<r>>
      <4> HIDE DEF r
      <4>1. QED
        BY <1>3, <1>5, <3>1
    <3>3. /\ <<r>> \in Seq(Rules)
          /\ Touches(<<r>>, p) <=> Hits(r, p)
          /\ Hits(r, p) => First(<<r>>, p, "Pass") = Passed(r, second, p)
      <4> HIDE DEF r
      <4>1. QED
        BY <1>5, <2>2, PieceKept
    <3>4. QED
      BY <1>3, <1>4, <1>5, <1>6, <3>2, <3>3, FlattenStep
  <2>3. QED
    BY <2>1, <2>2
<1>8. Loop'
  BY <1>1, <1>7 DEF Loop, first, second
<1>9. Total'
  BY <1>1, <1>2 DEF Total
<1>10. Resolved'
  <2>1. \A p : Linux(p)' = Linux(p)
    BY <1>1 DEF Linux
  <2>2. QED
    BY <1>1, <1>2, <2>1 DEF Resolved
<1>11. QED
  BY <1>1, <1>8, <1>9, <1>10 DEF Gathered, Rendered

\* The first two lists as one; or the first one alone, if it passes nothing.
LEMMA SoundMerge == ASSUME TypeInv, Sound, Merge PROVE Sound'
<1> SUFFICES ASSUME exact', ~Warned'
             PROVE  (Total /\ Gathered /\ Resolved /\ Loop /\ Rendered)'
  BY DEF Sound
<1> DEFINE n == Len(lists)
           first == lists[1]
           second == lists[2]
           merged == <<made>> \o SubSeq(lists, 3, n)
<1>1. /\ pc = "flatten" /\ pc' = "flatten" /\ ep' = ep /\ at' = 1 /\ made' = <<>>
      /\ n > 1 /\ at > Len(first) /\ Warned' = Warned /\ exact
      /\ lists' = IF Passes(first) THEN merged ELSE <<first>>
  BY DEF Merge, Warned
<1>2. Total /\ Resolved /\ Loop
  BY <1>1 DEF Sound
<1>3. lists \in Seq(Seq(Rules)) /\ made \in Seq(Rules) /\ at \in Nat
  BY DEF TypeInv, TypeOK
<1>4. /\ n \in Nat /\ n > 1 /\ DOMAIN lists = 1..n /\ 1 \in DOMAIN lists /\ 2 \in DOMAIN lists
      /\ first \in Seq(Rules)
  BY <1>1, <1>3
<1>5. \A p : Linux(p)' = Linux(p)
  BY <1>1 DEF Linux
<1>6. ASSUME NEW p \in Packets
      PROVE  /\ Touches(first, p) /\ Touches(made, p)
             /\ First(made, p, "Pass") = IF First(first, p, "Pass") = "Pass" THEN First(second, p, "Pass")
                                         ELSE First(first, p, "Pass")
  <2>1. Touches(first, p) /\ Flattened(first, second, made, at, p)
    BY <1>1, <1>2, <1>4 DEF Total, Loop
  <2> HIDE DEF first, second
  <2>2. QED
    BY <1>1, <1>3, <1>4, <2>1, FlattenEnd
<1> HIDE DEF n, first, second
<1>7. CASE Passes(first)
  <2>1. lists' = merged
    BY <1>1, <1>7
  <2>2. /\ merged \in Seq(Seq(Rules)) /\ Len(merged) = n - 1 /\ merged[1] = made
        /\ \A k \in 2..(n - 1) : merged[k] = lists[k + 1]
    <3>1. Len(lists) > 1
      BY <1>4 DEF n
    <3>2. QED
      BY SMTT(60), <1>3, <3>1, MergedLists DEF n
  <2> HIDE DEF merged
  <2>3. DOMAIN merged = 1..(n - 1) /\ 1 \in DOMAIN merged
    BY <1>4, <2>2
  <2>4. Total'
    <3>1. ASSUME NEW k \in DOMAIN merged, NEW p \in Packets
          PROVE  Touches(merged[k], p)
      <4>1. k = 1 \/ (k \in 2..(n - 1) /\ k + 1 \in DOMAIN lists)
        BY <1>4, <2>3
      <4>2. QED
        BY <1>2, <1>6, <2>2, <4>1 DEF Total
    <3>2. QED
      BY <2>1, <3>1 DEF Total
  <2>5. ASSUME NEW p \in Packets
        PROVE  Decision(Answers(merged, p)) = Decision(Answers(lists, p))
    <3> DEFINE a == Answers(lists, p)
               b == Answers(merged, p)
    <3>1. DOMAIN a = 1..n /\ DOMAIN b = 1..(n - 1)
      BY <1>4, <2>3 DEF Answers
    <3>2. b[1] = First(made, p, "Pass")
      BY <2>2, <2>3 DEF Answers
    <3>3. a[1] = First(first, p, "Pass") /\ a[2] = First(second, p, "Pass")
      BY <1>4 DEF Answers, first, second
    <3>4. ASSUME NEW k \in 2..(n - 1)
          PROVE  b[k] = a[k + 1]
      <4>1. k \in DOMAIN merged /\ k + 1 \in DOMAIN lists
        BY <1>4, <2>3
      <4>2. QED
        BY <2>2, <4>1 DEF Answers
    <3> HIDE DEF a, b
    <3>5. b[1] = IF a[1] = "Pass" THEN a[2] ELSE a[1]
      BY <1>6, <3>2, <3>3
    <3>6. Decision(b) = Decision(a)
      BY <1>4, <3>1, <3>4, <3>5, DecisionMerge
    <3>7. QED
      BY <3>6 DEF a, b
  <2>6. Resolved'
    BY <1>1, <1>2, <1>5, <2>1, <2>5 DEF Resolved
  <2>7. Loop'
    <3>1. \A k \in DOMAIN lists'[1] : ~(k < 1)
      BY <1>3, <2>1, <2>2
    <3>2. \A p : ~Touches(made', p)
      BY <1>1 DEF Touches
    <3>3. QED
      BY <1>1, <3>1, <3>2 DEF Loop, Flattened
  <2>8. QED
    BY <1>1, <2>4, <2>6, <2>7 DEF Gathered, Rendered
<1>8. CASE ~Passes(first)
  <2> DEFINE one == <<first>>
  <2>1. lists' = one
    BY <1>1, <1>8
  <2>2. Len(one) = 1 /\ DOMAIN one = 1..1 /\ one[1] = first /\ 1 \in 1..1 /\ \A k \in 1..1 : k = 1
    OBVIOUS
  <2> HIDE DEF one
  <2>3. Total'
    BY <1>6, <2>1, <2>2 DEF Total
  <2>4. ASSUME NEW p \in Packets
        PROVE  Decision(Answers(one, p)) = Decision(Answers(lists, p))
    <3> DEFINE a == Answers(lists, p)
               b == Answers(one, p)
    <3>1. DOMAIN a = 1..n /\ DOMAIN b = 1..1
      BY <1>4, <2>2 DEF Answers
    <3>2. b[1] = First(first, p, "Pass") /\ a[1] = First(first, p, "Pass")
      BY <1>4, <2>2 DEF Answers, first
    <3>3. First(first, p, "Pass") # "Pass"
      <4>1. DOMAIN first \subseteq Nat
        BY <1>4
      <4>2. QED
        BY <1>6, <1>8, <4>1, FirstNoPass
    <3> HIDE DEF a, b
    <3>4. n \in Nat \ {0} /\ 1 \in Nat \ {0}
      BY <1>4
    <3>5. Decision(a) = a[1]
      BY <3>1, <3>2, <3>3, <3>4, DecisionFirst
    <3>6. Decision(b) = b[1]
      BY <3>1, <3>2, <3>3, <3>4, DecisionFirst
    <3>7. QED
      BY <3>2, <3>5, <3>6 DEF a, b
  <2>5. Resolved'
    BY <1>1, <1>2, <1>5, <2>1, <2>4 DEF Resolved
  <2>6. Loop'
    BY <2>1, <2>2 DEF Loop
  <2>7. QED
    BY <1>1, <2>3, <2>5, <2>6 DEF Gathered, Rendered
<1>9. QED
  BY <1>7, <1>8

\* HNS decides by the one list that is left.
LEMMA SoundRewrite ==
  ASSUME TypeInv, Sound, RewritePriorities, TypeInv', Prioritised', AclsOf' PROVE Sound'
<1> SUFFICES ASSUME exact', ~Warned'
             PROVE  (Total /\ Gathered /\ Resolved /\ Loop /\ Rendered)'
  BY DEF Sound
<1>1. /\ pc = "flatten" /\ pc' = "done" /\ ep' = ep /\ lists' = lists /\ Len(lists) = 1
      /\ Warned' = Warned /\ exact
  BY DEF RewritePriorities, Warned
<1>2. Total /\ Resolved
  BY <1>1 DEF Sound
<1>3. lists \in Seq(Seq(Rules)) /\ ~Passes(lists[Len(lists)])
  BY <1>1 DEF TypeInv, TypeOK
<1>4. DOMAIN lists = 1..1 /\ 1 \in DOMAIN lists /\ lists[1] \in Seq(Rules) /\ DOMAIN lists[1] \subseteq Nat
  BY <1>1, <1>3
<1>5. ASSUME NEW p \in Packets
      PROVE  Hns(p)' = Linux(p)'
  <2> DEFINE a == Answers(lists, p)
  <2>1. Touches(lists[1], p)
    BY <1>2, <1>4 DEF Total
  <2>2. First(lists[1], p, "Pass") # "Pass"
    BY <1>1, <1>3, <1>4, <2>1, FirstNoPass
  <2>3. DOMAIN a = 1..1 /\ a[1] = First(lists[1], p, "Pass") /\ 1 \in Nat \ {0}
    BY <1>4 DEF Answers
  <2>4. Decision(a) = a[1]
    <3> HIDE DEF a
    <3>1. QED
      BY <2>2, <2>3, DecisionFirst
  <2>5. Linux(p) = First(lists[1], p, "Pass")
    BY <1>1, <1>2, <2>2, <2>3, <2>4 DEF Resolved
  <2>6. Linux(p)' = Linux(p)
    BY <1>1 DEF Linux
  <2>7. Touches(lists'[1], p)
    BY <1>1, <2>1
  <2>8. (TypeInv /\ Prioritised /\ AclsOf /\ pc = "done" /\ Touches(lists[1], p)
          => Hns(p) = First(lists[1], p, "Pass"))'
    BY HnsIsFirst, PTL
  <2>9. QED
    BY <1>1, <2>5, <2>6, <2>7, <2>8
<1>6. Total'
  BY <1>1, <1>2 DEF Total
<1>7. QED
  BY <1>1, <1>5, <1>6 DEF Gathered, Resolved, Loop, Rendered

LEMMA InitSound == Init => Sound
<1> SUFFICES ASSUME Init
             PROVE  Total /\ Gathered /\ Resolved /\ Loop /\ Rendered
  BY DEF Sound
<1>1. pc = "tiers" /\ at = 1 /\ lists = <<>> /\ applies = FALSE /\ ep \in Endpoints
  BY DEF Init
<1>2. DOMAIN lists = {}
  BY <1>1
<1>3. at <= Len(ep.tiers) + 1
  BY <1>1, EndpointsAssumption
<1>4. \A p : Decision(Answers(lists, p)) = Decision(TierAnswers(ep.tiers, at - 1, p))
  <2>1. \A p : \A k \in DOMAIN TierAnswers(ep.tiers, at - 1, p) : FALSE
    BY <1>1 DEF TierAnswers
  <2>2. \A p : \A k \in DOMAIN Answers(lists, p) : FALSE
    BY <1>2 DEF Answers
  <2>3. QED
    BY <2>1, <2>2 DEF Decision
<1>5. QED
  BY <1>1, <1>2, <1>3, <1>4 DEF Total, Gathered, Resolved, Loop, Rendered

LEMMA NextSound ==
  TypeInv /\ Prioritised /\ AclsOf /\ Sound /\ [Next]_vars => Sound'
<1> SUFFICES ASSUME TypeInv, Prioritised, AclsOf, Sound, [Next]_vars
             PROVE  Sound'
  OBVIOUS
<1>1. TypeInv' /\ (Prioritised /\ AclsOf)'
  BY NextTypeInv, NextAcls
<1>2. CASE Gather
  BY <1>2, SoundGather
<1>3. CASE Panic
  <2>1. /\ pc = "tiers" /\ pc' = "error" /\ ep' = ep /\ lists' = lists
        /\ exact' = exact /\ Warned' = Warned
    BY <1>3 DEF Panic, Warned
  <2>2. QED
    BY <2>1 DEF Sound, Total, Gathered, Resolved, Loop, Rendered
<1>4. CASE Profiles
  BY <1>4, SoundProfiles
<1>5. CASE BlockLast
  BY <1>5, SoundBlockLast
<1>6. CASE FlattenRule
  BY <1>6, SoundFlattenRule
<1>7. CASE Merge
  BY <1>7, SoundMerge
<1>8. CASE RewritePriorities
  BY <1>1, <1>8, SoundRewrite
<1>9. CASE UNCHANGED vars
  <2>1. /\ pc' = pc /\ at' = at /\ ep' = ep /\ lists' = lists /\ made' = made
        /\ exact' = exact /\ applies' = applies /\ acls' = acls
    BY <1>9 DEF vars
  <2>2. /\ Warned' = Warned /\ Total' = Total /\ Gathered' = Gathered /\ Loop' = Loop
        /\ \A p : Linux(p)' = Linux(p) /\ Hns(p)' = Hns(p)
    BY <2>1 DEF Warned, Total, Gathered, Loop, Linux, Hns
  <2>3. QED
    BY <2>1, <2>2 DEF Sound, Resolved, Rendered
<1>10. QED
  BY <1>2, <1>3, <1>4, <1>5, <1>6, <1>7, <1>8, <1>9 DEF Next

\* Whatever tiers an endpoint has, with whatever rules, and whatever packet comes: HNS does
\* with its flattened list what Linux does with the tiers, unless the linter has warned that
\* it may not or lists of ports have been combined into others than both.
THEOREM HnsFaithful == Spec => []FaithfulOrWarned
<1>1. Sound => FaithfulOrWarned
  BY DEF Sound, Rendered, FaithfulOrWarned
<1>2. QED
  BY <1>1, InitTypeInv, NextTypeInv, InitAcls, NextAcls, InitSound, NextSound, PTL DEF Spec
-----------------------------------------------------------------------------
(* Which endpoints have their ports combined exactly *)

\* Two lists of ports are combined into both iff they meet, and not at the last port.
LEMMA PortsKeptIs ==
  ASSUME NEW a \in Field(Ports), NEW b \in Field(Ports)
  PROVE  PortsKept(a, b) <=> Any \in {a, b} \/ (a \cap b # {} /\ MaxPort \notin a \cap b)
<1>1. CASE Any \in {a, b}
  BY <1>1 DEF PortsKept
<1>2. CASE a # Any /\ b # Any
  <2> DEFINE both == a \cap b
             kept == {p \in both : ~(p..MaxPort) \subseteq both}
  <2>1. /\ MaxPort \in Nat /\ both \subseteq Ports /\ Any # both
        /\ CombinePorts(a, b) = IF kept = {} THEN Any ELSE kept
    BY <1>2, HnsAssumption, AnyAssumption DEF Field, Some, CombinePorts
  <2> HIDE DEF both
  <2>2. CASE MaxPort \in both
    <3>1. MaxPort \notin kept
      BY <2>1, <2>2
    <3>. QED BY <1>2, <2>1, <2>2, <3>1 DEF PortsKept, both
  <2>3. CASE MaxPort \notin both
    <3>1. \A p \in both : p \in Nat /\ MaxPort \in p..MaxPort
      BY <2>1 DEF Ports
    <3>2. kept = both
      BY <2>3, <3>1
    <3>. QED BY <1>2, <2>1, <2>3, <3>2 DEF PortsKept, both
  <2>. QED BY <2>2, <2>3
<1>. QED BY <1>1, <1>2

\* The rules of the tiers and profiles of an endpoint.
RulesOf(e) == Range(e.profiles) \cup UNION {Range(e.tiers[k].rules) : k \in DOMAIN e.tiers}

\* Of rules it holds for one field of ports that those that pass list none, or that all lists
\* have a port in common and leave out the last.
FieldAgrees(S, f) ==
  \/ \A r \in S : r.action = "Pass" => r[f] = Any
  \/ \E q \in Ports : \A r \in S : r[f] = Any \/ (q \in r[f] /\ MaxPort \notin r[f])
PortsAgree(S) == FieldAgrees(S, "lports") /\ FieldAgrees(S, "rports")

\* What a step of the renderer makes of the rules there are.
Stems(s, S) ==
  \/ s \in S
  \/ s.lports = Any /\ s.rports = Any
  \/ \E r \in S : s.lports = r.lports /\ s.rports = r.rports /\ (s.action = "Pass" => r.action = "Pass")
  \/ \E r1, r2 \in S : r1.action = "Pass" /\ s = CombineRules(r1, r2) /\ s # NoRule

\* Ports that are combined are both, if they agree ...
LEMMA AgreeExact ==
  ASSUME NEW S \in SUBSET Rules, PortsAgree(S), NEW r1 \in S, NEW r2 \in S, r1.action = "Pass"
  PROVE  /\ PortsKept(r1.lports, r2.lports) /\ PortsKept(r1.rports, r2.rports)
<1>1. /\ r1.lports \in Field(Ports) /\ r2.lports \in Field(Ports)
      /\ r1.rports \in Field(Ports) /\ r2.rports \in Field(Ports)
  BY DEF Rules, Field
<1>2. PortsKept(r1.lports, r2.lports)
  <2>1. \/ Any \in {r1.lports, r2.lports}
        \/ r1.lports \cap r2.lports # {} /\ MaxPort \notin r1.lports \cap r2.lports
    BY DEF PortsAgree, FieldAgrees
  <2>. QED BY <1>1, <2>1, PortsKeptIs
<1>3. PortsKept(r1.rports, r2.rports)
  <2>1. \/ Any \in {r1.rports, r2.rports}
        \/ r1.rports \cap r2.rports # {} /\ MaxPort \notin r1.rports \cap r2.rports
    BY DEF PortsAgree, FieldAgrees
  <2>. QED BY <1>1, <2>1, PortsKeptIs
<1>. QED BY <1>2, <1>3

\* For one field, a rule has what one of some rules has and passes only if that one does, or
\* what is common to one that passes and another.
Derived(s, S, f) ==
  \/ s[f] = Any
  \/ \E r \in S : s[f] = r[f] /\ (s.action = "Pass" => r.action = "Pass")
  \/ \E r1, r2 \in S : /\ r1.action = "Pass" /\ r1[f] # Any /\ r2[f] # Any
                       /\ s[f] = r1[f] \cap r2[f]

\* ... so that this is what stems from rules that agree.
LEMMA StemDerived ==
  ASSUME NEW S \in SUBSET Rules, PortsAgree(S), NEW s, Stems(s, S)
  PROVE  Derived(s, S, "lports") /\ Derived(s, S, "rports")
<1>1. CASE s \in S
  BY <1>1 DEF Derived
<1>2. CASE s.lports = Any /\ s.rports = Any
  BY <1>2 DEF Derived
<1>3. CASE \E r \in S : s.lports = r.lports /\ s.rports = r.rports /\ (s.action = "Pass" => r.action = "Pass")
  BY <1>3 DEF Derived
<1>4. ASSUME NEW r1 \in S, NEW r2 \in S, r1.action = "Pass", s = CombineRules(r1, r2), s # NoRule
      PROVE  Derived(s, S, "lports") /\ Derived(s, S, "rports")
  <2>1. PortsKept(r1.lports, r2.lports) /\ PortsKept(r1.rports, r2.rports)
    BY <1>4, AgreeExact
  <2>2. /\ s.action = r2.action /\ s.lports = CombinePorts(r1.lports, r2.lports)
        /\ s.rports = CombinePorts(r1.rports, r2.rports)
    BY <1>4 DEF CombineRules
  <2>3. Derived(s, S, "lports")
    BY <1>4, <2>1, <2>2 DEF PortsKept, CombinePorts, Derived
  <2>4. Derived(s, S, "rports")
    BY <1>4, <2>1, <2>2 DEF PortsKept, CombinePorts, Derived
  <2>. QED BY <2>3, <2>4
<1>. QED BY <1>1, <1>2, <1>3, <1>4 DEF Stems

\* So rules that stem from rules that agree do.
LEMMA AgreeKept ==
  ASSUME NEW S \in SUBSET Rules, PortsAgree(S), NEW T, \A s \in T : Stems(s, S)
  PROVE  PortsAgree(T)
<1>1. ASSUME NEW f, FieldAgrees(S, f), \A s \in T : Derived(s, S, f)
      PROVE  FieldAgrees(T, f)
  <2>1. CASE \A r \in S : r.action = "Pass" => r[f] = Any
    BY <1>1, <2>1 DEF Derived, FieldAgrees
  <2>2. ASSUME NEW q \in Ports, \A r \in S : r[f] = Any \/ (q \in r[f] /\ MaxPort \notin r[f])
        PROVE  \A s \in T : s[f] = Any \/ (q \in s[f] /\ MaxPort \notin s[f])
    BY <1>1, <2>2 DEF Derived
  <2>. QED BY <1>1, <2>1, <2>2 DEF FieldAgrees
<1>. QED BY <1>1, StemDerived DEF PortsAgree


\* The rules an endpoint has and those the renderer holds of it.
Held == RulesOf(ep) \cup Range(made) \cup UNION {Range(lists[k]) : k \in DOMAIN lists}

AgreeInv == PortsAgree(RulesOf(ep)) => exact /\ PortsAgree(Held)

\* What is left of a list of rules, closed as its tier is.
LEMMA GatheredRules ==
  ASSUME NEW rules \in Seq(Rules), NEW drop \in BOOLEAN, NEW s \in Range(GetPolicySetRules(rules, drop))
  PROVE  s \in Range(rules) \/ (s.lports = Any /\ s.rports = Any)
<1> DEFINE T == {n \in DOMAIN rules : ~rules[n].unsupported}
           kept == Kept(rules, T)
           last == Catch(IF drop THEN "Block" ELSE "Pass")
<1>1. Len(rules) \in Nat /\ T \subseteq 1..Len(rules) /\ T \subseteq DOMAIN rules
      /\ \A n \in T : rules[n] \in Range(rules)
  BY DEF Range
<1>2. last.lports = Any /\ last.rports = Any
  BY DEF Catch
<1>3. GetPolicySetRules(rules, drop) = Append(kept, last)
  BY DEF GetPolicySetRules
<1> HIDE DEF T, last
<1>4. kept \in Seq(Range(rules))
  BY <1>1, KeptType
<1> HIDE DEF kept
<1>5. \A k \in DOMAIN Append(kept, last) :
        Append(kept, last)[k] = last \/ (k \in DOMAIN kept /\ Append(kept, last)[k] = kept[k])
  BY <1>4
<1>6. \A k \in DOMAIN kept : kept[k] \in Range(rules)
  BY <1>4
<1>. QED BY <1>2, <1>3, <1>5, <1>6 DEF Range

\* What a rule passes into are combinations of it and a rule of the next tier.
LEMMA ExpandedRules ==
  ASSUME NEW rule, NEW second \in Seq(Rules), NEW s \in Range(Expanded(rule, second))
  PROVE  s # NoRule /\ \E r2 \in Range(second) : s = CombineRules(rule, r2)
<1> DEFINE combined == [n \in DOMAIN second |-> CombineRules(rule, second[n])]
           T == {n \in DOMAIN combined : combined[n] # NoRule}
           kept == Kept(combined, T)
<1>1. Len(second) \in Nat /\ T \subseteq 1..Len(second) /\ T \subseteq DOMAIN second
      /\ \A n \in T : combined[n] # NoRule /\ combined[n] = CombineRules(rule, second[n])
  OBVIOUS
<1>3. Expanded(rule, second) = kept
  BY DEF Expanded
<1> HIDE DEF combined, T
<1>5. PICK pos : Picks(kept, combined, T, pos)
  BY <1>1, KeptIs
<1>6. \A m \in DOMAIN kept : pos[m] \in T /\ kept[m] = combined[pos[m]]
  BY <1>5 DEF Picks
<1> HIDE DEF kept
<1>7. PICK m \in DOMAIN kept : s = kept[m]
  BY <1>3 DEF Range
<1>8. pos[m] \in T /\ s = combined[pos[m]]
  BY <1>6, <1>7
<1>. QED BY <1>1, <1>8 DEF Range

\* They are rules.
LEMMA HeldRules == TypeInv => Held \in SUBSET Rules
<1>. SUFFICES ASSUME TypeInv PROVE Held \in SUBSET Rules
  OBVIOUS
<1>1. \A list \in Seq(Rules) : Range(list) \subseteq Rules
  BY DEF Range
<1>2. /\ lists \in Seq(Seq(Rules)) /\ made \in Seq(Rules) /\ ep \in Endpoints
      /\ \A k \in DOMAIN lists : lists[k] \in Seq(Rules)
  BY DEF TypeInv, TypeOK
<1>3. ep.profiles \in Seq(Rules)
  <2>1. ep.profiles \in Seq({r \in Rules : r.action # "Pass" /\ ~r.unsupported})
    BY <1>2, EndpointsAssumption
  <2>. QED BY <2>1
<1>4. \A k \in DOMAIN ep.tiers : ep.tiers[k].rules \in Seq(Rules)
  <2>1. ep.tiers \in Seq(Tiers)
    BY <1>2, EndpointsAssumption
  <2>2. \A k \in DOMAIN ep.tiers : ep.tiers[k] \in Tiers
    BY <2>1
  <2>. QED BY <2>2 DEF Tiers
<1>. QED BY <1>1, <1>2, <1>3, <1>4 DEF Held, RulesOf

\* If each rule that is held after a step stems from those held before it, they still agree.
LEMMA HeldStems ==
  ASSUME TypeInv, AgreeInv, ep' = ep,
         PortsAgree(Held) => exact' = exact,
         PortsAgree(Held) =>
           \A s \in Range(made') \cup UNION {Range(lists'[k]) : k \in DOMAIN lists'} : Stems(s, Held)
  PROVE  AgreeInv'
<1>1. Held \in SUBSET Rules
  BY HeldRules
<1>2. SUFFICES ASSUME PortsAgree(RulesOf(ep)) PROVE exact' /\ PortsAgree(Held')
  BY DEF AgreeInv
<1>3. exact /\ PortsAgree(Held)
  BY <1>2 DEF AgreeInv
<1>4. \A s \in Held' : Stems(s, Held)
  <2>1. \A s \in RulesOf(ep) : Stems(s, Held)
    BY DEF Held, Stems
  <2>. QED BY <1>3, <2>1 DEF Held
<1>. QED BY <1>1, <1>3, <1>4, AgreeKept

\* Every step makes rules in one of these ways, and so combines all ports exactly.
LEMMA NextAgrees == TypeInv /\ AgreeInv /\ [Next]_vars => AgreeInv'
<1>. SUFFICES ASSUME TypeInv, AgreeInv, [Next]_vars PROVE AgreeInv'
  OBVIOUS
<1>0. lists \in Seq(Seq(Rules)) /\ made \in Seq(Rules) /\ at \in Nat \ {0}
      /\ \A k \in DOMAIN lists : lists[k] \in Seq(Rules)
  BY DEF TypeInv, TypeOK
<1>a. \A k \in DOMAIN lists : \A s \in Range(lists[k]) : s \in Held
  BY DEF Held
<1>b. \A s \in Range(made) : s \in Held
  BY DEF Held
<1>c. \A s \in Held : Stems(s, Held)
  BY DEF Stems
<1>1. CASE Gather
  <2> DEFINE t == ep.tiers[at]
             g == GetPolicySetRules(t.rules, t.defaultAction # "Pass")
  <2>1. /\ ep' = ep /\ exact' = exact /\ made' = made
        /\ lists' = lists \/ lists' = Append(lists, g)
    BY <1>1 DEF Gather
  <2>2. at \in DOMAIN ep.tiers /\ t.rules \in Seq(Rules)
    <3>1. ep.tiers \in Seq(Tiers) /\ at <= Len(ep.tiers)
      BY <1>1, EndpointsAssumption DEF TypeInv, Gather
    <3>2. at \in DOMAIN ep.tiers /\ t \in Tiers
      BY <1>0, <3>1
    <3>. QED BY <3>2 DEF Tiers
  <2>3. \A s \in Range(t.rules) : s \in Held
    BY <2>2 DEF Held, RulesOf
  <2>4. g \in Seq(Rules)
    BY <2>2, GatheredType
  <2>5. \A s \in Range(g) : Stems(s, Held)
    BY <2>2, <2>3, GatheredRules DEF Stems
  <2> HIDE DEF g
  <2>6. \A k \in DOMAIN lists' : lists'[k] = g \/ (k \in DOMAIN lists /\ lists'[k] = lists[k])
    <3>1. lists \in Seq(Seq(Rules))
      BY <1>0
    <3>2. ASSUME lists' = Append(lists, g)
          PROVE  \A k \in DOMAIN lists' : lists'[k] = g \/ (k \in DOMAIN lists /\ lists'[k] = lists[k])
      BY <2>4, <3>1, <3>2, AppendCases
    <3>. QED BY <2>1, <3>2
  <2>7. \A s \in Range(made') \cup UNION {Range(lists'[k]) : k \in DOMAIN lists'} : Stems(s, Held)
    BY <1>a, <1>b, <1>c, <2>1, <2>5, <2>6
  <2>. QED BY <2>1, <2>7, HeldStems
<1>2. CASE Panic \/ RewritePriorities
  <2>1. ep' = ep /\ exact' = exact /\ made' = made /\ lists' = lists
    BY <1>2 DEF Panic, RewritePriorities
  <2>. QED BY <1>a, <1>b, <1>c, <2>1, HeldStems
<1>3. CASE Profiles
  <2> DEFINE g == GetPolicySetRules(ep.profiles, TRUE)
  <2>1. /\ ep' = ep /\ exact' = exact /\ made' = made
        /\ lists' = lists \/ lists' = Append(lists, g)
    BY <1>3 DEF Profiles
  <2>2. ep.profiles \in Seq(Rules)
    <3>1. ep.profiles \in Seq({r \in Rules : r.action # "Pass" /\ ~r.unsupported})
      BY EndpointsAssumption DEF TypeInv
    <3>. QED BY <3>1
  <2>3. \A s \in Range(ep.profiles) : s \in Held
    BY DEF Held, RulesOf
  <2>4. g \in Seq(Rules)
    BY <2>2, GatheredType
  <2>5. \A s \in Range(g) : Stems(s, Held)
    BY <2>2, <2>3, GatheredRules DEF Stems
  <2> HIDE DEF g
  <2>6. \A k \in DOMAIN lists' : lists'[k] = g \/ (k \in DOMAIN lists /\ lists'[k] = lists[k])
    <3>1. lists \in Seq(Seq(Rules))
      BY <1>0
    <3>2. ASSUME lists' = Append(lists, g)
          PROVE  \A k \in DOMAIN lists' : lists'[k] = g \/ (k \in DOMAIN lists /\ lists'[k] = lists[k])
      BY <2>4, <3>1, <3>2, AppendCases
    <3>. QED BY <2>1, <3>2
  <2>7. \A s \in Range(made') \cup UNION {Range(lists'[k]) : k \in DOMAIN lists'} : Stems(s, Held)
    BY <1>a, <1>b, <1>c, <2>1, <2>5, <2>6
  <2>. QED BY <2>1, <2>7, HeldStems
<1>4. CASE BlockLast
  <2> DEFINE n == Len(lists)
             old == lists[n]
             new == [k \in DOMAIN old |-> IF old[k].action = "Pass"
                                          THEN [old[k] EXCEPT !.action = "Block"] ELSE old[k]]
  <2>1. lists # <<>> /\ n \in DOMAIN lists /\ old \in Seq(Rules)
    BY <1>0, <1>4 DEF BlockLast, TypeInv, TypeOK
  <2>2. lists' = [lists EXCEPT ![n] = new] /\ ep' = ep /\ exact' = exact /\ made' = made
    BY <1>4 DEF BlockLast
  <2>3. \A r \in Rules : /\ [r EXCEPT !.action = "Block"].action # "Pass"
                         /\ [r EXCEPT !.action = "Block"].lports = r.lports
                         /\ [r EXCEPT !.action = "Block"].rports = r.rports
    BY DEF Rules
  <2>4. \A k \in DOMAIN old : old[k] \in Held /\ old[k] \in Rules
    BY <2>1 DEF Held, Range
  <2>5. \A s \in Range(new) : Stems(s, Held)
    <3>1. \A k \in DOMAIN old : Stems(new[k], Held)
      BY <2>3, <2>4 DEF Stems
    <3>. QED BY <3>1 DEF Range
  <2> HIDE DEF new, old
  <2>6. \A k \in DOMAIN lists' : k \in DOMAIN lists /\ (lists'[k] = new \/ lists'[k] = lists[k])
    BY <2>2
  <2>7. \A s \in Range(made') \cup UNION {Range(lists'[k]) : k \in DOMAIN lists'} : Stems(s, Held)
    BY <1>a, <1>b, <1>c, <2>2, <2>5, <2>6
  <2>. QED BY <2>2, <2>7, HeldStems
<1>5. CASE FlattenRule
  <2> DEFINE r == lists[1][at]
             second == lists[2]
             e == Expanded(r, second)
  <2>1. /\ 1 \in DOMAIN lists /\ 2 \in DOMAIN lists /\ second \in Seq(Rules) /\ r \in Rules
        /\ r \in Held /\ \A k \in DOMAIN second : second[k] \in Held
    <3>1. 1 \in DOMAIN lists /\ 2 \in DOMAIN lists /\ at \in DOMAIN lists[1]
      BY <1>0, <1>5 DEF FlattenRule
    <3>. QED BY <1>0, <1>a, <3>1 DEF Range
  <2>2. /\ ep' = ep /\ lists' = lists
        /\ \/ r.action = "Pass" /\ made' = made \o e
              /\ exact' = (exact /\ \A k \in DOMAIN second : Exact(r, second[k]))
           \/ made' = Append(made, r) /\ exact' = exact
    BY <1>5 DEF FlattenRule
  <2>3. Held \in SUBSET Rules
    BY HeldRules
  <2>4. PortsAgree(Held) => exact' = exact
    <3>1. ASSUME PortsAgree(Held), r.action = "Pass"
          PROVE  \A k \in DOMAIN second : Exact(r, second[k])
      BY <2>1, <2>3, <3>1, AgreeExact DEF Exact
    <3>2. exact \in BOOLEAN
      BY DEF TypeInv, TypeOK
    <3>. QED BY <2>2, <3>1, <3>2
  <2>5. e \in Seq(Rules)
    BY <2>1, ExpandedIs
  <2>6. r.action = "Pass" => \A s \in Range(e) : Stems(s, Held)
    <3>1. \A s \in Range(second) : s \in Held
      BY <2>1 DEF Range
    <3>. QED BY <2>1, <3>1, ExpandedRules DEF Stems
  <2> HIDE DEF e, r, second
  <2>7. \A s \in Range(made') : s \in Range(made) \/ (s = r) \/ (r.action = "Pass" /\ s \in Range(e))
    <3>1. \A k \in DOMAIN (made \o e) :
              \/ k \in DOMAIN made /\ (made \o e)[k] = made[k]
              \/ k - Len(made) \in DOMAIN e /\ (made \o e)[k] = e[k - Len(made)]
      BY <1>0, <2>5
    <3>2. \A k \in DOMAIN Append(made, r) :
            (k \in DOMAIN made /\ Append(made, r)[k] = made[k]) \/ Append(made, r)[k] = r
      BY <1>0, <2>1
    <3>. QED BY <2>2, <3>1, <3>2 DEF Range
  <2>8. \A s \in Range(made') \cup UNION {Range(lists'[k]) : k \in DOMAIN lists'} : Stems(s, Held)
    BY <1>a, <1>b, <1>c, <2>1, <2>2, <2>6, <2>7
  <2>. QED BY <2>2, <2>4, <2>8, HeldStems
<1>6. CASE Merge
  <2> DEFINE n == Len(lists)
             merged == <<made>> \o SubSeq(lists, 3, n)
  <2>1. n \in Nat /\ n > 1 /\ 1 \in DOMAIN lists /\ DOMAIN lists = 1..n
    BY <1>0, <1>6 DEF Merge
  <2>2. /\ merged \in Seq(Seq(Rules)) /\ Len(merged) = n - 1 /\ merged[1] = made
        /\ \A k \in 2..(n - 1) : merged[k] = lists[k + 1]
    BY <1>0, <2>1, MergedLists
  <2>3. \A k \in DOMAIN merged : merged[k] = made \/ \E j \in DOMAIN lists : merged[k] = lists[j]
    <3> HIDE DEF merged, n
    <3>1. \A k \in 1..(n - 1) : k = 1 \/ (k \in 2..(n - 1) /\ k + 1 \in 1..n)
      BY <2>1
    <3>2. DOMAIN merged = 1..(n - 1)
      BY <2>1, <2>2
    <3>. QED BY <2>1, <2>2, <3>1, <3>2
  <2> HIDE DEF merged, n
  <2>4. /\ lists' = IF Passes(lists[1]) THEN merged ELSE <<lists[1]>>
        /\ made' = <<>> /\ ep' = ep /\ exact' = exact
    BY <1>6 DEF Merge, merged, n
  <2>5. \A k \in DOMAIN lists' : lists'[k] = made \/ \E j \in DOMAIN lists : lists'[k] = lists[j]
    BY <2>1, <2>3, <2>4
  <2>6. Range(made') = {}
    BY <2>4 DEF Range
  <2>7. \A s \in Range(made') \cup UNION {Range(lists'[k]) : k \in DOMAIN lists'} : Stems(s, Held)
    BY <1>a, <1>b, <1>c, <2>5, <2>6
  <2>. QED BY <2>4, <2>7, HeldStems
<1>7. CASE UNCHANGED vars
  BY <1>7 DEF vars, AgreeInv, Held
<1>. QED BY <1>1, <1>2, <1>3, <1>4, <1>5, <1>6, <1>7 DEF Next

\* FaithfulOrWarned without exact: HNS does what Linux does for each endpoint of which, for local and
\* for remote ports, the rules that pass list none, or all lists have a port in common and leave out
\* the last one.  What combinePorts makes of other ports (hns.go:506) is the only thing besides the
\* warnings that stands between the two.
THEOREM HnsFaithfulPorts ==
  Spec => [](pc = "done" /\ PortsAgree(RulesOf(ep)) /\ ~Warned => \A p \in Packets : Hns(p) = Linux(p))
<1>1. Init => AgreeInv
  <2>1. SUFFICES ASSUME Init, PortsAgree(RulesOf(ep)) PROVE exact /\ PortsAgree(Held)
    BY DEF AgreeInv
  <2>2. exact /\ lists = <<>> /\ made = <<>>
    BY <2>1 DEF Init
  <2>3. Held = RulesOf(ep)
    BY <2>2 DEF Held, Range
  <2>. QED BY <2>1, <2>2, <2>3
<1>2. AgreeInv /\ FaithfulOrWarned
        => (pc = "done" /\ PortsAgree(RulesOf(ep)) /\ ~Warned => \A p \in Packets : Hns(p) = Linux(p))
  BY DEF AgreeInv, FaithfulOrWarned
<1>. QED BY <1>1, <1>2, InitTypeInv, NextTypeInv, NextAgrees, HnsFaithful, PTL DEF Spec
=============================================================================
