--------------------------- MODULE EvaluateProofs ---------------------------
(***************************************************************************)
(* What is proved of the sweep for every set of requests: why the collapse *)
(* of provider/calico/collapse.go is exact (the walk of an owner reads     *)
(* nothing of an address but its answers to the probes the owner's own     *)
(* rules make), type correctness, and that the collapse's memo is sound in *)
(* every state it is read in.                                              *)
(***************************************************************************)
EXTENDS Pipeline, ListProofs

(* First answers *)

\* The first answer that is not the skipped one is the one found there.
LEMMA FirstOfIs ==
  ASSUME NEW s, DOMAIN s \subseteq Nat, NEW skip, NEW n \in DOMAIN s, s[n] # skip,
         \A k \in DOMAIN s : k < n => s[k] = skip
  PROVE  FirstOf(s, skip) = s[n]
<1> DEFINE hits == {i \in DOMAIN s : s[i] # skip}
<1>1. n \in hits /\ hits \subseteq Nat /\ \A j \in hits : n <= j
  OBVIOUS
<1>2. \A i \in hits : (\A j \in hits : i <= j) => i = n
  BY <1>1
<1>3. (CHOOSE i \in hits : \A j \in hits : i <= j) = n
  <2> HIDE DEF hits
  <2>1. QED
    BY <1>1, <1>2
<1>4. QED
  BY <1>1, <1>3 DEF FirstOf

\* Where all answers are skipped so is the whole.
LEMMA FirstOfNone ==
  ASSUME NEW s, NEW skip, \A n \in DOMAIN s : s[n] = skip
  PROVE  FirstOf(s, skip) = skip
BY DEF FirstOf

\* An answer that is not skipped has a first one like it.
LEMMA FirstOfHit ==
  ASSUME NEW s, DOMAIN s \subseteq Nat, NEW skip, NEW i \in DOMAIN s, s[i] # skip
  PROVE  \E n \in DOMAIN s : s[n] # skip /\ \A k \in DOMAIN s : k < n => s[k] = skip
<1> DEFINE hits == {k \in DOMAIN s : s[k] # skip}
<1>1. hits \subseteq Nat /\ hits # {}
  OBVIOUS
<1>2. PICK n \in hits : \A k \in hits : n <= k
  <2> HIDE DEF hits
  <2>1. QED
    BY <1>1, LeastIs
<1>3. \A k \in DOMAIN s : k < n => k \notin hits
  BY <1>1, <1>2
<1>4. QED
  BY <1>2, <1>3

\* n is the position of the first answer of b.
FirstAnswer(b, skip, n) ==
  /\ n \in DOMAIN b /\ b[n] # skip
  /\ \A k \in DOMAIN b : k < n => b[k] = skip

\* Of b the positions pos are left, in order, the one of the first answer among them.
Sifted(a, b, skip, pos) ==
  /\ DOMAIN a \subseteq Nat /\ DOMAIN b \subseteq Nat
  /\ \A m \in DOMAIN a : pos[m] \in DOMAIN b /\ a[m] = b[pos[m]]
  /\ \A l, m \in DOMAIN a : l < m => pos[l] < pos[m]
  /\ \A n : FirstAnswer(b, skip, n) => \E m \in DOMAIN a : pos[m] = n

\* Lists with the same answers have the same first one.
LEMMA SameFirstOf ==
  ASSUME NEW a, NEW b, NEW skip, NEW pos, Sifted(a, b, skip, pos)
  PROVE  FirstOf(a, skip) = FirstOf(b, skip)
<1> USE DEF Sifted
<1>1. CASE \A n \in DOMAIN b : b[n] = skip
  BY <1>1, FirstOfNone
<1>2. CASE ~ \A n \in DOMAIN b : b[n] = skip
  <2>1. PICK n \in DOMAIN b : b[n] # skip /\ \A k \in DOMAIN b : k < n => b[k] = skip
    BY <1>2, FirstOfHit
  <2>2. PICK m \in DOMAIN a : pos[m] = n
    BY <2>1 DEF FirstAnswer
  <2>3. \A k \in DOMAIN a : k < m => a[k] = skip
    BY <2>1, <2>2
  <2>4. FirstOf(a, skip) = a[m]
    BY <2>1, <2>2, <2>3, FirstOfIs
  <2>5. FirstOf(b, skip) = b[n]
    BY <2>1, FirstOfIs
  <2>6. QED
    BY <2>2, <2>4, <2>5
<1>3. QED
  BY <1>1, <1>2

\* a and b answer for the rules that are left and for all of them.
AnswerFor(a, b, rules, T) ==
  /\ DOMAIN a = DOMAIN Kept(rules, T) /\ DOMAIN b = DOMAIN rules
  /\ \A m \in DOMAIN a, n \in DOMAIN b : Kept(rules, T)[m] = rules[n] => a[m] = b[n]

\* Leaving out elements that answer nothing leaves the first answer as it is.
LEMMA KeptAnswers ==
  ASSUME NEW S, NEW rules \in Seq(S), NEW T, T \subseteq DOMAIN rules, NEW skip, NEW a, NEW b,
         AnswerFor(a, b, rules, T), \A n : FirstAnswer(b, skip, n) => n \in T
  PROVE  FirstOf(a, skip) = FirstOf(b, skip)
<1>0. Len(rules) \in Nat /\ DOMAIN rules = 1..Len(rules) /\ T \subseteq 1..Len(rules)
  OBVIOUS
<1>1. PICK pos : Picks(Kept(rules, T), rules, T, pos)
  BY <1>0, KeptIs
<1>2. /\ \A m \in DOMAIN a : pos[m] \in DOMAIN b /\ Kept(rules, T)[m] = rules[pos[m]]
      /\ \A l, m \in DOMAIN a : l < m => pos[l] < pos[m]
      /\ \A n \in T : \E m \in DOMAIN a : pos[m] = n
  BY <1>1 DEF Picks, AnswerFor
<1>3. DOMAIN a \subseteq Nat
  <2>1. Cardinality(T) \in Nat
    BY <1>0, RankStep
  <2>2. QED
    BY <2>1 DEF Kept, AnswerFor
<1>4. \A m \in DOMAIN a : a[m] = b[pos[m]]
  BY <1>2 DEF AnswerFor
<1>5. DOMAIN b \subseteq Nat
  BY <1>0 DEF AnswerFor
<1>6. Sifted(a, b, skip, pos)
  BY <1>2, <1>3, <1>4, <1>5 DEF Sifted
<1>7. QED
  BY <1>6, SameFirstOf
-----------------------------------------------------------------------------
(* Rules that may be left out *)

\* What a rule answers of one packet.
Answer(member, rule, f, icmp) ==
  IF Matches(member, rule, f) /\ RuleICMPMatchesProbe(rule, icmp) THEN rule.action ELSE "none"

\* Leaving out the rules that contradict the probe before the walk is asking every rule for
\* the probe's type and code in it: the matrix and the eBPF program agree on ICMP.
THEOREM FilterIsMatch ==
  ASSUME NEW S, NEW rules \in Seq(S), NEW member, NEW f, NEW icmp, icmp # NoIcmp
  PROVE  RulesOutcome(member, FilterRulesByICMP(rules, icmp), f)
           = PolicyRun(member, [rules |-> rules], f, icmp)
<1> DEFINE T == {n \in DOMAIN rules : RuleICMPMatchesProbe(rules[n], icmp)}
           left == Kept(rules, T)
           a == [m \in DOMAIN left |-> IF Matches(member, left[m], f) THEN left[m].action ELSE "none"]
           b == [n \in DOMAIN rules |-> Answer(member, rules[n], f, icmp)]
<1>1. RulesOutcome(member, FilterRulesByICMP(rules, icmp), f) = FirstOf(a, "none")
  BY Zenon DEF RulesOutcome, FilterRulesByICMP
<1>2. PolicyRun(member, [rules |-> rules], f, icmp) = FirstOf(b, "none")
  BY DEF PolicyRun, Answer
<1>3. Len(rules) \in Nat /\ DOMAIN rules = 1..Len(rules) /\ T \subseteq DOMAIN rules
  OBVIOUS
<1>4. \A m \in DOMAIN left : RuleICMPMatchesProbe(left[m], icmp)
  <2>1. PICK pos : Picks(left, rules, T, pos)
    <3> HIDE DEF T
    <3>1. QED
      BY <1>3, KeptIs
  <2>2. QED
    BY <2>1 DEF Picks
<1>5. AnswerFor(a, b, rules, T)
  BY <1>4 DEF Answer, AnswerFor
<1>6. \A n : FirstAnswer(b, "none", n) => n \in T
  BY DEF Answer, FirstAnswer
<1>8. FirstOf(a, "none") = FirstOf(b, "none")
  <2> HIDE DEF T, a, b
  <2>1. QED
    BY <1>3, <1>5, <1>6, KeptAnswers
<1>9. QED
  BY <1>1, <1>2, <1>8

\* The first rule that answers a packet is none that the cost report calls unreachable or a
\* duplicate: without those rules a policy does with every packet what it did.
THEOREM DeadRulesAreDead ==
  ASSUME NEW S, NEW rules \in Seq(S), NEW member, NEW f, NEW icmp
  PROVE  PolicyRun(member, [rules |-> Trimmed(rules)], f, icmp)
           = PolicyRun(member, [rules |-> rules], f, icmp)
<1> DEFINE T == DOMAIN rules \ (Unreachable(rules) \cup Duplicates(rules))
           left == Kept(rules, T)
           a == [m \in DOMAIN left |-> Answer(member, left[m], f, icmp)]
           b == [n \in DOMAIN rules |-> Answer(member, rules[n], f, icmp)]
<1>1. PolicyRun(member, [rules |-> Trimmed(rules)], f, icmp) = FirstOf(a, "none")
  BY DEF PolicyRun, Answer, Trimmed
<1>2. PolicyRun(member, [rules |-> rules], f, icmp) = FirstOf(b, "none")
  BY DEF PolicyRun, Answer
<1>3. Len(rules) \in Nat /\ DOMAIN rules = 1..Len(rules) /\ T \subseteq DOMAIN rules
  OBVIOUS
<1>4. ASSUME NEW n, FirstAnswer(b, "none", n)
      PROVE  n \in T
  <2> USE <1>4 DEF FirstAnswer
  <2>1. \A k \in 1..(n - 1) : k \in DOMAIN b /\ k < n
    BY <1>3
  <2>2. n \notin Duplicates(rules)
    BY <1>4, <2>1 DEF Duplicates
  <2>3. n \notin Unreachable(rules)
    <3>1. ASSUME NEW k \in DOMAIN b, IsMatchAll(rules[k]), IsTerminalAction(rules[k])
          PROVE  b[k] # "none"
      <4>1. Matches(member, rules[k], f)
        BY <3>1 DEF IsMatchAll, AnyPeer, Matches, PeerMatches
      <4>2. RuleICMPMatchesProbe(rules[k], icmp)
        BY <3>1 DEF IsMatchAll, RuleICMPMatchesProbe, SaysIcmp, NoIcmp
      <4>3. QED
        BY <3>1, <4>1, <4>2 DEF Answer, IsTerminalAction
    <3>2. QED
      BY <1>4, <2>1, <3>1 DEF Unreachable
  <2>4. QED
    BY <2>2, <2>3
<1>5. AnswerFor(a, b, rules, T)
  BY DEF AnswerFor
<1>6. FirstOf(a, "none") = FirstOf(b, "none")
  <2> HIDE DEF T, a, b
  <2>1. QED
    BY <1>3, <1>4, <1>5, KeptAnswers
<1>7. QED
  BY <1>1, <1>2, <1>6
-----------------------------------------------------------------------------
(* The walk and the collapse *)

\* Two addresses that no probe of a set tells apart.
Alike(store, probes, x, y) ==
  \A s \in probes : x \in store.member[s] <=> y \in store.member[s]

FlowsAlike(store, probes, f, g) ==
  Alike(store, probes, f.src, g.src) /\ Alike(store, probes, f.dst, g.dst)

\* Equal signatures (collapse.go, sig) are equal answers to every probe.
LEMMA SameSigAlike ==
  ASSUME NEW store, NEW probes, NEW x, NEW y,
         Sig(store, probes, x) = Sig(store, probes, y)
  PROVE  Alike(store, probes, x, y)
BY DEF Sig, Alike

\* One rule matches two flows alike when they answer its probes alike.
LEMMA SameMatch ==
  ASSUME NEW store, NEW rule, NEW f, NEW g,
         FlowsAlike(store, RuleProbes(rule), f, g)
  PROVE  Matches(store.member, rule, f) = Matches(store.member, rule, g)
BY DEF FlowsAlike, Alike, RuleProbes, Matches, PeerMatches

\* So does a rule list.
LEMMA SameRules ==
  ASSUME NEW store, NEW rules, NEW f, NEW g,
         FlowsAlike(store, RulesProbes(rules), f, g)
  PROVE  RulesOutcome(store.member, rules, f) = RulesOutcome(store.member, rules, g)
<1>1. ASSUME NEW i \in DOMAIN rules
      PROVE  Matches(store.member, rules[i], f) = Matches(store.member, rules[i], g)
  <2>1. RuleProbes(rules[i]) \subseteq RulesProbes(rules)
    BY DEF RulesProbes
  <2>2. FlowsAlike(store, RuleProbes(rules[i]), f, g)
    BY <2>1 DEF FlowsAlike, Alike
  <2> QED BY <2>2, SameMatch
<1>2. [i \in DOMAIN rules |->
         IF Matches(store.member, rules[i], f) THEN rules[i].action ELSE "none"]
      = [i \in DOMAIN rules |->
           IF Matches(store.member, rules[i], g) THEN rules[i].action ELSE "none"]
  BY <1>1
<1> QED BY <1>2, Zenon DEF RulesOutcome

\* The walk of an owner in a direction: flows its probes do not tell apart end alike.
THEOREM SameWalk ==
  ASSUME NEW store, NEW ep, NEW dir, NEW f, NEW g,
         FlowsAlike(store, OwnerProbes(store, ep, dir), f, g)
  PROVE  Walk(store, ep, dir, f) = Walk(store, ep, dir, g)
<1>1. ASSUME NEW i \in DOMAIN ep.tiers
      PROVE  TierOutcome(store, ep.tiers[i], dir, f) = TierOutcome(store, ep.tiers[i], dir, g)
  <2> DEFINE ids == TierPolicies(ep.tiers[i], dir)
  <2>1. ASSUME NEW k \in DOMAIN ids
        PROVE  RulesOutcome(store.member, store.policies[ids[k]][dir], f)
                 = RulesOutcome(store.member, store.policies[ids[k]][dir], g)
    <3>1. RulesProbes(store.policies[ids[k]][dir]) \subseteq OwnerProbes(store, ep, dir)
      BY DEF OwnerProbes
    <3>2. FlowsAlike(store, RulesProbes(store.policies[ids[k]][dir]), f, g)
      BY <3>1 DEF FlowsAlike, Alike
    <3> QED BY <3>2, SameRules
  <2>2. [k \in DOMAIN ids |-> RulesOutcome(store.member, store.policies[ids[k]][dir], f)]
        = [k \in DOMAIN ids |-> RulesOutcome(store.member, store.policies[ids[k]][dir], g)]
    BY <2>1
  <2> QED BY <2>2, Zenon DEF TierOutcome
<1>2. [i \in DOMAIN ep.tiers |-> TierOutcome(store, ep.tiers[i], dir, f)]
      = [i \in DOMAIN ep.tiers |-> TierOutcome(store, ep.tiers[i], dir, g)]
  BY <1>1
<1>3. ASSUME NEW i \in DOMAIN ep.profiles
      PROVE  RulesOutcome(store.member, store.profiles[ep.profiles[i]][dir], f)
               = RulesOutcome(store.member, store.profiles[ep.profiles[i]][dir], g)
  <2>1. RulesProbes(store.profiles[ep.profiles[i]][dir]) \subseteq OwnerProbes(store, ep, dir)
    BY DEF OwnerProbes
  <2>2. FlowsAlike(store, RulesProbes(store.profiles[ep.profiles[i]][dir]), f, g)
    BY <2>1 DEF FlowsAlike, Alike
  <2> QED BY <2>2, SameRules
<1>4. [i \in DOMAIN ep.profiles |->
         RulesOutcome(store.member, store.profiles[ep.profiles[i]][dir], f)]
      = [i \in DOMAIN ep.profiles |->
           RulesOutcome(store.member, store.profiles[ep.profiles[i]][dir], g)]
  BY <1>3
<1>5. ProfilesOutcome(store, ep.profiles, dir, f) = ProfilesOutcome(store, ep.profiles, dir, g)
  BY <1>4, Zenon DEF ProfilesOutcome
<1>6. LastAction(store, ep, dir, f) = LastAction(store, ep, dir, g)
  BY <1>2, <1>5, Zenon DEF LastAction
<1> QED BY <1>6, Zenon DEF Walk
-----------------------------------------------------------------------------
\* FirstWith finds an actor of the list that has the key, if there is one.
LEMMA FirstWithHasKey ==
  ASSUME NEW S, NEW list \in Seq(S), NEW keyOf, NEW key,
         \E k \in DOMAIN list : keyOf[list[k]] = key
  PROVE  /\ FirstWith(list, keyOf, key) \in Range(list)
         /\ keyOf[FirstWith(list, keyOf, key)] = key
<1> DEFINE T == {k \in DOMAIN list : keyOf[list[k]] = key}
<1>1. T \subseteq Nat /\ T # {}
  OBVIOUS
<1>2. PICK i \in T : \A j \in T : i <= j
  <2> HIDE DEF T
  <2> QED BY <1>1, LeastIs
<1>3. \E k \in DOMAIN list : /\ keyOf[list[k]] = key
                             /\ \A j \in DOMAIN list : keyOf[list[j]] = key => k <= j
  BY <1>2
<1> QED BY <1>3, Zenon DEF FirstWith, Range

\* An owner's own probes are among those of the whole store.
LEMMA OwnerProbesArePeerProbes ==
  ASSUME NEW store, NEW ep, NEW dir \in Directions, OwnerStored(store, ep)
  PROVE  OwnerProbes(store, ep, dir) \subseteq PeerProbes(store)
<1>1. ASSUME NEW p \in DOMAIN store.policies
      PROVE  RulesProbes(store.policies[p][dir]) \subseteq PeerProbes(store)
  <2>1. RulesProbes(store.policies[p][dir]) \subseteq BodyProbes(store.policies[p])
    BY DEF Directions, BodyProbes
  <2>2. BodyProbes(store.policies[p]) \subseteq PeerProbes(store)
    BY DEF PeerProbes
  <2> QED BY <2>1, <2>2
<1>2. ASSUME NEW p \in DOMAIN store.profiles
      PROVE  RulesProbes(store.profiles[p][dir]) \subseteq PeerProbes(store)
  <2>1. RulesProbes(store.profiles[p][dir]) \subseteq BodyProbes(store.profiles[p])
    BY DEF Directions, BodyProbes
  <2>2. BodyProbes(store.profiles[p]) \subseteq PeerProbes(store)
    BY DEF PeerProbes
  <2> QED BY <2>1, <2>2
<1>3. ASSUME NEW s \in OwnerProbes(store, ep, dir)
      PROVE  s \in PeerProbes(store)
  <2>1. \/ \E i \in DOMAIN ep.tiers : \E k \in DOMAIN TierPolicies(ep.tiers[i], dir) :
             s \in RulesProbes(store.policies[TierPolicies(ep.tiers[i], dir)[k]][dir])
        \/ \E i \in DOMAIN ep.profiles : s \in RulesProbes(store.profiles[ep.profiles[i]][dir])
    BY <1>3 DEF OwnerProbes
  <2> QED BY <2>1, <1>1, <1>2 DEF OwnerStored
<1> QED BY <1>3

\* Alike is an equivalence, and fewer probes tell less apart.
LEMMA AlikeChain ==
  ASSUME NEW store, NEW probes, NEW wider, probes \subseteq wider,
         NEW x, NEW y, NEW z,
         Alike(store, probes, x, y) \/ Alike(store, wider, x, y),
         Alike(store, probes, y, z) \/ Alike(store, wider, y, z)
  PROVE  Alike(store, probes, x, z)
BY DEF Alike

\* The verdict of a class for a class is that of each member for each member:
\* what fillMatrixCollapsed writes is what the per-pair loop would.
THEOREM CollapseExact ==
  ASSUME NEW store, NEW b, b.list \in Seq(DOMAIN b.byId), BundleStored(store, b),
         NEW i \in Range(b.list), NEW j \in Range(b.list), NEW dir \in Directions
  PROVE  ClassVerdict(store, b, PeerOf(store, b), ClassOf(store, b),
                      ClassOf(store, b)[i], PeerOf(store, b)[j], dir)
           = OwnerVerdict(store, b.byId[i], b.byId[j], dir)
<1> DEFINE o         == FirstWith(b.list, ClassOf(store, b), ClassOf(store, b)[i])
           rep       == FirstWith(b.list, PeerOf(store, b), PeerOf(store, b)[j])
           probes    == OwnerProbes(store, b.byId[o].normal, dir)
           answersOf == [k \in Range(b.list) |-> Sig(store, probes, b.byId[k].ip)]
           asked     == FirstWith(b.list, answersOf, answersOf[rep])
<1>1. /\ o \in Range(b.list)
      /\ ClassOf(store, b)[o] = ClassOf(store, b)[i]
  BY FirstWithHasKey, Zenon DEF Range
<1>2. /\ rep \in Range(b.list)
      /\ PeerOf(store, b)[rep] = PeerOf(store, b)[j]
  BY FirstWithHasKey, Zenon DEF Range
<1>3. /\ asked \in Range(b.list)
      /\ answersOf[asked] = answersOf[rep]
  BY <1>2, FirstWithHasKey, Zenon DEF Range
<1>4. OwnerFingerprint(b.byId[o]) = OwnerFingerprint(b.byId[i])
      /\ PeerKey(store, b.byId[o]) = PeerKey(store, b.byId[i])
  BY <1>1 DEF ClassOf, ClassKey
<1>5. PeerKey(store, b.byId[rep]) = PeerKey(store, b.byId[j])
  BY <1>2 DEF PeerOf
<1>6. Sig(store, probes, b.byId[asked].ip) = Sig(store, probes, b.byId[rep].ip)
  BY <1>2, <1>3
<1>7. ClassVerdict(store, b, PeerOf(store, b), ClassOf(store, b),
                   ClassOf(store, b)[i], PeerOf(store, b)[j], dir)
        = OwnerVerdict(store, b.byId[o], b.byId[asked], dir)
  BY DEF ClassVerdict
<1>8. /\ b.byId[o].unpoliced = b.byId[i].unpoliced
      /\ ~ b.byId[o].unpoliced => b.byId[o].normal = b.byId[i].normal
  BY <1>1, <1>4 DEF OwnerFingerprint, BundleStored
<1> HIDE DEF o, rep, asked
<1>9. CASE b.byId[o].unpoliced
  BY <1>7, <1>8, <1>9 DEF OwnerVerdict
<1>10. CASE ~ b.byId[o].unpoliced
  <2>1. probes \subseteq PeerProbes(store)
    BY <1>1, OwnerProbesArePeerProbes DEF BundleStored
  <2>2. Alike(store, PeerProbes(store), b.byId[o].ip, b.byId[i].ip)
    BY <1>4, SameSigAlike DEF PeerKey
  <2>3. Alike(store, PeerProbes(store), b.byId[rep].ip, b.byId[j].ip)
    BY <1>5, SameSigAlike DEF PeerKey
  <2>4. Alike(store, probes, b.byId[asked].ip, b.byId[rep].ip)
    BY <1>6, SameSigAlike
  <2> HIDE DEF probes
  <2>5. Alike(store, probes, b.byId[o].ip, b.byId[i].ip)
    BY <2>1, <2>2 DEF Alike
  <2>6. Alike(store, probes, b.byId[asked].ip, b.byId[j].ip)
    BY <2>1, <2>3, <2>4, AlikeChain
  <2>7. FlowsAlike(store, probes, OwnerFlow(b.byId[o], b.byId[asked], dir),
                                  OwnerFlow(b.byId[i], b.byId[j], dir))
    BY <2>5, <2>6 DEF FlowsAlike, OwnerFlow, Flow
  <2>8. Walk(store, b.byId[o].normal, dir, OwnerFlow(b.byId[o], b.byId[asked], dir))
        = Walk(store, b.byId[o].normal, dir, OwnerFlow(b.byId[i], b.byId[j], dir))
    BY <2>7, SameWalk DEF probes
  <2> QED BY <1>7, <1>8, <1>10, <2>8 DEF OwnerVerdict
<1> QED BY <1>9, <1>10
-----------------------------------------------------------------------------
(* The sweep *)

Verdict == {"allow", "deny"}

Cells(r) == Names(r) \X Names(r) \X Verdict

\* The shape of the variables that later steps update in place.
Shape ==
  /\ req \in Requests
  /\ classes = [peerOf |-> classes.peerOf, classOf |-> classes.classOf,
                memo |-> classes.memo]
  /\ resp = [matrix |-> resp.matrix, actors |-> resp.actors, errors |-> resp.errors]

\* What build made of the request is still there when the sweep uses it.
ActorsBuilt ==
  /\ pc = "lint" \/ pc = "build" =>
       actors = [list |-> <<>>, byId |-> <<>>, heps |-> {}]
  /\ pc \in {"pairs", "group", "classes", "expand", "exact", "services",
             "report", "flush"} =>
       actors = BuildActors(req)
  /\ actors = BuildActors(req) \/ actors = [list |-> <<>>, byId |-> <<>>, heps |-> {}]

\* The collapse's maps are those of the actors it groups.
ClassesGrouped ==
  pc \in {"classes", "expand"} =>
    /\ classes.peerOf = PeerOf(req.store, actors)
    /\ classes.classOf = ClassOf(req.store, actors)

MemoFilled ==
  pc = "expand" =>
    classes.memo =
      [k \in Range(classes.classOf) \X Range(classes.peerOf) \X Directions |->
         ClassVerdict(req.store, actors, classes.peerOf, classes.classOf,
                      k[1], k[2], k[3])]

IInv == TypeOK /\ Shape /\ ActorsBuilt /\ ClassesGrouped /\ MemoFilled
-----------------------------------------------------------------------------
\* Appending a line to the file keeps it a sequence of lines.
LEMMA AppendCell ==
  ASSUME NEW r, NEW file \in Seq(Cells(r)),
         NEW src \in Names(r), NEW dst \in Names(r), NEW v \in Verdict
  PROVE  Append(file, <<src, dst, v>>) \in Seq(Cells(r))
<1>1. <<src, dst, v>> \in Cells(r)
  BY DEF Cells
<1> HIDE DEF Cells
<1> QED BY <1>1

\* matrixSink keeps its parts in shape, whichever verdict it is given.
LEMMA PutType ==
  ASSUME TypeOK, Shape,
         NEW src \in Names(req), NEW dst \in Names(req), NEW v \in Verdict,
         Put(src, dst, v)
  PROVE  /\ \A p \in DOMAIN sink'.m : sink'.m[p] \in Verdict
         /\ sink'.file \in Seq(Cells(req))
         /\ sink'.broken \in BOOLEAN
<1>1. PICK fail \in {FALSE, req.stream} :
        sink' =
          [m      |-> IF req.stream /\ dst \notin KeepSet(req, actors) THEN sink.m
                      ELSE Stored(sink.m, <<src, dst>>, v),
           file   |-> IF req.stream /\ ~(sink.broken \/ fail)
                      THEN Append(sink.file, <<src, dst, v>>) ELSE sink.file,
           broken |-> sink.broken \/ fail]
  BY DEF Put
<1>2. sink.file \in Seq(Cells(req)) /\ sink.broken \in BOOLEAN
      /\ \A p \in DOMAIN sink.m : sink.m[p] \in Verdict
  BY DEF TypeOK, Cells, Verdict
<1>3. \A p \in DOMAIN Stored(sink.m, <<src, dst>>, v) :
        Stored(sink.m, <<src, dst>>, v)[p] \in Verdict
  BY <1>2 DEF Stored
<1>4. req.stream \in BOOLEAN
  BY RequestsAssumption DEF Shape
<1>5. Append(sink.file, <<src, dst, v>>) \in Seq(Cells(req))
  BY <1>2, AppendCell
<1> HIDE DEF Cells, Verdict, Stored, KeepSet
<1>6. \A p \in DOMAIN sink'.m : sink'.m[p] \in Verdict
  BY <1>1, <1>2, <1>3
<1>7. sink'.file \in Seq(Cells(req))
  BY <1>1, <1>2, <1>5
<1>8. sink'.broken \in BOOLEAN
  BY <1>1, <1>2, <1>4
<1> QED BY <1>6, <1>7, <1>8
-----------------------------------------------------------------------------
\* Every actor that is listed, or is a HostEndpoint, has a record.
LEMMA BuiltActors ==
  ASSUME NEW r \in Requests
  PROVE  /\ BuildActors(r).list \in Seq(DOMAIN BuildActors(r).byId)
         /\ Range(BuildActors(r).list) \subseteq Names(r)
         /\ Range(BuildActors(r).list) \cup BuildActors(r).heps
              \subseteq DOMAIN BuildActors(r).byId
<1>1. ActorList(r) \in Seq(DOMAIN ActorById(r))
  BY RequestsAssumption
<1>2. Range(ActorList(r)) \subseteq DOMAIN ActorById(r)
  BY <1>1 DEF Range
<1>3. HepIds(r) \subseteq DOMAIN ActorById(r)
  BY DEF ActorById
<1>4. /\ BuildActors(r).list = ActorList(r)
      /\ BuildActors(r).byId = ActorById(r)
      /\ BuildActors(r).heps = HepIds(r)
  BY DEF BuildActors
<1> QED BY <1>1, <1>2, <1>3, <1>4 DEF Names

\* What a step must keep of the sink and of the loop position.
SinkOK(s, p, r) ==
  /\ \A q \in DOMAIN s.m : s.m[q] \in Verdict
  /\ s.file \in Seq(Cells(r))
  /\ s.broken \in BOOLEAN
  /\ p \in (Nat \ {0}) \X (Nat \ {0})

\* Stepping a loop whose rows are the actors.
LEMMA StepType ==
  ASSUME NEW cols \in Nat \ {0}, at \in (Nat \ {0}) \X (Nat \ {0}), Step(cols)
  PROVE  at' \in (Nat \ {0}) \X (Nat \ {0})
BY DEF Step

\* One step of either whole-matrix loop, by the verdict it puts.
LEMMA ListLoopType ==
  ASSUME TypeOK, Shape, actors = BuildActors(req), Running(Len(actors.list), Len(actors.list)),
         Step(Len(actors.list)),
         UNCHANGED sink \/ \E v \in Verdict : Put(actors.list[at[1]], actors.list[at[2]], v)
  PROVE  SinkOK(sink', at', req)
<1>1. /\ at \in (Nat \ {0}) \X (Nat \ {0})
      /\ SinkOK(sink, at, req)
  BY DEF TypeOK, SinkOK, Cells, Verdict
<1>2. actors.list \in Seq(DOMAIN actors.byId) /\ Range(actors.list) \subseteq Names(req)
  BY BuiltActors DEF Shape
<1>3. at[1] \in DOMAIN actors.list /\ at[2] \in DOMAIN actors.list
      /\ Len(actors.list) \in Nat \ {0}
  BY <1>1, <1>2 DEF Running
<1>4. at' \in (Nat \ {0}) \X (Nat \ {0})
  BY <1>1, <1>3, StepType
<1>5. actors.list[at[1]] \in Names(req) /\ actors.list[at[2]] \in Names(req)
  BY <1>2, <1>3 DEF Range
<1>6. CASE UNCHANGED sink
  BY <1>1, <1>4, <1>6 DEF SinkOK
<1>7. CASE \E v \in Verdict : Put(actors.list[at[1]], actors.list[at[2]], v)
  BY <1>4, <1>5, <1>7, PutType DEF SinkOK
<1> QED BY <1>6, <1>7

\* Ending a loop leaves the sink alone.
LEMMA EndLoopType ==
  ASSUME TypeOK, NEW next, EndLoop(next), UNCHANGED sink
  PROVE  SinkOK(sink', at', req) /\ pc' = next
BY DEF TypeOK, EndLoop, SinkOK, Cells, Verdict

\* The word of a verdict.
LEMMA WordType ==
  ASSUME NEW allow
  PROVE  Word(allow) \in Verdict
BY DEF Word, Verdict
-----------------------------------------------------------------------------
\* A sweep starts in the invariant.
LEMMA InitIInv == Init => IInv
<1> SUFFICES ASSUME Init PROVE IInv
  OBVIOUS
<1>1. TypeOK
  <2>1. sink.file \in Seq(Names(req) \X Names(req) \X {"allow", "deny"})
    BY DEF Init
  <2>2. Range(actors.list) \cup actors.heps \subseteq DOMAIN actors.byId
    BY DEF Init, Range
  <2>3. \A p \in DOMAIN sink.m : sink.m[p] \in {"allow", "deny"}
    BY DEF Init
  <2> QED BY <2>1, <2>2, <2>3 DEF Init, TypeOK
<1>2. Shape
  BY DEF Init, Shape
<1>3. ActorsBuilt /\ ClassesGrouped /\ MemoFilled
  BY DEF Init, ActorsBuilt, ClassesGrouped, MemoFilled
<1> QED BY <1>1, <1>2, <1>3 DEF IInv

\* A loop over the actors, from the phase it runs in to the next.
LEMMA LoopIInv ==
  ASSUME IInv, pc \in {"pairs", "exact", "expand", "services"},
         UNCHANGED <<req, truth, actors, classes, resp>>,
         SinkOK(sink', at', req),
         pc' = pc \/ pc' \in {"services", "report"}
  PROVE  IInv'
<1>1. TypeOK'
  BY DEF IInv, TypeOK, SinkOK, Cells, Verdict
<1>2. Shape'
  BY DEF IInv, Shape
<1>3. ActorsBuilt'
  BY DEF IInv, ActorsBuilt
<1>4. ClassesGrouped'
  BY DEF IInv, ClassesGrouped
<1>5. MemoFilled'
  BY DEF IInv, MemoFilled
<1> QED BY <1>1, <1>2, <1>3, <1>4, <1>5 DEF IInv

\* Every step keeps the invariant.
LEMMA NextIInv == IInv /\ [Next]_vars => IInv'
<1> SUFFICES ASSUME IInv, [Next]_vars PROVE IInv'
  OBVIOUS
<1> USE DEF IInv
<1>1. CASE Lint
  <2>1. Shape'
    BY <1>1, Zenon DEF Lint, Shape
  <2>2. resp'.errors \subseteq {"lint", "feed", "stream"}
    <3>1. resp'.errors = {"lint"} \/ resp' = resp
      BY <1>1 DEF Lint, Shape
    <3> QED BY <3>1 DEF TypeOK
  <2>3. TypeOK'
    BY <1>1, <2>2 DEF Lint, TypeOK
  <2>4. ActorsBuilt' /\ ClassesGrouped' /\ MemoFilled'
    BY <1>1 DEF Lint, ActorsBuilt, ClassesGrouped, MemoFilled
  <2> QED BY <2>1, <2>3, <2>4
<1>2. CASE Build
  <2>1. Shape'
    BY <1>2 DEF Build, Shape
  <2>2. Range(actors'.list) \cup actors'.heps \subseteq DOMAIN actors'.byId
    BY <1>2, BuiltActors DEF Build, Shape
  <2>3. TypeOK'
    BY <1>2, <2>2 DEF Build, TypeOK, Shape
  <2>4. ActorsBuilt' /\ ClassesGrouped' /\ MemoFilled'
    BY <1>2 DEF Build, ActorsBuilt, ClassesGrouped, MemoFilled
  <2> QED BY <2>1, <2>3, <2>4
<1>3. CASE FillExact
  <2>1. actors = BuildActors(req)
    BY <1>3 DEF FillExact, ActorsBuilt
  <2>2. CASE Running(Len(actors.list), Len(actors.list))
    <3>1. Step(Len(actors.list)) /\ UNCHANGED pc
          /\ (UNCHANGED sink
              \/ \E v \in Verdict : Put(actors.list[at[1]], actors.list[at[2]], v))
      BY <1>3, <2>2, WordType DEF FillExact, ListLoop, Row, Col
    <3>2. SinkOK(sink', at', req)
      BY <2>1, <2>2, <3>1, ListLoopType
    <3> QED BY <1>3, <3>1, <3>2, LoopIInv DEF FillExact
  <2>3. CASE ~ Running(Len(actors.list), Len(actors.list))
    <3>1. EndLoop("services") /\ UNCHANGED sink
      BY <1>3, <2>3 DEF FillExact, ListLoop, Row, Col
    <3>2. SinkOK(sink', at', req) /\ pc' = "services"
      BY <3>1, EndLoopType
    <3> QED BY <1>3, <3>2, LoopIInv DEF FillExact
  <2> QED BY <2>2, <2>3
<1>4. CASE GroupActors
  <2>1. Shape'
    BY <1>4 DEF GroupActors, Shape
  <2>2. TypeOK'
    BY <1>4 DEF GroupActors, TypeOK
  <2>3. ActorsBuilt' /\ MemoFilled'
    BY <1>4 DEF GroupActors, ActorsBuilt, MemoFilled
  <2>4. ClassesGrouped'
    BY <1>4 DEF GroupActors, ClassesGrouped, Shape
  <2> QED BY <2>1, <2>2, <2>3, <2>4
<1>5. CASE EvaluateClasses
  <2>1. Shape'
    BY <1>5 DEF EvaluateClasses, Shape
  <2>2. TypeOK'
    BY <1>5 DEF EvaluateClasses, TypeOK
  <2>3. ActorsBuilt'
    BY <1>5 DEF EvaluateClasses, ActorsBuilt
  <2>4. /\ classes'.peerOf = classes.peerOf
        /\ classes'.classOf = classes.classOf
        /\ classes'.memo =
             [k \in Range(classes.classOf) \X Range(classes.peerOf) \X Directions |->
                ClassVerdict(req.store, actors, classes.peerOf, classes.classOf,
                             k[1], k[2], k[3])]
    BY <1>5 DEF EvaluateClasses, Shape
  <2>5. ClassesGrouped'
    BY <1>5, <2>4 DEF EvaluateClasses, ClassesGrouped
  <2>6. MemoFilled'
    BY <1>5, <2>4 DEF EvaluateClasses, MemoFilled
  <2> QED BY <2>1, <2>2, <2>3, <2>5, <2>6
<1>6. CASE Expand
  <2>1. actors = BuildActors(req)
    BY <1>6 DEF Expand, ActorsBuilt
  <2>2. CASE Running(Len(actors.list), Len(actors.list))
    <3>1. Step(Len(actors.list)) /\ UNCHANGED pc
          /\ (UNCHANGED sink
              \/ \E v \in Verdict : Put(actors.list[at[1]], actors.list[at[2]], v))
      BY <1>6, <2>2, WordType DEF Expand, ListLoop, Row, Col
    <3>2. SinkOK(sink', at', req)
      BY <2>1, <2>2, <3>1, ListLoopType
    <3> QED BY <1>6, <3>1, <3>2, LoopIInv DEF Expand
  <2>3. CASE ~ Running(Len(actors.list), Len(actors.list))
    <3>1. EndLoop("services") /\ UNCHANGED sink
      BY <1>6, <2>3 DEF Expand, ListLoop, Row, Col
    <3>2. SinkOK(sink', at', req) /\ pc' = "services"
      BY <3>1, EndLoopType
    <3> QED BY <1>6, <3>2, LoopIInv DEF Expand
  <2> QED BY <2>2, <2>3
<1>7. CASE FillPairs
  <2>1. actors = BuildActors(req)
    BY <1>7 DEF FillPairs, ActorsBuilt
  <2>2. CASE Running(Len(req.pairs), 1)
    <3>1. Step(1) /\ UNCHANGED pc
      BY <1>7, <2>2 DEF FillPairs
    <3>2. CASE Skipped(at[1])
      <4>1. SinkOK(sink', at', req)
        BY <1>7, <2>2, <3>1, <3>2, StepType DEF FillPairs, TypeOK, SinkOK, Cells, Verdict
      <4> QED BY <1>7, <3>1, <4>1, LoopIInv DEF FillPairs
    <3>3. CASE ~ Skipped(at[1])
      <4>1. /\ req.pairs[at[1]][1] \in Names(req)
            /\ req.pairs[at[1]][2] \in Names(req)
        <5>1. Range(actors.list) \subseteq Names(req)
          BY <2>1, BuiltActors DEF Shape
        <5> QED BY <3>3, <5>1 DEF Skipped, Names
      <4>2. \E v \in Verdict : Put(req.pairs[at[1]][1], req.pairs[at[1]][2], v)
        BY <1>7, <2>2, <3>3, WordType DEF FillPairs
      <4>3. SinkOK(sink', at', req)
        BY <3>1, <4>1, <4>2, PutType, StepType DEF TypeOK, SinkOK
      <4> QED BY <1>7, <3>1, <4>3, LoopIInv DEF FillPairs
    <3> QED BY <3>2, <3>3
  <2>3. CASE ~ Running(Len(req.pairs), 1)
    <3>1. EndLoop("report") /\ UNCHANGED sink
      BY <1>7, <2>3 DEF FillPairs
    <3>2. SinkOK(sink', at', req) /\ pc' = "report"
      BY <3>1, EndLoopType
    <3> QED BY <1>7, <3>2, LoopIInv DEF FillPairs
  <2> QED BY <2>2, <2>3
<1>8. CASE AddServiceColumn
  <2>1. actors = BuildActors(req)
    BY <1>8 DEF AddServiceColumn, ActorsBuilt
  <2>2. CASE Running(Len(req.services), Len(actors.list))
    <3>1. Step(Len(actors.list)) /\ UNCHANGED pc
      BY <1>8, <2>2 DEF AddServiceColumn
    <3>2. \E v \in Verdict : Put(actors.list[at[2]], req.services[at[1]].col, v)
      BY <1>8, <2>2, WordType DEF AddServiceColumn
    <3>3. /\ Len(actors.list) \in Nat \ {0}
          /\ at[2] \in DOMAIN actors.list
          /\ at[1] \in DOMAIN req.services
      <4>1. actors.list \in Seq(DOMAIN actors.byId)
        BY <2>1, BuiltActors DEF Shape
      <4>2. \E S : req.services \in Seq(S)
        BY RequestsAssumption DEF Shape
      <4> QED BY <2>2, <4>1, <4>2 DEF Running, TypeOK
    <3>4. actors.list[at[2]] \in Names(req)
      BY <2>1, <3>3, BuiltActors DEF Shape, Range
    <3>5. req.services[at[1]].col \in Names(req)
      BY <3>3 DEF Names, ServiceCols, Range
    <3>6. SinkOK(sink', at', req)
      BY <3>1, <3>2, <3>3, <3>4, <3>5, PutType, StepType DEF TypeOK, SinkOK
    <3> QED BY <1>8, <3>1, <3>6, LoopIInv DEF AddServiceColumn
  <2>3. CASE ~ Running(Len(req.services), Len(actors.list))
    <3>1. EndLoop("report") /\ UNCHANGED sink
      BY <1>8, <2>3 DEF AddServiceColumn
    <3>2. SinkOK(sink', at', req) /\ pc' = "report"
      BY <3>1, EndLoopType
    <3> QED BY <1>8, <3>2, LoopIInv DEF AddServiceColumn
  <2> QED BY <2>2, <2>3
<1>9. CASE BuildActorReport
  <2>1. Shape'
    BY <1>9 DEF BuildActorReport, Shape
  <2>2. TypeOK'
    BY <1>9 DEF BuildActorReport, TypeOK, Shape
  <2>3. ActorsBuilt' /\ ClassesGrouped' /\ MemoFilled'
    BY <1>9 DEF BuildActorReport, ActorsBuilt, ClassesGrouped, MemoFilled
  <2> QED BY <2>1, <2>2, <2>3
<1>10. CASE Flush
  <2>1. Shape'
    BY <1>10 DEF Flush, Shape
  <2>2. TypeOK'
    BY <1>10 DEF Flush, TypeOK, Shape
  <2>3. ActorsBuilt' /\ ClassesGrouped' /\ MemoFilled'
    BY <1>10 DEF Flush, ActorsBuilt, ClassesGrouped, MemoFilled
  <2> QED BY <2>1, <2>2, <2>3
<1>11. CASE UNCHANGED vars
  BY <1>11 DEF vars, TypeOK, Shape, ActorsBuilt, ClassesGrouped, MemoFilled
<1> QED BY <1>1, <1>2, <1>3, <1>4, <1>5, <1>6, <1>7, <1>8, <1>9, <1>10, <1>11 DEF Next

\* The sweep is in the invariant for ever.
LEMMA SpecIInv == Spec => []IInv
BY InitIInv, NextIInv, PTL DEF Spec

\* Every sweep of every set of requests keeps its types: no line or entry ever holds
\* anything but a verdict about two names the request has.
THEOREM SweepTypeOK == Spec => []TypeOK
<1>1. IInv => TypeOK
  BY DEF IInv
<1> QED BY <1>1, SpecIInv, PTL

\* What the invariant says of the memo, by CollapseExact.
LEMMA MemoFromIInv == IInv => MemoSound
<1> SUFFICES ASSUME IInv, pc = "expand",
                    NEW i \in Range(actors.list), NEW j \in Range(actors.list),
                    NEW dir \in Directions
             PROVE  classes.memo[<<classes.classOf[i], classes.peerOf[j], dir>>]
                      = OwnerVerdict(req.store, actors.byId[i], actors.byId[j], dir)
  BY Zenon DEF MemoSound
<1>1. /\ actors.list \in Seq(DOMAIN actors.byId)
      /\ BundleStored(req.store, actors)
  BY RequestsAssumption, BuiltActors DEF IInv, Shape, ActorsBuilt
<1>2. /\ classes.peerOf = PeerOf(req.store, actors)
      /\ classes.classOf = ClassOf(req.store, actors)
  BY DEF IInv, ClassesGrouped
<1>3. /\ classes.classOf[i] \in Range(classes.classOf)
      /\ classes.peerOf[j] \in Range(classes.peerOf)
  BY <1>2 DEF PeerOf, ClassOf, Range
<1>4. <<classes.classOf[i], classes.peerOf[j], dir>>
        \in Range(classes.classOf) \X Range(classes.peerOf) \X Directions
  BY <1>3
<1>5. classes.memo[<<classes.classOf[i], classes.peerOf[j], dir>>]
        = ClassVerdict(req.store, actors, classes.peerOf, classes.classOf,
                       classes.classOf[i], classes.peerOf[j], dir)
  BY <1>4 DEF IInv, MemoFilled
<1>6. ClassVerdict(req.store, actors, PeerOf(req.store, actors), ClassOf(req.store, actors),
                   ClassOf(req.store, actors)[i], PeerOf(req.store, actors)[j], dir)
        = OwnerVerdict(req.store, actors.byId[i], actors.byId[j], dir)
  BY <1>1, CollapseExact
<1> QED BY <1>2, <1>5, <1>6

\* In every sweep, each entry of the memo the matrix is expanded from is the verdict
\* of every owner and peer it stands for (collapse.go, "Correctness is exact").
THEOREM SweepMemoSound == Spec => []MemoSound
BY SpecIInv, MemoFromIInv, PTL
-----------------------------------------------------------------------------
(* The refinement *)

\* A loop at position p has been at <<i, j>>.
Earlier(i, j, p) == i < p[1] \/ (i = p[1] /\ j < p[2])

WholeSquare(b) == {q \in Range(b.list) \X Range(b.list) : q[1] # q[2]}

\* The pairs of the loop over the actors, up to its position.
Square(b, p) ==
  {q \in WholeSquare(b) :
     \E i, j \in DOMAIN b.list : q = <<b.list[i], b.list[j]>> /\ Earlier(i, j, p)}

\* The cells of the Service columns, up to a position.
Columns(r, b, p) ==
  {q \in Range(b.list) \X ServiceCols(r) :
     \E i \in DOMAIN r.services, j \in DOMAIN b.list :
       q = <<b.list[j], r.services[i].col>> /\ Earlier(i, j, p)}

\* Of the pairs asked for, those among the first ones.
Pairs(r, b, p) == {q \in Asked(r, b) : \E k \in DOMAIN r.pairs : k < p[1] /\ r.pairs[k] = q}

\* The pairs that have been put.
Due ==
  IF pc \in {"lint", "build", "group", "classes"} THEN {}
  ELSE IF pc \in {"exact", "expand"} THEN Square(actors, at)
  ELSE IF pc = "services" THEN WholeSquare(actors) \cup Columns(req, actors, at)
  ELSE IF pc = "pairs" THEN Pairs(req, actors, at)
  ELSE DOMAIN truth

Refused == pc = "done" /\ "lint" \in resp.errors

IsPair(q)    == q = <<q[1], q[2]>>
IsLine(l, p) == l = <<p[1], p[2], truth[p]>>

\* The sink when the pairs in S have been put: what is resident, what the lines say,
\* that no line is repeated, and that none is missing unless the writer has failed.
Resides(m, S) ==
  m = [p \in {q \in S : req.stream => q[2] \in KeepSet(req, actors)} |-> truth[p]]
LinesTrue(file, S) == \A j \in DOMAIN file : \E p \in S : IsLine(file[j], p)
SameCell(l, k)     == l[1] = k[1] /\ l[2] = k[2]
LinesOnce(file)    == \A j, k \in DOMAIN file : SameCell(file[j], file[k]) => j = k
LinesThere(file, S) == \A p \in S : \E j \in DOMAIN file : IsLine(file[j], p)

SinkHolds(s, S) ==
  /\ S \subseteq DOMAIN truth
  /\ Resides(s.m, S)
  /\ LinesTrue(s.file, S)
  /\ LinesOnce(s.file)
  /\ req.stream /\ ~s.broken => LinesThere(s.file, S)

\* Loops begin at their first position and stay within their columns.
Placed ==
  /\ pc \in {"lint", "build", "group", "classes"} => at = <<1, 1>>
  /\ pc \in {"exact", "expand", "services"} => at[2] = 1 \/ at[2] <= Len(actors.list)
  /\ pc = "pairs" => at[2] = 1

\* How the matrix is filled was decided by the request.
ModeKept ==
  /\ pc \in {"exact", "group", "classes", "expand", "services"} => req.pairs = <<>>
  /\ pc = "pairs" => req.pairs # <<>>
  /\ pc \in {"group", "classes", "expand"} => HepIds(req) = {}

PostureIs(k) ==
  LET a == resp.actors[k]
      b == BuildActors(req)
  IN  a.internet = IF req.pairs = <<>> /\ a.kind # "external" /\ Externals(b) # {}
                   THEN Word(\E e \in Externals(b) : truth[<<a.id, e>>] = "allow") ELSE ""

TruthKept == truth = Truth(req, BuildActors(req))

SinkKept ==
  /\ sink = [m |-> sink.m, file |-> sink.file, broken |-> sink.broken]
  /\ pc = "lint" \/ Refused => sink = [m |-> <<>>, file |-> <<>>, broken |-> FALSE]
  /\ ~ Refused => SinkHolds(sink, Due)

ReportKept ==
  /\ pc \in {"flush", "done"} => \A k \in DOMAIN resp.actors : PostureIs(k)
  /\ pc \notin {"flush", "done"} => resp.actors = <<>>

ErrorsKept ==
  /\ pc # "done" => resp.errors \subseteq {"feed"}
  /\ pc = "done" /\ ~ Refused =>
       /\ "stream" \in resp.errors <=> sink.broken
       /\ resp.errors \subseteq {"feed", "stream"}

FillInv == TruthKept /\ SinkKept /\ Placed /\ ModeKept /\ ReportKept /\ ErrorsKept
-----------------------------------------------------------------------------
(* Positions *)

Positions == (Nat \ {0}) \X (Nat \ {0})

Distinct(list) == \A i, j \in DOMAIN list : list[i] = list[j] => i = j

DistinctCols(r) ==
  \A i, j \in DOMAIN r.services : r.services[i].col = r.services[j].col => i = j

Advanced(p, cols) == IF p[2] < cols THEN <<p[1], p[2] + 1>> ELSE <<p[1] + 1, 1>>

SquareGrows(b, p, q, x, y) ==
  /\ <<x, y>> \notin Square(b, p)
  /\ x # y => <<x, y>> \in WholeSquare(b) /\ Square(b, q) = Square(b, p) \cup {<<x, y>>}
  /\ x = y => Square(b, q) = Square(b, p)

ColumnsGrow(r, b, p, q, x, y) ==
  /\ <<x, y>> \in Range(b.list) \X ServiceCols(r)
  /\ <<x, y>> \notin Columns(r, b, p)
  /\ Columns(r, b, q) = Columns(r, b, p) \cup {<<x, y>>}

PairsGrow(r, b, p, q, x, y) ==
  /\ Skipped(p[1]) => Pairs(r, b, q) = Pairs(r, b, p)
  /\ ~ Skipped(p[1]) =>
       <<x, y>> \in Asked(r, b) \ Pairs(r, b, p) /\ Pairs(r, b, q) = Pairs(r, b, p) \cup {<<x, y>>}

\* What is assumed of a request, for the actors that are built of it.
LEMMA Built ==
  ASSUME NEW r \in Requests
  PROVE  LET b == BuildActors(r) IN
         /\ b.list \in Seq(DOMAIN b.byId)
         /\ Len(b.list) \in Nat /\ DOMAIN b.list = 1..Len(b.list)
         /\ Distinct(b.list)
         /\ Len(r.services) \in Nat /\ DOMAIN r.services = 1..Len(r.services)
         /\ DistinctCols(r)
         /\ Range(b.list) \cap ServiceCols(r) = {}
         /\ Len(r.pairs) \in Nat /\ DOMAIN r.pairs = 1..Len(r.pairs)
         /\ \A k \in DOMAIN r.pairs : r.pairs[k] = <<r.pairs[k][1], r.pairs[k][2]>>
         /\ Len(r.endpoints) \in Nat /\ DOMAIN r.endpoints = 1..Len(r.endpoints)
         /\ Range(r.endpoints) \subseteq Range(b.list)
         /\ r.stream \in BOOLEAN
<1> DEFINE b == BuildActors(r)
<1>1. b.list = ActorList(r) /\ b.list \in Seq(DOMAIN b.byId)
  BY BuiltActors DEF BuildActors
<1>2. /\ r.services \in Seq(Range(r.services)) /\ r.pairs \in Seq(Range(r.pairs))
      /\ r.endpoints \in Seq(Range(ActorList(r))) /\ r.stream \in BOOLEAN
  BY RequestsAssumption, NamesAssumption
<1>3. Distinct(b.list)
  BY <1>1, NamesAssumption DEF Distinct
<1>4. Range(b.list) \cap ServiceCols(r) = {}
  BY <1>1, NamesAssumption DEF ServiceCols
<1>5. DistinctCols(r)
  BY NamesAssumption DEF DistinctCols
<1>6. Range(r.endpoints) \subseteq Range(b.list)
  BY <1>1, <1>2 DEF Range
<1>9. \A k \in DOMAIN r.pairs : r.pairs[k] = <<r.pairs[k][1], r.pairs[k][2]>>
  <2>1. \A q \in Range(r.pairs) : q = <<q[1], q[2]>>
    BY NamesAssumption
  <2> QED BY <2>1 DEF Range
<1> HIDE DEF b
<1>7. Len(b.list) \in Nat /\ DOMAIN b.list = 1..Len(b.list)
  BY <1>1
<1>8. /\ Len(r.services) \in Nat /\ DOMAIN r.services = 1..Len(r.services)
      /\ Len(r.pairs) \in Nat /\ DOMAIN r.pairs = 1..Len(r.pairs)
      /\ Len(r.endpoints) \in Nat /\ DOMAIN r.endpoints = 1..Len(r.endpoints)
  BY <1>2
<1> QED BY <1>1, <1>2, <1>3, <1>4, <1>5, <1>6, <1>7, <1>8, <1>9 DEF b

\* A step of the loop over the actors adds the pair it is at.
LEMMA SquareStep ==
  ASSUME NEW b, NEW n \in Nat, DOMAIN b.list = 1..n, Distinct(b.list),
         NEW p \in Positions, p[1] <= n, p[2] <= n
  PROVE  SquareGrows(b, p, Advanced(p, n), b.list[p[1]], b.list[p[2]])
<1> DEFINE cell == <<b.list[p[1]], b.list[p[2]]>>
           q    == Advanced(p, n)
<1> USE DEF Positions, Distinct
<1>1. p[1] \in 1..n /\ p[2] \in 1..n
  OBVIOUS
<1>2. \A i, j \in 1..n : Earlier(i, j, q) <=> Earlier(i, j, p) \/ (i = p[1] /\ j = p[2])
  BY <1>1 DEF Earlier, Advanced
<1>3. ~ Earlier(p[1], p[2], p)
  BY <1>1 DEF Earlier
<1>4. cell \notin Square(b, p)
  BY <1>1, <1>3 DEF Square
<1>5. cell[1] # cell[2] => cell \in WholeSquare(b)
  BY <1>1 DEF WholeSquare, Range
<1>6. ASSUME NEW c \in WholeSquare(b) PROVE c \in Square(b, q) <=> c \in Square(b, p) \/ c = cell
  BY <1>1, <1>2 DEF Square
<1>7. \A z : Square(b, z) \subseteq WholeSquare(b)
  BY DEF Square
<1>8. cell[1] = cell[2] => cell \notin WholeSquare(b)
  BY DEF WholeSquare
<1> HIDE DEF cell, q
<1>9. cell[1] # cell[2] => Square(b, q) = Square(b, p) \cup {cell}
  BY <1>5, <1>6, <1>7
<1>10. ASSUME cell[1] = cell[2] PROVE Square(b, q) = Square(b, p)
  <2>1. \A c \in WholeSquare(b) : c \in Square(b, q) <=> c \in Square(b, p)
    BY <1>6, <1>8, <1>10
  <2>2. Square(b, q) \subseteq WholeSquare(b) /\ Square(b, p) \subseteq WholeSquare(b)
    BY <1>7
  <2> QED BY <2>1, <2>2
<1> QED BY <1>4, <1>5, <1>9, <1>10 DEF cell, q, SquareGrows

\* A loop over the actors that has ended was at every pair.
LEMMA SquareEnd ==
  ASSUME NEW b, NEW n \in Nat, DOMAIN b.list = 1..n,
         NEW p \in Positions, ~ (p[1] <= n /\ p[2] <= n),
         p[2] = 1 \/ p[2] <= n
  PROVE  Square(b, p) = WholeSquare(b)
<1>1. \A i, j \in 1..n : Earlier(i, j, p)
  BY DEF Earlier, Positions
<1> QED BY <1>1 DEF Square, WholeSquare, Range

\* It begins at none.
LEMMA FirstPosition ==
  ASSUME NEW r, NEW b, NEW n \in Nat, DOMAIN b.list = 1..n,
         NEW m \in Nat, DOMAIN r.services = 1..m, NEW k \in Nat, DOMAIN r.pairs = 1..k
  PROVE  Square(b, <<1, 1>>) = {} /\ Columns(r, b, <<1, 1>>) = {} /\ Pairs(r, b, <<1, 1>>) = {}
<1>1. \A i, j \in Nat \ {0} : ~ Earlier(i, j, <<1, 1>>)
  BY DEF Earlier
<1>2. Square(b, <<1, 1>>) = {}
  BY <1>1 DEF Square
<1>3. Columns(r, b, <<1, 1>>) = {}
  BY <1>1 DEF Columns
<1>4. Pairs(r, b, <<1, 1>>) = {}
  BY DEF Pairs
<1> QED BY <1>2, <1>3, <1>4

\* A step of the loop over Services and actors adds the cell it is at.
LEMMA ColumnStep ==
  ASSUME NEW r, NEW b, NEW n \in Nat, DOMAIN b.list = 1..n, Distinct(b.list),
         NEW m \in Nat, DOMAIN r.services = 1..m, DistinctCols(r),
         NEW p \in Positions, p[1] <= m, p[2] <= n
  PROVE  ColumnsGrow(r, b, p, Advanced(p, n), b.list[p[2]], r.services[p[1]].col)
<1> DEFINE cell == <<b.list[p[2]], r.services[p[1]].col>>
           q    == Advanced(p, n)
<1> USE DEF Positions, Distinct, DistinctCols
<1>1. p[1] \in 1..m /\ p[2] \in 1..n
  OBVIOUS
<1>2. \A i \in 1..m, j \in 1..n :
        Earlier(i, j, q) <=> Earlier(i, j, p) \/ (i = p[1] /\ j = p[2])
  BY <1>1 DEF Earlier, Advanced
<1>3. ~ Earlier(p[1], p[2], p)
  BY <1>1 DEF Earlier
<1>4. cell \notin Columns(r, b, p)
  BY <1>1, <1>3 DEF Columns
<1>5. cell \in Range(b.list) \X ServiceCols(r)
  BY <1>1 DEF Range, ServiceCols
<1>6. ASSUME NEW c \in Range(b.list) \X ServiceCols(r)
      PROVE c \in Columns(r, b, q) <=> c \in Columns(r, b, p) \/ c = cell
  BY <1>1, <1>2 DEF Columns
<1>7. \A z : Columns(r, b, z) \subseteq Range(b.list) \X ServiceCols(r)
  BY DEF Columns
<1> HIDE DEF cell, q
<1>8. Columns(r, b, q) = Columns(r, b, p) \cup {cell}
  BY <1>5, <1>6, <1>7
<1> QED BY <1>4, <1>5, <1>8 DEF cell, q, ColumnsGrow

\* When that loop has ended every column is full.
LEMMA ColumnEnd ==
  ASSUME NEW r, NEW b, NEW n \in Nat, DOMAIN b.list = 1..n,
         NEW m \in Nat, DOMAIN r.services = 1..m,
         NEW p \in Positions, ~ (p[1] <= m /\ p[2] <= n),
         p[2] = 1 \/ p[2] <= n
  PROVE  Columns(r, b, p) = Range(b.list) \X ServiceCols(r)
<1>1. \A i \in 1..m, j \in 1..n : Earlier(i, j, p)
  BY DEF Earlier, Positions
<1>2. \A c \in Range(b.list) \X ServiceCols(r) :
        \E i \in DOMAIN r.services, j \in DOMAIN b.list : c = <<b.list[j], r.services[i].col>>
  BY DEF Range, ServiceCols
<1> QED BY <1>1, <1>2 DEF Columns

\* A pair that is asked for is put when the loop is at its first occurrence.
LEMMA PairStep ==
  ASSUME NEW r \in Requests, r.pairs # <<>>, actors = BuildActors(r), req = r,
         NEW p \in Positions, p[1] <= Len(r.pairs),
         NEW q, q[1] = p[1] + 1
  PROVE  PairsGrow(r, actors, p, q, r.pairs[p[1]][1], r.pairs[p[1]][2])
<1> DEFINE k    == p[1]
           cell == <<r.pairs[k][1], r.pairs[k][2]>>
<1> USE DEF Positions
<1>1. /\ k \in DOMAIN r.pairs /\ DOMAIN r.pairs = 1..Len(r.pairs) /\ Len(r.pairs) \in Nat
      /\ r.pairs[k] = cell /\ r.pairs[k] \in Range(r.pairs)
  BY Built DEF Range
<1>2. \A j \in DOMAIN r.pairs : j < q[1] <=> j < k \/ j = k
  BY <1>1
<1>3. Skipped(k) <=> \/ r.pairs[k] \notin Asked(r, actors)
                     \/ \E j \in DOMAIN r.pairs : j < k /\ r.pairs[j] = r.pairs[k]
  <2>1. \A j : j \in 1..(k - 1) <=> j \in DOMAIN r.pairs /\ j < k
    BY <1>1
  <2>2. r.pairs[k] \in Asked(r, actors) <=>
          /\ r.pairs[k][1] \in Range(actors.list)
          /\ r.pairs[k][2] \in ServiceCols(r) \cup (Range(actors.list) \ {r.pairs[k][1]})
    BY <1>1 DEF Asked
  <2> QED BY <2>1, <2>2 DEF Skipped
<1>4. ASSUME NEW c \in Asked(r, actors)
      PROVE  c \in Pairs(r, actors, q) <=> c \in Pairs(r, actors, p) \/ c = r.pairs[k]
  BY <1>1, <1>2 DEF Pairs
<1>5. r.pairs[k] \in Pairs(r, actors, p) <=>
        /\ r.pairs[k] \in Asked(r, actors)
        /\ \E j \in DOMAIN r.pairs : j < k /\ r.pairs[j] = r.pairs[k]
  BY DEF Pairs
<1>6. \A z : Pairs(r, actors, z) \subseteq Asked(r, actors)
  BY DEF Pairs
<1>7. CASE Skipped(k)
  <2>1. \A c \in Asked(r, actors) : c \in Pairs(r, actors, q) <=> c \in Pairs(r, actors, p)
    BY <1>3, <1>4, <1>5, <1>7
  <2> QED BY <1>6, <1>7, <2>1 DEF PairsGrow
<1>8. CASE ~ Skipped(k)
  <2>1. r.pairs[k] \in Asked(r, actors) \ Pairs(r, actors, p)
    BY <1>3, <1>5, <1>8
  <2>2. Pairs(r, actors, q) = Pairs(r, actors, p) \cup {r.pairs[k]}
    BY <1>4, <1>6, <2>1
  <2> QED BY <1>1, <1>8, <2>1, <2>2 DEF PairsGrow
<1> QED BY <1>7, <1>8

\* A loop over the pairs asked for that has ended has put every one of them.
LEMMA PairEnd ==
  ASSUME NEW r \in Requests, NEW b, r.pairs # <<>>,
         NEW p \in Positions, ~ p[1] <= Len(r.pairs)
  PROVE  Pairs(r, b, p) = Asked(r, b)
<1>1. \A k \in DOMAIN r.pairs : k < p[1]
  BY Built DEF Positions
<1>2. \A q \in Asked(r, b) : \E k \in DOMAIN r.pairs : r.pairs[k] = q
  BY DEF Asked, Range
<1> QED BY <1>1, <1>2 DEF Pairs
-----------------------------------------------------------------------------
(* The sink *)

\* Putting the true verdict of a pair that was not put before.
LEMMA PutHolds ==
  ASSUME req.stream \in BOOLEAN, sink.broken \in BOOLEAN,
         \A q \in DOMAIN truth : IsPair(q),
         NEW X, sink.file \in Seq(X),
         NEW S, SinkHolds(sink, S),
         NEW src, NEW dst, <<src, dst>> \in DOMAIN truth \ S,
         NEW v, v = truth[<<src, dst>>], Put(src, dst, v)
  PROVE  /\ SinkHolds(sink', S \cup {<<src, dst>>})
         /\ sink' = [m |-> sink'.m, file |-> sink'.file, broken |-> sink'.broken]
<1> DEFINE p == <<src, dst>>
           T == S \cup {p}
           K == KeepSet(req, actors)
<1>1. PICK fail \in {FALSE, req.stream} :
        sink' =
          [m      |-> IF req.stream /\ dst \notin KeepSet(req, actors) THEN sink.m
                      ELSE Stored(sink.m, <<src, dst>>, v),
           file   |-> IF req.stream /\ ~(sink.broken \/ fail)
                      THEN Append(sink.file, <<src, dst, v>>) ELSE sink.file,
           broken |-> sink.broken \/ fail]
  BY DEF Put
<1>2. /\ S \subseteq DOMAIN truth /\ Resides(sink.m, S) /\ LinesTrue(sink.file, S)
      /\ LinesOnce(sink.file) /\ (req.stream /\ ~sink.broken => LinesThere(sink.file, S))
  BY DEF SinkHolds
<1>3. Resides(sink'.m, T)
  <2>0. sink.m = [q \in {q \in S : req.stream => q[2] \in K} |-> truth[q]]
    BY <1>2 DEF Resides
  <2>1. CASE req.stream /\ dst \notin K
    <3>1. sink'.m = sink.m
      BY <1>1, <2>1
    <3>2. {q \in T : req.stream => q[2] \in K} = {q \in S : req.stream => q[2] \in K}
      BY <2>1
    <3> QED BY <2>0, <3>1, <3>2 DEF Resides
  <2>2. CASE ~ (req.stream /\ dst \notin K)
    <3>1. sink'.m = Stored(sink.m, p, truth[p])
      BY <1>1, <2>2
    <3>2. {q \in T : req.stream => q[2] \in K} = {q \in S : req.stream => q[2] \in K} \cup {p}
      BY <2>2
    <3>3. DOMAIN sink.m = {q \in S : req.stream => q[2] \in K}
      BY <2>0
    <3>4. \A q \in DOMAIN sink.m : sink.m[q] = truth[q]
      BY <2>0
    <3>5. sink'.m = [q \in {q \in T : req.stream => q[2] \in K} |-> truth[q]]
      BY <3>1, <3>2, <3>3, <3>4 DEF Stored
    <3> QED BY <3>5 DEF Resides
  <2> QED BY <2>1, <2>2
<1>4. T \subseteq DOMAIN truth
  BY <1>2
<1>5. CASE req.stream /\ ~ (sink.broken \/ fail)
  <2> DEFINE line == <<src, dst, v>>
             n    == Len(sink.file)
  <2>1. sink'.file = Append(sink.file, line) /\ n \in Nat /\ DOMAIN sink.file = 1..n
    BY <1>1, <1>5
  <2>2. /\ DOMAIN sink'.file = 1..n + 1
        /\ sink'.file[n + 1] = line
        /\ \A j \in 1..n : sink'.file[j] = sink.file[j]
    <3> HIDE DEF line
    <3>1. Append(sink.file, line) = [j \in 1..n + 1 |-> IF j = n + 1 THEN line ELSE sink.file[j]]
      BY <2>1
    <3> QED BY <2>1, <3>1
  <2>3. IsLine(line, p) /\ line[1] = src /\ line[2] = dst
    BY DEF IsLine
  <2>4. \A j \in 1..n : \E q \in S : IsLine(sink.file[j], q)
    BY <1>2, <2>1 DEF LinesTrue
  <2>5. \A j \in 1..n : ~ SameCell(sink.file[j], line)
    <3> SUFFICES ASSUME NEW j \in 1..n, SameCell(sink.file[j], line) PROVE FALSE
      OBVIOUS
    <3>1. PICK q \in S : IsLine(sink.file[j], q)
      BY <2>4
    <3>2. sink.file[j][1] = q[1] /\ sink.file[j][2] = q[2]
      BY <3>1 DEF IsLine
    <3>3. q[1] = src /\ q[2] = dst
      BY <2>3, <3>2 DEF SameCell
    <3>4. q = <<q[1], q[2]>>
      BY <1>2 DEF IsPair
    <3> QED BY <3>3, <3>4
  <2>6. \A j \in 1..n + 1 : j \in 1..n \/ j = n + 1
    BY <2>1
  <2> HIDE DEF line
  <2>7. LinesTrue(sink'.file, T)
    BY <2>2, <2>3, <2>4, <2>6 DEF LinesTrue
  <2>8. LinesOnce(sink'.file)
    <3>1. \A j, k \in 1..n : SameCell(sink.file[j], sink.file[k]) => j = k
      BY <1>2, <2>1 DEF LinesOnce
    <3>2. \A k \in 1..n : ~ SameCell(line, sink.file[k])
      BY <2>5 DEF SameCell
    <3> QED BY <2>2, <2>5, <2>6, <3>1, <3>2 DEF LinesOnce
  <2>9. LinesThere(sink'.file, T)
    <3>1. \A q \in S : \E j \in 1..n : IsLine(sink.file[j], q)
      BY <1>2, <1>5, <2>1 DEF LinesThere
    <3>2. \A q \in S : \E j \in 1..n + 1 : IsLine(sink'.file[j], q)
      BY <2>1, <2>2, <3>1
    <3>3. n + 1 \in 1..n + 1
      BY <2>1
    <3> QED BY <2>2, <2>3, <3>2, <3>3 DEF LinesThere
  <2>10. sink' = [m |-> sink'.m, file |-> sink'.file, broken |-> sink'.broken]
    BY <1>1
  <2> HIDE DEF T
  <2>11. SinkHolds(sink', T)
    BY <1>3, <1>4, <2>7, <2>8, <2>9 DEF SinkHolds
  <2> QED BY <2>10, <2>11 DEF T
<1>6. CASE ~ (req.stream /\ ~ (sink.broken \/ fail))
  <2>1. sink'.file = sink.file /\ (req.stream => sink'.broken)
    BY <1>1, <1>6
  <2>2. LinesTrue(sink'.file, T) /\ LinesOnce(sink'.file)
    BY <1>2, <2>1 DEF LinesTrue
  <2>3. sink' = [m |-> sink'.m, file |-> sink'.file, broken |-> sink'.broken]
    BY <1>1
  <2> HIDE DEF T
  <2>4. SinkHolds(sink', T)
    BY <1>3, <1>4, <2>1, <2>2 DEF SinkHolds
  <2> QED BY <2>3, <2>4 DEF T
<1> QED BY <1>5, <1>6
-----------------------------------------------------------------------------
(* The truth *)

\* The truth of a request has an entry for each pair asked for, and what it says of one
\* is whether the first reaches the second.
LEMMA TruthIs ==
  ASSUME NEW r \in Requests, NEW b
  PROVE  LET t == Truth(r, b) IN
         /\ DOMAIN t = Asked(r, b)
         /\ \A q \in DOMAIN t : IsPair(q) /\ t[q] = Word(Reaches(r, b, q[1], q[2]))
         /\ r.pairs = <<>> =>
              DOMAIN t = WholeSquare(b) \cup (Range(b.list) \X ServiceCols(r))
<1> DEFINE t == Truth(r, b)
<1>1. DOMAIN t = Asked(r, b) /\ \A q \in DOMAIN t : t[q] = Word(Reaches(r, b, q[1], q[2]))
  BY DEF Truth
<1>2. \A q \in Range(r.pairs) : q = <<q[1], q[2]>>
  BY NamesAssumption
<1>3. \A q \in Asked(r, b) : IsPair(q)
  BY <1>2 DEF Asked, IsPair
<1>4. r.pairs = <<>> => Asked(r, b) = WholeSquare(b) \cup (Range(b.list) \X ServiceCols(r))
  BY DEF Asked, WholeSquare
<1> QED BY <1>1, <1>3, <1>4

\* Without HostEndpoints a flow is what its two ends make of it.
LEMMA FlowOfTwo ==
  ASSUME NEW r \in Requests, NEW b, b = BuildActors(r), HepIds(r) = {},
         NEW x \in Range(b.list), NEW y \in Range(b.list)
  PROVE  EvalFlow(r, b, x, y) <=> /\ OwnerVerdict(r.store, b.byId[x], b.byId[y], "out")
                                  /\ OwnerVerdict(r.store, b.byId[y], b.byId[x], "in")
<1>1. b.heps = {} /\ b.byId = ActorById(r)
  BY DEF BuildActors
<1>2. \A i \in Range(b.list) : b.byId[i].kind = "wep"
  <2>1. Range(b.list) \subseteq DOMAIN ActorById(r)
    BY <1>1, BuiltActors
  <2> QED BY <1>1, <2>1 DEF ActorById, WorkloadActor
<1>3. \A n, i : OthersOn(b, n, i) = {}
  BY <1>1 DEF OthersOn
<1>4. \A i, dir, f : ForwardAllows(r, b, i, dir, f) /\ PreDnatAllows(r, b, i, f)
  BY <1>3 DEF ForwardAllows, PreDnatAllows
<1>5. \A i \in Range(b.list) : \A d, e, f, g : UntrackedAllows(r, b.byId[i], d, e, f, g)
  BY <1>2 DEF UntrackedAllows
<1> QED BY <1>4, <1>5 DEF EvalFlow

\* What the collapse expands is evalFlow's verdict.
LEMMA ExpandExact ==
  ASSUME IInv, pc = "expand", HepIds(req) = {},
         NEW x \in Range(actors.list), NEW y \in Range(actors.list)
  PROVE  (/\ classes.memo[<<classes.classOf[x], classes.peerOf[y], "out">>]
          /\ classes.memo[<<classes.classOf[y], classes.peerOf[x], "in">>])
           <=> EvalFlow(req, actors, x, y)
<1>1. actors = BuildActors(req) /\ req \in Requests
  BY DEF IInv, ActorsBuilt, Shape
<1>2. MemoSound
  BY MemoFromIInv
<1>3. /\ classes.memo[<<classes.classOf[x], classes.peerOf[y], "out">>]
           = OwnerVerdict(req.store, actors.byId[x], actors.byId[y], "out")
      /\ classes.memo[<<classes.classOf[y], classes.peerOf[x], "in">>]
           = OwnerVerdict(req.store, actors.byId[y], actors.byId[x], "in")
  BY <1>2 DEF MemoSound, Directions
<1> QED BY <1>1, <1>3, FlowOfTwo

\* A bounded set of naturals has a greatest element.
LEMMA GreatestElement ==
  ASSUME NEW n \in Nat, NEW T, T \subseteq 1..n, T # {}
  PROVE  \E x \in T : \A y \in T : y <= x
<1> DEFINE D == {n - y : y \in T}
<1>0. PICK t \in T : TRUE
  OBVIOUS
<1>1. D \subseteq Nat /\ n - t \in D
  BY <1>0
<1>2. PICK d \in D : \A e \in D : d <= e
  <2> HIDE DEF D
  <2>1. D # {} BY <1>1
  <2> QED BY <1>1, <2>1, LeastIs
<1>3. PICK x \in T : d = n - x
  BY <1>2
<1>4. \A y \in T : n - x <= n - y
  BY <1>2, <1>3
<1> QED BY <1>3, <1>4

\* The backends of a Service are actors, and their columns are kept.
LEMMA BackendsListed ==
  ASSUME NEW r \in Requests, NEW b, b = BuildActors(r), NEW svc \in Range(r.services)
  PROVE  BackendIds(r, svc) \subseteq Range(b.list) \cap KeepSet(r, b)
<1>1. /\ Len(r.endpoints) \in Nat /\ DOMAIN r.endpoints = 1..Len(r.endpoints)
      /\ Range(r.endpoints) \subseteq Range(b.list)
  BY Built
<1>2. ASSUME NEW a \in EndpointIps(r) PROVE IpToId(r, a) \in Range(r.endpoints)
  <2> DEFINE T == {i \in DOMAIN r.endpoints : r.ep[r.endpoints[i]].ip = a}
             Last(i) == /\ r.ep[r.endpoints[i]].ip = a
                        /\ \A j \in DOMAIN r.endpoints : r.ep[r.endpoints[j]].ip = a => j <= i
  <2>1. T # {}
    BY <1>2 DEF EndpointIps, Range
  <2>2. \E x \in T : \A y \in T : y <= x
    <3>1. T \subseteq 1..Len(r.endpoints)
      BY <1>1
    <3> HIDE DEF T
    <3> QED BY <1>1, <2>1, <3>1, GreatestElement
  <2>3. \E x \in DOMAIN r.endpoints : Last(x)
    BY <2>2
  <2>4. (CHOOSE i \in DOMAIN r.endpoints : Last(i)) \in DOMAIN r.endpoints
    <3> HIDE DEF Last
    <3> QED BY <2>3
  <2> QED BY <2>4 DEF IpToId, Range
<1>3. BackendIds(r, svc) \subseteq Range(r.endpoints)
  BY <1>2 DEF BackendIds
<1>4. BackendIds(r, svc) \subseteq KeepSet(r, b)
  BY DEF KeepSet
<1> QED BY <1>1, <1>3, <1>4

\* What is read back from a kept column is the truth.
LEMMA ResidentIs ==
  ASSUME NEW S, SinkHolds(sink, S), NEW x, NEW y, <<x, y>> \in S, y \in KeepSet(req, actors)
  PROVE  Resident(x, y) <=> truth[<<x, y>>] = "allow"
<1> DEFINE K == KeepSet(req, actors)
<1>1. sink.m = [p \in {q \in S : req.stream => q[2] \in K} |-> truth[p]]
  BY DEF SinkHolds, Resides
<1>2. <<x, y>> \in {q \in S : req.stream => q[2] \in K}
  OBVIOUS
<1> HIDE DEF K
<1> QED BY <1>1, <1>2 DEF Resident

\* The OR over the resident verdicts is the OR over the true ones.
LEMMA ServiceExact ==
  ASSUME req \in Requests, actors = BuildActors(req), truth = Truth(req, actors),
         req.pairs = <<>>, NEW S, SinkHolds(sink, S), WholeSquare(actors) \subseteq S,
         NEW svc \in Range(req.services), NEW src \in Range(actors.list)
  PROVE  /\ <<src, svc.col>> \in DOMAIN truth
         /\ truth[<<src, svc.col>>] =
              Word(\E b \in BackendIds(req, svc) : b = src \/ Resident(src, b))
<1>0. /\ \A q \in DOMAIN truth : truth[q] = Word(Reaches(req, actors, q[1], q[2]))
      /\ DOMAIN truth = WholeSquare(actors) \cup (Range(actors.list) \X ServiceCols(req))
  BY TruthIs
<1>1. ServiceOf(req, svc.col) = svc
  <2>1. \A s \in Range(req.services) : s.col = svc.col => s = svc
    BY Built DEF Range, DistinctCols
  <2> QED BY <2>1 DEF ServiceOf
<1>2. svc.col \in ServiceCols(req) /\ Range(actors.list) \cap ServiceCols(req) = {}
  BY Built DEF ServiceCols
<1>3. ASSUME NEW b \in BackendIds(req, svc), b # src
      PROVE  Resident(src, b) <=> EvalFlow(req, actors, src, b)
  <2>1. b \in Range(actors.list) /\ b \in KeepSet(req, actors)
    BY BackendsListed
  <2>2. <<src, b>> \in WholeSquare(actors)
    BY <1>3, <2>1 DEF WholeSquare
  <2>3. <<src, b>> \in DOMAIN truth /\ b \notin ServiceCols(req)
    BY <1>0, <1>2, <2>1, <2>2
  <2>4. truth[<<src, b>>] = Word(EvalFlow(req, actors, src, b))
    BY <1>0, <2>3 DEF Reaches
  <2>5. Resident(src, b) <=> truth[<<src, b>>] = "allow"
    BY <2>1, <2>2, ResidentIs
  <2> QED BY <2>4, <2>5 DEF Word
<1>4. <<src, svc.col>> \in DOMAIN truth
  BY <1>0, <1>2
<1>5. truth[<<src, svc.col>>] = Word(Reaches(req, actors, src, svc.col))
  BY <1>0, <1>4
<1>6. Reaches(req, actors, src, svc.col) <=>
        \E b \in BackendIds(req, svc) : b = src \/ EvalFlow(req, actors, src, b)
  BY <1>1, <1>2 DEF Reaches
<1>7. Reaches(req, actors, src, svc.col) <=>
        \E b \in BackendIds(req, svc) : b = src \/ Resident(src, b)
  BY <1>3, <1>6
<1> QED BY <1>4, <1>5, <1>7 DEF Word
-----------------------------------------------------------------------------
(* What whoever asked sees *)

\* What a sink shows.
ShownBy(s) == IF req.stream THEN {<<l[1], l[2]>> : l \in Range(s.file)} ELSE DOMAIN s.m
ReportedBy(s) ==
  IF req.stream
  THEN [p \in ShownBy(s) |-> (CHOOSE l \in Range(s.file) : <<l[1], l[2]>> = p)[3]]
  ELSE s.m

\* The pairs that are shown are shown with their true verdicts, and while the writer
\* has not failed they are all that were put.
LEMMA ReportedIs ==
  ASSUME NEW s, NEW S, SinkHolds(s, S), req.stream \in BOOLEAN,
         \A q \in DOMAIN truth : IsPair(q)
  PROVE  /\ ReportedBy(s) = [p \in ShownBy(s) |-> truth[p]]
         /\ ShownBy(s) \subseteq S
         /\ ~ (req.stream /\ s.broken) => ShownBy(s) = S
<1>1. /\ S \subseteq DOMAIN truth /\ Resides(s.m, S) /\ LinesTrue(s.file, S)
      /\ (req.stream /\ ~s.broken => LinesThere(s.file, S))
  BY DEF SinkHolds
<1>2. CASE ~ req.stream
  <2>1. {q \in S : req.stream => q[2] \in KeepSet(req, actors)} = S
    BY <1>2
  <2>2. s.m = [p \in S |-> truth[p]]
    BY <1>1, <2>1 DEF Resides
  <2> QED BY <1>2, <2>2 DEF ReportedBy, ShownBy
<1>3. CASE req.stream
  <2>1. \A l \in Range(s.file) : \E p \in S : IsLine(l, p) /\ p = <<l[1], l[2]>> /\ truth[p] = l[3]
    <3> SUFFICES ASSUME NEW l \in Range(s.file)
                 PROVE  \E p \in S : IsLine(l, p) /\ p = <<l[1], l[2]>> /\ truth[p] = l[3]
      OBVIOUS
    <3>1. PICK p \in S : IsLine(l, p)
      BY <1>1 DEF Range, LinesTrue
    <3>2. p = <<p[1], p[2]>>
      BY <1>1 DEF IsPair
    <3> QED BY <3>1, <3>2 DEF IsLine
  <2>2. ShownBy(s) = {<<l[1], l[2]>> : l \in Range(s.file)}
    BY <1>3 DEF ShownBy
  <2>3. ASSUME NEW p \in ShownBy(s)
        PROVE  (CHOOSE l \in Range(s.file) : <<l[1], l[2]>> = p)[3] = truth[p]
    <3>1. \E l \in Range(s.file) : <<l[1], l[2]>> = p
      BY <2>2
    <3>2. PICK l \in Range(s.file) : /\ <<l[1], l[2]>> = p
                             /\ l = (CHOOSE k \in Range(s.file) : <<k[1], k[2]>> = p)
      BY <3>1
    <3> QED BY <2>1, <3>2
  <2>4. ReportedBy(s) = [p \in ShownBy(s) |-> truth[p]]
    BY <1>3, <2>2, <2>3 DEF ReportedBy
  <2>5. ShownBy(s) \subseteq S
    BY <2>1, <2>2
  <2>6. ASSUME ~ s.broken, NEW p \in S PROVE p \in ShownBy(s)
    <3>1. PICK j \in DOMAIN s.file : IsLine(s.file[j], p)
      BY <1>1, <1>3, <2>6 DEF LinesThere
    <3>2. s.file[j] \in Range(s.file) /\ p = <<p[1], p[2]>>
      BY <1>1 DEF Range, IsPair
    <3>3. s.file[j][1] = p[1] /\ s.file[j][2] = p[2]
      BY <3>1 DEF IsLine
    <3>4. p = <<s.file[j][1], s.file[j][2]>>
      BY <3>2, <3>3
    <3> QED BY <2>2, <3>2, <3>4
  <2>7. ~ s.broken => ShownBy(s) = S
    BY <2>5, <2>6
  <2> QED BY <1>3, <2>4, <2>5, <2>7
<1> QED BY <1>2, <1>3

\* A step that puts no pair and does not end the sweep is a stutter of MatrixSpec.
LEMMA StaySim ==
  ASSUME UNCHANGED <<req, truth, sink>>, pc # "done", pc' # "done"
  PROVE  [Promise!MNext]_(Promise!mvars)
<1>1. Reported' = Reported
  BY DEF Reported, Lines
<1>2. Status' = Status
  BY DEF Status
<1> QED BY <1>1, <1>2 DEF Promise!mvars

\* A step that puts one is a ReportPair, or a stutter when the writer has failed.
LEMMA PutSim ==
  ASSUME req.stream \in BOOLEAN, sink.broken \in BOOLEAN,
         \A q \in DOMAIN truth : IsPair(q),
         NEW X, sink.file \in Seq(X),
         NEW S, SinkHolds(sink, S),
         NEW src, NEW dst, <<src, dst>> \in DOMAIN truth \ S,
         NEW v, v = truth[<<src, dst>>], Put(src, dst, v),
         UNCHANGED <<req, truth, actors>>, pc # "done", pc' # "done"
  PROVE  [Promise!MNext]_(Promise!mvars)
<1> DEFINE p == <<src, dst>>
<1>1. SinkHolds(sink', S \cup {p})
  BY PutHolds
<1>2. /\ ReportedBy(sink) = [q \in ShownBy(sink) |-> truth[q]] /\ ShownBy(sink) \subseteq S
      /\ ReportedBy(sink') = [q \in ShownBy(sink') |-> truth[q]]
  BY <1>1, ReportedIs
<1>3. Reported = ReportedBy(sink) /\ Reported' = ReportedBy(sink')
  BY DEF Reported, ReportedBy, ShownBy, Lines
<1>4. ShownBy(sink') = ShownBy(sink) \/ ShownBy(sink') = ShownBy(sink) \cup {p}
  <2>1. PICK fail \in {FALSE, req.stream} :
          sink' =
            [m      |-> IF req.stream /\ dst \notin KeepSet(req, actors) THEN sink.m
                        ELSE Stored(sink.m, <<src, dst>>, v),
             file   |-> IF req.stream /\ ~(sink.broken \/ fail)
                        THEN Append(sink.file, <<src, dst, v>>) ELSE sink.file,
             broken |-> sink.broken \/ fail]
    BY DEF Put
  <2>2. CASE ~ req.stream
    BY <2>1, <2>2 DEF ShownBy, Stored
  <2>3. CASE req.stream
    <3>1. sink'.file = sink.file \/ sink'.file = Append(sink.file, <<src, dst, v>>)
      BY <2>1
    <3>2. CASE sink'.file = sink.file
      BY <2>3, <3>2 DEF ShownBy
    <3>3. CASE sink'.file = Append(sink.file, <<src, dst, v>>)
      <4> DEFINE line == <<src, dst, v>>
                 n    == Len(sink.file)
      <4>1. n \in Nat /\ DOMAIN sink.file = 1..n
        OBVIOUS
      <4>0. sink'.file = Append(sink.file, line)
        BY <3>3
      <4> HIDE DEF line
      <4>2. Append(sink.file, line)
              = [j \in 1..n + 1 |-> IF j = n + 1 THEN line ELSE sink.file[j]]
        OBVIOUS
      <4>3. Range(sink'.file) = Range(sink.file) \cup {line}
        <5>1. DOMAIN sink'.file = 1..n + 1 /\ sink'.file[n + 1] = line
              /\ \A j \in 1..n : sink'.file[j] = sink.file[j]
          BY <4>0, <4>1, <4>2
        <5>2. n + 1 \in 1..n + 1 /\ \A j \in 1..n + 1 : j \in 1..n \/ j = n + 1
          BY <4>1
        <5>3. \A e : e \in Range(sink'.file) <=> \E j \in 1..n + 1 : e = sink'.file[j]
          BY <5>1 DEF Range
        <5>4. \A e : e \in Range(sink.file) <=> \E j \in 1..n : e = sink.file[j]
          BY <4>1 DEF Range
        <5> HIDE DEF n
        <5> QED BY <4>1, <5>1, <5>2, <5>3, <5>4
      <4>4. <<line[1], line[2]>> = p
        BY DEF line
      <4> QED BY <2>3, <4>3, <4>4 DEF ShownBy
    <3> QED BY <3>1, <3>2, <3>3
  <2> QED BY <2>2, <2>3
<1>5. Status' = Status /\ Status = "running"
  BY DEF Status
<1>6. CASE ShownBy(sink') = ShownBy(sink)
  BY <1>2, <1>3, <1>5, <1>6 DEF Promise!mvars
<1>7. CASE ShownBy(sink') = ShownBy(sink) \cup {p}
  <2>1. DOMAIN Reported = ShownBy(sink) /\ p \notin ShownBy(sink)
    <3> HIDE DEF p
    <3> QED BY <1>2, <1>3 DEF p
  <2>2. Reported' = Promise!Extended(Reported, p, truth[p])
    <3> HIDE DEF p
    <3>1. Reported' = [q \in ShownBy(sink) \cup {p} |-> truth[q]]
      BY <1>2, <1>3, <1>7
    <3>2. \A q \in ShownBy(sink) : Reported[q] = truth[q]
      BY <1>2, <1>3
    <3> QED BY <2>1, <3>1, <3>2 DEF Promise!Extended
  <2>3. Promise!ReportPair(p)
    BY <1>5, <2>1, <2>2 DEF Promise!ReportPair
  <2> QED BY <2>3 DEF Promise!MNext
<1> QED BY <1>4, <1>6, <1>7
-----------------------------------------------------------------------------
(* The steps *)

\* A sweep begins with nothing put, as the specification does.
LEMMA InitFill == Init => FillInv /\ Promise!MInit
<1> SUFFICES ASSUME Init PROVE FillInv /\ Promise!MInit
  OBVIOUS
<1>1. req \in Requests /\ truth = Truth(req, BuildActors(req))
  BY DEF Init
<1>2. sink = [m |-> <<>>, file |-> <<>>, broken |-> FALSE]
  BY DEF Init
<1>3. SinkHolds(sink, {})
  BY <1>2 DEF SinkHolds, Resides, LinesTrue, LinesOnce, LinesThere
<1>4. SinkKept
  BY <1>2, <1>3 DEF Init, SinkKept, Due
<1>5. Placed /\ ModeKept /\ ReportKept /\ ErrorsKept /\ TruthKept
  BY <1>1 DEF Init, Placed, ModeKept, ReportKept, ErrorsKept, TruthKept, Refused
<1>6. \A p \in DOMAIN truth : truth[p] \in Promise!Verdicts
  BY <1>1, TruthIs DEF Promise!Verdicts, Word
<1>7. Reported = <<>>
  BY <1>2 DEF Reported, Lines, Range
<1>8. Promise!MInit
  BY <1>6, <1>7 DEF Init, Status, Promise!MInit
<1> QED BY <1>4, <1>5, <1>8 DEF FillInv

\* The parts that a step leaves alone when it does not touch the response.
LEMMA RestKept ==
  ASSUME FillInv, UNCHANGED <<req, truth, resp>>,
         pc \notin {"flush", "done"}, pc' \notin {"flush", "done"}
  PROVE  TruthKept' /\ ReportKept' /\ ErrorsKept'
<1>1. TruthKept'
  BY DEF FillInv, TruthKept
<1>2. ReportKept'
  BY DEF FillInv, ReportKept
<1>3. ErrorsKept'
  BY DEF FillInv, ErrorsKept
<1> QED BY <1>1, <1>2, <1>3

\* A step that puts nothing.
LEMMA SinkStays ==
  ASSUME FillInv, UNCHANGED <<req, truth, actors, sink>>, ~ Refused, ~ Refused',
         pc' # "lint", Due' = Due
  PROVE  SinkKept'
BY DEF FillInv, SinkKept, SinkHolds, Resides, LinesTrue, LinesThere, IsLine

\* A step that puts one pair that is due now.
LEMMA SinkPuts ==
  ASSUME IInv, FillInv, UNCHANGED <<req, truth, actors>>,
         pc \notin {"lint", "done"}, pc' \notin {"lint", "done"},
         NEW src, NEW dst, NEW v, Put(src, dst, v),
         <<src, dst>> \in DOMAIN truth \ Due, v = truth[<<src, dst>>],
         Due' = Due \cup {<<src, dst>>}
  PROVE  SinkKept' /\ [Promise!MNext]_(Promise!mvars)
<1>1. req \in Requests /\ req.stream \in BOOLEAN /\ sink.broken \in BOOLEAN
      /\ sink.file \in Seq(Cells(req))
  BY Built DEF IInv, Shape, TypeOK, Cells, Verdict
<1>2. \A q \in DOMAIN truth : IsPair(q)
  <2>1. truth = Truth(req, BuildActors(req))
    BY DEF FillInv, TruthKept
  <2>2. \A q \in DOMAIN Truth(req, BuildActors(req)) : IsPair(q)
    BY <1>1, TruthIs
  <2> QED BY <2>1, <2>2
<1>3. SinkHolds(sink, Due) /\ ~ Refused /\ ~ Refused'
  BY DEF FillInv, SinkKept, Refused
<1>4. /\ SinkHolds(sink', Due \cup {<<src, dst>>})
      /\ sink' = [m |-> sink'.m, file |-> sink'.file, broken |-> sink'.broken]
  BY <1>1, <1>2, <1>3, PutHolds
<1>5. SinkHolds(sink, Due)'
  <2>1. SinkHolds(sink', Due')
    BY <1>4
  <2> QED BY <2>1 DEF SinkHolds, Resides, LinesTrue, LinesThere, IsLine
<1>6. SinkKept'
  BY <1>3, <1>4, <1>5 DEF SinkKept
<1>7. [Promise!MNext]_(Promise!mvars)
  BY <1>1, <1>2, <1>3, PutSim
<1> QED BY <1>6, <1>7

\* Either loop over the actors, when what it puts is evalFlow's verdict.
LEMMA ListLoopFill ==
  ASSUME IInv, FillInv, pc \in {"exact", "expand"},
         UNCHANGED <<req, truth, actors, classes, resp>>,
         NEW v, Running(Len(actors.list), Len(actors.list)) =>
                  /\ IF Row = Col THEN UNCHANGED sink ELSE Put(Row, Col, v)
                  /\ Step(Len(actors.list)) /\ UNCHANGED pc
                  /\ Row # Col => v = Word(EvalFlow(req, actors, Row, Col)),
         ~ Running(Len(actors.list), Len(actors.list)) =>
                  EndLoop("services") /\ UNCHANGED sink
  PROVE  FillInv' /\ [Promise!MNext]_(Promise!mvars)
<1> DEFINE n == Len(actors.list)
<1>1. /\ req \in Requests /\ actors = BuildActors(req) /\ req.pairs = <<>>
      /\ at \in Positions
  BY DEF IInv, Shape, ActorsBuilt, TypeOK, FillInv, ModeKept, Positions
<1>2. /\ n \in Nat /\ DOMAIN actors.list = 1..n
      /\ Distinct(actors.list)
      /\ Len(req.services) \in Nat /\ DOMAIN req.services = 1..Len(req.services)
      /\ Len(req.pairs) \in Nat /\ DOMAIN req.pairs = 1..Len(req.pairs)
      /\ Range(actors.list) \cap ServiceCols(req) = {}
  BY <1>1, Built
<1>3. /\ DOMAIN truth = WholeSquare(actors) \cup (Range(actors.list) \X ServiceCols(req))
      /\ \A q \in DOMAIN truth : truth[q] = Word(Reaches(req, actors, q[1], q[2]))
  BY <1>1, TruthIs DEF FillInv, TruthKept
<1>4. Due = Square(actors, at) /\ (at[2] = 1 \/ at[2] <= n) /\ ~ Refused
  BY DEF Due, FillInv, Placed, Refused
<1>5. CASE Running(n, n)
  <2> DEFINE cell == <<Row, Col>>
  <2>1. at[1] <= n /\ at[2] <= n /\ pc' = pc
        /\ at' = Advanced(at, n)
    BY <1>5 DEF Running, Step, Advanced
  <2>2. /\ cell \notin Square(actors, at)
        /\ Row # Col =>
             cell \in WholeSquare(actors) /\ Square(actors, at') = Square(actors, at) \cup {cell}
        /\ Row = Col => Square(actors, at') = Square(actors, at)
    <3>1. DOMAIN actors.list = 1..n /\ n \in Nat
      BY <1>2
    <3> HIDE DEF n
    <3>2. SquareGrows(actors, at, at', Row, Col)
      BY <1>1, <1>2, <2>1, <3>1, SquareStep DEF Row, Col
    <3> QED BY <3>2 DEF SquareGrows
  <2>3. Due' = Square(actors, at') /\ ~ Refused' /\ pc' # "lint"
    BY <2>1 DEF Due, Refused
  <2>4. SinkKept' /\ [Promise!MNext]_(Promise!mvars)
    <3>1. CASE Row = Col
      <4>1. UNCHANGED sink /\ Due' = Due
        BY <1>4, <1>5, <2>2, <2>3, <3>1
      <4>2. SinkKept'
        BY <1>4, <2>3, <4>1, SinkStays
      <4> QED BY <2>1, <4>1, <4>2, StaySim
    <3>2. CASE Row # Col
      <4>1. cell \in DOMAIN truth \ Due /\ Due' = Due \cup {cell}
        BY <1>3, <1>4, <2>2, <2>3, <3>2
      <4>2. Col \notin ServiceCols(req)
        BY <1>2, <2>2, <3>2 DEF WholeSquare
      <4>3. v = truth[cell]
        BY <1>3, <1>5, <3>2, <4>1, <4>2 DEF Reaches
      <4>4. Put(Row, Col, v)
        BY <1>5, <3>2
      <4> HIDE DEF Row, Col
      <4> QED BY <2>1, <4>1, <4>3, <4>4, SinkPuts
    <3> QED BY <3>1, <3>2
  <2>5. Placed'
    <3>1. at'[2] = 1 \/ at'[2] <= n
      BY <1>1, <1>2, <2>1 DEF Advanced, Positions
    <3> QED BY <2>1, <3>1 DEF Placed
  <2>6. ModeKept'
    BY <2>1 DEF FillInv, ModeKept
  <2>7. TruthKept' /\ ReportKept' /\ ErrorsKept'
    BY <2>1, RestKept
  <2> QED BY <2>4, <2>5, <2>6, <2>7 DEF FillInv
<1>6. CASE ~ Running(n, n)
  <2>1. pc' = "services" /\ at' = <<1, 1>> /\ UNCHANGED sink
    BY <1>6 DEF EndLoop
  <2>2. Square(actors, at) = WholeSquare(actors)
    BY <1>1, <1>2, <1>4, <1>6, SquareEnd DEF Running
  <2>3. Columns(req, actors, <<1, 1>>) = {}
    BY <1>2, FirstPosition
  <2>4. Due' = Due /\ ~ Refused'
    BY <1>4, <2>1, <2>2, <2>3 DEF Due, Refused
  <2>5. SinkKept'
    BY <1>4, <2>1, <2>4, SinkStays
  <2>6. Placed' /\ ModeKept'
    BY <1>1, <2>1 DEF Placed, ModeKept
  <2>7. TruthKept' /\ ReportKept' /\ ErrorsKept'
    BY <2>1, RestKept
  <2>8. [Promise!MNext]_(Promise!mvars)
    BY <2>1, StaySim
  <2> QED BY <2>5, <2>6, <2>7, <2>8 DEF FillInv
<1> QED BY <1>5, <1>6

\* A requested pair is put when the loop is first at it.
LEMMA FillPairsFill ==
  ASSUME IInv, FillInv, FillPairs
  PROVE  FillInv' /\ [Promise!MNext]_(Promise!mvars)
<1>1. /\ req \in Requests /\ actors = BuildActors(req) /\ req.pairs # <<>>
      /\ at \in Positions /\ pc = "pairs" /\ UNCHANGED <<req, truth, actors, classes, resp>>
  BY DEF IInv, Shape, ActorsBuilt, TypeOK, FillInv, ModeKept, Positions, FillPairs
<1>2. /\ DOMAIN truth = Asked(req, actors)
      /\ \A q \in DOMAIN truth : truth[q] = Word(Reaches(req, actors, q[1], q[2]))
  BY <1>1, TruthIs DEF FillInv, TruthKept
<1>3. Due = Pairs(req, actors, at) /\ at[2] = 1 /\ ~ Refused
  BY <1>1 DEF Due, FillInv, Placed, Refused
<1> DEFINE src == req.pairs[at[1]][1]
           dst == req.pairs[at[1]][2]
<1>4. CASE Running(Len(req.pairs), 1)
  <2>1. /\ at[1] <= Len(req.pairs) /\ pc' = pc /\ at' = <<at[1] + 1, 1>>
        /\ IF Skipped(at[1]) THEN UNCHANGED sink ELSE Put(src, dst, Word(PairAllows(src, dst)))
    BY <1>1, <1>3, <1>4 DEF FillPairs, Running, Step
  <2>2. PairsGrow(req, actors, at, at', src, dst)
    BY <1>1, <2>1, PairStep
  <2>3. Due' = Pairs(req, actors, at') /\ ~ Refused' /\ pc' # "lint"
    BY <1>1, <2>1 DEF Due, Refused
  <2>4. SinkKept' /\ [Promise!MNext]_(Promise!mvars)
    <3>1. CASE Skipped(at[1])
      <4>1. UNCHANGED sink /\ Due' = Due
        BY <1>3, <2>1, <2>2, <2>3, <3>1 DEF PairsGrow
      <4>2. SinkKept'
        BY <1>1, <1>3, <2>3, <4>1, SinkStays
      <4> QED BY <1>1, <2>1, <4>1, <4>2, StaySim
    <3>2. CASE ~ Skipped(at[1])
      <4>1. <<src, dst>> \in DOMAIN truth \ Due /\ Due' = Due \cup {<<src, dst>>}
        BY <1>2, <1>3, <2>2, <2>3, <3>2 DEF PairsGrow
      <4>2. Word(PairAllows(src, dst)) = truth[<<src, dst>>]
        <5>1. truth[<<src, dst>>] = Word(Reaches(req, actors, src, dst))
          BY <1>2, <4>1
        <5> QED BY <5>1 DEF Reaches, PairAllows
      <4> HIDE DEF src, dst
      <4>3. Put(src, dst, Word(PairAllows(src, dst)))
        BY <2>1, <3>2
      <4> QED BY <1>1, <2>1, <4>1, <4>2, <4>3, SinkPuts
    <3> QED BY <3>1, <3>2
  <2>5. Placed'
    BY <1>1, <2>1 DEF Placed
  <2>6. ModeKept'
    BY <1>1, <2>1 DEF FillInv, ModeKept
  <2>7. TruthKept' /\ ReportKept' /\ ErrorsKept'
    BY <1>1, <2>1, RestKept
  <2> QED BY <2>4, <2>5, <2>6, <2>7 DEF FillInv
<1>5. CASE ~ Running(Len(req.pairs), 1)
  <2>1. pc' = "report" /\ at' = <<1, 1>> /\ UNCHANGED sink
    BY <1>5 DEF FillPairs, EndLoop
  <2>2. Pairs(req, actors, at) = Asked(req, actors)
    BY <1>1, <1>3, <1>5, PairEnd DEF Running
  <2>3. Due' = Due /\ ~ Refused'
    BY <1>1, <1>2, <1>3, <2>1, <2>2 DEF Due, Refused
  <2>4. SinkKept'
    BY <1>1, <1>3, <2>1, <2>3, SinkStays
  <2>5. Placed' /\ ModeKept'
    BY <2>1 DEF Placed, ModeKept
  <2>6. TruthKept' /\ ReportKept' /\ ErrorsKept'
    BY <1>1, <2>1, RestKept
  <2>7. [Promise!MNext]_(Promise!mvars)
    BY <1>1, <2>1, StaySim
  <2> QED BY <2>4, <2>5, <2>6, <2>7 DEF FillInv
<1> QED BY <1>4, <1>5

\* A cell of a Service column is put when the loop is at it.
LEMMA AddServiceColumnFill ==
  ASSUME IInv, FillInv, AddServiceColumn
  PROVE  FillInv' /\ [Promise!MNext]_(Promise!mvars)
<1> DEFINE n == Len(actors.list)
           m == Len(req.services)
<1>1. /\ req \in Requests /\ actors = BuildActors(req) /\ req.pairs = <<>>
      /\ at \in Positions /\ pc = "services" /\ UNCHANGED <<req, truth, actors, classes, resp>>
  BY DEF IInv, Shape, ActorsBuilt, TypeOK, FillInv, ModeKept, Positions, AddServiceColumn
<1>2. /\ n \in Nat /\ DOMAIN actors.list = 1..n /\ Distinct(actors.list)
      /\ m \in Nat /\ DOMAIN req.services = 1..m /\ DistinctCols(req)
      /\ Range(actors.list) \cap ServiceCols(req) = {}
  BY <1>1, Built
<1>3. /\ DOMAIN truth = WholeSquare(actors) \cup (Range(actors.list) \X ServiceCols(req))
      /\ truth = Truth(req, actors)
  BY <1>1, TruthIs DEF FillInv, TruthKept
<1>4. /\ Due = WholeSquare(actors) \cup Columns(req, actors, at)
      /\ (at[2] = 1 \/ at[2] <= n) /\ ~ Refused
  BY <1>1 DEF Due, FillInv, Placed, Refused
<1>5. CASE Running(m, n)
  <2> DEFINE src == actors.list[at[2]]
             svc == req.services[at[1]]
             v   == Word(\E b \in BackendIds(req, svc) : b = src \/ Resident(src, b))
  <2>1. at[1] <= m /\ at[2] <= n /\ pc' = pc /\ at' = Advanced(at, n) /\ Put(src, svc.col, v)
    BY <1>1, <1>5 DEF AddServiceColumn, Running, Step, Advanced
  <2>2. ColumnsGrow(req, actors, at, at', src, svc.col)
    <3> HIDE DEF n, m
    <3> QED BY <1>1, <1>2, <2>1, ColumnStep
  <2>3. Due' = WholeSquare(actors) \cup Columns(req, actors, at') /\ ~ Refused' /\ pc' # "lint"
    BY <1>1, <2>1 DEF Due, Refused
  <2>4. svc \in Range(req.services) /\ src \in Range(actors.list)
    BY <1>1, <1>2, <2>1 DEF Range, Positions
  <2>5. SinkHolds(sink, Due) /\ WholeSquare(actors) \subseteq Due
    BY <1>4 DEF FillInv, SinkKept
  <2>6. v = truth[<<src, svc.col>>]
    <3> HIDE DEF src, svc
    <3>1. truth[<<src, svc.col>>] =
            Word(\E b \in BackendIds(req, svc) : b = src \/ Resident(src, b))
      BY <1>1, <1>3, <2>4, <2>5, ServiceExact
    <3> QED BY <3>1
  <2>7. <<src, svc.col>> \notin WholeSquare(actors)
    BY <1>2, <2>4 DEF WholeSquare, ServiceCols
  <2>8. <<src, svc.col>> \in DOMAIN truth \ Due /\ Due' = Due \cup {<<src, svc.col>>}
    BY <1>3, <1>4, <2>2, <2>3, <2>7 DEF ColumnsGrow
  <2>9. SinkKept' /\ [Promise!MNext]_(Promise!mvars)
    <3> HIDE DEF src, svc, v
    <3> QED BY <1>1, <2>1, <2>6, <2>8, SinkPuts
  <2>10. Placed'
    <3>1. at'[2] = 1 \/ at'[2] <= n
      BY <1>1, <1>2, <2>1 DEF Advanced, Positions
    <3> QED BY <1>1, <2>1, <3>1 DEF Placed
  <2>11. ModeKept'
    BY <1>1, <2>1 DEF FillInv, ModeKept
  <2>12. TruthKept' /\ ReportKept' /\ ErrorsKept'
    BY <1>1, <2>1, RestKept
  <2> QED BY <2>9, <2>10, <2>11, <2>12 DEF FillInv
<1>6. CASE ~ Running(m, n)
  <2>1. pc' = "report" /\ at' = <<1, 1>> /\ UNCHANGED sink
    BY <1>6 DEF AddServiceColumn, EndLoop
  <2>2. Columns(req, actors, at) = Range(actors.list) \X ServiceCols(req)
    <3>1. ~ (at[1] <= m /\ at[2] <= n)
      BY <1>6 DEF Running
    <3> HIDE DEF n, m
    <3> QED BY <1>1, <1>2, <1>4, <3>1, ColumnEnd
  <2>3. Due' = Due /\ ~ Refused'
    BY <1>1, <1>3, <1>4, <2>1, <2>2 DEF Due, Refused
  <2>4. SinkKept'
    BY <1>1, <1>4, <2>1, <2>3, SinkStays
  <2>5. Placed' /\ ModeKept'
    BY <2>1 DEF Placed, ModeKept
  <2>6. TruthKept' /\ ReportKept' /\ ErrorsKept'
    BY <1>1, <2>1, RestKept
  <2>7. [Promise!MNext]_(Promise!mvars)
    BY <1>1, <2>1, StaySim
  <2> QED BY <2>4, <2>5, <2>6, <2>7 DEF FillInv
<1> QED BY <1>5, <1>6

\* Lint ends the sweep with nothing put, or lets it go on.
LEMMA LintFill ==
  ASSUME IInv, FillInv, Lint
  PROVE  FillInv' /\ [Promise!MNext]_(Promise!mvars)
<1>1. pc = "lint" /\ UNCHANGED <<req, truth, actors, classes, at, sink>> /\ ~ Refused
  BY DEF Lint, Refused
<1>2. sink = [m |-> <<>>, file |-> <<>>, broken |-> FALSE] /\ SinkHolds(sink, {})
  BY <1>1 DEF FillInv, SinkKept, Due
<1>3. TruthKept'
  BY <1>1 DEF FillInv, TruthKept
<1>4. CASE pc' = "build" /\ UNCHANGED resp
  <2>1. SinkKept'
    BY <1>1, <1>2, <1>4 DEF SinkKept, SinkHolds, Resides, LinesTrue, LinesOnce, LinesThere,
                            Due, Refused
  <2>2. Placed' /\ ModeKept'
    BY <1>1, <1>4 DEF FillInv, Placed, ModeKept
  <2>3. ReportKept' /\ ErrorsKept'
    BY <1>1, <1>4 DEF FillInv, ReportKept, ErrorsKept
  <2>4. [Promise!MNext]_(Promise!mvars)
    BY <1>1, <1>4, StaySim
  <2> QED BY <1>3, <2>1, <2>2, <2>3, <2>4 DEF FillInv
<1>5. CASE pc' = "done" /\ resp' = [resp EXCEPT !.errors = {"lint"},
                                      !.matrix = IF req.stream THEN NoMatrix ELSE <<>>]
  <2>1. resp'.errors = {"lint"} /\ resp'.actors = resp.actors
    BY <1>5 DEF IInv, Shape
  <2>2. Refused'
    BY <1>5, <2>1 DEF Refused
  <2>3. SinkKept'
    BY <1>1, <1>2, <2>2 DEF SinkKept
  <2>4. Placed' /\ ModeKept'
    BY <1>5 DEF Placed, ModeKept
  <2>5. ReportKept' /\ ErrorsKept'
    BY <1>1, <1>5, <2>1, <2>2 DEF FillInv, ReportKept, ErrorsKept
  <2>6. Reported' = Reported /\ Status = "running" /\ Status' = "failed"
    BY <1>1, <1>5, <2>1 DEF Reported, Lines, Status
  <2>7. Promise!Fail
    BY <1>1, <2>6 DEF Promise!Fail
  <2> QED BY <1>3, <2>3, <2>4, <2>5, <2>7 DEF FillInv, Promise!MNext
<1> QED BY <1>4, <1>5 DEF Lint

\* Building the actors begins whichever loop the request calls for.
LEMMA BuildFill ==
  ASSUME IInv, FillInv, Build
  PROVE  FillInv' /\ [Promise!MNext]_(Promise!mvars)
<1>1. /\ pc = "build" /\ UNCHANGED <<req, truth, classes, at, sink>> /\ req \in Requests
      /\ pc' \in {"pairs", "group", "exact"} /\ actors' = BuildActors(req)
      /\ pc' = IF req.pairs # <<>> THEN "pairs"
               ELSE IF HepIds(req) = {} /\ ~req.noCollapse THEN "group" ELSE "exact"
  BY DEF Build, IInv, Shape
<1>2. resp'.actors = resp.actors /\ (resp'.errors = resp.errors \/ resp'.errors = resp.errors \cup {"feed"})
  BY DEF Build, IInv, Shape
<1>3. TruthKept'
  BY <1>1 DEF FillInv, TruthKept
<1>4. at = <<1, 1>> /\ ~ Refused /\ ~ Refused'
  BY <1>1 DEF FillInv, Placed, Refused
<1>5. Due' = {}
  <2> DEFINE b == BuildActors(req)
  <2>1. /\ Len(b.list) \in Nat /\ DOMAIN b.list = 1..Len(b.list)
        /\ Len(req.services) \in Nat /\ DOMAIN req.services = 1..Len(req.services)
        /\ Len(req.pairs) \in Nat /\ DOMAIN req.pairs = 1..Len(req.pairs)
    BY <1>1, Built
  <2> HIDE DEF b
  <2>2. Square(b, <<1, 1>>) = {} /\ Pairs(req, b, <<1, 1>>) = {}
    BY <2>1, FirstPosition
  <2> QED BY <1>1, <1>4, <2>2 DEF Due, b
<1>6. SinkHolds(sink, {})
  BY <1>1, <1>4 DEF FillInv, SinkKept, Due
<1>7. SinkHolds(sink, Due)'
  BY <1>1, <1>5, <1>6 DEF SinkHolds, Resides, LinesTrue, LinesOnce, LinesThere
<1>8. SinkKept'
  BY <1>1, <1>4, <1>7 DEF FillInv, SinkKept
<1>9. Placed' /\ ModeKept'
  BY <1>1, <1>4 DEF Placed, ModeKept
<1>10. ReportKept'
  BY <1>1, <1>2 DEF FillInv, ReportKept
<1>11. ErrorsKept'
  BY <1>1, <1>2 DEF FillInv, ErrorsKept
<1>12. [Promise!MNext]_(Promise!mvars)
  BY <1>1, StaySim
<1> QED BY <1>3, <1>8, <1>9, <1>10, <1>11, <1>12 DEF FillInv

\* Grouping the actors and asking for their classes puts nothing.
LEMMA CollapseFill ==
  ASSUME IInv, FillInv, GroupActors \/ EvaluateClasses
  PROVE  FillInv' /\ [Promise!MNext]_(Promise!mvars)
<1>1. /\ pc \in {"group", "classes"} /\ pc' \in {"classes", "expand"}
      /\ UNCHANGED <<req, truth, actors, at, sink, resp>> /\ req \in Requests
      /\ actors = BuildActors(req)
  BY DEF GroupActors, EvaluateClasses, IInv, Shape, ActorsBuilt
<1>2. at = <<1, 1>> /\ ~ Refused /\ ~ Refused' /\ Due = {}
  BY <1>1 DEF FillInv, Placed, Refused, Due
<1>3. Due' = Due
  <2>1. Square(actors, <<1, 1>>) = {}
    BY <1>1, Built, FirstPosition
  <2> QED BY <1>1, <1>2, <2>1 DEF Due
<1>4. SinkKept'
  BY <1>1, <1>2, <1>3, SinkStays
<1>5. Placed' /\ ModeKept'
  BY <1>1, <1>2 DEF FillInv, Placed, ModeKept
<1>6. TruthKept' /\ ReportKept' /\ ErrorsKept'
  BY <1>1, RestKept
<1>7. [Promise!MNext]_(Promise!mvars)
  BY <1>1, StaySim
<1> QED BY <1>4, <1>5, <1>6, <1>7 DEF FillInv

\* The posture is read back from verdicts that are resident and true.
LEMMA BuildActorReportFill ==
  ASSUME IInv, FillInv, BuildActorReport
  PROVE  FillInv' /\ [Promise!MNext]_(Promise!mvars)
<1>1. /\ pc = "report" /\ pc' = "flush" /\ req \in Requests /\ actors = BuildActors(req)
      /\ UNCHANGED <<req, truth, actors, classes, at, sink>>
  BY DEF BuildActorReport, IInv, Shape, ActorsBuilt
<1>2. /\ resp'.errors = resp.errors
      /\ resp'.actors = [k \in DOMAIN actors.list |->
           [id |-> actors.list[k], kind |-> ActorKind(actors.byId[actors.list[k]]),
            node |-> actors.byId[actors.list[k]].node, internet |-> Internet(actors.list[k])]]
  BY DEF BuildActorReport, IInv, Shape
<1>3. TruthKept' /\ truth = Truth(req, actors)
  BY <1>1 DEF FillInv, TruthKept
<1>4. ~ Refused /\ ~ Refused' /\ Due = DOMAIN truth /\ Due' = Due
  BY <1>1 DEF Refused, Due
<1>5. SinkKept' /\ SinkHolds(sink, DOMAIN truth)
  BY <1>1, <1>4, SinkStays DEF FillInv, SinkKept
<1>6. ASSUME NEW k \in DOMAIN resp'.actors PROVE PostureIs(k)'
  <2> DEFINE i == actors.list[k]
             a == resp'.actors[k]
  <2>1. a.id = i /\ a.kind = ActorKind(actors.byId[i]) /\ a.internet = Internet(i)
        /\ i \in Range(actors.list)
    BY <1>2, <1>6 DEF Range
  <2>2. i \in Externals(actors) <=> a.kind = "external"
    BY <2>1 DEF Externals
  <2>3. ASSUME req.pairs = <<>>, i \notin Externals(actors), NEW e \in Externals(actors)
        PROVE  Resident(i, e) <=> truth[<<i, e>>] = "allow"
    <3>1. <<i, e>> \in WholeSquare(actors)
      BY <2>1, <2>3 DEF Externals, WholeSquare
    <3>2. <<i, e>> \in DOMAIN truth
      <4>1. DOMAIN Truth(req, actors)
              = WholeSquare(actors) \cup (Range(actors.list) \X ServiceCols(req))
        BY <1>1, <2>3, TruthIs
      <4> QED BY <1>3, <3>1, <4>1
    <3>3. e \in KeepSet(req, actors)
      BY <2>3 DEF KeepSet
    <3> HIDE DEF i
    <3> QED BY <1>5, <3>2, <3>3, ResidentIs
  <2>4. a.internet = IF req.pairs = <<>> /\ a.kind # "external" /\ Externals(actors) # {}
                     THEN Word(\E e \in Externals(actors) : truth[<<i, e>>] = "allow") ELSE ""
    <3> HIDE DEF i, a
    <3> QED BY <2>1, <2>2, <2>3 DEF Internet, Word
  <2> HIDE DEF i
  <2> QED BY <1>1, <2>1, <2>4 DEF PostureIs
<1>7. ReportKept'
  BY <1>1, <1>6 DEF ReportKept
<1>8. ErrorsKept'
  BY <1>1, <1>2 DEF FillInv, ErrorsKept
<1>9. Placed' /\ ModeKept'
  BY <1>1 DEF Placed, ModeKept
<1>10. [Promise!MNext]_(Promise!mvars)
  BY <1>1, StaySim
<1> QED BY <1>3, <1>5, <1>7, <1>8, <1>9, <1>10 DEF FillInv

\* The sweep completes with every pair reported, or fails with the writer.
LEMMA FlushFill ==
  ASSUME IInv, FillInv, Flush
  PROVE  FillInv' /\ [Promise!MNext]_(Promise!mvars)
<1>1. /\ pc = "flush" /\ pc' = "done" /\ req \in Requests /\ actors = BuildActors(req)
      /\ UNCHANGED <<req, truth, actors, classes, at, sink>>
  BY DEF Flush, IInv, Shape, ActorsBuilt
<1>2. /\ resp'.actors = resp.actors
      /\ resp'.errors = resp.errors \cup IF sink.broken THEN {"stream"} ELSE {}
      /\ resp.errors \subseteq {"feed"}
  BY <1>1 DEF Flush, IInv, Shape, FillInv, ErrorsKept
<1>3. TruthKept' /\ truth = Truth(req, actors)
  BY <1>1 DEF FillInv, TruthKept
<1>4. ~ Refused /\ ~ Refused' /\ Due = DOMAIN truth /\ Due' = Due
  BY <1>1, <1>2 DEF Refused, Due
<1>5. SinkKept' /\ SinkHolds(sink, DOMAIN truth)
  BY <1>1, <1>4, SinkStays DEF FillInv, SinkKept
<1>6. ReportKept'
  BY <1>1, <1>2 DEF FillInv, ReportKept, PostureIs
<1>7. ErrorsKept'
  BY <1>1, <1>2, <1>4 DEF ErrorsKept
<1>8. Placed' /\ ModeKept'
  BY <1>1 DEF Placed, ModeKept
<1>9. Reported' = Reported /\ Status = "running"
  BY <1>1 DEF Reported, Lines, Status
<1>10. CASE sink.broken
  <2>1. Status' = "failed"
    BY <1>1, <1>2, <1>10 DEF Status
  <2> QED BY <1>1, <1>3, <1>5, <1>6, <1>7, <1>8, <1>9, <2>1
          DEF FillInv, Promise!Fail, Promise!MNext
<1>11. CASE ~ sink.broken
  <2>1. Status' = "complete"
    BY <1>1, <1>2, <1>11 DEF Status
  <2>2. req.stream \in BOOLEAN /\ \A q \in DOMAIN truth : IsPair(q)
    <3>1. \A q \in DOMAIN Truth(req, actors) : IsPair(q)
      BY <1>1, TruthIs
    <3> QED BY <1>1, <1>3, <3>1, Built
  <2>3. ReportedBy(sink) = [p \in ShownBy(sink) |-> truth[p]] /\ ShownBy(sink) = DOMAIN truth
    BY <1>5, <1>11, <2>2, ReportedIs
  <2>4. Reported = ReportedBy(sink)
    BY DEF Reported, ReportedBy, ShownBy, Lines
  <2>5. DOMAIN Reported = DOMAIN truth
    BY <2>3, <2>4
  <2> QED BY <1>1, <1>3, <1>5, <1>6, <1>7, <1>8, <1>9, <2>1, <2>5
          DEF FillInv, Promise!Complete, Promise!MNext
<1> QED BY <1>10, <1>11
-----------------------------------------------------------------------------
\* Every step keeps the invariant and is one of MatrixSpec's, or a stutter of it.
LEMMA NextFill ==
  IInv /\ FillInv /\ [Next]_vars => FillInv' /\ [Promise!MNext]_(Promise!mvars)
<1> SUFFICES ASSUME IInv, FillInv, [Next]_vars
             PROVE  FillInv' /\ [Promise!MNext]_(Promise!mvars)
  OBVIOUS
<1>1. CASE FillExact
  <2>1. pc = "exact" /\ UNCHANGED <<req, truth, actors, classes, resp>>
    BY <1>1 DEF FillExact
  <2>2. Running(Len(actors.list), Len(actors.list)) =>
          /\ IF Row = Col THEN UNCHANGED sink
             ELSE Put(Row, Col, Word(EvalFlow(req, actors, Row, Col)))
          /\ Step(Len(actors.list)) /\ UNCHANGED pc
    BY <1>1 DEF FillExact, ListLoop
  <2>3. ~ Running(Len(actors.list), Len(actors.list)) => EndLoop("services") /\ UNCHANGED sink
    BY <1>1 DEF FillExact, ListLoop
  <2> QED BY <2>1, <2>2, <2>3, ListLoopFill
<1>2. CASE Expand
  <2> DEFINE both == /\ classes.memo[<<classes.classOf[Row], classes.peerOf[Col], "out">>]
                     /\ classes.memo[<<classes.classOf[Col], classes.peerOf[Row], "in">>]
  <2>1. pc = "expand" /\ UNCHANGED <<req, truth, actors, classes, resp>>
    BY <1>2 DEF Expand
  <2>2. Running(Len(actors.list), Len(actors.list)) =>
          /\ IF Row = Col THEN UNCHANGED sink ELSE Put(Row, Col, Word(both))
          /\ Step(Len(actors.list)) /\ UNCHANGED pc
    BY <1>2 DEF Expand, ListLoop
  <2>3. ~ Running(Len(actors.list), Len(actors.list)) => EndLoop("services") /\ UNCHANGED sink
    BY <1>2 DEF Expand, ListLoop
  <2>4. ASSUME Running(Len(actors.list), Len(actors.list))
        PROVE  Word(both) = Word(EvalFlow(req, actors, Row, Col))
    <3>1. HepIds(req) = {}
      BY <2>1 DEF FillInv, ModeKept
    <3>2. actors.list \in Seq(DOMAIN actors.byId) /\ at \in Positions
      BY <2>1, BuiltActors DEF IInv, Shape, ActorsBuilt, TypeOK, Positions
    <3>3. Row \in Range(actors.list) /\ Col \in Range(actors.list)
      BY <2>4, <3>2 DEF Running, Row, Col, Range, Positions
    <3>4. both <=> EvalFlow(req, actors, Row, Col)
      BY <2>1, <3>1, <3>3, ExpandExact
    <3> QED BY <3>4 DEF Word
  <2> HIDE DEF both
  <2> QED BY <2>1, <2>2, <2>3, <2>4, ListLoopFill
<1>3. CASE UNCHANGED vars
  <2>1. UNCHANGED <<req, pc, actors, at, sink, resp, truth>>
    BY <1>3 DEF vars
  <2>2. FillInv'
    <3>1. SinkKept'
      BY <2>1 DEF FillInv, SinkKept, SinkHolds, Resides, LinesTrue, LinesThere, IsLine, Due, Refused
    <3>2. TruthKept' /\ Placed' /\ ModeKept'
      BY <2>1 DEF FillInv, TruthKept, Placed, ModeKept
    <3>3. ReportKept' /\ ErrorsKept'
      BY <2>1 DEF FillInv, ReportKept, PostureIs, ErrorsKept, Refused
    <3> QED BY <3>1, <3>2, <3>3 DEF FillInv
  <2>3. Reported' = Reported /\ Status' = Status
    BY <2>1 DEF Reported, Lines, Status
  <2> QED BY <2>1, <2>2, <2>3 DEF Promise!mvars
<1> QED BY <1>1, <1>2, <1>3, LintFill, BuildFill, CollapseFill, FillPairsFill,
           AddServiceColumnFill, BuildActorReportFill, FlushFill DEF Next

\* Both invariants hold in every state.
LEMMA SpecFill == Spec => [](IInv /\ FillInv)
<1>1. Init => IInv /\ FillInv
  BY InitIInv, InitFill
<1>2. (IInv /\ FillInv) /\ [Next]_vars => (IInv /\ FillInv)'
  BY NextIInv, NextFill
<1> QED BY <1>1, <1>2, PTL DEF Spec

\* Whichever way the matrix is filled, for every set of requests, and with any lines
\* lost to a failing writer: verdicts appear one at a time, each true and never twice,
\* and a sweep that ends without an error has reported every pair it was asked for.
THEOREM SweepImplementsMatrixSpec == Spec => ImplementsMatrixSpec
<1>1. Init => Promise!MInit
  BY InitFill
<1>2. (IInv /\ FillInv) /\ [Next]_vars => [Promise!MNext]_(Promise!mvars)
  BY NextFill
<1> QED BY <1>1, <1>2, SpecFill, PTL DEF Spec, ImplementsMatrixSpec, Promise!MSpec

\* In every sweep the stream has at most one line for a pair.
THEOREM SweepOneLine == Spec => []OneLinePerPair
<1>1. FillInv => OneLinePerPair
  <2> SUFFICES ASSUME FillInv PROVE OneLinePerPair
    OBVIOUS
  <2>1. LinesOnce(sink.file)
    BY DEF FillInv, SinkKept, SinkHolds, LinesOnce
  <2> QED BY <2>1 DEF OneLinePerPair, LinesOnce, SameCell
<1> QED BY <1>1, SpecFill, PTL

\* In every sweep the posture in the actor report is the truth about the externals.
THEOREM SweepInternetPosture == Spec => []InternetPosture
<1>1. FillInv => InternetPosture
  BY DEF FillInv, ReportKept, PostureIs, InternetPosture
<1> QED BY <1>1, SpecFill, PTL
=============================================================================
