------------------------------ MODULE Collapse ------------------------------
(***************************************************************************)
(* Equivalence-class collapse of the connectivity matrix                   *)
(* (provider/calico/collapse.go): the IP-membership probes of a set of     *)
(* rules, the signature of an address under them, the fingerprint of an    *)
(* endpoint as a policy owner, and the two ways endpoints are grouped.     *)
(*                                                                         *)
(* An actor is a record with at least ip, unpoliced and normal, its        *)
(* applied policy [tiers, profiles] (normalWEP).  A bundle b has the       *)
(* sequence b.list of actor ids and their records b.byId.                  *)
(***************************************************************************)
EXTENDS Checker, Functions

\* Variant: visit forgets the negated sets.
RuleProbes_NoNegated(rule) ==
  UNION {rule.src.all, rule.src.any, rule.dst.all, rule.dst.any}

\* The sets one rule consults, on either side (visit): every field of it.
RuleProbes(rule) ==
  UNION {rule.src.all, rule.src.none, rule.src.any,
         rule.dst.all, rule.dst.none, rule.dst.any}

RulesProbes(rules) == UNION {RuleProbes(rules[i]) : i \in DOMAIN rules}

\* Both directions of the rule lists of one policy or profile.
BodyProbes(body) == RulesProbes(body.in) \cup RulesProbes(body.out)

\* collectPeerProbes: every policy and profile of the store.
PeerProbes(store) ==
  UNION ({BodyProbes(store.policies[p]) : p \in DOMAIN store.policies}
           \cup {BodyProbes(store.profiles[p]) : p \in DOMAIN store.profiles})

\* collectOwnerProbes: only what the walk of this owner and direction can read.
OwnerProbes(store, ep, dir) ==
  UNION ({RulesProbes(store.policies[p][dir]) :
            p \in UNION {{TierPolicies(ep.tiers[i], dir)[k] :
                            k \in DOMAIN TierPolicies(ep.tiers[i], dir)} :
                          i \in DOMAIN ep.tiers}}
           \cup {RulesProbes(store.profiles[ep.profiles[i]][dir]) :
                   i \in DOMAIN ep.profiles})

\* The yes/no answers to the probes: those answered yes.
Sig(store, probes, ip) == {s \in probes : ip \in store.member[s]}

\* What the walk reads of the owner: all unpoliced owners are one class.
OwnerFingerprint(a) == IF a.unpoliced THEN <<>> ELSE <<a.normal>>

PeerKey(store, a)  == Sig(store, PeerProbes(store), a.ip)
ClassKey(store, a) == <<OwnerFingerprint(a), PeerKey(store, a)>>

\* ownerDirectionEvaluator: the flow put to the checker when owner meets peer.
OwnerFlow(owner, peer, dir) ==
  IF dir = "in" THEN Flow(peer.ip, owner.ip) ELSE Flow(owner.ip, peer.ip)

OwnerVerdict(store, owner, peer, dir) ==
  owner.unpoliced \/ Walk(store, owner.normal, dir, OwnerFlow(owner, peer, dir))

\* groupActors: the class of each actor as a peer and as an owner; the first actor
\* of the list with a key represents it.
PeerOf(store, b)  == [i \in Range(b.list) |-> PeerKey(store, b.byId[i])]
ClassOf(store, b) == [i \in Range(b.list) |-> ClassKey(store, b.byId[i])]

FirstWith(list, keyOf, key) ==
  list[CHOOSE i \in DOMAIN list :
         /\ keyOf[list[i]] = key
         /\ \A j \in DOMAIN list : keyOf[list[j]] = key => i <= j]

\* evaluateClasses: the verdict of an owner class for a peer class.  The checker is
\* asked once for all the peers whose answers to this owner's own probes are the
\* same, and then about the first such peer.
ClassVerdict(store, b, peerOf, classOf, class, peer, dir) ==
  LET owner     == b.byId[FirstWith(b.list, classOf, class)]
      probes    == OwnerProbes(store, owner.normal, dir)
      answersOf == [i \in Range(b.list) |-> Sig(store, probes, b.byId[i].ip)]
      rep       == FirstWith(b.list, peerOf, peer)
      asked     == FirstWith(b.list, answersOf, answersOf[rep])
  IN  OwnerVerdict(store, owner, b.byId[asked], dir)
-----------------------------------------------------------------------------
\* What the graph sends refers only to policies and profiles it has sent too.
OwnerStored(store, ep) ==
  /\ \A i \in DOMAIN ep.tiers, dir \in Directions :
       \A k \in DOMAIN TierPolicies(ep.tiers[i], dir) :
         TierPolicies(ep.tiers[i], dir)[k] \in DOMAIN store.policies
  /\ \A i \in DOMAIN ep.profiles : ep.profiles[i] \in DOMAIN store.profiles

BundleStored(store, b) ==
  \A i \in Range(b.list) :
    b.byId[i].unpoliced \in BOOLEAN /\ OwnerStored(store, b.byId[i].normal)
=============================================================================
