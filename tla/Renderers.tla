------------------------------ MODULE Renderers ------------------------------
(***************************************************************************)
(* What is read off the graph besides the matrix (provider/calico):        *)
(* the rules of an endpoint's eBPF program and the tree that shows them    *)
(* (bpf.go), the filter chains of iptables and nftables (iptables.go), and *)
(* which tiers and policies select an endpoint (tiermatch.go).             *)
(*                                                                         *)
(* g is a graph as Feed builds it.  The policies of a program are records  *)
(* of the id and the rules of the direction.                               *)
(***************************************************************************)
EXTENDS Feed

KindIsStaged(id) == id[1] \in StagedKinds
-----------------------------------------------------------------------------
(* polprogRules *)

\* Variant: a tier with staged policies only ends like any other.
TierEnd_Always(tier, live) == IF tier.default # "pass" THEN "deny" ELSE "pass"

\* A tier that has only staged policies passes, whatever its default action.
TierEnd(tier, live) == IF live # <<>> /\ tier.default # "pass" THEN "deny" ELSE "pass"

PolprogTier(tier, dir, store) ==
  LET ids  == TierPolicies(tier, dir)
      live == Kept(ids, {i \in DOMAIN ids : ~KindIsStaged(ids[i]) /\ ids[i] \in DOMAIN store.policies})
  IN  [name     |-> tier.name,
       policies |-> [i \in DOMAIN live |-> [id |-> live[i], rules |-> store.policies[live[i]][dir]]],
       end      |-> TierEnd(tier, live)]

PolprogRules(wep, dir, store) ==
  LET tiers    == Kept(wep.tiers, {i \in DOMAIN wep.tiers : TierPolicies(wep.tiers[i], dir) # <<>>})
      profiles == Kept(wep.profiles, {i \in DOMAIN wep.profiles : wep.profiles[i] \in DOMAIN store.profiles})
  IN  [tiers    |-> [i \in DOMAIN tiers |-> PolprogTier(tiers[i], dir, store)],
       profiles |-> [i \in DOMAIN profiles |->
                       [id |-> profiles[i], rules |-> store.profiles[profiles[i]][dir]]]]

\* The compiled program, at one packet: ICMP is matched as the rules say it.
PolicyRun(member, policy, f, icmp) ==
  FirstOf([i \in DOMAIN policy.rules |->
             IF /\ Matches(member, policy.rules[i], f)
                /\ RuleICMPMatchesProbe(policy.rules[i], icmp)
             THEN policy.rules[i].action ELSE "none"], "none")

PoliciesRun(member, policies, f, icmp) ==
  FirstOf([i \in DOMAIN policies |-> PolicyRun(member, policies[i], f, icmp)], "none")

TierRun(member, tier, f, icmp) ==
  LET decided == PoliciesRun(member, tier.policies, f, icmp)
  IN  IF decided = "none" THEN tier.end ELSE decided

ProgramAllows(member, prog, f, icmp) ==
  LET decided == FirstOf([i \in DOMAIN prog.tiers |-> TierRun(member, prog.tiers[i], f, icmp)],
                         "pass")
  IN  (IF decided = "pass" THEN PoliciesRun(member, prog.profiles, f, icmp) ELSE decided) = "allow"
-----------------------------------------------------------------------------
(* collectFilterChains, for the endpoints in matched; filtering is whether *)
(* some were asked for.  A chain is a pair of what it is for and its id.   *)

\* Variant: only the ingress policies of an endpoint are looked up.
TiersPolicies_Ingress(wep) == UNION {Range(wep.tiers[i].ingress) : i \in DOMAIN wep.tiers}

TiersPolicies(wep) ==
  UNION {Range(wep.tiers[i].ingress) \cup Range(wep.tiers[i].egress) : i \in DOMAIN wep.tiers}

\* The key under which a policy is looked up has no kind.
PolicyIDKey(id) == <<id[2], id[3]>>

PolicyChains(g, matched, filtering) ==
  LET ref == {PolicyIDKey(id) : id \in UNION {TiersPolicies(g.wepById[e]) : e \in matched}}
  IN  {id \in DOMAIN g.store.policies : filtering => PolicyIDKey(id) \in ref}

ProfileChains(g, matched, filtering) ==
  LET ref == UNION {Range(g.wepById[e].profiles) : e \in matched}
  IN  {p \in DOMAIN g.store.profiles : filtering => p \in ref}

\* protoTiersToGroups, and Felix: the chain of an endpoint jumps to every policy of its
\* tiers that is not staged, and to its profiles.
JumpedTo(wep) ==
  {id \in UNION {Range(TierPolicies(wep.tiers[i], dir)) :
                   i \in DOMAIN wep.tiers, dir \in Directions} : ~KindIsStaged(id)}
-----------------------------------------------------------------------------
(* ResolveTierMatches *)

\* The view shows staged policies, and no probe: the request is built as it is.
TierView(raw) == BuildGraph([raw EXCEPT !.staged = TRUE], NoIcmp)

\* collectTierPolicies.
TierMatch(wep) ==
  [tiers    |-> Kept(wep.tiers, {i \in DOMAIN wep.tiers :
                                   wep.tiers[i].ingress \o wep.tiers[i].egress # <<>>}),
   policies |-> TiersPolicies(wep)]
=============================================================================
