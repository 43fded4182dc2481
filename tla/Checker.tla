------------------------------ MODULE Checker ------------------------------
(***************************************************************************)
(* The policy walk that provider/calico asks of Calico's app-policy        *)
(* checker (a library: checker.Evaluate over a policystore), and the       *)
(* verdict the provider reads off its trace.                               *)
(*                                                                         *)
(* One sweep has one probe: protocol, ports and HTTP attributes are the    *)
(* same for every flow, so a rule that the probe's protocol contradicts is *)
(* not in the store of the model, and a flow is the pair of addresses that *)
(* is left.  A policystore is a record                                     *)
(*   policies : [policy id -> [in, out : Seq(rule)]]                       *)
(*   profiles : [profile id -> [in, out : Seq(rule)]]                      *)
(*   member   : [set id -> set of addresses]                               *)
(* where a "set id" stands for an IP set, an ip-and-port set asked with    *)
(* the probe's port, or a CIDR.  A rule has an action and, for the source  *)
(* and for the destination, the sets that must all hold the address (all), *)
(* those of which none may (none), and those of which one must (any: the   *)
(* CIDR list and the named ports, no constraint when empty).               *)
(***************************************************************************)
EXTENDS Naturals, Sequences

Actions    == {"allow", "deny", "pass"}
Directions == {"in", "out"}

Flow(src, dst) == [src |-> src, dst |-> dst]

PeerMatches(member, peer, ip) ==
  /\ \A s \in peer.all  : ip \in member[s]
  /\ \A s \in peer.none : ip \notin member[s]
  /\ peer.any = {} \/ \E s \in peer.any : ip \in member[s]

Matches(member, rule, f) ==
  /\ PeerMatches(member, rule.src, f.src)
  /\ PeerMatches(member, rule.dst, f.dst)

\* The first element of s that is not skip, or skip when every one is.
FirstOf(s, skip) ==
  LET hits == {i \in DOMAIN s : s[i] # skip}
  IN  IF hits = {} THEN skip
      ELSE s[CHOOSE i \in hits : \A j \in hits : i <= j]

RulesOutcome(member, rules, f) ==
  FirstOf([i \in DOMAIN rules |->
             IF Matches(member, rules[i], f) THEN rules[i].action ELSE "none"],
          "none")

\* The policies of a tier that apply in a direction.
TierPolicies(tier, dir) == IF dir = "in" THEN tier.ingress ELSE tier.egress

\* A tier with no policy in the direction is not in the endpoint's path.  One
\* whose policies all miss takes its default action; "pass" is the next tier.
TierOutcome(store, tier, dir, f) ==
  LET ids     == TierPolicies(tier, dir)
      decided == FirstOf([i \in DOMAIN ids |->
                            RulesOutcome(store.member, store.policies[ids[i]][dir], f)],
                         "none")
  IN  IF ids = <<>> THEN "pass"
      ELSE IF decided = "none" THEN tier.default ELSE decided

ProfilesOutcome(store, ids, dir, f) ==
  FirstOf([i \in DOMAIN ids |->
             RulesOutcome(store.member, store.profiles[ids[i]][dir], f)],
          "none")

\* The last action of the trace of checker.Evaluate for the owner ep (its tiers
\* in order, then its profiles, then the implicit deny).
LastAction(store, ep, dir, f) ==
  LET decided == FirstOf([i \in DOMAIN ep.tiers |->
                            TierOutcome(store, ep.tiers[i], dir, f)], "pass")
  IN  IF decided # "pass" THEN decided
      ELSE ProfilesOutcome(store, ep.profiles, dir, f)

Walk(store, ep, dir, f) == LastAction(store, ep, dir, f) = "allow"
============================================================================
