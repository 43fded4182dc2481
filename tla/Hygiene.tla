------------------------------- MODULE Hygiene -------------------------------
(***************************************************************************)
(* The advice of the cost report that a rule is dead weight (api/cost.go): *)
(* it comes after one that matches everything and ends the policy, or it   *)
(* repeats an earlier one.  Read off the documents alone, without the      *)
(* graph; rules and documents are those of Feed.                           *)
(***************************************************************************)
EXTENDS Feed

AnyPeer == [all |-> {}, none |-> {}, any |-> {}]

\* Variant: a block on ICMP is not taken for a match.
IsMatchAll_Icmp(rule) == rule.src = AnyPeer /\ rule.dst = AnyPeer

IsMatchAll(rule) ==
  /\ rule.src = AnyPeer /\ rule.dst = AnyPeer
  /\ rule.icmp = NoIcmp /\ rule.notIcmp = NoIcmp

IsTerminalAction(rule) == rule.action \in {"allow", "deny"}

\* The rules after the first that matches everything and ends the policy.
Unreachable(rules) ==
  {n \in DOMAIN rules : \E i \in 1..(n - 1) : IsMatchAll(rules[i]) /\ IsTerminalAction(rules[i])}

Duplicates(rules) == {n \in DOMAIN rules : \E i \in 1..(n - 1) : rules[i] = rules[n]}

\* The rules of one direction without the ones the report has a finding for.
Trimmed(rules) == Kept(rules, DOMAIN rules \ (Unreachable(rules) \cup Duplicates(rules)))

\* ComputeCost looks at every document whose kind names a policy, staged or not.
WithoutDeadRules(d) ==
  IF d.kind \in PolicyKinds /\ d.ok
  THEN [d EXCEPT !.ingress = Trimmed(d.ingress), !.egress = Trimmed(d.egress)] ELSE d

Advised(raw) ==
  [raw EXCEPT !.documents = [i \in DOMAIN raw.documents |-> WithoutDeadRules(raw.documents[i])]]
=============================================================================
