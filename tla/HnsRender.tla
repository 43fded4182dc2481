----------------------------- MODULE HnsRender -----------------------------
(***************************************************************************)
(* How the list of Windows HNS ACLs of one endpoint and direction is made  *)
(* (renderHNSEndpoint of provider/calico/hns.go): the rules of its tiers   *)
(* are gathered, profiles appended when only they can decide, the tiers    *)
(* flattened into one list without pass, and priorities assigned.          *)
(*                                                                         *)
(* A rule is [action, unsupported, protocol, local, remote, lports,        *)
(* rports]; Any in a field is no match on it, otherwise protocol is a      *)
(* number and the others are sets.  An endpoint is [tiers, profiles]: its  *)
(* tiers in order, [name, defaultAction, policies, rules] with the rules   *)
(* of all its policies, and the rules of its profiles.  A packet has a     *)
(* value in every field.                                                   *)
(***************************************************************************)
EXTENDS Lists, Functions

CONSTANTS
  Endpoints,
  Packets,
  Protocols,
  Addresses,
  Any,            \* no match on a field
  MaxPort,        \* 65535
  BasePriority,   \* PolicyRuleBasePriority
  MaxPriority     \* PolicyRuleMaxPriority

ASSUME HnsAssumption ==
  BasePriority \in Nat /\ MaxPriority \in Nat /\ BasePriority < MaxPriority /\ MaxPort \in Nat

Some(S) == (SUBSET S) \ {{}}
Ports   == 0..MaxPort

Rules ==
  [action : {"Allow", "Block", "Pass"}, unsupported : BOOLEAN, protocol : {Any} \cup Protocols,
   local : {Any} \cup Some(Addresses), remote : {Any} \cup Some(Addresses),
   lports : {Any} \cup Some(Ports), rports : {Any} \cup Some(Ports)]

\* Nothing a rule can match is taken for no match.
ASSUME AnyAssumption ==
  Any \notin Protocols /\ \A a \in SUBSET Addresses, p \in SUBSET Ports : Any \notin {a, p}

Tiers ==
  [name : STRING, defaultAction : {"Deny", "Pass"}, policies : BOOLEAN, rules : Seq(Rules)]

\* Calico lets no default tier pass, and what it writes for the profiles of namespaces and
\* service accounts passes nothing and is supported.
ASSUME EndpointsAssumption ==
  \A e \in Endpoints :
    /\ e.tiers \in Seq(Tiers)
    /\ \A k \in DOMAIN e.tiers : e.tiers[k].name = "default" => e.tiers[k].defaultAction = "Deny"
    /\ e.profiles \in Seq({r \in Rules : r.action # "Pass" /\ ~r.unsupported})

VARIABLES
  ep,
  pc,
  at,         \* the tier, and then the rule of the first tier, that is next
  lists,      \* the rules of each tier, as far as they are not flattened
  made,       \* newFirstTier
  exact,      \* whether no list of ports has been combined into another than both
  applies,    \* defaultTierApplies
  acls        \* the list for HNS: rules with a priority

vars == <<ep, pc, at, lists, made, exact, applies, acls>>
-----------------------------------------------------------------------------
(* Two rules at once *)

NoRule == [action |-> "none"]

\* The ranges of the common ports are read off a bit set; one that reaches its end is
\* lost, and what is empty in the end is a rule for any port.
CombinePorts(a, b) ==
  IF a = Any THEN b ELSE IF b = Any THEN a
  ELSE LET kept == {p \in a \cap b : ~(p..MaxPort) \subseteq (a \cap b)}
       IN  IF kept = {} THEN Any ELSE kept

CombineCIDRs(a, b) == IF a = Any THEN b ELSE IF b = Any THEN a ELSE a \cap b

\* Variant: the protocol of the passing rule is forgotten.
CombineRules_Protocol(r1, r2) ==
  LET local  == CombineCIDRs(r1.local, r2.local)
      remote == CombineCIDRs(r1.remote, r2.remote)
  IN  IF local = {} \/ remote = {} THEN NoRule
      ELSE [r2 EXCEPT !.local = local, !.remote = remote,
                      !.lports = CombinePorts(r1.lports, r2.lports),
                      !.rports = CombinePorts(r1.rports, r2.rports)]

\* r2 narrowed by r1, or no rule at all.
CombineRules(r1, r2) ==
  LET local  == CombineCIDRs(r1.local, r2.local)
      remote == CombineCIDRs(r1.remote, r2.remote)
  IN  IF \/ r1.protocol # Any /\ r2.protocol # Any /\ r1.protocol # r2.protocol
         \/ local = {} \/ remote = {}
      THEN NoRule
      ELSE [action |-> r2.action, unsupported |-> r2.unsupported,
            protocol |-> IF r1.protocol = Any \/ r2.protocol # Any THEN r2.protocol ELSE r1.protocol,
            local |-> local, remote |-> remote,
            lports |-> CombinePorts(r1.lports, r2.lports),
            rports |-> CombinePorts(r1.rports, r2.rports)]

\* What a passing rule becomes: the rules of the next tier within it.
Expanded(rule, secondTier) ==
  LET combined == [n \in DOMAIN secondTier |-> CombineRules(rule, secondTier[n])]
  IN  Kept(combined, {n \in DOMAIN combined : combined[n] # NoRule})

\* The ports of both are those of the combined rule.
PortsKept(a, b) == Any \in {a, b} \/ CombinePorts(a, b) = a \cap b
Exact(r1, r2) ==
  \/ CombineRules(r1, r2) = NoRule
  \/ PortsKept(r1.lports, r2.lports) /\ PortsKept(r1.rports, r2.rports)

Passes(list) == \E n \in DOMAIN list : list[n].action = "Pass"
-----------------------------------------------------------------------------
(* The rules of a tier *)

Catch(action) == [action |-> action, unsupported |-> FALSE, protocol |-> Any, local |-> Any,
                  remote |-> Any, lports |-> Any, rports |-> Any]

\* Calico's renderer drops what it does not support and ends a tier as it is told.
GetPolicySetRules(rules, endOfTierDrop) ==
  Append(Kept(rules, {n \in DOMAIN rules : ~rules[n].unsupported}),
         Catch(IF endOfTierDrop THEN "Block" ELSE "Pass"))

Init ==
  /\ ep \in Endpoints
  /\ pc = "tiers" /\ at = 1 /\ lists = <<>> /\ made = <<>> /\ exact = TRUE
  /\ applies = FALSE /\ acls = <<>>

\* Tiers without policies for this direction are left out.
Gather ==
  /\ pc = "tiers" /\ at <= Len(ep.tiers)
  /\ at' = at + 1
  /\ LET t == ep.tiers[at]
     IN  IF ~t.policies THEN UNCHANGED <<lists, applies>>
         ELSE /\ applies' = (applies \/ t.name = "default")
              /\ lists' = Append(lists, GetPolicySetRules(t.rules, t.defaultAction # "Pass"))
  /\ UNCHANGED <<ep, pc, made, exact, acls>>

\* Calico's renderer panics on what it does not expect; the endpoint gets an error.
Panic ==
  /\ pc = "tiers"
  /\ pc' = "error" /\ acls' = <<>>
  /\ UNCHANGED <<ep, at, lists, made, exact, applies>>

Profiles ==
  /\ pc = "tiers" /\ at > Len(ep.tiers)
  /\ pc' = "last"
  /\ lists' = IF lists = <<>> \/ ~applies
              THEN Append(lists, GetPolicySetRules(ep.profiles, TRUE)) ELSE lists
  /\ UNCHANGED <<ep, at, made, exact, applies, acls>>

\* Variant: the last tier keeps its passes.
BlockLast_Not ==
  /\ pc = "last"
  /\ pc' = "flatten" /\ at' = 1
  /\ UNCHANGED <<ep, lists, made, exact, applies, acls>>

\* The last tier has nothing to pass to.
BlockLast ==
  /\ pc = "last"
  /\ pc' = "flatten" /\ at' = 1
  /\ lists' = [lists EXCEPT ![Len(lists)] =
                 [n \in DOMAIN @ |-> IF @[n].action = "Pass" THEN [@[n] EXCEPT !.action = "Block"]
                                     ELSE @[n]]]
  /\ UNCHANGED <<ep, made, exact, applies, acls>>

\* A rule of the first tier, or what it passes into.
FlattenRule ==
  /\ pc = "flatten" /\ Len(lists) > 1 /\ at <= Len(lists[1])
  /\ LET r == lists[1][at]
     IN  IF r.action = "Pass"
         THEN /\ made' = made \o Expanded(r, lists[2])
              /\ exact' = (exact /\ \A k \in DOMAIN lists[2] : Exact(r, lists[2][k]))
         ELSE made' = Append(made, r) /\ UNCHANGED exact
  /\ at' = at + 1
  /\ UNCHANGED <<ep, pc, lists, applies, acls>>

\* Variant: tiers nothing passes to are waited for.
Merge_Unreachable ==
  /\ pc = "flatten" /\ Len(lists) > 1 /\ at > Len(lists[1])
  /\ Passes(lists[1])
  /\ lists' = <<made>> \o SubSeq(lists, 3, Len(lists))
  /\ made' = <<>> /\ at' = 1
  /\ UNCHANGED <<ep, pc, exact, applies, acls>>

\* Without a pass the tiers that follow cannot be reached.
Merge ==
  /\ pc = "flatten" /\ Len(lists) > 1 /\ at > Len(lists[1])
  /\ lists' = IF Passes(lists[1]) THEN <<made>> \o SubSeq(lists, 3, Len(lists)) ELSE <<lists[1]>>
  /\ made' = <<>> /\ at' = 1
  /\ UNCHANGED <<ep, pc, exact, applies, acls>>

\* Variant: rules share a priority as soon as there are too many.
Priorities_Flat(list) ==
  [n \in DOMAIN list |->
     IF Len(list) < MaxPriority - BasePriority THEN BasePriority + n - 1 ELSE BasePriority]

\* Where a rule has another action than the one before it.
Changes(list) == {n \in DOMAIN list : n > 1 /\ list[n].action # list[n - 1].action}

\* One each, or, if these are too few, one for each run of one action.
Priorities(list) ==
  [n \in DOMAIN list |->
     BasePriority + (IF Len(list) < MaxPriority - BasePriority THEN n - 1
                     ELSE Rank(Changes(list), n))]

RewritePriorities ==
  /\ pc = "flatten" /\ Len(lists) = 1
  /\ pc' = "done"
  /\ acls' = [n \in DOMAIN lists[1] |-> [rule     |-> lists[1][n],
                                         priority |-> Priorities(lists[1])[n]]]
  /\ UNCHANGED <<ep, at, lists, made, exact, applies>>

Next == Gather \/ Panic \/ Profiles \/ BlockLast \/ FlattenRule \/ Merge \/ RewritePriorities

\* One goroutine that does not wait.
Spec == Init /\ [][Next]_vars /\ WF_vars(Next)
-----------------------------------------------------------------------------
(* What the list is for *)

Hits(r, p) ==
  /\ r.protocol \in {Any, p.protocol}
  /\ r.local = Any  \/ p.local \in r.local
  /\ r.remote = Any \/ p.remote \in r.remote
  /\ r.lports = Any \/ p.lport \in r.lports
  /\ r.rports = Any \/ p.rport \in r.rports

\* The action of the first rule that is hit, or what there is otherwise.
First(list, p, otherwise) ==
  LET hit == {n \in DOMAIN list : Hits(list[n], p)}
  IN  IF hit = {} THEN otherwise ELSE list[Least(hit)].action

\* The first of a sequence of answers that does not pass.
Decision(answers) ==
  LET decided == {n \in DOMAIN answers : answers[n] # "Pass"}
  IN  IF decided = {} THEN "Pass" ELSE answers[Least(decided)]

\* Linux: tier after tier, each ended by its default action, and then the profiles.
TierAnswer(t, p) ==
  IF t.policies THEN First(t.rules, p, IF t.defaultAction = "Pass" THEN "Pass" ELSE "Block")
  ELSE "Pass"
Linux(p) ==
  LET answer == Decision([n \in DOMAIN ep.tiers |-> TierAnswer(ep.tiers[n], p)])
  IN  IF answer = "Pass" THEN First(ep.profiles, p, "Block") ELSE answer

\* HNS: the lowest priority that is hit; of several rules there, a block wins.
Hns(p) ==
  LET hit == {n \in DOMAIN acls : Hits(acls[n].rule, p)}
      top == {n \in hit : \A k \in hit : acls[n].priority <= acls[k].priority}
  IN  IF hit = {} \/ \E n \in top : acls[n].rule.action = "Block" THEN "Block" ELSE "Allow"

\* lintWindowsHNS: a rule that is dropped, or a pass in the default tier.
Warned ==
  \E k \in DOMAIN ep.tiers : \E r \in Range(ep.tiers[k].rules) :
    r.unsupported \/ (ep.tiers[k].name = "default" /\ r.action = "Pass")

TypeOK ==
  /\ pc \in {"tiers", "last", "flatten", "done", "error"}
  /\ at \in Nat \ {0} /\ applies \in BOOLEAN /\ exact \in BOOLEAN
  /\ lists \in Seq(Seq(Rules)) /\ made \in Seq(Rules)
  /\ pc \in {"last", "flatten", "done"} => lists # <<>>
  /\ acls \in Seq([rule : {r \in Rules : r.action # "Pass"}, priority : Nat])

\* The list decides every packet as Linux does, whatever tiers apply and pass and however
\* many rules share a priority, unless the linter says that it may not or lists of ports
\* were combined into more than both.
FaithfulOrWarned ==
  pc = "done" /\ exact /\ ~Warned => \A p \in Packets : Hns(p) = Linux(p)

\* Priorities keep the order of any two rules whose order matters: HNS has its own for
\* rules of one priority.
OrderKept ==
  \A m, n \in DOMAIN acls :
    m < n /\ acls[m].rule.action # acls[n].rule.action => acls[m].priority < acls[n].priority

\* The renderer comes to an end, with a list or an error.
Terminates == <>(pc \in {"done", "error"})

\* "combineRules calculates r1 && r2, using the action/ID from r2" (hns.go:469).
CombinedIsBoth ==
  pc = "flatten" /\ Len(lists) > 1 =>
    \A r \in Range(lists[1]), s \in Range(lists[2]), p \in Packets :
      r.action = "Pass" =>
        LET c == CombineRules(r, s)
        IN  (c # NoRule /\ Hits(c, p)) <=> (Hits(r, p) /\ Hits(s, p))
=============================================================================
