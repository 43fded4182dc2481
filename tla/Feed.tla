-------------------------------- MODULE Feed --------------------------------
(***************************************************************************)
(* How the documents of a request become the graph a sweep reads           *)
(* (provider/calico: resources.go, feed.go, icmp.go, graph.go).            *)
(*                                                                         *)
(* A raw request is a record of sequences of objects.  An object has a     *)
(* kind, ns ("" when it has none), name, and ok: it parses and converts.   *)
(*   documents (Policies) : policies, with tier, order, selects (the       *)
(*     labels its selector asks for), types, ingress, egress; Tiers, with  *)
(*     order, default; sets, with labels, nets; ServiceAccounts; Services; *)
(*     anything else, an unreadable one included, has some other kind      *)
(*   serviceAccounts, namespaces (all that endpoints are in) : with labels *)
(*   services : with col, selector, ports    networkSets : as above        *)
(*   slices   : [ns, svc, addresses]                                       *)
(*   endpoints: [id, ns, sa, ip, labels, node, unpoliced, role]            *)
(* and staged (EvaluateStaged), icmp (the probe's type and code), port.    *)
(*                                                                         *)
(* A rule is the Checker's with icmp and notIcmp, [type, code].  The sets  *)
(* its peers name are labels, <<where from, label>>, or, for a             *)
(* destination, the backends of a Service, <<"svc", ns, name>>.  Orders    *)
(* are distinct.                                                           *)
(***************************************************************************)
EXTENDS Checker, Lists, Functions

Unset   == -1
NoIcmp  == [type |-> Unset, code |-> Unset]

Defaulted   == {"NetworkPolicy", "GlobalNetworkPolicy",
                "StagedNetworkPolicy", "StagedGlobalNetworkPolicy"}
StagedKinds == {"StagedNetworkPolicy", "StagedGlobalNetworkPolicy",
                "StagedKubernetesNetworkPolicy"}
PolicyKinds == Defaulted \cup StagedKinds
                 \cup {"KubernetesNetworkPolicy", "KubernetesClusterNetworkPolicy"}
SetKinds    == {"NetworkSet", "GlobalNetworkSet"}
InlineKinds == {"ServiceAccount", "Service"}
-----------------------------------------------------------------------------
(* applyInlineResources *)

OfKinds(s, kinds) == Kept(s, {i \in DOMAIN s : s[i].kind \in kinds})
Parsed(s)         == Kept(s, {i \in DOMAIN s : s[i].ok})

\* Pasted ServiceAccounts and Services join the typed ones.
ApplyInlineResources(raw) ==
  [raw EXCEPT !.documents       = Kept(raw.documents, {i \in DOMAIN raw.documents :
                                                        raw.documents[i].kind \notin InlineKinds}),
              !.serviceAccounts = raw.serviceAccounts \o Parsed(OfKinds(raw.documents, {"ServiceAccount"})),
              !.services        = raw.services \o Parsed(OfKinds(raw.documents, {"Service"}))]

InlineErrors(raw) == \E d \in Range(OfKinds(raw.documents, InlineKinds)) : ~d.ok
-----------------------------------------------------------------------------
(* The ICMP filter *)

\* A field that is set matches a probe that has just this value.
SaysIcmp(block, probe) ==
  /\ block.type \in {Unset, probe.type}
  /\ block.code \in {Unset, probe.code}

RuleICMPMatchesProbe(r, probe) ==
  /\ SaysIcmp(r.icmp, probe)
  /\ r.notIcmp = NoIcmp \/ ~SaysIcmp(r.notIcmp, probe)

FilterRulesByICMP(rules, probe) ==
  IF probe = NoIcmp THEN rules
  ELSE Kept(rules, {n \in DOMAIN rules : RuleICMPMatchesProbe(rules[n], probe)})
-----------------------------------------------------------------------------
(* feedPolicy *)

DefaultPolicyTypes(types, ingress, egress) ==
  IF types # {} THEN types
  ELSE IF egress = <<>> THEN {"in"}
  ELSE IF ingress = <<>> THEN {"out"} ELSE Directions

Key(d) == <<d.kind, d.ns, d.name>>

\* Variant: the types are inferred from the rules the filter has left.
FedPolicy_FilterFirst(d, probe) ==
  LET filter(rules) == IF d.kind = "StagedKubernetesNetworkPolicy" THEN rules
                       ELSE FilterRulesByICMP(rules, probe)
  IN  [id |-> Key(d), tier |-> d.tier, order |-> d.order, selects |-> d.selects,
       types |-> IF d.kind \in Defaulted
                 THEN DefaultPolicyTypes(d.types, filter(d.ingress), filter(d.egress)) ELSE d.types,
       body |-> [in |-> filter(d.ingress), out |-> filter(d.egress)]]

\* What the graph is sent for a policy: its types as they are written, the rules that
\* do not contradict the probe.  A staged Kubernetes policy is not filtered.
FedPolicy(d, probe) ==
  LET filter(rules) == IF d.kind = "StagedKubernetesNetworkPolicy" THEN rules
                       ELSE FilterRulesByICMP(rules, probe)
  IN  [id |-> Key(d), tier |-> d.tier, order |-> d.order, selects |-> d.selects,
       types |-> IF d.kind \in Defaulted
                 THEN DefaultPolicyTypes(d.types, d.ingress, d.egress) ELSE d.types,
       body |-> [in |-> filter(d.ingress), out |-> filter(d.egress)]]

\* A staged document is not even parsed unless staged policies are evaluated.
Skips(raw, d) == d.kind \in StagedKinds /\ ~raw.staged

FeedFails(raw, d) ==
  /\ ~Skips(raw, d)
  /\ ~d.ok \/ d.kind \notin PolicyKinds \cup SetKinds \cup {"Tier", "HostEndpoint"}

\* What is sent of some kinds, in the order of the documents.
Sent(raw, kinds) ==
  Kept(raw.documents, {i \in DOMAIN raw.documents :
                         LET d == raw.documents[i]
                         IN  d.kind \in kinds /\ d.ok /\ ~Skips(raw, d)})

\* The graph keeps the last update of a key.
Current(s) == {s[i] : i \in {i \in DOMAIN s : \A j \in DOMAIN s : Key(s[j]) = Key(s[i]) => j <= i}}
-----------------------------------------------------------------------------
(* buildGraph: tiers, labels, slices *)

Tier(name, order, default) ==
  [kind |-> "Tier", ns |-> "", name |-> name, order |-> order, default |-> default]

ReservedTiers ==
  <<Tier("kube-admin", 1000, "pass"), Tier("default", 1000000, "deny"),
    Tier("kube-baseline", 10000000, "pass")>>

\* They come first; a Tier document of the same name replaces one.
Tiers(raw) ==
  Current(ReservedTiers \o
          [i \in DOMAIN Sent(raw, {"Tier"}) |->
             LET d == Sent(raw, {"Tier"})[i] IN Tier(d.name, d.order, d.default)])

\* Maps filled in order: a later object replaces an earlier one of its name.
LabelsOf(objects, ns, name) ==
  LET same == {i \in DOMAIN objects : objects[i].ns = ns /\ objects[i].name = name}
  IN  IF same = {} THEN {}
      ELSE objects[CHOOSE i \in same : \A j \in same : j <= i].labels

From(where, labels) == {<<where, l>> : l \in labels}

\* An endpoint's own labels, its namespace's and its ServiceAccount's.
GraphLabels(raw, e) ==
  From("own", e.labels) \cup From("pcns", LabelsOf(raw.namespaces, "", e.ns))
    \cup {<<"ns", e.ns>>}
    \cup IF e.sa = "" THEN {}
         ELSE From("pcsa", LabelsOf(raw.serviceAccounts, e.ns, e.sa)) \cup {<<"sa", e.sa>>}

\* autoSliceForService; a Service without a selector selects nothing.
Selected(raw, svc) ==
  Kept(raw.endpoints, {i \in DOMAIN raw.endpoints :
                         /\ raw.endpoints[i].ns = svc.ns /\ svc.selector # {}
                         /\ svc.selector \subseteq raw.endpoints[i].labels})

HasSliceFor(raw, svc) == \E s \in Range(raw.slices) : s.svc = svc.name /\ s.ns = svc.ns

\* Explicit slices are fed without ports, those made up with the ports of the Service.
Slices(raw) ==
  {[ns |-> s.ns, svc |-> s.svc, addresses |-> Range(s.addresses), ports |-> {}] :
       s \in Range(raw.slices)}
    \cup {[ns |-> svc.ns, svc |-> svc.name, ports |-> svc.ports,
           addresses |-> {e.ip : e \in Range(Selected(raw, svc))}] :
            svc \in {v \in Range(raw.services) : ~HasSliceFor(raw, v)}}
-----------------------------------------------------------------------------
(* What Felix's calculation graph makes of it *)

SetMembers(raw, ref) ==
  {e.ip : e \in {x \in Range(raw.endpoints) : ref \in GraphLabels(raw, x)}}
    \cup UNION {s.nets : s \in {x \in Current(raw.networkSets \o Sent(raw, SetKinds)) :
                                  \/ ref \in From("own", x.labels)
                                  \/ x.kind = "NetworkSet" /\ ref = <<"ns", x.ns>>}}

\* The set of a Service holds address and port: those of slices that name the port.
ServiceMembers(raw, ns, name) ==
  UNION {s.addresses : s \in {x \in Slices(raw) :
                                x.ns = ns /\ x.svc = name /\ raw.port \in x.ports}}

Members(raw, ref) ==
  IF ref[1] = "svc" THEN ServiceMembers(raw, ref[2], ref[3]) ELSE SetMembers(raw, ref)

RefsOf(rules) ==
  UNION {UNION {r.src.all, r.src.none, r.src.any, r.dst.all, r.dst.none, r.dst.any} :
           r \in Range(rules)}

\* The elements of a set of records in their order.
InOrder(S) ==
  LET orders == {x.order : x \in S}
  IN  [k \in 1..Cardinality(orders) |-> CHOOSE x \in S : Rank(orders, x.order) = k]

\* A tier is on the path of an endpoint when it exists and a policy of it selects it.
Wep(raw, tiers, policies, e) ==
  LET mine      == {p \in policies : p.selects \subseteq GraphLabels(raw, e)}
      path      == InOrder({t \in tiers : \E p \in mine : p.tier = t.name})
      in(t)     == InOrder({p \in mine : p.tier = t.name /\ "in" \in p.types})
      out(t)    == InOrder({p \in mine : p.tier = t.name /\ "out" \in p.types})
  IN  [tiers |-> [k \in DOMAIN path |->
         [name    |-> path[k].name, default |-> path[k].default,
          ingress |-> [i \in DOMAIN in(path[k]) |-> in(path[k])[i].id],
          egress  |-> [i \in DOMAIN out(path[k]) |-> out(path[k])[i].id]]],
       profiles |-> <<<<"kns", e.ns>>>>]

AllowAll == <<[action |-> "allow", icmp |-> NoIcmp, notIcmp |-> NoIcmp,
               src |-> [all |-> {}, none |-> {}, any |-> {}],
               dst |-> [all |-> {}, none |-> {}, any |-> {}]]>>

\* buildGraph: every namespace has a profile that allows.  Felix sends the policies and
\* the profiles that an endpoint has.
BuildGraph(raw, probe) ==
  LET policies == {p \in {FedPolicy(d, probe) : d \in Current(Sent(raw, PolicyKinds))} :
                     \E e \in Range(raw.endpoints) : p.selects \subseteq GraphLabels(raw, e)}
      byId     == [k \in {p.id : p \in policies} |->
                     (CHOOSE p \in policies : p.id = k).body]
      refs     == UNION {RefsOf(byId[k].in) \cup RefsOf(byId[k].out) : k \in DOMAIN byId}
  IN  [wepById |-> [i \in {e.id : e \in Range(raw.endpoints)} |->
                      Wep(raw, Tiers(raw), policies,
                          CHOOSE e \in Range(raw.endpoints) : e.id = i)],
       store   |-> [policies |-> byId,
                    profiles |-> [k \in {<<"kns", e.ns>> : e \in Range(raw.endpoints)} |->
                                    [in |-> AllowAll, out |-> AllowAll]],
                    member   |-> [s \in refs |-> Members(raw, s)]],
       errors  |-> \E d \in Range(raw.documents) : FeedFails(raw, d)]
=============================================================================
