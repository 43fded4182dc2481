---------------------------- MODULE AntreaRules ----------------------------
(***************************************************************************)
(* What the Antrea engine makes of Kubernetes NetworkPolicies              *)
(* (engines/antrea: harness.go, eval.go, defaults.go): selectors resolved  *)
(* to pods, the verdict of a flow rule by rule, and the index that answers *)
(* for one probe.                                                          *)
(*                                                                         *)
(* An endpoint is [id, ns, name, idNs, idName, labels, ip, ports, role];   *)
(* idNs and idName are what precedes and follows the first "/" of its id,  *)
(* "" and all of it without one, and ports is a sequence of                *)
(* [name, proto, port].  A label is a value, a selector the set of labels  *)
(* it requires.  A NetworkPolicy is [ns, sel, types, ingress, egress] with *)
(* rules [peers, ports]; a peer is [kind |-> "block", ips, except] or      *)
(* [kind |-> "pods", sel, nsSel], a port [proto, port, end, name].         *)
(***************************************************************************)
EXTENDS Integers, Sequences

CONSTANTS
  NoSelector,   \* an absent namespaceSelector
  NoPort,       \* an absent port or endPort
  NoOwner       \* no fixed owner of the matched port

EndpointNamespace(e) == IF e.ns # ""   THEN e.ns   ELSE e.idNs
EndpointName(e)      == IF e.name # "" THEN e.name ELSE e.idName
PodKey(e)            == <<EndpointNamespace(e), EndpointName(e)>>
-----------------------------------------------------------------------------
(* Antrea's grouping index *)

\* The endpoints that become pods; of two with one key the later replaces the other.
PodAt(es) == {i \in DOMAIN es : EndpointNamespace(es[i]) # ""}
PodLabels(es) ==
  [k \in {PodKey(es[i]) : i \in PodAt(es)} |->
     es[CHOOSE i \in PodAt(es) :
          PodKey(es[i]) = k /\ \A j \in PodAt(es) : PodKey(es[j]) = k => j <= i].labels]

\* A namespace carries its declared labels and the one the API server adds.
NamespaceLabels(r, n) ==
  {<<"metadata.name", n>>} \cup (IF n \in DOMAIN r.namespaces THEN r.namespaces[n] ELSE {})

Resolve(r, ns, sel, nsSel) ==
  LET pods == PodLabels(r.endpoints)
  IN  {k \in DOMAIN pods :
         /\ sel \subseteq pods[k]
         /\ IF nsSel = NoSelector THEN k[1] = ns ELSE nsSel \subseteq NamespaceLabels(r, k[1])}
-----------------------------------------------------------------------------
(* Resolved policies *)

\* With no number and no name a port stands for every port of its protocol.
ParsePort(p) ==
  [proto   |-> IF p.proto = "" THEN "tcp" ELSE p.proto,
   named   |-> p.name,
   port    |-> IF p.port = NoPort THEN -1 ELSE p.port,
   endPort |-> IF p.end # NoPort THEN p.end ELSE IF p.port = NoPort THEN 0 ELSE p.port]

ResolveRule(r, ns, rule) ==
  LET selectors == {q \in rule.peers : q.kind = "pods"}
  IN  [all    |-> rule.peers = {},
       pods   |-> UNION {Resolve(r, ns, q.sel, q.nsSel) : q \in selectors},
       blocks |-> rule.peers \ selectors,
       ports  |-> {ParsePort(p) : p \in rule.ports}]

\* Without policyTypes a policy governs ingress, and egress if it has egress rules.
PolicyTypeHas(np, t) ==
  IF np.types = {} THEN t = "Ingress" \/ np.egress # {} ELSE t \in np.types

ResolvePolicy(r, np) ==
  [ingressIsolate |-> PolicyTypeHas(np, "Ingress"),
   egressIsolate  |-> PolicyTypeHas(np, "Egress"),
   appliedTo      |-> Resolve(r, np.ns, np.sel, NoSelector),
   ingress        |-> {ResolveRule(r, np.ns, rule) : rule \in np.ingress},
   egress         |-> {ResolveRule(r, np.ns, rule) : rule \in np.egress}]
-----------------------------------------------------------------------------
(* The verdict of a flow *)

\* The first declared port of that name and protocol, or -1.
ResolveNamed(ports, name, proto) ==
  LET at == {i \in DOMAIN ports : ports[i].name = name /\ ports[i].proto = proto}
  IN  IF at = {} THEN -1 ELSE ports[CHOOSE i \in at : \A j \in at : i <= j].port

PeerMatches(rule, e) ==
  \/ rule.all
  \/ PodKey(e) \in rule.pods
  \/ \E b \in rule.blocks : e.ip \in b.ips \ b.except

PortMatches(rule, proto, port, ownerPorts) ==
  rule.ports = {} \/
  \E p \in rule.ports :
    /\ p.proto = proto
    /\ IF p.named # "" THEN ResolveNamed(ownerPorts, p.named, proto) = port
       ELSE p.port = -1 \/ (port >= p.port /\ port <= p.endPort)

RuleMatches(rule, e, proto, port, ownerPorts) ==
  PeerMatches(rule, e) /\ PortMatches(rule, proto, port, ownerPorts)

\* Rule by rule, over every policy.  Named ports are always the destination's.
IngressAllows(policies, dst, src, proto, port) ==
  LET mine == {p \in policies : p.ingressIsolate /\ PodKey(dst) \in p.appliedTo}
  IN  mine = {} \/ \E p \in mine : \E rule \in p.ingress :
                     RuleMatches(rule, src, proto, port, dst.ports)

EgressAllows(policies, src, dst, proto, port) ==
  LET mine == {p \in policies : p.egressIsolate /\ PodKey(src) \in p.appliedTo}
  IN  mine = {} \/ \E p \in mine : \E rule \in p.egress :
                     RuleMatches(rule, dst, proto, port, dst.ports)
-----------------------------------------------------------------------------
(* The index *)

\* An empty rule list can still isolate.
IngressRules(policies, e) ==
  LET mine == {p \in policies : p.ingressIsolate /\ PodKey(e) \in p.appliedTo}
  IN  [isolated |-> mine # {}, rules |-> UNION {p.ingress : p \in mine}]

EgressRules(policies, e) ==
  LET mine == {p \in policies : p.egressIsolate /\ PodKey(e) \in p.appliedTo}
  IN  [isolated |-> mine # {}, rules |-> UNION {p.egress : p \in mine}]

\* A rule with a named port cannot be judged before its owner is known.
Dynamic(rule, ownerPorts) == ownerPorts = NoOwner /\ \E p \in rule.ports : p.named # ""

\* Variant: an endpoint whose rules have all been set aside is not isolated.
ForProbe_NoIsolation(d, proto, port, ownerPorts) ==
  LET fixed == IF ownerPorts = NoOwner THEN <<>> ELSE ownerPorts
      met   == {rule \in d.rules :
                  Dynamic(rule, ownerPorts) \/ PortMatches(rule, proto, port, fixed)}
  IN  [isolated |-> met # {}, rules |-> met]

\* The rules this probe can meet, without the ports already judged; none, and no
\* isolation, when one of them admits everybody.
ForProbe(d, proto, port, ownerPorts) ==
  LET fixed   == IF ownerPorts = NoOwner THEN <<>> ELSE ownerPorts
      dynamic == {rule \in d.rules : Dynamic(rule, ownerPorts)}
      met     == {rule \in d.rules \ dynamic : PortMatches(rule, proto, port, fixed)}
  IN  IF \E rule \in met : rule.all
      THEN [isolated |-> FALSE, rules |-> {}]
      ELSE [isolated |-> d.isolated,
            rules    |-> dynamic \cup {[rule EXCEPT !.ports = {}] : rule \in met}]

DirectionAllows(d, e, proto, port, ownerPorts) ==
  ~d.isolated \/ \E rule \in d.rules : RuleMatches(rule, e, proto, port, ownerPorts)

IndexEndpoint(policies, e, proto, port) ==
  [ingress |-> ForProbe(IngressRules(policies, e), proto, port, e.ports),
   egress  |-> ForProbe(EgressRules(policies, e), proto, port, NoOwner)]
=============================================================================
