------------------------------ MODULE Pipeline ------------------------------
(***************************************************************************)
(* From the documents of a request to its matrix: Feed makes the request   *)
(* that Evaluate sweeps, and everything else that is read off the same     *)
(* graph is held against it.  Requests made by Fed carry the documents in  *)
(* a field raw; the properties are about those.                            *)
(***************************************************************************)
EXTENDS Evaluate, Renderers, Hygiene

\* What Evaluate starts from.  The typed HostEndpoints are in the requests that are
\* given as graphs; here there are none.
Fed(raw, stream, noCollapse) ==
  LET r   == ApplyInlineResources(raw)
      g   == BuildGraph(r, raw.icmp)
      ids == {e.id : e \in Range(r.endpoints)}
      by(i) == CHOOSE e \in Range(r.endpoints) : e.id = i
  IN  [raw       |-> raw,
       endpoints |-> [k \in DOMAIN r.endpoints |-> r.endpoints[k].id],
       hostEndpoints |-> <<>>, hep |-> <<>>,
       yamlHeps  |-> {d.name : d \in Range(Sent(r, {"HostEndpoint"}))},
       ep        |-> [i \in ids |-> [ip |-> by(i).ip, node |-> by(i).node, role |-> by(i).role,
                                     unpoliced |-> by(i).unpoliced, wep |-> g.wepById[i]]],
       store     |-> g.store,
       services  |-> [k \in DOMAIN r.services |->
                        LET svc == r.services[k]
                            sel == Selected(r, svc)
                        IN  [col      |-> svc.col,
                             slices   |-> {s.addresses : s \in {x \in Range(r.slices) :
                                             x.svc = svc.name /\ x.ns = svc.ns}},
                             selected |-> [n \in DOMAIN sel |-> sel[n].ip]]],
       pairs |-> <<>>, stream |-> stream, noCollapse |-> noCollapse,
       strictLint |-> FALSE, lintFindings |-> FALSE,
       feedErrors |-> InlineErrors(raw) \/ g.errors]

\* What the schemas and converters see to of a policy, and that orders tell policies apart.
PolicyFields == {"kind", "ok", "ns", "name", "tier", "order", "selects", "types", "ingress", "egress"}

PolicyWritten(d) ==
  /\ PolicyFields \subseteq DOMAIN d
  /\ d.order \in Nat \ {0}
  /\ d.kind \notin Defaulted => d.types # {}
  /\ \A rules \in {d.ingress, d.egress} :
       /\ rules \in Seq(Range(rules))
       /\ \A rule \in Range(rules) :
            /\ rule.action \in Actions
            /\ d.kind = "StagedKubernetesNetworkPolicy" =>
                 rule.icmp = NoIcmp /\ rule.notIcmp = NoIcmp

Written(raw) ==
  LET policies == {d \in Range(raw.documents) : d.kind \in PolicyKinds /\ d.ok}
  IN  /\ raw = [documents |-> raw.documents, serviceAccounts |-> raw.serviceAccounts,
                namespaces |-> raw.namespaces, services |-> raw.services,
                networkSets |-> raw.networkSets, slices |-> raw.slices,
                endpoints |-> raw.endpoints, staged |-> raw.staged,
                icmp |-> raw.icmp, port |-> raw.port]
      /\ \A s \in {raw.documents, raw.serviceAccounts, raw.services, raw.networkSets, raw.endpoints} :
           s \in Seq(Range(s))
      /\ \A d \in Range(raw.documents) : d.kind = "Tier" => d.ns = ""
      /\ \A e, x \in Range(raw.endpoints) : e.id = x.id \/ e.ip = x.ip => e = x
      /\ \A d \in policies : PolicyWritten(d)
      /\ \A c, d \in policies : c.tier = d.tier /\ c.order = d.order => Key(c) = Key(d)
      /\ \A t \in Tiers(raw) : t.order \in Nat \ {0} /\ t.default \in {"pass", "deny"}
      /\ \A t, u \in Tiers(raw) : t.order = u.order => t = u

\* Requests with a field raw are made of it.
ASSUME DocumentsAssumption ==
  \A r \in Requests :
    "raw" \in DOMAIN r => Written(r.raw) /\ r = Fed(r.raw, r.stream, r.noCollapse)

HasRaw == "raw" \in DOMAIN req
-----------------------------------------------------------------------------
(* What the documents say, read without a graph *)

\* Objects of a kind, typed ones first, wherever they stand among the documents.
All(raw, typed, kind) == typed \o Parsed(OfKinds(raw.documents, {kind}))

\* The last policy of each name and kind.
InForce(raw, staged) ==
  Current(Kept(raw.documents, {i \in DOMAIN raw.documents :
                                 /\ raw.documents[i].ok /\ raw.documents[i].kind \in PolicyKinds
                                 /\ staged \/ raw.documents[i].kind \notin StagedKinds}))

SetsIn(raw) ==
  Current(raw.networkSets \o Kept(raw.documents, {i \in DOMAIN raw.documents :
                                     raw.documents[i].ok /\ raw.documents[i].kind \in SetKinds}))

\* A policy without types is about ingress unless it is written with egress rules only.
Governs(d, dir) ==
  IF d.types # {} THEN dir \in d.types
  ELSE IF dir = "out" THEN d.egress # <<>> ELSE d.ingress # <<>> \/ d.egress = <<>>

IsIn(raw, e, ref) ==
  \/ ref = <<"ns", e.ns>>
  \/ ref \in {<<"own", l>> : l \in e.labels}
  \/ ref \in {<<"pcns", l>> : l \in LabelsOf(raw.namespaces, "", e.ns)}
  \/ e.sa # "" /\
       \/ ref = <<"sa", e.sa>>
       \/ ref \in {<<"pcsa", l>> :
                     l \in LabelsOf(All(raw, raw.serviceAccounts, "ServiceAccount"), e.ns, e.sa)}

\* A backend is one of a port.  The slices a request gives have no field for ports, and no
\* others are made up beside them: what that leads to is in SlicesResolve.
Backs(raw, e, ns, name) ==
  /\ ~ \E s \in Range(raw.slices) : s.ns = ns /\ s.svc = name
  /\ \E svc \in Range(All(raw, raw.services, "Service")) :
       /\ svc.ns = ns /\ svc.name = name /\ raw.port \in svc.ports
       /\ e.ns = ns /\ svc.selector # {} /\ svc.selector \subseteq e.labels

\* The endpoint is one of those a peer's part names, itself or through a set.
Named(raw, e, ref) ==
  IF ref[1] = "svc" THEN Backs(raw, e, ref[2], ref[3])
  ELSE \/ IsIn(raw, e, ref)
       \/ \E s \in SetsIn(raw) :
            /\ e.ip \in s.nets
            /\ ref \in {<<"own", l>> : l \in s.labels} \/ (s.kind = "NetworkSet" /\ ref = <<"ns", s.ns>>)

Describes(raw, peer, e) ==
  /\ \A ref \in peer.all  : Named(raw, e, ref)
  /\ \A ref \in peer.none : ~Named(raw, e, ref)
  /\ peer.any = {} \/ \E ref \in peer.any : Named(raw, e, ref)

\* With a probe for ICMP a rule also asks for its type and code.
Applies(raw, rule, src, dst) ==
  /\ Describes(raw, rule.src, src) /\ Describes(raw, rule.dst, dst)
  /\ raw.icmp # NoIcmp =>
       LET says(b) == /\ b.type # Unset => b.type = raw.icmp.type
                      /\ b.code # Unset => b.code = raw.icmp.code
       IN  says(rule.icmp) /\ (rule.notIcmp = NoIcmp \/ ~says(rule.notIcmp))

Rules(d, dir) == IF dir = "in" THEN d.ingress ELSE d.egress

\* The policies of a tier that govern an endpoint.
Governing(raw, staged, owner, dir, t) ==
  {d \in InForce(raw, staged) :
     d.tier = t.name /\ Governs(d, dir) /\ \A ref \in d.selects : IsIn(raw, owner, ref)}

\* The action of the first rule, by policy and place, that applies; a tier that governs the
\* owner and says nothing has its default.
TierSays(raw, staged, owner, dir, src, dst, t) ==
  LET here == Governing(raw, staged, owner, dir, t)
      hits == UNION {{<<d.order, n, Rules(d, dir)[n].action>> :
                        n \in {m \in DOMAIN Rules(d, dir) : Applies(raw, Rules(d, dir)[m], src, dst)}} :
                       d \in here}
  IN  IF here = {} THEN "pass" ELSE IF hits = {} THEN t.default
      ELSE (CHOOSE h \in hits : \A k \in hits : h[1] < k[1] \/ (h[1] = k[1] /\ h[2] <= k[2]))[3]

\* The side of owner, of a flow between src and dst: what the first tier says that does not pass.
Side(raw, staged, owner, dir, src, dst) ==
  LET says(t)  == TierSays(raw, staged, owner, dir, src, dst, t)
      deciding == {t \in Tiers(raw) : says(t) # "pass"}
  IN  owner.unpoliced
      \/ IF deciding = {} THEN TRUE
         ELSE says(CHOOSE t \in deciding : \A u \in deciding : t.order <= u.order) = "allow"

Endpoint(raw, i) == CHOOSE e \in Range(raw.endpoints) : e.id = i

AsksIcmp(raw) ==
  \E d \in Range(raw.documents) : d.kind \in PolicyKinds /\
    \E r \in Range(d.ingress \o d.egress) : NoIcmp # r.icmp \/ NoIcmp # r.notIcmp
-----------------------------------------------------------------------------
(* Properties *)

\* The matrix is what the documents say, wherever among them an account, a Service or a
\* tier stands, under every probe, staged policies evaluated or not, and with documents
\* between them that cannot be fed.
MatrixAsWritten ==
  HasRaw /\ Status = "complete" =>
    \A p \in DOMAIN Reported : p[2] \in DOMAIN req.ep =>
      LET s == Endpoint(req.raw, p[1])
          d == Endpoint(req.raw, p[2])
      IN  Reported[p] = Word(/\ Side(req.raw, req.raw.staged, s, "out", s, d)
                             /\ Side(req.raw, req.raw.staged, d, "in", s, d))

\* The eBPF program of a workload, which is fed without a probe, decides the packet of the
\* probe as the enforced policies say: staged ones leave no trace, not even the default
\* action of a tier that has nothing else.
ProgramsAgree ==
  HasRaw /\ pc = "build"
         /\ (IF AsksIcmp(req.raw) THEN Unset \notin {req.raw.icmp.type, req.raw.icmp.code} ELSE TRUE) =>
    LET g == BuildGraph(ApplyInlineResources(req.raw), NoIcmp)
    IN  \A e, x \in Range(req.raw.endpoints), dir \in Directions :
          e # x /\ ~e.unpoliced =>
            LET s == IF dir = "in" THEN x ELSE e
                d == IF dir = "in" THEN e ELSE x
            IN  ProgramAllows(g.store.member, PolprogRules(g.wepById[e.id], dir, g.store),
                              Flow(s.ip, d.ip), req.raw.icmp)
                  = Side(req.raw, FALSE, e, dir, s, d)

\* Every chain that a chain of these endpoints jumps to is rendered, and none of a policy
\* that no policy of theirs shares a name with.
Closed(g, matched) ==
  LET chains == PolicyChains(g, matched, TRUE)
  IN  /\ \A e \in matched :
           /\ JumpedTo(g.wepById[e]) \subseteq chains
           /\ Range(g.wepById[e].profiles) \subseteq ProfileChains(g, matched, TRUE)
      /\ \A id \in chains : \E e \in matched :
           \E own \in JumpedTo(g.wepById[e]) \cup TiersPolicies(g.wepById[e]) :
             own[2] = id[2] /\ own[3] = id[3]

\* Whichever endpoints are asked for, the chains that iptables and nftables render for them
\* are closed.
ChainsClosed ==
  HasRaw /\ pc = "build" =>
    LET g == BuildGraph(ApplyInlineResources(req.raw), NoIcmp)
    IN  \A matched \in SUBSET DOMAIN g.wepById : Closed(g, matched)

\* Rules the cost report calls dead weight are: without them no verdict changes.
AdviceIsSafe ==
  HasRaw /\ pc = "build" =>
    LET trimmed == Fed(Advised(req.raw), req.stream, req.noCollapse)
    IN  Truth(trimmed, BuildActors(trimmed)) = truth

\* types.go says of the slices of a Service that "the harness can either supply
\* EndpointSlices explicitly or let the engine auto-derive them", to resolve
\* destination.services.
SlicesResolve ==
  HasRaw /\ pc = "build" =>
    \A svc \in Range(ApplyInlineResources(req.raw).services) :
      <<"svc", svc.ns, svc.name>> \in DOMAIN req.store.member /\ req.raw.port \in svc.ports =>
        \A s \in Range(req.raw.slices) :
          s.ns = svc.ns /\ s.svc = svc.name =>
            Range(s.addresses) \subseteq req.store.member[<<"svc", svc.ns, svc.name>>]

\* tiermatch.go says that it uses "the same resolved calc graph the matrix/BPF/iptables
\* paths use".
TierViewIsTheGraph ==
  HasRaw /\ pc = "build" =>
    LET staged == [ApplyInlineResources(req.raw) EXCEPT !.staged = TRUE]
    IN  \A i \in DOMAIN req.ep :
          TierMatch(TierView(req.raw).wepById[i])
            = TierMatch(BuildGraph(staged, NoIcmp).wepById[i])
=============================================================================
