---------------------------- MODULE EngineProofs ----------------------------
(***************************************************************************)
(* What is proved of the engines' sweeps for all requests: their types,    *)
(* and that the shortcuts of both never change a verdict.                  *)
(***************************************************************************)
EXTENDS EngineSweep, NaturalsInduction, WellFoundedInduction, TLAPS

\* A resolved rule is what resolveRule builds.
IsRule(rule) ==
  rule = [all |-> rule.all, pods |-> rule.pods, blocks |-> rule.blocks, ports |-> rule.ports]

\* The rules of one direction; without isolation there are none.
IsDirection(d) ==
  /\ d.isolated \in BOOLEAN
  /\ \A rule \in d.rules : IsRule(rule)
  /\ d.rules # {} => d.isolated

\* A rule without named ports meets a probe or not whoever owns the port.
LEMMA OwnerIrrelevant ==
  ASSUME NEW rule, NEW proto, NEW port, NEW o1, NEW o2,
         \A p \in rule.ports : p.named = ""
  PROVE  PortMatches(rule, proto, port, o1) <=> PortMatches(rule, proto, port, o2)
  BY DEF PortMatches

\* Rules set aside for a probe, and ports already judged, do not change what passes:
\* with the owner of the port fixed (ingress) or left open (egress).
LEMMA ForProbeExact ==
  ASSUME NEW d, IsDirection(d), NEW e, NEW proto, NEW port,
         NEW owner, owner # NoOwner, NEW known, known \in {owner, NoOwner}
  PROVE  DirectionAllows(ForProbe(d, proto, port, known), e, proto, port, owner)
           <=> DirectionAllows(d, e, proto, port, owner)
<1> DEFINE fixed   == IF known = NoOwner THEN <<>> ELSE known
           dynamic == {rule \in d.rules : Dynamic(rule, known)}
           met     == {rule \in d.rules \ dynamic : PortMatches(rule, proto, port, fixed)}
           f       == ForProbe(d, proto, port, known)
<1>1. \A rule \in d.rules \ dynamic :
        PortMatches(rule, proto, port, fixed) <=> PortMatches(rule, proto, port, owner)
  <2>1. CASE known = owner
    BY <2>1
  <2>2. CASE known = NoOwner
    <3>1. \A rule \in d.rules \ dynamic : \A p \in rule.ports : p.named = ""
      BY <2>2 DEF Dynamic
    <3>2. QED
      BY <3>1, OwnerIrrelevant
  <2>3. QED
    BY <2>1, <2>2
<1>2. \A rule \in met : /\ [rule EXCEPT !.ports = {}].ports = {}
                        /\ [rule EXCEPT !.ports = {}].all = rule.all
                        /\ [rule EXCEPT !.ports = {}].pods = rule.pods
                        /\ [rule EXCEPT !.ports = {}].blocks = rule.blocks
  BY DEF IsDirection, IsRule
<1>3. \A rule \in met :
        RuleMatches([rule EXCEPT !.ports = {}], e, proto, port, owner)
          <=> RuleMatches(rule, e, proto, port, owner)
  <2> SUFFICES ASSUME NEW rule \in met
               PROVE  RuleMatches([rule EXCEPT !.ports = {}], e, proto, port, owner)
                        <=> RuleMatches(rule, e, proto, port, owner)
    OBVIOUS
  <2>1. PortMatches(rule, proto, port, owner)
    BY <1>1
  <2>2. PortMatches([rule EXCEPT !.ports = {}], proto, port, owner)
    BY <1>2 DEF PortMatches
  <2>3. PeerMatches([rule EXCEPT !.ports = {}], e) <=> PeerMatches(rule, e)
    BY <1>2 DEF PeerMatches
  <2>4. QED
    BY <2>1, <2>2, <2>3 DEF RuleMatches
<1>4. CASE \E rule \in met : rule.all
  <2>1. PICK rule \in met : rule.all
    BY <1>4
  <2>2. RuleMatches(rule, e, proto, port, owner)
    BY <1>1, <2>1 DEF RuleMatches, PeerMatches
  <2>3. DirectionAllows(d, e, proto, port, owner)
    BY <2>1, <2>2 DEF DirectionAllows
  <2>4. f = [isolated |-> FALSE, rules |-> {}]
    BY <1>4 DEF ForProbe
  <2>5. QED
    BY <2>3, <2>4 DEF DirectionAllows
<1>5. CASE ~\E rule \in met : rule.all
  <2>1. f = [isolated |-> d.isolated,
             rules |-> dynamic \cup {[rule EXCEPT !.ports = {}] : rule \in met}]
    BY <1>5 DEF ForProbe
  <2>2. f.isolated = d.isolated
        /\ f.rules = dynamic \cup {[rule EXCEPT !.ports = {}] : rule \in met}
    BY <2>1
  <2>3. (\E rule \in d.rules : RuleMatches(rule, e, proto, port, owner))
          <=> \E rule \in dynamic \cup met : RuleMatches(rule, e, proto, port, owner)
    BY <1>1 DEF RuleMatches
  <2>4. (\E rule \in f.rules : RuleMatches(rule, e, proto, port, owner))
          <=> \E rule \in dynamic \cup met : RuleMatches(rule, e, proto, port, owner)
    <3> DEFINE Hit(rule) == RuleMatches(rule, e, proto, port, owner)
               bare(rule) == [rule EXCEPT !.ports = {}]
    <3>1. \A rule \in met : Hit(bare(rule)) <=> Hit(rule)
      BY <1>3
    <3>2. f.rules = dynamic \cup {bare(rule) : rule \in met}
      BY <2>2
    <3> HIDE DEF Hit, bare, f, dynamic, met
    <3>3. (\E rule \in f.rules : Hit(rule)) <=> \E rule \in dynamic \cup met : Hit(rule)
      BY <3>1, <3>2
    <3>4. QED
      BY <3>3 DEF Hit
  <2>5. QED
    BY <2>2, <2>3, <2>4 DEF DirectionAllows
<1>6. QED
  BY <1>4, <1>5
-----------------------------------------------------------------------------
IsPolicy(p) ==
  /\ \A rule \in p.ingress : IsRule(rule)
  /\ \A rule \in p.egress : IsRule(rule)

LEMMA ResolvedPolicy ==
  ASSUME NEW r, NEW np
  PROVE  IsPolicy(ResolvePolicy(r, np))
<1>1. \A rule : IsRule(ResolveRule(r, np.ns, rule))
  BY DEF ResolveRule, IsRule
<1>2. /\ ResolvePolicy(r, np).ingress = {ResolveRule(r, np.ns, rule) : rule \in np.ingress}
      /\ ResolvePolicy(r, np).egress  = {ResolveRule(r, np.ns, rule) : rule \in np.egress}
  BY DEF ResolvePolicy
<1>3. QED
  BY <1>1, <1>2 DEF IsPolicy

\* Every pair is answered from Antrea's index as from the policies themselves.
THEOREM AntreaIndexExact ==
  ASSUME NEW policies, \A p \in policies : IsPolicy(p),
         NEW src, NEW dst, NEW proto, NEW port, dst.ports # NoOwner
  PROVE  /\ DirectionAllows(IndexEndpoint(policies, dst, proto, port).ingress,
                            src, proto, port, dst.ports)
              <=> IngressAllows(policies, dst, src, proto, port)
         /\ DirectionAllows(IndexEndpoint(policies, src, proto, port).egress,
                            dst, proto, port, dst.ports)
              <=> EgressAllows(policies, src, dst, proto, port)
<1>1. IsDirection(IngressRules(policies, dst)) /\ IsDirection(EgressRules(policies, src))
  BY DEF IsDirection, IngressRules, EgressRules, IsPolicy
<1>2. DirectionAllows(IngressRules(policies, dst), src, proto, port, dst.ports)
        <=> IngressAllows(policies, dst, src, proto, port)
  BY DEF DirectionAllows, IngressRules, IngressAllows
<1>3. DirectionAllows(EgressRules(policies, src), dst, proto, port, dst.ports)
        <=> EgressAllows(policies, src, dst, proto, port)
  BY DEF DirectionAllows, EgressRules, EgressAllows
<1>4. DirectionAllows(IndexEndpoint(policies, dst, proto, port).ingress,
                      src, proto, port, dst.ports)
        <=> DirectionAllows(IngressRules(policies, dst), src, proto, port, dst.ports)
  BY <1>1, ForProbeExact DEF IndexEndpoint
<1>5. DirectionAllows(IndexEndpoint(policies, src, proto, port).egress,
                      dst, proto, port, dst.ports)
        <=> DirectionAllows(EgressRules(policies, src), dst, proto, port, dst.ports)
  BY <1>1, ForProbeExact DEF IndexEndpoint
<1>6. QED
  BY <1>2, <1>3, <1>4, <1>5

\* A flow of which no entry is about either end is one LookupFlow would let through.
THEOREM CiliumSkipSound ==
  ASSUME NEW entries, NEW src, NEW dst, NEW proto, NEW port, Valid(proto, port),
         ~AffectedDirections(entries, src).egress,
         ~AffectedDirections(entries, dst).ingress
  PROVE  LookupAllows(entries, src, dst, proto, port)
<1>1. ~IsInit(src) /\ ~\E e \in entries : ~e.ingress /\ About(e, src)
  BY DEF AffectedDirections
<1>2. ~IsInit(dst) /\ ~\E e \in entries : e.ingress /\ About(e, dst)
  BY DEF AffectedDirections
<1>3. DirectionAllowed(entries, FALSE, src, dst, proto, Uint16(port))
  BY <1>1 DEF DirectionAllowed
<1>4. DirectionAllowed(entries, TRUE, dst, src, proto, Uint16(port))
  BY <1>2 DEF DirectionAllowed
<1>5. QED
  BY <1>3, <1>4 DEF LookupAllows
-----------------------------------------------------------------------------
\* The index is the one of what has been loaded.
IndexOf(r, l) ==
  [i \in At(r) |->
     IF r.engine = "antrea" THEN IndexEndpoint(l, r.endpoints[i], r.proto, r.port)
     ELSE AffectedDirections(Entries(l), EndpointLabels(r, r.endpoints[i]))]

RespOK ==
  /\ resp = [matrix |-> resp.matrix, errors |-> resp.errors,
             warnings |-> resp.warnings, actors |-> resp.actors]
  /\ \A p \in DOMAIN resp.matrix : resp.matrix[p] \in {"allow", "deny"}
  /\ resp.errors \in Nat /\ resp.warnings \in Nat

\* What the properties rest on: the request is one of those assumed, what an Antrea
\* sweep has loaded are resolved policies, and once there is an index it is theirs.
IInv ==
  /\ req \in Requests
  /\ pc \in {"load", "index", "pairs", "done", "answered", "failed"}
  /\ next \in 1..(Len(req.policies) + 1)
  /\ left \subseteq EndpointPairs(req)
  /\ RespOK
  /\ req.engine = "antrea" => \A p \in loaded : IsPolicy(p)
  /\ pc = "pairs" /\ req.optimize => index = IndexOf(req, loaded)

LEMMA InitIInv == Init => IInv
<1> SUFFICES ASSUME Init PROVE IInv
  OBVIOUS
<1>1. req.policies \in Seq({req.policies[k] : k \in DOMAIN req.policies})
  BY RequestsAssumption DEF Init
<1>2. Len(req.policies) \in Nat
  BY <1>1
<1>3. RespOK
  BY DEF Init, RespOK
<1>4. req.engine = "antrea" => \A p \in loaded : IsPolicy(p)
  BY DEF Init
<1>5. QED
  BY <1>2, <1>3, <1>4 DEF Init, IInv

LEMMA WordIsVerdict == \A b : Word(b) \in {"allow", "deny"}
  BY DEF Word

LEMMA NextIInv == IInv /\ [Next]_vars => IInv'
<1> SUFFICES ASSUME IInv, [Next]_vars PROVE IInv'
  OBVIOUS
<1> USE DEF IInv
<1>0. req.policies \in Seq({req.policies[k] : k \in DOMAIN req.policies})
      /\ Len(req.policies) \in Nat
  BY RequestsAssumption
<1>1. CASE Load
  <2> DEFINE m == req.policies[next]
  <2>0. next \in DOMAIN req.policies /\ next + 1 \in 1..(Len(req.policies) + 1)
    BY <1>0, <1>1 DEF Load
  <2>1. req' = req /\ pc' = pc /\ pc = "load" /\ next' = next + 1 /\ left' = left /\ index' = index
    BY <1>1 DEF Load
  <2>2. RespOK'
    <3>1. CASE m.kind = "bad" /\ resp' = [resp EXCEPT !.errors = @ + 1]
      BY <3>1 DEF RespOK
    <3>2. CASE m.kind = "other" /\ resp' = [resp EXCEPT !.warnings = @ + 1]
      BY <3>2 DEF RespOK
    <3>3. CASE resp' = resp
      BY <3>3 DEF RespOK
    <3>4. QED
      BY <1>1, <3>1, <3>2, <3>3 DEF Load
  <2>3. (req.engine = "antrea" => \A p \in loaded : IsPolicy(p))'
    <3> SUFFICES ASSUME req.engine = "antrea" PROVE \A p \in loaded' : IsPolicy(p)
      BY <2>1
    <3>1. m.kind \in {"bad", "other", "np"}
      BY <2>0, RequestsAssumption
    <3>2. loaded' = loaded \/ loaded' = loaded \cup {ResolvePolicy(req, m.np)}
      BY <1>1, <3>1 DEF Load
    <3>3. QED
      BY <3>2, ResolvedPolicy
  <2>4. QED
    BY <2>0, <2>1, <2>2, <2>3
<1>2. CASE Loaded
  <2>1. RespOK'
    <3>1. resp' = resp \/ resp' = [resp EXCEPT !.errors = @ + 1]
      BY <1>2 DEF Loaded
    <3>2. QED
      BY <3>1 DEF RespOK
  <2>2. req' = req /\ pc' = "index" /\ next' = next /\ left' = left /\ loaded' = loaded
    BY <1>2 DEF Loaded
  <2>3. QED
    BY <2>1, <2>2
<1>3. CASE Index
  <2>1. /\ req' = req /\ pc' = "pairs" /\ next' = next /\ loaded' = loaded /\ resp' = resp
        /\ left' = EndpointPairs(req)
    BY <1>3 DEF Index
  <2>2. req.optimize => index' = IndexOf(req, loaded)
    BY <1>3 DEF Index, IndexOf
  <2>3. QED
    BY <2>1, <2>2 DEF RespOK
<1>4. CASE Answer
  <2>1. PICK ij \in left :
          /\ left' = left \ {ij}
          /\ resp' = [resp EXCEPT
                        !.matrix = Stored(@, Name(req, ij), Word(Allows(ij[1], ij[2]))),
                        !.warnings = IF req.engine = "cilium" /\ ~Valid(req.proto, req.port)
                                     THEN @ + 1 ELSE @]
    BY <1>4 DEF Answer
  <2> DEFINE v == Word(Allows(ij[1], ij[2]))
             p == Name(req, ij)
  <2>2. v \in {"allow", "deny"}
    BY WordIsVerdict
  <2> HIDE DEF v, p
  <2>3. resp'.matrix = Stored(resp.matrix, p, v)
    BY <2>1 DEF RespOK, v, p
  <2>4. \A q \in DOMAIN resp'.matrix : resp'.matrix[q] \in {"allow", "deny"}
    BY <2>2, <2>3 DEF Stored, RespOK
  <2>5. /\ resp' = [matrix |-> resp'.matrix, errors |-> resp'.errors,
                    warnings |-> resp'.warnings, actors |-> resp'.actors]
        /\ resp'.errors \in Nat /\ resp'.warnings \in Nat
    <3>1. /\ resp'.errors = resp.errors /\ resp'.actors = resp.actors
          /\ resp'.warnings \in {resp.warnings, resp.warnings + 1}
      BY <2>1 DEF RespOK
    <3>2. \E m, w : resp' = [resp EXCEPT !.matrix = m, !.warnings = w]
      BY <2>1
    <3>3. resp' = [matrix |-> resp'.matrix, errors |-> resp'.errors,
                   warnings |-> resp'.warnings, actors |-> resp'.actors]
      BY <3>2 DEF RespOK
    <3>4. QED
      BY <3>1, <3>3 DEF RespOK
  <2>6. RespOK'
    BY <2>4, <2>5 DEF RespOK
  <2>7. /\ req' = req /\ pc' = pc /\ next' = next /\ loaded' = loaded /\ index' = index
    BY <1>4 DEF Answer
  <2>8. QED
    BY <2>1, <2>6, <2>7
<1>5. CASE Report
  <2>1. RespOK'
    BY <1>5 DEF Report, RespOK
  <2>2. /\ req' = req /\ pc' = "done" /\ next' = next /\ loaded' = loaded /\ left' = left
    BY <1>5 DEF Report
  <2>3. QED
    BY <2>1, <2>2
<1>6. CASE RunFails
  BY <1>6 DEF RunFails, RespOK
<1>7. CASE Decode
  BY <1>7 DEF Decode, RespOK
<1>8. CASE UNCHANGED vars
  BY <1>8 DEF vars, RespOK
<1>9. QED
  BY <1>1, <1>2, <1>3, <1>4, <1>5, <1>6, <1>7, <1>8 DEF Next, Works

LEMMA InvariantIInv == Spec => []IInv
  BY InitIInv, NextIInv, PTL DEF Spec

\* Every sweep of an engine keeps its types, whatever the requests.
THEOREM EngineTypeOK == Spec => []TypeOK
<1>1. IInv => TypeOK
  BY DEF IInv, RespOK, TypeOK
<1>2. QED
  BY <1>1, InvariantIInv, PTL

LEMMA IndexedAsRules == IInv => IndexExact
<1> SUFFICES ASSUME IInv PROVE IndexExact
  OBVIOUS
<1>1. IndexExact
  <2> SUFFICES ASSUME pc = "pairs", NEW i \in At(req), NEW j \in At(req)
               PROVE  Allows(i, j) = Native(req, loaded, req.endpoints[i], req.endpoints[j])
    BY DEF IndexExact
  <2> DEFINE src == req.endpoints[i]
             dst == req.endpoints[j]
  <2>1. CASE ~req.optimize
    <3>1. Native(req, loaded, src, dst) \in BOOLEAN
      BY DEF Native, LookupAllows
    <3>2. Allows(i, j) = (FALSE \/ Native(req, loaded, src, dst))
      BY <2>1 DEF Allows
    <3> HIDE DEF src, dst
    <3>3. (FALSE \/ Native(req, loaded, src, dst)) = Native(req, loaded, src, dst)
      BY <3>1
    <3>4. QED
      BY <3>2, <3>3 DEF src, dst
  <2>2. CASE req.optimize /\ req.engine = "antrea"
    <3>1. /\ index[i] = IndexEndpoint(loaded, src, req.proto, req.port)
          /\ index[j] = IndexEndpoint(loaded, dst, req.proto, req.port)
      BY <2>2 DEF IInv, IndexOf
    <3>2. /\ \A p \in loaded : IsPolicy(p)
          /\ dst.ports # NoOwner
      BY <2>2, RequestsAssumption DEF IInv, At
    <3> HIDE DEF src, dst
    <3>3. /\ DirectionAllows(index[j].ingress, src, req.proto, req.port, dst.ports)
               <=> IngressAllows(loaded, dst, src, req.proto, req.port)
          /\ DirectionAllows(index[i].egress, dst, req.proto, req.port, dst.ports)
               <=> EgressAllows(loaded, src, dst, req.proto, req.port)
      BY <3>1, <3>2, AntreaIndexExact
    <3>4. Allows(i, j) = IndexedAllows(i, j)
      BY <2>2 DEF Allows
    <3>5. IndexedAllows(i, j) =
            (IngressAllows(loaded, dst, src, req.proto, req.port)
               /\ EgressAllows(loaded, src, dst, req.proto, req.port))
      BY <3>3 DEF IndexedAllows, src, dst
    <3>6. QED
      BY <2>2, <3>4, <3>5 DEF Native, src, dst
  <2>3. CASE req.optimize /\ req.engine # "antrea"
    <3> DEFINE ls == EndpointLabels(req, src)
               ld == EndpointLabels(req, dst)
               es == Entries(loaded)
    <3>1. /\ index[i] = AffectedDirections(es, ls)
          /\ index[j] = AffectedDirections(es, ld)
      BY <2>3 DEF IInv, IndexOf
    <3>2. Native(req, loaded, src, dst) = LookupAllows(es, ls, ld, req.proto, req.port)
      BY <2>3 DEF Native
    <3>3. Skipped(i, j) => LookupAllows(es, ls, ld, req.proto, req.port)
      <4> HIDE DEF ls, ld, es
      <4>1. QED
        BY <3>1, CiliumSkipSound DEF Skipped
    <3>4. Allows(i, j) = (Skipped(i, j) \/ Native(req, loaded, src, dst))
      BY <2>3 DEF Allows
    <3>5. LookupAllows(es, ls, ld, req.proto, req.port) \in BOOLEAN
      BY DEF LookupAllows
    <3>6. QED
      BY <3>2, <3>3, <3>4, <3>5
  <2>4. QED
    BY <2>1, <2>2, <2>3
<1>2. QED
  BY <1>1

\* No shortcut of either engine changes a verdict: of any two endpoints, under any
\* policies, the index says what the rules say.
THEOREM EngineIndexExact == Spec => []IndexExact
BY IndexedAsRules, InvariantIInv, PTL
-----------------------------------------------------------------------------
(* Antrea's rules are Kubernetes' *)

\* The pod of an endpoint carries the endpoint's own labels.
LEMMA PodOf ==
  ASSUME NEW r \in Requests, NEW i \in At(r)
  PROVE  LET e == r.endpoints[i]
             pods == PodLabels(r.endpoints)
         IN  /\ PodKey(e) \in DOMAIN pods <=> EndpointNamespace(e) # ""
             /\ EndpointNamespace(e) # "" => pods[PodKey(e)] = e.labels
<1> DEFINE es == r.endpoints
           e == es[i]
           pods == PodLabels(es)
           Latest(k, n) == PodKey(es[n]) = k /\ \A j \in PodAt(es) : PodKey(es[j]) = k => j <= n
<1>1. DOMAIN pods = {PodKey(es[n]) : n \in PodAt(es)}
      /\ \A k \in DOMAIN pods : pods[k] = es[CHOOSE n \in PodAt(es) : Latest(k, n)].labels
  BY DEF PodLabels
<1>2. \A n \in DOMAIN es : n \in PodAt(es) <=> EndpointNamespace(es[n]) # ""
  BY DEF PodAt
<1>3. ASSUME PodKey(e) \in DOMAIN pods PROVE EndpointNamespace(e) # ""
  <2>1. PICK n \in PodAt(es) : PodKey(e) = PodKey(es[n])
    BY <1>1, <1>3
  <2>2. EndpointNamespace(e) = EndpointNamespace(es[n])
    BY <2>1 DEF PodKey
  <2>3. QED
    BY <2>2 DEF PodAt
<1>4. ASSUME EndpointNamespace(e) # ""
      PROVE  PodKey(e) \in DOMAIN pods /\ pods[PodKey(e)] = e.labels
  <2>1. i \in PodAt(es)
    BY <1>2, <1>4 DEF At
  <2>2. \A n \in PodAt(es) : PodKey(es[n]) = PodKey(e) => n = i
    BY <1>4, EndpointsAssumption DEF At, PodAt
  <2>3. DOMAIN es \subseteq Nat
    BY EndpointsAssumption
  <2>4. i <= i
    BY <2>3 DEF At
  <2>5. Latest(PodKey(e), i)
    BY <2>2, <2>4
  <2>6. (CHOOSE n \in PodAt(es) : Latest(PodKey(e), n)) = i
    BY <2>1, <2>2, <2>5
  <2>7. PodKey(e) \in DOMAIN pods
    BY <1>1, <2>1
  <2>8. QED
    BY <1>1, <2>6, <2>7
<1>5. QED
  BY <1>3, <1>4

\* A resolved selector holds the pods of the endpoints it selects.
LEMMA ResolvedSelector ==
  ASSUME NEW r \in Requests, NEW i \in At(r), NEW n, NEW sel, NEW nsSel
  PROVE  LET e == r.endpoints[i]
         IN  PodKey(e) \in Resolve(r, n, sel, nsSel) <=>
               /\ EndpointNamespace(e) # "" /\ sel \subseteq e.labels
               /\ IF nsSel = NoSelector THEN n = EndpointNamespace(e)
                  ELSE nsSel \subseteq NamespaceLabels(r, EndpointNamespace(e))
<1>1. PodKey(r.endpoints[i])[1] = EndpointNamespace(r.endpoints[i])
  BY DEF PodKey
<1>2. QED
  BY <1>1, PodOf DEF Resolve

\* The peers and the ports of a rule, resolved and as they are written.
PeersAdmit(r, np, rule, e) == rule.peers = {} \/ \E q \in rule.peers : Admits(r, np, q, e)
PortsCover(r, rule, dst)   == rule.ports = {} \/ \E p \in rule.ports : Covers(p, r.proto, r.port, dst)

LEMMA ResolvedPeers ==
  ASSUME NEW r \in Requests, NEW i \in At(r), NEW np, NEW rule, RuleAdmitted(rule)
  PROVE  PeerMatches(ResolveRule(r, np.ns, rule), r.endpoints[i])
           <=> PeersAdmit(r, np, rule, r.endpoints[i])
<1> DEFINE e == r.endpoints[i]
           res == ResolveRule(r, np.ns, rule)
           selectors == {q \in rule.peers : q.kind = "pods"}
           resolved(q) == Resolve(r, np.ns, q.sel, q.nsSel)
<1>1. /\ res.all = (rule.peers = {})
      /\ res.pods = UNION {resolved(q) : q \in selectors}
      /\ res.blocks = rule.peers \ selectors
  BY DEF ResolveRule
<1>2. \A q \in selectors : PodKey(e) \in resolved(q) <=> Admits(r, np, q, e)
  <2> SUFFICES ASSUME NEW q \in selectors PROVE PodKey(e) \in resolved(q) <=> Admits(r, np, q, e)
    OBVIOUS
  <2>1. q.kind # "block"
    OBVIOUS
  <2>2. QED
    BY <2>1, ResolvedSelector DEF Admits
<1>3. \A q \in rule.peers \ selectors : (e.ip \in q.ips \ q.except) <=> Admits(r, np, q, e)
  BY DEF RuleAdmitted, Admits
<1>4. PodKey(e) \in res.pods <=> \E q \in selectors : Admits(r, np, q, e)
  <2>1. PodKey(e) \in res.pods <=> \E q \in selectors : PodKey(e) \in resolved(q)
    BY <1>1
  <2>2. QED
    BY <1>2, <2>1
<1>5. (\E q \in res.blocks : e.ip \in q.ips \ q.except)
        <=> \E q \in rule.peers \ selectors : Admits(r, np, q, e)
  BY <1>1, <1>3
<1>6. (\E q \in rule.peers : Admits(r, np, q, e))
        <=> \/ \E q \in selectors : Admits(r, np, q, e)
            \/ \E q \in rule.peers \ selectors : Admits(r, np, q, e)
  OBVIOUS
<1> HIDE DEF e, res, selectors
<1>7. PeerMatches(res, e) <=> PeersAdmit(r, np, rule, e)
  BY <1>1, <1>4, <1>5, <1>6 DEF PeerMatches, PeersAdmit
<1>8. QED
  BY <1>7 DEF e, res

\* A resolved port is met by the probes its declaration covers.
LEMMA ResolvedPort ==
  ASSUME NEW r \in Requests, NEW i \in At(r), NEW p,
         p.port \in Nat \cup {NoPort}, p.end \in Nat \cup {NoPort}
  PROVE  LET dst == r.endpoints[i]
             q   == ParsePort(p)
         IN  (/\ q.proto = r.proto
              /\ IF q.named # "" THEN ResolveNamed(dst.ports, q.named, r.proto) = r.port
                 ELSE q.port = -1 \/ (r.port >= q.port /\ r.port <= q.endPort))
               <=> Covers(p, r.proto, r.port, dst)
<1> DEFINE dst == r.endpoints[i]
           q == ParsePort(p)
           ports == dst.ports
<1>1. /\ q.proto = IF p.proto = "" THEN "tcp" ELSE p.proto
      /\ q.named = p.name
      /\ q.port = IF p.port = NoPort THEN -1 ELSE p.port
      /\ q.endPort = IF p.end # NoPort THEN p.end ELSE IF p.port = NoPort THEN 0 ELSE p.port
  BY DEF ParsePort
<1>2. r.port \in Nat
  BY ManifestsAssumption
<1>3. CASE p.name # ""
  <2> DEFINE at == {n \in DOMAIN ports : ports[n].name = p.name /\ ports[n].proto = r.proto}
             hit == \E n \in DOMAIN ports :
                      ports[n] = [name |-> p.name, proto |-> r.proto, port |-> r.port]
  <2>1. /\ DOMAIN ports \subseteq Nat
        /\ \A m \in DOMAIN ports :
             /\ ports[m] = [name |-> ports[m].name, proto |-> ports[m].proto, port |-> ports[m].port]
             /\ ports[m].port \in Nat
        /\ \A m, n \in DOMAIN ports :
             ports[m].name = ports[n].name /\ ports[m].proto = ports[n].proto => m = n
    BY EndpointsAssumption DEF At
  <2> HIDE DEF ports
  <2>2. hit <=> \E n \in at : ports[n].port = r.port
    BY <2>1
  <2>3. ResolveNamed(ports, p.name, r.proto) = r.port <=> \E n \in at : ports[n].port = r.port
    <3>1. CASE at = {}
      BY <1>2, <3>1 DEF ResolveNamed
    <3>2. CASE at # {}
      <4>1. PICK n \in at : TRUE
        BY <3>2
      <4>2. \A m \in at : m = n
        BY <2>1
      <4>3. n <= n
        BY <2>1
      <4>4. (CHOOSE m \in at : \A k \in at : m <= k) = n
        BY <4>1, <4>2, <4>3
      <4>5. ResolveNamed(ports, p.name, r.proto) = ports[n].port
        BY <3>2, <4>4 DEF ResolveNamed
      <4>6. QED
        BY <4>1, <4>2, <4>5
    <3>3. QED
      BY <3>1, <3>2
  <2>4. Covers(p, r.proto, r.port, dst) <=> (r.proto = IF p.proto = "" THEN "tcp" ELSE p.proto) /\ hit
    BY <1>3 DEF Covers, ports
  <2>5. QED
    BY <1>1, <1>3, <2>2, <2>3, <2>4 DEF ports
<1>4. CASE p.name = ""
  <2> DEFINE last == IF p.end = NoPort THEN p.port ELSE p.end
  <2>1. Covers(p, r.proto, r.port, dst) <=>
          /\ r.proto = IF p.proto = "" THEN "tcp" ELSE p.proto
          /\ p.port # NoPort => r.port \in p.port..last
    BY <1>4 DEF Covers
  <2>2. CASE p.port = NoPort
    BY <1>1, <1>4, <2>1, <2>2
  <2>3. CASE p.port # NoPort
    <3>1. q.port = p.port /\ q.endPort = last
      BY <1>1, <2>3
    <3>2. p.port \in Nat /\ last \in Nat
      BY <2>3
    <3> HIDE DEF last, q
    <3>3. (q.port = -1 \/ (r.port >= q.port /\ r.port <= q.endPort)) <=> r.port \in p.port..last
      BY <1>2, <3>1, <3>2
    <3>4. QED
      BY <1>1, <1>4, <2>1, <2>3, <3>3 DEF q
  <2>4. QED
    BY <2>2, <2>3
<1>5. QED
  BY <1>3, <1>4

LEMMA ResolvedPorts ==
  ASSUME NEW r \in Requests, NEW i \in At(r), NEW n, NEW rule, RuleAdmitted(rule)
  PROVE  PortMatches(ResolveRule(r, n, rule), r.proto, r.port, r.endpoints[i].ports)
           <=> PortsCover(r, rule, r.endpoints[i])
<1> DEFINE dst == r.endpoints[i]
           res == ResolveRule(r, n, rule)
           Met(q) == /\ q.proto = r.proto
                     /\ IF q.named # "" THEN ResolveNamed(dst.ports, q.named, r.proto) = r.port
                        ELSE q.port = -1 \/ (r.port >= q.port /\ r.port <= q.endPort)
<1>1. res.ports = {ParsePort(p) : p \in rule.ports}
  BY DEF ResolveRule
<1>2. \A p \in rule.ports : Met(ParsePort(p)) <=> Covers(p, r.proto, r.port, dst)
  BY ResolvedPort DEF RuleAdmitted
<1>3. PortMatches(res, r.proto, r.port, dst.ports) <=> res.ports = {} \/ \E q \in res.ports : Met(q)
  BY DEF PortMatches
<1> HIDE DEF dst, Met, res
<1>4. res.ports = {} <=> rule.ports = {}
  BY <1>1
<1>5. (\E q \in res.ports : Met(q)) <=> \E p \in rule.ports : Covers(p, r.proto, r.port, dst)
  BY <1>1, <1>2
<1>6. PortMatches(res, r.proto, r.port, dst.ports) <=> PortsCover(r, rule, dst)
  BY <1>3, <1>4, <1>5 DEF PortsCover
<1>7. QED
  BY <1>6 DEF dst, res

NetworkPolicies(r) ==
  {m.np : m \in {r.policies[k] : k \in {j \in DOMAIN r.policies : r.policies[j].kind = "np"}}}

LEMMA PoliciesAdmitted ==
  ASSUME NEW r \in Requests, NEW np \in NetworkPolicies(r)
  PROVE  \A rule \in np.ingress \cup np.egress : RuleAdmitted(rule)
BY ManifestsAssumption DEF NetworkPolicies

\* Some resolved rule admits a peer exactly when some rule as it is written does.
LEMMA ResolvedRules ==
  ASSUME NEW r \in Requests, NEW np, NEW rules, \A rule \in rules : RuleAdmitted(rule),
         NEW i \in At(r), NEW j \in At(r)
  PROVE  (\E res \in {ResolveRule(r, np.ns, rule) : rule \in rules} :
            RuleMatches(res, r.endpoints[i], r.proto, r.port, r.endpoints[j].ports))
           <=> Passes(r, np, rules, r.endpoints[i], r.endpoints[j])
<1> DEFINE Hit(res) == RuleMatches(res, r.endpoints[i], r.proto, r.port, r.endpoints[j].ports)
           Passing(rule) == /\ PeersAdmit(r, np, rule, r.endpoints[i])
                            /\ PortsCover(r, rule, r.endpoints[j])
           res(rule) == ResolveRule(r, np.ns, rule)
<1>1. \A rule \in rules : Hit(res(rule)) <=> Passing(rule)
  BY ResolvedPeers, ResolvedPorts DEF RuleMatches
<1>2. Passes(r, np, rules, r.endpoints[i], r.endpoints[j]) <=> \E rule \in rules : Passing(rule)
  BY DEF Passes, PeersAdmit, PortsCover
<1> HIDE DEF Hit, Passing, res
<1>3. (\E x \in {res(rule) : rule \in rules} : Hit(x)) <=> \E rule \in rules : Passing(rule)
  BY <1>1
<1>4. QED
  BY <1>2, <1>3 DEF Hit, res

LEMMA PolicyFields ==
  ASSUME NEW r, NEW np
  PROVE  LET p == ResolvePolicy(r, np)
         IN  /\ p.ingressIsolate = PolicyTypeHas(np, "Ingress")
             /\ p.egressIsolate = PolicyTypeHas(np, "Egress")
             /\ p.appliedTo = Resolve(r, np.ns, np.sel, NoSelector)
             /\ p.ingress = {ResolveRule(r, np.ns, rule) : rule \in np.ingress}
             /\ p.egress = {ResolveRule(r, np.ns, rule) : rule \in np.egress}
BY DEF ResolvePolicy

LEMMA SelectedIs ==
  ASSUME NEW r \in Requests, NEW np, NEW i \in At(r)
  PROVE  PodKey(r.endpoints[i]) \in Resolve(r, np.ns, np.sel, NoSelector)
           <=> Selects(np, r.endpoints[i])
<1> DEFINE e == r.endpoints[i]
<1>1. PodKey(e) \in Resolve(r, np.ns, np.sel, NoSelector) <=>
        EndpointNamespace(e) # "" /\ np.sel \subseteq e.labels /\ np.ns = EndpointNamespace(e)
  BY ResolvedSelector
<1>2. QED
  BY <1>1 DEF Selects

\* What is isolated, and what then passes, over policies that have been resolved.
Isolating(r, t, e) == {np \in NetworkPolicies(r) : PolicyTypeHas(np, t) /\ Selects(np, e)}

LEMMA AntreaIngress ==
  ASSUME NEW r \in Requests, NEW i \in At(r), NEW j \in At(r),
         NEW l, l = {ResolvePolicy(r, np) : np \in NetworkPolicies(r)}
  PROVE  IngressAllows(l, r.endpoints[j], r.endpoints[i], r.proto, r.port)
           <=> (Isolating(r, "Ingress", r.endpoints[j]) # {} =>
                  \E np \in Isolating(r, "Ingress", r.endpoints[j]) :
                    Passes(r, np, np.ingress, r.endpoints[i], r.endpoints[j]))
<1> DEFINE src == r.endpoints[i]
           dst == r.endpoints[j]
           N == NetworkPolicies(r)
           in == Isolating(r, "Ingress", dst)
           res(np) == ResolvePolicy(r, np)
           Mine(p) == p.ingressIsolate /\ PodKey(dst) \in p.appliedTo
           Hit(p) == \E rule \in p.ingress : RuleMatches(rule, src, r.proto, r.port, dst.ports)
           Passing(np) == Passes(r, np, np.ingress, src, dst)
<1>1. \A np \in N : Mine(res(np)) <=> np \in in
  BY PolicyFields, SelectedIs DEF Isolating
<1>2. ASSUME NEW np \in N PROVE Hit(res(np)) <=> Passing(np)
  <2>1. res(np).ingress = {ResolveRule(r, np.ns, rule) : rule \in np.ingress}
    BY PolicyFields
  <2>2. \A rule \in np.ingress : RuleAdmitted(rule)
    BY PoliciesAdmitted
  <2>3. QED
    BY <2>1, <2>2, ResolvedRules
<1>3. IngressAllows(l, dst, src, r.proto, r.port)
        <=> {p \in l : Mine(p)} = {} \/ \E p \in {q \in l : Mine(q)} : Hit(p)
  BY DEF IngressAllows
<1>4. in \subseteq N
  BY DEF Isolating
<1> HIDE DEF N, in, res, Mine, Hit, Passing
<1>5. l = {res(np) : np \in N}
  BY DEF res, N
<1>6. {p \in l : Mine(p)} = {} <=> in = {}
  BY <1>1, <1>4, <1>5
<1>7. (\E p \in {q \in l : Mine(q)} : Hit(p)) <=> \E np \in in : Passing(np)
  BY <1>1, <1>2, <1>4, <1>5
<1>8. QED
  BY <1>3, <1>6, <1>7 DEF in, Passing

LEMMA AntreaEgress ==
  ASSUME NEW r \in Requests, NEW i \in At(r), NEW j \in At(r),
         NEW l, l = {ResolvePolicy(r, np) : np \in NetworkPolicies(r)}
  PROVE  EgressAllows(l, r.endpoints[i], r.endpoints[j], r.proto, r.port)
           <=> (Isolating(r, "Egress", r.endpoints[i]) # {} =>
                  \E np \in Isolating(r, "Egress", r.endpoints[i]) :
                    Passes(r, np, np.egress, r.endpoints[j], r.endpoints[j]))
<1> DEFINE src == r.endpoints[i]
           dst == r.endpoints[j]
           N == NetworkPolicies(r)
           out == Isolating(r, "Egress", src)
           res(np) == ResolvePolicy(r, np)
           Mine(p) == p.egressIsolate /\ PodKey(src) \in p.appliedTo
           Hit(p) == \E rule \in p.egress : RuleMatches(rule, dst, r.proto, r.port, dst.ports)
           Passing(np) == Passes(r, np, np.egress, dst, dst)
<1>1. \A np \in N : Mine(res(np)) <=> np \in out
  BY PolicyFields, SelectedIs DEF Isolating
<1>2. ASSUME NEW np \in N PROVE Hit(res(np)) <=> Passing(np)
  <2>1. res(np).egress = {ResolveRule(r, np.ns, rule) : rule \in np.egress}
    BY PolicyFields
  <2>2. \A rule \in np.egress : RuleAdmitted(rule)
    BY PoliciesAdmitted
  <2>3. QED
    BY <2>1, <2>2, ResolvedRules
<1>3. EgressAllows(l, src, dst, r.proto, r.port)
        <=> {p \in l : Mine(p)} = {} \/ \E p \in {q \in l : Mine(q)} : Hit(p)
  BY DEF EgressAllows
<1>4. out \subseteq N
  BY DEF Isolating
<1> HIDE DEF N, out, res, Mine, Hit, Passing
<1>5. l = {res(np) : np \in N}
  BY DEF res, N
<1>6. {p \in l : Mine(p)} = {} <=> out = {}
  BY <1>1, <1>4, <1>5
<1>7. (\E p \in {q \in l : Mine(q)} : Hit(p)) <=> \E np \in out : Passing(np)
  BY <1>1, <1>2, <1>4, <1>5
<1>8. QED
  BY <1>3, <1>6, <1>7 DEF out, Passing

\* Whatever the policies, Antrea's walk over resolved rules gives the verdict Kubernetes
\* defines for the policies as they are written (engines/antrea/eval.go, harness.go).
THEOREM AntreaIsKubernetes ==
  ASSUME NEW r \in Requests, NEW i \in At(r), NEW j \in At(r),
         NEW l, l = {ResolvePolicy(r, np) : np \in NetworkPolicies(r)}
  PROVE  (/\ IngressAllows(l, r.endpoints[j], r.endpoints[i], r.proto, r.port)
          /\ EgressAllows(l, r.endpoints[i], r.endpoints[j], r.proto, r.port))
           <=> KubernetesAllows(r, r.endpoints[i], r.endpoints[j])
BY AntreaIngress, AntreaEgress DEF KubernetesAllows, Isolating, NetworkPolicies
-----------------------------------------------------------------------------
(* What has been loaded *)

\* A set of naturals below a bound has a greatest element.
LEMMA GreatestBelow ==
  ASSUME NEW n \in Nat, NEW T, T \subseteq 1..n, T # {}
  PROVE  \E x \in T : \A y \in T : y <= x
<1> DEFINE D == {n - y : y \in T}
           R == OpToRel(<, Nat)
<1>0. PICK t \in T : TRUE
  OBVIOUS
<1>1. D \subseteq Nat /\ n - t \in D
  BY <1>0
<1>2. PICK d \in D : \A e \in D : ~(<<e, d>> \in R)
  <2>1. IsWellFoundedOn(R, Nat)
    BY NatLessThanWellFounded
  <2> HIDE DEF R, D
  <2>2. QED
    BY <1>1, <2>1, WFMin
<1>3. \A e \in D : ~(e < d)
  BY <1>1, <1>2 DEF OpToRel
<1>4. PICK x \in T : d = n - x
  BY <1>2
<1>5. \A y \in T : ~(n - y < n - x)
  BY <1>3, <1>4
<1>6. QED
  BY <1>4, <1>5

\* The manifests of a kind among the first ones.
OfKind(r, n, kind) == {k \in DOMAIN r.policies : k < n /\ r.policies[k].kind = kind}

AntreaLoaded(r, n, l) == l = {ResolvePolicy(r, r.policies[k].np) : k \in OfKind(r, n, "np")}

\* Of the manifests of one resource the last one stands.
Standing(r, n, k) ==
  /\ k \in OfKind(r, n, "resource")
  /\ \A j \in OfKind(r, n, "resource") : j > k => r.policies[j].key # r.policies[k].key

CiliumLoaded(r, n, l) ==
  /\ l = [resources |-> l.resources, rules |-> l.rules, panics |-> l.panics]
  /\ l.rules = UNION {r.policies[k].entries : k \in OfKind(r, n, "rules")}
  /\ l.panics \in BOOLEAN
  /\ l.panics <=> \E k \in OfKind(r, n, "rules") : r.policies[k].panics
  /\ DOMAIN l.resources = {r.policies[k].key : k \in OfKind(r, n, "resource")}
  /\ \A k \in DOMAIN r.policies :
       Standing(r, n, k) => l.resources[r.policies[k].key] = r.policies[k].entries

HasLoaded(r, n, l) ==
  IF r.engine = "antrea" THEN AntreaLoaded(r, n, l) ELSE CiliumLoaded(r, n, l)

\* Loading one more manifest.
LEMMA LoadsOne ==
  ASSUME NEW r \in Requests, NEW n \in DOMAIN r.policies, NEW l, NEW l2, HasLoaded(r, n, l),
         LET m == r.policies[n] IN
           \/ m.kind = "np" /\ l2 = l \cup {ResolvePolicy(r, m.np)}
           \/ m.kind = "resource" /\ l2 = [l EXCEPT !.resources = Stored(@, m.key, m.entries)]
           \/ m.kind = "rules" /\ l2 = [l EXCEPT !.rules = @ \cup m.entries, !.panics = @ \/ m.panics]
           \/ m.kind \in {"bad", "other"} /\ l2 = l
  PROVE  HasLoaded(r, n + 1, l2)
<1> DEFINE m == r.policies[n]
<1>1. DOMAIN r.policies \subseteq Nat
  <2>1. r.policies \in Seq({r.policies[k] : k \in DOMAIN r.policies})
    BY RequestsAssumption
  <2>2. QED
    BY <2>1
<1>2. \A kind : OfKind(r, n + 1, kind) =
        IF m.kind = kind THEN OfKind(r, n, kind) \cup {n} ELSE OfKind(r, n, kind)
  BY <1>1 DEF OfKind
<1>3. \A kind : n \notin OfKind(r, n, kind) /\ \A k \in OfKind(r, n, kind) : k < n
  BY <1>1 DEF OfKind
<1>4. CASE r.engine = "antrea"
  <2>1. m.kind \in {"np", "bad", "other"}
    BY <1>4, RequestsAssumption
  <2>2. l = {ResolvePolicy(r, r.policies[k].np) : k \in OfKind(r, n, "np")}
    BY <1>4 DEF HasLoaded, AntreaLoaded
  <2>3. l2 = {ResolvePolicy(r, r.policies[k].np) : k \in OfKind(r, n + 1, "np")}
    <3>1. CASE m.kind = "np"
      <4>1. l2 = l \cup {ResolvePolicy(r, m.np)} /\ OfKind(r, n + 1, "np") = OfKind(r, n, "np") \cup {n}
        BY <1>2, <3>1
      <4>2. QED
        BY <2>2, <4>1
    <3>2. CASE m.kind # "np"
      BY <1>2, <2>1, <2>2, <3>2
    <3>3. QED
      BY <3>1, <3>2
  <2>4. QED
    BY <1>4, <2>3 DEF HasLoaded, AntreaLoaded
<1>5. CASE r.engine # "antrea"
  <2>1. m.kind \in {"resource", "rules", "bad", "other"}
    BY <1>5, RequestsAssumption
  <2>2. CiliumLoaded(r, n, l)
    BY <1>5 DEF HasLoaded
  <2>3. CASE m.kind \in {"bad", "other"}
    <3>1. l2 = l /\ \A kind \in {"rules", "resource"} : OfKind(r, n + 1, kind) = OfKind(r, n, kind)
      BY <1>2, <2>3
    <3>2. CiliumLoaded(r, n + 1, l2)
      BY <2>2, <3>1 DEF CiliumLoaded, Standing
    <3>3. QED
      BY <1>5, <3>2 DEF HasLoaded
  <2>4. CASE m.kind = "rules"
    <3>1. /\ l2 = [l EXCEPT !.rules = @ \cup m.entries, !.panics = @ \/ m.panics]
          /\ OfKind(r, n + 1, "rules") = OfKind(r, n, "rules") \cup {n}
          /\ OfKind(r, n + 1, "resource") = OfKind(r, n, "resource")
      BY <1>2, <2>4
    <3>2. /\ l2 = [resources |-> l2.resources, rules |-> l2.rules, panics |-> l2.panics]
          /\ l2.resources = l.resources /\ l2.rules = l.rules \cup m.entries
          /\ l2.panics = (l.panics \/ m.panics)
      <4>1. l = [resources |-> l.resources, rules |-> l.rules, panics |-> l.panics]
        BY <2>2 DEF CiliumLoaded
      <4>2. QED
        BY <3>1, <4>1
    <3>3. l2.panics \in BOOLEAN /\ (l2.panics <=> l.panics \/ m.panics)
      BY <3>2
    <3>4. l2.rules = UNION {r.policies[k].entries : k \in OfKind(r, n + 1, "rules")}
      <4> DEFINE before == OfKind(r, n, "rules")
                 es(k) == r.policies[k].entries
      <4>1. l2.rules = (UNION {es(k) : k \in before}) \cup es(n)
        BY <2>2, <3>2 DEF CiliumLoaded
      <4>2. OfKind(r, n + 1, "rules") = before \cup {n}
        BY <3>1
      <4> HIDE DEF before, es
      <4>3. (UNION {es(k) : k \in before}) \cup es(n) = UNION {es(k) : k \in before \cup {n}}
        OBVIOUS
      <4>4. QED
        BY <4>1, <4>2, <4>3 DEF es
    <3>5. l2.panics <=> \E k \in OfKind(r, n + 1, "rules") : r.policies[k].panics
      BY <2>2, <3>1, <3>3 DEF CiliumLoaded
    <3>6. CiliumLoaded(r, n + 1, l2)
      BY <2>2, <3>1, <3>2, <3>3, <3>4, <3>5 DEF CiliumLoaded, Standing
    <3>7. QED
      BY <1>5, <3>6 DEF HasLoaded
  <2>5. CASE m.kind = "resource"
    <3>1. /\ l2 = [l EXCEPT !.resources = Stored(@, m.key, m.entries)]
          /\ OfKind(r, n + 1, "resource") = OfKind(r, n, "resource") \cup {n}
          /\ OfKind(r, n + 1, "rules") = OfKind(r, n, "rules")
      BY <1>2, <2>5
    <3>2. /\ l2 = [resources |-> l2.resources, rules |-> l2.rules, panics |-> l2.panics]
          /\ l2.resources = Stored(l.resources, m.key, m.entries)
          /\ l2.rules = l.rules /\ l2.panics = l.panics
      <4>1. l = [resources |-> l.resources, rules |-> l.rules, panics |-> l.panics]
        BY <2>2 DEF CiliumLoaded
      <4>2. QED
        BY <3>1, <4>1
    <3>3. DOMAIN l2.resources = {r.policies[k].key : k \in OfKind(r, n + 1, "resource")}
      <4> DEFINE before == OfKind(r, n, "resource")
                 key(k) == r.policies[k].key
      <4>1. DOMAIN l2.resources = DOMAIN l.resources \cup {m.key}
        BY <3>2 DEF Stored
      <4>2. DOMAIN l.resources = {key(k) : k \in before} /\ m.key = key(n)
        BY <2>2 DEF CiliumLoaded
      <4>3. OfKind(r, n + 1, "resource") = before \cup {n}
        BY <3>1
      <4> HIDE DEF before, key
      <4>4. {key(k) : k \in before} \cup {key(n)} = {key(k) : k \in before \cup {n}}
        OBVIOUS
      <4>5. QED
        BY <4>1, <4>2, <4>3, <4>4 DEF key
    <3>4. ASSUME NEW k \in DOMAIN r.policies, Standing(r, n + 1, k)
          PROVE  l2.resources[r.policies[k].key] = r.policies[k].entries
      <4>1. CASE k = n
        BY <3>2, <4>1 DEF Stored
      <4>2. CASE k # n
        <5>1. Standing(r, n, k)
          BY <3>1, <3>4, <4>2 DEF Standing
        <5>2. r.policies[k].key # m.key
          BY <1>3, <3>1, <3>4, <5>1 DEF Standing
        <5>3. r.policies[k].key \in DOMAIN l.resources
          BY <2>2, <5>1 DEF CiliumLoaded, Standing
        <5>4. QED
          BY <2>2, <3>2, <5>1, <5>2, <5>3 DEF CiliumLoaded, Stored
      <4>3. QED
        BY <4>1, <4>2
    <3>5. CiliumLoaded(r, n + 1, l2)
      BY <2>2, <3>1, <3>2, <3>3, <3>4 DEF CiliumLoaded
    <3>6. QED
      BY <1>5, <3>5 DEF HasLoaded
  <2>6. QED
    BY <2>1, <2>3, <2>4, <2>5
<1>6. QED
  BY <1>4, <1>5

\* In the end the entries are those of the last manifest of every resource, and of the
\* rules if none of them panics.
LEMMA EntriesAreLast ==
  ASSUME NEW r \in Requests, NEW l, CiliumLoaded(r, Len(r.policies) + 1, l)
  PROVE  Entries(l) = LastEntries(r)
<1> DEFINE n == Len(r.policies) + 1
           es(k) == r.policies[k].entries
           of(kind) == {k \in DOMAIN r.policies : r.policies[k].kind = kind}
           last == {k \in of("resource") :
                      ~\E j \in of("resource") : j > k /\ r.policies[j].key = r.policies[k].key}
           refused == \E k \in of("rules") : r.policies[k].panics
           rules == IF refused THEN {} ELSE of("rules")
<1>1. n - 1 \in Nat /\ DOMAIN r.policies = 1..(n - 1)
  <2>1. r.policies \in Seq({r.policies[k] : k \in DOMAIN r.policies})
    BY RequestsAssumption
  <2>2. QED
    BY <2>1
<1>2. \A kind : OfKind(r, n, kind) = of(kind)
  BY <1>1 DEF OfKind
<1>3. \A k : Standing(r, n, k) <=> k \in last
  BY <1>2 DEF Standing
<1>4. LastEntries(r) = UNION {es(k) : k \in last \cup rules}
  BY DEF LastEntries
<1>5. UNION {l.resources[key] : key \in DOMAIN l.resources} = UNION {es(k) : k \in last}
  <2>1. \A k \in last : k \in of("resource") /\ l.resources[r.policies[k].key] = es(k)
    BY <1>3 DEF CiliumLoaded
  <2>2. DOMAIN l.resources = {r.policies[k].key : k \in of("resource")}
    BY <1>2 DEF CiliumLoaded
  <2>3. \A key \in DOMAIN l.resources : \E k \in last : r.policies[k].key = key
    <3> SUFFICES ASSUME NEW key \in DOMAIN l.resources
                 PROVE  \E k \in last : r.policies[k].key = key
      OBVIOUS
    <3> DEFINE T == {k \in of("resource") : r.policies[k].key = key}
    <3>1. T # {}
      BY <2>2
    <3>2. T \subseteq 1..(n - 1)
      BY <1>1
    <3>3. \E k \in T : \A j \in T : j <= k
      <4> HIDE DEF T, n
      <4>1. QED
        BY <1>1, <3>1, <3>2, GreatestBelow
    <3>4. PICK k \in T : \A j \in T : j <= k
      BY <3>3
    <3>5. \A j \in of("resource") : j > k => r.policies[j].key # key
      <4> SUFFICES ASSUME NEW j \in of("resource"), j > k, r.policies[j].key = key PROVE FALSE
        OBVIOUS
      <4>1. j \in T /\ j \in Nat /\ k \in Nat
        BY <1>1
      <4>2. j <= k
        BY <3>4, <4>1
      <4>3. QED
        BY <4>1, <4>2
    <3>6. k \in last
      BY <3>4, <3>5
    <3>7. QED
      BY <3>4, <3>6
  <2>4. \A key \in DOMAIN l.resources : \E k \in last : l.resources[key] = es(k)
    BY <2>1, <2>3
  <2>5. \A k \in last : \E key \in DOMAIN l.resources : l.resources[key] = es(k)
    BY <2>1, <2>2
  <2> HIDE DEF last, es
  <2>6. QED
    BY <2>4, <2>5
<1>6. (IF l.panics THEN {} ELSE l.rules) = UNION {es(k) : k \in rules}
  <2>1. (l.panics <=> refused) /\ l.rules = UNION {es(k) : k \in of("rules")}
    BY <1>2 DEF CiliumLoaded
  <2> HIDE DEF es, of, refused
  <2>2. CASE refused
    BY <2>1, <2>2
  <2>3. CASE ~refused
    BY <2>1, <2>3
  <2>4. QED
    BY <2>2, <2>3
<1> HIDE DEF es, last, rules
<1> DEFINE resources == UNION {l.resources[key] : key \in DOMAIN l.resources}
           collected == IF l.panics THEN {} ELSE l.rules
<1>7. Entries(l) = (UNION {es(k) : k \in last}) \cup (UNION {es(k) : k \in rules})
  <2>1. Entries(l) = resources \cup collected
    BY DEF Entries
  <2> HIDE DEF resources, collected
  <2>2. resources = UNION {es(k) : k \in last} /\ collected = UNION {es(k) : k \in rules}
    BY <1>5, <1>6 DEF resources, collected
  <2>3. QED
    BY <2>1, <2>2
<1>8. (UNION {es(k) : k \in last}) \cup (UNION {es(k) : k \in rules}) = UNION {es(k) : k \in last \cup rules}
  OBVIOUS
<1>9. QED
  BY <1>4, <1>7, <1>8

\* What the answer for two positions should be.
TruthAt(r, i, j) ==
  IF r.engine = "antrea" THEN KubernetesAllows(r, r.endpoints[i], r.endpoints[j])
  ELSE LookupAllows(LastEntries(r), EndpointLabels(r, r.endpoints[i]),
                    EndpointLabels(r, r.endpoints[j]), r.proto, r.port)

LEMMA NativeIsTruth ==
  ASSUME NEW r \in Requests, NEW l, HasLoaded(r, Len(r.policies) + 1, l),
         NEW i \in At(r), NEW j \in At(r)
  PROVE  Native(r, l, r.endpoints[i], r.endpoints[j]) <=> TruthAt(r, i, j)
<1>1. CASE r.engine = "antrea"
  <2>1. r.policies \in Seq({r.policies[k] : k \in DOMAIN r.policies})
    BY RequestsAssumption
  <2>2. DOMAIN r.policies = 1..Len(r.policies) /\ Len(r.policies) \in Nat
    BY <2>1
  <2>3. OfKind(r, Len(r.policies) + 1, "np") = {k \in DOMAIN r.policies : r.policies[k].kind = "np"}
    BY <2>2 DEF OfKind
  <2>4. l = {ResolvePolicy(r, r.policies[k].np) :
                k \in {n \in DOMAIN r.policies : r.policies[n].kind = "np"}}
    BY <1>1, <2>3 DEF HasLoaded, AntreaLoaded
  <2>5. l = {ResolvePolicy(r, np) : np \in NetworkPolicies(r)}
    <3> DEFINE res(np) == ResolvePolicy(r, np)
    <3> HIDE DEF res
    <3>1. l = {res(r.policies[k].np) : k \in {n \in DOMAIN r.policies : r.policies[n].kind = "np"}}
      BY <2>4 DEF res
    <3>2. l = {res(np) : np \in NetworkPolicies(r)}
      BY <3>1 DEF NetworkPolicies
    <3>3. QED
      BY <3>2 DEF res
  <2>6. QED
    BY <1>1, <2>5, AntreaIsKubernetes DEF Native, TruthAt
<1>2. CASE r.engine # "antrea"
  <2>1. Entries(l) = LastEntries(r)
    BY <1>2, EntriesAreLast DEF HasLoaded
  <2>2. QED
    BY <1>2, <2>1 DEF Native, TruthAt
<1>3. QED
  BY <1>1, <1>2

\* Distinct endpoints have distinct ids, so a pair of ids is one pair of positions.
LEMMA NamesDistinct ==
  ASSUME NEW r \in Requests, NEW ij \in EndpointPairs(r), NEW kl \in EndpointPairs(r),
         Name(r, ij) = Name(r, kl)
  PROVE  ij = kl
<1>1. PICK i \in At(r), j \in At(r) : ij = <<i, j>>
  BY DEF EndpointPairs
<1>2. PICK k \in At(r), l \in At(r) : kl = <<k, l>>
  BY DEF EndpointPairs
<1>3. r.endpoints[i].id = r.endpoints[k].id /\ r.endpoints[j].id = r.endpoints[l].id
  BY <1>1, <1>2 DEF Name
<1>4. i = k /\ j = l
  BY <1>3, EndpointsAssumption DEF At
<1>5. QED
  BY <1>1, <1>2, <1>4

LEMMA TruthIs ==
  ASSUME NEW r \in Requests
  PROVE  /\ DOMAIN Truth(r) = {Name(r, ij) : ij \in EndpointPairs(r)}
         /\ \A ij \in EndpointPairs(r) : Truth(r)[Name(r, ij)] = Word(TruthAt(r, ij[1], ij[2]))
<1> DEFINE at(p) == CHOOSE ij \in EndpointPairs(r) : Name(r, ij) = p
<1>1. DOMAIN Truth(r) = {Name(r, ij) : ij \in EndpointPairs(r)}
      /\ \A p \in DOMAIN Truth(r) : Truth(r)[p] = Word(TruthAt(r, at(p)[1], at(p)[2]))
  BY DEF Truth, TruthAt
<1>2. \A ij \in EndpointPairs(r) : at(Name(r, ij)) = ij
  BY NamesDistinct
<1> HIDE DEF at
<1>3. QED
  BY <1>1, <1>2
-----------------------------------------------------------------------------
(* The refinement *)

\* At each moment the pairs that have been answered, and no others, have their verdicts.
Answered ==
  /\ truth = Truth(req)
  /\ HasLoaded(req, next, loaded)
  /\ pc \notin {"load", "failed"} => next = Len(req.policies) + 1
  /\ pc \in {"load", "index"} => resp.matrix = <<>>
  /\ pc = "pairs" =>
       DOMAIN resp.matrix = {Name(req, ij) : ij \in EndpointPairs(req) \ left}
  /\ pc \in {"done", "answered"} => DOMAIN resp.matrix = DOMAIN truth
  /\ \A p \in DOMAIN resp.matrix : resp.matrix[p] = truth[p]

LEMMA InitAnswered == Init => Answered /\ Promise!MInit
<1> SUFFICES ASSUME Init PROVE Answered /\ Promise!MInit
  OBVIOUS
<1>1. HasLoaded(req, next, loaded)
  <2>1. \A kind : OfKind(req, 1, kind) = {}
    <3>1. req.policies \in Seq({req.policies[k] : k \in DOMAIN req.policies})
      BY RequestsAssumption DEF Init
    <3>2. QED
      BY <3>1 DEF OfKind
  <2>2. CASE req.engine = "antrea"
    BY <2>1, <2>2 DEF Init, HasLoaded, AntreaLoaded
  <2>3. CASE req.engine # "antrea"
    <3>1. loaded = [resources |-> <<>>, rules |-> {}, panics |-> FALSE]
      BY <2>3 DEF Init
    <3>2. CiliumLoaded(req, 1, loaded)
      BY <2>1, <3>1 DEF CiliumLoaded, Standing
    <3>3. QED
      BY <2>3, <3>2 DEF Init, HasLoaded
  <2>4. QED
    BY <2>2, <2>3
<1>2. resp.matrix = <<>> /\ pc = "load" /\ truth = Truth(req) /\ DOMAIN resp.matrix = {}
  BY DEF Init
<1>3. Answered
  BY <1>1, <1>2 DEF Answered
<1>4. \A p \in DOMAIN truth : truth[p] \in {"allow", "deny"}
  <2>1. req \in Requests
    BY DEF Init
  <2> SUFFICES ASSUME NEW p \in DOMAIN Truth(req) PROVE Truth(req)[p] \in {"allow", "deny"}
    BY <1>2
  <2>2. PICK ij \in EndpointPairs(req) : p = Name(req, ij)
    BY <2>1, TruthIs
  <2>3. Truth(req)[p] = Word(TruthAt(req, ij[1], ij[2]))
    BY <2>1, <2>2, TruthIs
  <2>4. QED
    BY <2>3, WordIsVerdict
<1>5. QED
  BY <1>2, <1>3, <1>4 DEF Promise!MInit, Promise!Verdicts

LEMMA NextAnswered ==
  IInv /\ Answered /\ [Next]_vars => Answered' /\ [Promise!MNext]_(Promise!mvars)
<1> SUFFICES ASSUME IInv, Answered, [Next]_vars
             PROVE  Answered' /\ [Promise!MNext]_(Promise!mvars)
  OBVIOUS
<1> USE DEF Answered
<1>1. CASE Load
  <2> DEFINE m == req.policies[next]
  <2>1. /\ UNCHANGED <<req, pc, truth>> /\ pc = "load" /\ next' = next + 1
        /\ next \in DOMAIN req.policies
    <3>1. req.policies \in Seq({req.policies[k] : k \in DOMAIN req.policies})
      BY RequestsAssumption DEF IInv
    <3>2. QED
      BY <1>1, <3>1 DEF Load, IInv
  <2>2. resp'.matrix = resp.matrix
    <3>1. \/ resp' = resp
          \/ resp' = [resp EXCEPT !.errors = @ + 1]
          \/ resp' = [resp EXCEPT !.warnings = @ + 1]
      BY <1>1 DEF Load
    <3>2. QED
      BY <3>1 DEF IInv, RespOK
  <2>3. \/ m.kind = "np" /\ loaded' = loaded \cup {ResolvePolicy(req, m.np)}
        \/ m.kind = "resource" /\ loaded' = [loaded EXCEPT !.resources = Stored(@, m.key, m.entries)]
        \/ m.kind = "rules" /\ loaded' = [loaded EXCEPT !.rules = @ \cup m.entries,
                                                        !.panics = @ \/ m.panics]
        \/ m.kind \in {"bad", "other"} /\ loaded' = loaded
    BY <1>1 DEF Load
  <2>4. HasLoaded(req, next + 1, loaded')
    BY <2>1, <2>3, LoadsOne DEF IInv
  <2>5. Answered'
    BY <2>1, <2>2, <2>4
  <2>6. QED
    BY <2>1, <2>2, <2>5 DEF Promise!mvars
<1>2. CASE Loaded \/ Index
  <2>1. resp'.matrix = resp.matrix
    <3>1. resp' = resp \/ resp' = [resp EXCEPT !.errors = @ + 1]
      BY <1>2 DEF Loaded, Index
    <3>2. QED
      BY <3>1 DEF IInv, RespOK
  <2>2. UNCHANGED <<req, next, loaded, truth>> /\ {pc, pc'} \subseteq {"load", "index", "pairs"}
    BY <1>2 DEF Loaded, Index
  <2>3. CASE Loaded
    <3>1. pc' = "index" /\ pc = "load" /\ next = Len(req.policies) + 1
      <4>1. req.policies \in Seq({req.policies[k] : k \in DOMAIN req.policies})
        BY RequestsAssumption DEF IInv
      <4>2. QED
        BY <2>3, <4>1 DEF Loaded, IInv
    <3>2. Answered'
      BY <2>1, <2>2, <3>1
    <3>3. QED
      BY <2>1, <2>2, <3>2 DEF Promise!mvars
  <2>4. CASE Index
    <3>1. pc' = "pairs" /\ pc = "index" /\ left' = EndpointPairs(req)
      BY <2>4 DEF Index
    <3>2. EndpointPairs(req)' = EndpointPairs(req)
      BY <2>2
    <3>3. DOMAIN resp'.matrix = {Name(req', ij) : ij \in EndpointPairs(req)' \ left'}
      BY <2>1, <2>2, <3>1, <3>2
    <3>4. Answered'
      BY <2>1, <2>2, <3>1, <3>3
    <3>5. QED
      BY <2>1, <2>2, <3>4 DEF Promise!mvars
  <2>5. QED
    BY <1>2, <2>3, <2>4
<1>3. CASE Answer
  <2>1. PICK ij \in left :
          /\ left' = left \ {ij}
          /\ resp' = [resp EXCEPT
                        !.matrix = Stored(@, Name(req, ij), Word(Allows(ij[1], ij[2]))),
                        !.warnings = IF req.engine = "cilium" /\ ~Valid(req.proto, req.port)
                                     THEN @ + 1 ELSE @]
    BY <1>3 DEF Answer
  <2> DEFINE p == Name(req, ij)
  <2>2. /\ pc = "pairs" /\ UNCHANGED <<req, pc, next, loaded, truth>>
        /\ ij \in EndpointPairs(req) /\ left \subseteq EndpointPairs(req)
    BY <1>3, <2>1 DEF Answer, IInv
  <2>3. Word(Allows(ij[1], ij[2])) = truth[p]
    <3>1. ij[1] \in At(req) /\ ij[2] \in At(req)
      BY <2>2 DEF EndpointPairs
    <3>2. Allows(ij[1], ij[2]) = Native(req, loaded, req.endpoints[ij[1]], req.endpoints[ij[2]])
      BY <2>2, <3>1, IndexedAsRules DEF IndexExact
    <3>3. Native(req, loaded, req.endpoints[ij[1]], req.endpoints[ij[2]])
            <=> TruthAt(req, ij[1], ij[2])
      BY <2>2, <3>1, NativeIsTruth DEF IInv
    <3>4. truth[p] = Word(TruthAt(req, ij[1], ij[2]))
      BY <2>2, TruthIs DEF IInv
    <3>5. QED
      BY <3>2, <3>3, <3>4 DEF Word
  <2>4. resp'.matrix = Stored(resp.matrix, p, truth[p])
    BY <2>1, <2>3 DEF IInv, RespOK
  <2>5. p \in DOMAIN truth /\ p \notin DOMAIN resp.matrix
    <3>1. p \in DOMAIN truth
      BY <2>2, TruthIs DEF IInv
    <3>2. \A kl \in EndpointPairs(req) \ left : Name(req, kl) # p
      BY <2>1, <2>2, NamesDistinct DEF IInv
    <3>3. QED
      BY <2>2, <3>1, <3>2
  <2>6. resp'.matrix = Promise!Extended(resp.matrix, p, truth[p])
    BY <2>4 DEF Stored, Promise!Extended
  <2>7. Promise!MNext
    BY <2>2, <2>5, <2>6 DEF Promise!MNext, Promise!ReportPair
  <2>8. DOMAIN resp'.matrix = {Name(req, kl) : kl \in EndpointPairs(req) \ left'}
    <3>1. EndpointPairs(req) \ left' = (EndpointPairs(req) \ left) \cup {ij}
      BY <2>1, <2>2
    <3>2. DOMAIN resp'.matrix = DOMAIN resp.matrix \cup {p}
      BY <2>4 DEF Stored
    <3>3. QED
      BY <2>2, <3>1, <3>2
  <2>9. \A q \in DOMAIN resp'.matrix : resp'.matrix[q] = truth[q]
    BY <2>4 DEF Stored
  <2>10. Answered'
    BY <2>2, <2>8, <2>9
  <2>11. QED
    BY <2>7, <2>10
<1>4. CASE Report
  <2>1. /\ pc = "pairs" /\ pc' = "done" /\ left = {} /\ UNCHANGED <<req, next, loaded, truth>>
        /\ resp'.matrix = resp.matrix
    BY <1>4 DEF Report, IInv, RespOK
  <2>2. DOMAIN resp.matrix = DOMAIN truth
    BY <2>1, TruthIs DEF IInv
  <2>3. Answered'
    BY <2>1, <2>2
  <2>4. QED
    BY <2>1, <2>3 DEF Promise!mvars
<1>5. CASE RunFails
  <2>1. /\ pc \in {"load", "index", "pairs", "done"} /\ pc' = "failed"
        /\ UNCHANGED <<req, next, loaded, resp, truth>>
    BY <1>5 DEF RunFails
  <2>2. Answered'
    BY <2>1
  <2>3. Promise!MNext
    BY <2>1 DEF Promise!MNext, Promise!Fail
  <2>4. QED
    BY <2>2, <2>3
<1>6. CASE Decode
  <2>1. pc = "done" /\ pc' = "answered" /\ UNCHANGED <<req, next, loaded, resp, truth>>
    BY <1>6 DEF Decode
  <2>2. Answered'
    BY <2>1
  <2>3. Promise!MNext
    BY <2>1 DEF Promise!MNext, Promise!Complete
  <2>4. QED
    BY <2>2, <2>3
<1>7. CASE UNCHANGED vars
  BY <1>7 DEF vars, Promise!mvars
<1>8. QED
  BY <1>1, <1>2, <1>3, <1>4, <1>5, <1>6, <1>7 DEF Next, Works

\* Both engines implement MatrixSpec for all requests: one verdict for a pair, each what
\* Kubernetes or LookupFlow says of the manifests, and none missing at the end.
THEOREM EngineImplementsMatrixSpec == Spec => ImplementsMatrixSpec
<1>1. Init => IInv /\ Answered /\ Promise!MInit
  BY InitIInv, InitAnswered
<1>2. IInv /\ Answered /\ [Next]_vars => (IInv /\ Answered)' /\ [Promise!MNext]_(Promise!mvars)
  BY NextIInv, NextAnswered
<1>3. QED
  BY <1>1, <1>2, PTL DEF Spec, ImplementsMatrixSpec, Promise!MSpec

\* What the shell has of an engine.
Given ==
  /\ pc \notin {"answered", "failed"} => answer = NoAnswer
  /\ pc = "answered" => Whole(answer)
  /\ pc = "failed" => Refused(answer)

\* No engine, wherever it stops, leaves half of a matrix with whoever asked.
THEOREM EngineAnsweredWhole ==
  Spec => [](answer # NoAnswer => Whole(answer) \/ Refused(answer))
<1>1. Init => Given
  BY DEF Init, Given
<1>2. IInv /\ Answered /\ Given /\ [Next]_vars => Given'
  <2> SUFFICES ASSUME IInv, Answered, Given, [Next]_vars PROVE Given'
    OBVIOUS
  <2>1. CASE Load \/ Loaded \/ Index \/ Answer \/ Report
    BY <2>1 DEF Load, Loaded, Index, Answer, Report, Given
  <2>2. CASE RunFails
    BY <2>2 DEF RunFails, Given, Refused
  <2>3. CASE Decode
    <3>1. pc = "done" /\ pc' = "answered" /\ truth' = truth
          /\ answer' = [resp EXCEPT !.actors = IF DOMAIN @ = {} THEN NoActors ELSE @]
      BY <2>3 DEF Decode
    <3>2. answer'.matrix = resp.matrix
      BY <3>1 DEF IInv, RespOK
    <3>3. QED
      BY <3>1, <3>2 DEF Answered, Given, Whole
  <2>4. CASE UNCHANGED vars
    BY <2>4 DEF vars, Given, Whole, Refused
  <2>5. QED
    BY <2>1, <2>2, <2>3, <2>4 DEF Next, Works
<1>3. IInv /\ Given => (answer # NoAnswer => Whole(answer) \/ Refused(answer))
  BY DEF IInv, Given
<1>4. QED
  BY <1>1, <1>2, <1>3, InitIInv, NextIInv, InitAnswered, NextAnswered, PTL DEF Spec
=============================================================================
