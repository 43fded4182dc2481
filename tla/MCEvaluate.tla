----------------------------- MODULE MCEvaluate -----------------------------
(***************************************************************************)
(* Small sweeps for TLC.  Pods a, b and c and the external x; addresses    *)
(* are numbers, b and c share the answer to most probes.  The policies are *)
(* p (its rules vary), q and r; the tiers are an admin one that passes by  *)
(* default and the default one that denies.                                *)
(*                                                                         *)
(* The second half are requests made of documents: pods a and b of one     *)
(* namespace, c of another, and x; a few documents at a time, in every     *)
(* order.                                                                  *)
(***************************************************************************)
EXTENDS Pipeline

In(S)         == [AnyPeer EXCEPT !.all = S]
NotIn(S)      == [AnyPeer EXCEPT !.none = S]
SomeOf(S)     == [AnyPeer EXCEPT !.any = S]
R(act, s, d)  == [action |-> act, src |-> s, dst |-> d]
Body(i, o)    == [in |-> i, out |-> o]

RuleBodies ==
  { Body(<<R("allow", In({"s1"}), AnyPeer)>>, <<>>),
    Body(<<R("deny", NotIn({"s1"}), AnyPeer), R("allow", AnyPeer, AnyPeer)>>, <<>>),
    Body(<<R("allow", AnyPeer, SomeOf({"s1", "s2"}))>>,
         <<R("allow", AnyPeer, NotIn({"s2"}))>>),
    Body(<<R("pass", In({"s2"}), NotIn({"s1"}))>>,
         <<R("pass", AnyPeer, In({"s1"})), R("deny", AnyPeer, SomeOf({"s2"}))>>),
    Body(<<>>, <<R("allow", SomeOf({"s1"}), In({"s2"}))>>) }

Store(p, s1, s2) ==
  [policies |-> [p |-> p,
                 q |-> Body(<<R("allow", In({"s2"}), AnyPeer)>>,
                            <<R("allow", AnyPeer, NotIn({"s1"}))>>),
                 r |-> Body(<<R("deny", AnyPeer, AnyPeer)>>,
                            <<R("deny", AnyPeer, AnyPeer)>>)],
   profiles |-> [kns |-> Body(<<R("allow", AnyPeer, AnyPeer)>>,
                              <<R("allow", AnyPeer, AnyPeer)>>)],
   member   |-> [s1 |-> s1, s2 |-> s2]]

Path(name, def, i, o) == [name |-> name, default |-> def, ingress |-> i, egress |-> o]
Owner(tiers)          == [tiers |-> tiers, profiles |-> <<"kns">>]
HepOwner(tiers)       == [tiers |-> tiers, profiles |-> <<>>]

Unselected == Owner(<<>>)
Default(def, i, o) == Path("default", def, i, o)
Owners ==
  { Unselected,
    Owner(<<Default("deny", <<"p">>, <<"p">>)>>),
    Owner(<<Path("admin", "pass", <<"p">>, <<>>), Default("deny", <<"q">>, <<"p", "q">>)>>),
    Owner(<<Path("admin", "deny", <<"p">>, <<>>), Default("deny", <<"q">>, <<"p", "q">>)>>) }

Pod(ip, node, wep) ==
  [ip |-> ip, node |-> node, unpoliced |-> FALSE, role |-> "", wep |-> wep]
Loose(ip, role) ==
  [ip |-> ip, node |-> "n2", unpoliced |-> TRUE, role |-> role, wep |-> NoPolicy]

Gateway(ip, star, fwd, dnat, untracked) ==
  [ip |-> ip, node |-> "n1", star |-> star, normal |-> HepOwner(<<>>),
   forward |-> HepOwner(fwd), preDnat |-> HepOwner(dnat), untracked |-> HepOwner(untracked)]

\* HostEndpoints of one request: none, or one with a policy on one of its hooks.
Gateways ==
  { <<>>,
    [h |-> Gateway(9, FALSE, <<Default("deny", <<"p">>, <<>>)>>, <<>>, <<>>)],
    [h |-> Gateway(NoIP, FALSE, <<Default("deny", <<>>, <<"p">>)>>,
                   <<Default("deny", <<"q">>, <<>>)>>, <<>>)],
    [h |-> Gateway(9, FALSE, <<>>, <<>>, <<Default("deny", <<"p">>, <<"p">>)>>)],
    [h |-> Gateway(9, TRUE, <<>>, <<>>, <<Default("deny", <<"r">>, <<"r">>)>>)] }

Services ==
  { [col |-> "svc", slices |-> {}, selected |-> <<2, 3>>],
    [col |-> "svc", slices |-> {<<3, 7>>}, selected |-> <<1>>] }

SomePairs == <<<<"a", "svc">>, <<"a", "b">>, <<"b", "b">>, <<"a", "b">>, <<"z", "b">>,
               <<"c", "h">>, <<"b", "svc">>>>

\* Pods c and a may share one policy, or have none; modes vary freely.
Sweep(p, s1, oa, ob, heps, svc, pairs, stream, noCollapse) ==
  [endpoints |-> <<"a", "b", "c", "x">>,
   hostEndpoints |-> <<"h", "rejected">>,
   ep |-> [a |-> Pod(1, "n1", oa), b |-> Pod(2, "n1", ob), c |-> Pod(3, "n2", ob),
           x |-> Loose(4, "external")],
   hep |-> heps, yamlHeps |-> {},
   store |-> Store(p, s1, {2, 3}),
   services |-> <<svc>>, pairs |-> pairs, stream |-> stream, noCollapse |-> noCollapse,
   strictLint |-> FALSE, lintFindings |-> TRUE, feedErrors |-> FALSE]

Collapsible ==
  { Sweep(p, s1, oa, ob, <<>>, svc, <<>>, stream, FALSE) :
      p \in RuleBodies, s1 \in {{1}, {2}, {2, 3}, {1, 4}}, oa \in Owners, ob \in Owners,
      svc \in Services, stream \in {FALSE} }

Overlaid ==
  { Sweep(p, {1}, Unselected, ob, heps, svc, pairs, stream, TRUE) :
      p \in RuleBodies, ob \in {Unselected, Owner(<<Default("deny", <<"p">>, <<"p">>)>>)},
      heps \in Gateways, svc \in Services, pairs \in {<<>>, SomePairs},
      stream \in {FALSE} }

\* The same requests streamed, and one refused by StrictLint.
Streamed ==
  { [r EXCEPT !.stream = TRUE] :
      r \in {s \in Collapsible \cup Overlaid :
               /\ s.store.member["s1"] = {1}
               /\ s.services[1].slices = {}
               /\ s.ep["a"].wep = Unselected} }

Refused == { [r EXCEPT !.strictLint = TRUE] : r \in {s \in Streamed : s.hep # <<>>} }
\* A HostEndpoint that reaches the graph as a policy manifest, not in the slice.
YamlRequests ==
  { [r EXCEPT !.hostEndpoints = <<>>, !.yamlHeps = {"h"}] :
      r \in {s \in Overlaid : s.hep # <<>> /\ s.hep["h"].ip # NoIP /\ s.pairs = <<>>} }
-----------------------------------------------------------------------------
(* Documents *)

Red     == <<"own", "red">>
Trusted == <<"pcsa", "trusted">>
Partner == <<"own", "partner">>
Prod    == <<"pcns", "prod">>
One     == <<"ns", "one">>
Web     == <<"svc", "one", "web">>

FedEndpoint(id, ns, sa, ip, labels, role) ==
  [id |-> id, ns |-> ns, sa |-> sa, ip |-> ip, labels |-> labels, node |-> "n1",
   unpoliced |-> role = "external", role |-> role]

FedEndpoints ==
  <<FedEndpoint("a", "one", "robot", 1, {"red"}, ""),
    FedEndpoint("b", "one", "", 2, {"blue"}, ""),
    FedEndpoint("c", "two", "robot", 3, {"red", "blue"}, ""),
    FedEndpoint("x", "net", "", 4, {}, "external")>>

FedNamespaces ==
  <<[ns |-> "", name |-> "one", labels |-> {"prod"}],
    [ns |-> "", name |-> "two", labels |-> {}],
    [ns |-> "", name |-> "net", labels |-> {}]>>

Echo      == [type |-> 8, code |-> 0]
OddEcho   == [type |-> 8, code |-> 1]
AnyEcho   == [type |-> 8, code |-> Unset]
Unreached == [type |-> 3, code |-> 1]
F(act, s, d) == [action |-> act, src |-> s, dst |-> d, icmp |-> NoIcmp, notIcmp |-> NoIcmp]
Only(r, b)   == [r EXCEPT !.icmp = b]
But(r, b)    == [r EXCEPT !.notIcmp = b]
Always(act)  == F(act, AnyPeer, AnyPeer)

Policy(kind, ns, name, tier, order, selects, types, i, o) ==
  [kind |-> kind, ns |-> ns, name |-> name, ok |-> TRUE, tier |-> tier, order |-> order,
   selects |-> selects, types |-> types, ingress |-> i, egress |-> o]

Account ==
  [kind |-> "ServiceAccount", ns |-> "one", name |-> "robot", ok |-> TRUE, labels |-> {"trusted"}]
Service ==
  [kind |-> "Service", ns |-> "one", name |-> "web", ok |-> TRUE, col |-> "web",
   selector |-> {"blue"}, ports |-> {80}]
Edge(default) ==
  [kind |-> "Tier", ns |-> "", name |-> "edge", ok |-> TRUE, order |-> 100, default |-> default]
Partners ==
  [kind |-> "GlobalNetworkSet", ns |-> "", name |-> "partners", ok |-> TRUE,
   labels |-> {"partner"}, nets |-> {4, 2}]

\* Selects by the labels of an account, before the default tier.
Guard == Policy("GlobalNetworkPolicy", "", "guard", "edge", 1, {Trusted}, {},
                <<F("allow", In({Red}), AnyPeer), F("pass", In({Prod}), AnyPeer)>>, <<>>)
Preview(kind) ==
  Policy(kind, "one", "preview", "edge", 2, {One}, {"in", "out"},
         <<F("deny", SomeOf({Red}), AnyPeer)>>, <<F("pass", AnyPeer, NotIn({Red}))>>)
\* Its egress rule is about pings alone.
Ping == Policy("NetworkPolicy", "one", "ping", "default", 3, {One}, {},
               <<Always("allow")>>, <<Only(F("allow", AnyPeer, NotIn({Red})), Echo)>>)
NoPing == Policy("GlobalNetworkPolicy", "", "ping", "default", 4, {}, {},
                 <<Only(Always("deny"), AnyEcho), But(Always("allow"), Echo)>>,
                 <<But(Always("allow"), Echo)>>)
ToWeb == Policy("NetworkPolicy", "one", "web", "default", 5, {One}, {},
                <<>>, <<F("allow", AnyPeer, In({Web})), F("allow", AnyPeer, In({Trusted}))>>)
FromPartners ==
  Policy("KubernetesNetworkPolicy", "one", "p", "default", 6, {One, Red}, {"in"},
         <<F("deny", In({Partner}), AnyPeer), F("allow", NotIn({Trusted}), AnyPeer)>>, <<>>)
Sloppy ==
  Policy("GlobalNetworkPolicy", "", "sloppy", "default", 7, {}, {},
         <<Only(Always("deny"), AnyEcho), F("pass", In({Red}), AnyPeer),
           F("allow", In({Red}), AnyPeer), Always("allow"), Always("deny")>>,
         <<F("deny", AnyPeer, In({Partner})), F("deny", AnyPeer, In({Partner})),
           Always("pass"), Always("allow")>>)
Sloppy2 == [Sloppy EXCEPT !.egress = <<Always("allow"), Always("deny")>>]

Nowhere    == [Sloppy EXCEPT !.name = "nowhere", !.tier = "nowhere", !.order = 8]
Unreadable == [Sloppy EXCEPT !.name = "unreadable", !.ok = FALSE]
Foreign    == [Sloppy EXCEPT !.name = "foreign", !.kind = "AdminNetworkPolicy"]

Raw(documents, staged, icmp, port) ==
  [documents |-> documents, serviceAccounts |-> <<>>, namespaces |-> FedNamespaces,
   services |-> <<>>, networkSets |-> <<>>, slices |-> <<>>, endpoints |-> FedEndpoints,
   staged |-> staged, icmp |-> icmp, port |-> port]

Orders(docs) == {s \in [1..Cardinality(docs) -> docs] : Range(s) = docs}

\* Documents that bear on each other, with the probes they tell apart.
Topics ==
  {<<{Account, Edge("deny"), Guard}, {NoIcmp}>>,
   <<{Account, Edge("pass"), Guard, Preview("StagedNetworkPolicy")}, {NoIcmp}>>,
   <<{Edge("deny"), Preview("StagedKubernetesNetworkPolicy"), Unreadable}, {NoIcmp}>>,
   <<{Service, ToWeb, Account}, {NoIcmp}>>,
   <<{Service, ToWeb, [Account EXCEPT !.ok = FALSE]}, {NoIcmp}>>,
   <<{Partners, FromPartners, Foreign}, {NoIcmp}>>,
   <<{Ping, FromPartners}, {NoIcmp, Echo, Unreached}>>,
   <<{Ping, NoPing, Service}, {NoIcmp, Echo, OddEcho, Unreached, AnyEcho}>>,
   <<{Sloppy, Sloppy2, Partners}, {NoIcmp, Echo, Unreached}>>,
   <<{Preview("StagedGlobalNetworkPolicy"), Edge("deny"), Sloppy, Nowhere}, {Unreached}>>}

Raws ==
  UNION {{Raw(docs, staged, icmp, port) :
            docs \in Orders(t[1]), staged \in BOOLEAN, icmp \in t[2],
            port \in IF Service \in t[1] THEN {80, 81} ELSE {80}} : t \in Topics}

\* The objects of the typed slices, before the pasted ones of the same name.
TypedRaws ==
  {[r EXCEPT !.serviceAccounts = <<[Account EXCEPT !.labels = {}]>>,
             !.services = IF Service \in Range(r.documents) THEN <<>> ELSE <<Service>>,
             !.networkSets = <<[Partners EXCEPT !.nets = {1}]>>] :
     r \in {s \in Raws : s.port = 80 /\ ~s.staged /\ s.icmp = NoIcmp}}

SlicedRaws ==
  {[Raw(docs, FALSE, NoIcmp, 80)
      EXCEPT !.slices = <<[ns |-> ns, svc |-> "web", addresses |-> <<3>>]>>] :
     docs \in Orders({Service, ToWeb}), ns \in {"one", "two"}}

FedRequests ==
  {Fed(r, FALSE, FALSE) : r \in Raws \cup TypedRaws \cup SlicedRaws}
    \cup {Fed(r, TRUE, TRUE) : r \in SlicedRaws}

MCRequests == Collapsible \cup Overlaid \cup Streamed \cup Refused \cup FedRequests

\* Requests with explicit slices, and with a pasted account.
SlicedRequests == {Fed(r, FALSE, FALSE) : r \in SlicedRaws}
PastedRequests == {Fed(r, FALSE, FALSE) : r \in {s \in Raws : Account \in Range(s.documents)}}
=============================================================================
