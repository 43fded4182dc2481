----------------------------- MODULE MCEngines -----------------------------
(***************************************************************************)
(* Small requests for the Antrea and Cilium engines: two pods of one       *)
(* namespace, a third of another and an address off the cluster.           *)
(***************************************************************************)
EXTENDS EngineSweep

E(id, n, name, labels, ip, ports, role) ==
  [id |-> id, ns |-> n, name |-> name, idNs |-> n, idName |-> name, labels |-> labels,
   ip |-> ip, ports |-> ports, role |-> role]
Http(n) == [name |-> "http", proto |-> "tcp", port |-> n]

\* The same name is another number on b; x is known by its id alone.
Endpoints ==
  <<E("n1/a", "n1", "a", {"app"}, 1, <<Http(80)>>, ""),
    E("n1/b", "n1", "b", {"app", "db"}, 2, <<Http(81)>>, ""),
    [E("n2/c", "n2", "c", {"db"}, 3, <<>>, "") EXCEPT !.ns = "", !.name = ""],
    [E("x", "", "x", {}, 9, <<>>, "external") EXCEPT !.name = ""]>>
Namespaces == [n1 |-> {<<"team", "red">>}]

Sel(sel, nsSel)    == [kind |-> "pods", sel |-> sel, nsSel |-> nsSel]
Block(ips, except) == [kind |-> "block", ips |-> ips, except |-> except]
Port(proto, n, e)  == [proto |-> proto, port |-> n, end |-> e, name |-> ""]
Named(name)        == [proto |-> "tcp", port |-> NoPort, end |-> NoPort, name |-> name]
Rule(peers, ports) == [peers |-> peers, ports |-> ports]
NP(n, sel, types, in, out) ==
  [kind |-> "np", np |-> [ns |-> n, sel |-> sel, types |-> types, ingress |-> in, egress |-> out]]
Bad   == [kind |-> "bad"]
Other == [kind |-> "other"]

Rules ==
  { Rule({}, {}), Rule({}, {Port("tcp", 80, NoPort)}), Rule({}, {Named("http")}),
    Rule({Sel({"app"}, NoSelector)}, {Port("", 80, 81), Port("udp", NoPort, NoPort)}),
    Rule({Sel({"db"}, {<<"team", "red">>}), Block({3, 9}, {9})}, {}),
    Rule({Block({2, 9}, {})}, {Named("http"), Port("tcp", 90, NoPort)}) }

AntreaPolicies ==
  {<<>>, <<Bad, NP("n1", {}, {}, {}, {}), Other>>}
  \cup {<<NP("n1", {"app"}, {}, {rule}, {}), NP("n2", {}, {"Egress"}, {}, {other})>> :
          rule \in Rules, other \in Rules}
  \cup {<<NP("n1", {"db"}, {"Ingress", "Egress"}, {rule}, {other}),
          NP("n1", {}, {}, {}, {rule})>> : rule \in Rules, other \in Rules}

Entry(subject, ingress, deny, enforce, peer, ports) ==
  [subject |-> subject, ingress |-> ingress, deny |-> deny, enforce |-> enforce,
   peer |-> peer, ports |-> ports]
App   == {<<"pod", "app">>, <<"pod.namespace", "n1">>}
World == {<<"reserved", "world">>}
EntrySets ==
  { {}, {Entry(App, TRUE, FALSE, TRUE, {<<"pod", "db">>}, {})},
    {Entry(AnySubject, FALSE, TRUE, FALSE, World, {<<"tcp", 80>>})},
    {Entry({<<"pod", "db">>}, FALSE, FALSE, TRUE, World, {<<"tcp", 81>>}),
     Entry(App, TRUE, FALSE, FALSE, {}, {})} }
Resource(key, es)  == [kind |-> "resource", key |-> key, entries |-> es]
Loose(es, panics)  == [kind |-> "rules", entries |-> es, panics |-> panics]
CiliumPolicies ==
  {<<Resource("p", es), Resource("q", fs), Resource("p", gs)>> :
      es \in EntrySets, fs \in EntrySets, gs \in EntrySets}
  \cup {<<Loose(es, FALSE), Bad, Resource("p", fs), Other, Loose(gs, panics)>> :
      es \in EntrySets, fs \in EntrySets, gs \in EntrySets, panics \in BOOLEAN}

Ask(engine, policies, proto, port, pairs, optimize) ==
  [engine |-> engine, endpoints |-> Endpoints, namespaces |-> Namespaces,
   policies |-> policies, proto |-> proto, port |-> port, pairs |-> pairs,
   optimize |-> optimize]
SomePairs == {<<"n1/a", "n2/c">>, <<"n2/c", "n1/a">>, <<"n1/a", "n1/a">>, <<"n1/b", "gone">>}

Labelling(r) == [r EXCEPT !.endpoints[1].labels = {"app", "init"}]

MCRequests ==
  {Ask("antrea", ps, "tcp", port, {}, TRUE) : ps \in AntreaPolicies, port \in {80, 81}}
  \cup {Ask("antrea", ps, "udp", 80, SomePairs, optimize) :
          ps \in AntreaPolicies, optimize \in BOOLEAN}
  \cup {Ask("cilium", ps, "tcp", 80, {}, TRUE) : ps \in CiliumPolicies}
  \cup {Ask("cilium", ps, "tcp", 65536 + 81, SomePairs, FALSE) : ps \in CiliumPolicies}
  \cup {Ask("cilium", <<Resource("p", es)>>, proto, port, {}, TRUE) :
          es \in EntrySets, proto \in {"tcp", "any"}, port \in {80, 65536}}
  \cup {Labelling(Ask("cilium", <<Resource("p", es)>>, "tcp", 80, {}, TRUE)) : es \in EntrySets}
=============================================================================
