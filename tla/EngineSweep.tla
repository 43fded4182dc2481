---------------------------- MODULE EngineSweep ----------------------------
(***************************************************************************)
(* The sweeps of the Antrea and Cilium engines (evaluate of                *)
(* engines/antrea/eval.go and engines/cilium/eval.go, api.EndpointPairs),  *)
(* step by step: manifests are loaded one by one, an index is built for    *)
(* the probe, and each pair asked is answered from the index or, without   *)
(* it, from the rules.  The engine is a process of its own, run for one    *)
(* request by the shell (externalProvider of proxy.go), which takes its    *)
(* response if it ends well.                                               *)
(*                                                                         *)
(* A request is [engine, endpoints, namespaces, policies, proto, port,     *)
(* pairs, optimize].  A manifest is [kind |-> "np", np] for Antrea; for    *)
(* Cilium [kind |-> "resource", key, entries], replacing what was loaded   *)
(* under its key, or [kind |-> "rules", entries, panics], loaded together  *)
(* at the end; in both [kind |-> "bad"] and [kind |-> "other"].            *)
(***************************************************************************)
EXTENDS CiliumRules

CONSTANTS
  Requests,     \* the requests an engine may be sent
  NoActors,     \* a Response whose Actors is nil
  NoAnswer

ASSUME RequestsAssumption ==
  \A r \in Requests :
    /\ r.engine \in {"antrea", "cilium"} /\ r.optimize \in BOOLEAN
    /\ r.policies \in Seq({r.policies[k] : k \in DOMAIN r.policies})
    /\ \A k \in DOMAIN r.policies :
         r.policies[k].kind \in {"bad", "other"} \cup
           (IF r.engine = "antrea" THEN {"np"} ELSE {"resource", "rules"})
    /\ \A i \in DOMAIN r.endpoints : r.endpoints[i].ports # NoOwner

\* Endpoints are known by their ids and pods by their keys, and no pod declares a named
\* port twice for a protocol.
ASSUME EndpointsAssumption ==
  \A r \in Requests :
    /\ DOMAIN r.endpoints \subseteq Nat
    /\ \A i, j \in DOMAIN r.endpoints :
         \/ r.endpoints[i].id = r.endpoints[j].id
         \/ EndpointNamespace(r.endpoints[i]) # "" /\ PodKey(r.endpoints[i]) = PodKey(r.endpoints[j])
         => i = j
    /\ \A i \in DOMAIN r.endpoints : LET ports == r.endpoints[i].ports IN
         /\ DOMAIN ports \subseteq Nat
         /\ \A m \in DOMAIN ports :
              ports[m] = [name |-> ports[m].name, proto |-> ports[m].proto, port |-> ports[m].port]
              /\ ports[m].port \in Nat
         /\ \A m, n \in DOMAIN ports :
              ports[m].name = ports[n].name /\ ports[m].proto = ports[n].proto => m = n

\* The rules of a NetworkPolicy are as the API server admits them.
RuleAdmitted(rule) ==
  /\ \A q \in rule.peers : q.kind \in {"pods", "block"}
  /\ \A p \in rule.ports : p.port \in Nat \cup {NoPort} /\ p.end \in Nat \cup {NoPort}

ASSUME ManifestsAssumption ==
  \A r \in Requests :
    /\ r.port \in Nat
    /\ \A k \in DOMAIN r.policies :
         /\ r.policies[k].kind = "np" => \A rule \in r.policies[k].np.ingress \cup r.policies[k].np.egress :
                                          RuleAdmitted(rule)
         /\ r.policies[k].kind = "rules" => r.policies[k].panics \in BOOLEAN

VARIABLES
  req,
  pc,
  next,       \* the manifest to load
  loaded,     \* antrea: the resolved policies; cilium: [resources, rules, panics]
  index,      \* indexEndpointPolicies or affectedDirections, by position
  left,       \* the pairs of positions not answered yet
  resp,       \* [matrix, errors, warnings, actors], in the engine
  answer,     \* what the shell returns, a response
  truth       \* history: the verdict of each pair the request asks for

vars == <<req, pc, next, loaded, index, left, resp, answer, truth>>
-----------------------------------------------------------------------------
At(r) == DOMAIN r.endpoints
Name(r, ij) == <<r.endpoints[ij[1]].id, r.endpoints[ij[2]].id>>

\* Every pair of distinct ids, or the pairs asked for that exist.
EndpointPairs(r) ==
  {ij \in At(r) \X At(r) :
     /\ Name(r, ij)[1] # Name(r, ij)[2]
     /\ r.pairs # {} => Name(r, ij) \in r.pairs}

Entries(l) ==
  (UNION {l.resources[k] : k \in DOMAIN l.resources}) \cup (IF l.panics THEN {} ELSE l.rules)

Word(allow) == IF allow THEN "allow" ELSE "deny"
Stored(m, p, v) == [q \in DOMAIN m \cup {p} |-> IF q = p THEN v ELSE m[q]]

Native(r, l, src, dst) ==
  IF r.engine = "antrea"
  THEN IngressAllows(l, dst, src, r.proto, r.port) /\ EgressAllows(l, src, dst, r.proto, r.port)
  ELSE LookupAllows(Entries(l), EndpointLabels(r, src), EndpointLabels(r, dst), r.proto, r.port)
-----------------------------------------------------------------------------
(* What the answer should be, from the manifests *)

\* Kubernetes: a pod some policy selects for a direction is isolated in it, and what
\* some rule of these policies admits passes.
Selects(np, e) ==
  EndpointNamespace(e) # "" /\ np.ns = EndpointNamespace(e) /\ np.sel \subseteq e.labels
Admits(r, np, peer, e) ==
  IF peer.kind = "block" THEN e.ip \in peer.ips \ peer.except
  ELSE /\ EndpointNamespace(e) # "" /\ peer.sel \subseteq e.labels
       /\ IF peer.nsSel = NoSelector THEN np.ns = EndpointNamespace(e)
          ELSE peer.nsSel \subseteq NamespaceLabels(r, EndpointNamespace(e))
Covers(p, proto, port, dst) ==
  /\ proto = IF p.proto = "" THEN "tcp" ELSE p.proto
  /\ IF p.name # ""
     THEN \E i \in DOMAIN dst.ports :
            dst.ports[i] = [name |-> p.name, proto |-> proto, port |-> port]
     ELSE p.port # NoPort => port \in p.port..(IF p.end = NoPort THEN p.port ELSE p.end)
Passes(r, np, rules, e, dst) ==
  \E rule \in rules :
    /\ rule.peers = {} \/ \E q \in rule.peers : Admits(r, np, q, e)
    /\ rule.ports = {} \/ \E p \in rule.ports : Covers(p, r.proto, r.port, dst)
KubernetesAllows(r, src, dst) ==
  LET nps == {m.np : m \in {r.policies[k] : k \in {j \in DOMAIN r.policies : r.policies[j].kind = "np"}}}
      in  == {np \in nps : PolicyTypeHas(np, "Ingress") /\ Selects(np, dst)}
      out == {np \in nps : PolicyTypeHas(np, "Egress") /\ Selects(np, src)}
  IN  /\ in # {}  => \E np \in in  : Passes(r, np, np.ingress, src, dst)
      /\ out # {} => \E np \in out : Passes(r, np, np.egress, dst, dst)

\* Cilium: what LookupFlow says of the last manifest of every resource and, if none
\* of them is refused, of all the rules.
LastEntries(r) ==
  LET of(kind) == {k \in DOMAIN r.policies : r.policies[k].kind = kind}
      last     == {k \in of("resource") :
                     ~\E j \in of("resource") : j > k /\ r.policies[j].key = r.policies[k].key}
      rules    == IF \E k \in of("rules") : r.policies[k].panics THEN {} ELSE of("rules")
  IN  UNION {r.policies[k].entries : k \in last \cup rules}

Truth(r) ==
  [p \in {Name(r, ij) : ij \in EndpointPairs(r)} |->
     LET ij  == CHOOSE ij \in EndpointPairs(r) : Name(r, ij) = p
         src == r.endpoints[ij[1]]
         dst == r.endpoints[ij[2]]
     IN  Word(IF r.engine = "antrea" THEN KubernetesAllows(r, src, dst)
              ELSE LookupAllows(LastEntries(r), EndpointLabels(r, src), EndpointLabels(r, dst),
                                r.proto, r.port))]
-----------------------------------------------------------------------------
Init ==
  /\ req \in Requests
  /\ pc = "load" /\ next = 1
  /\ loaded = IF req.engine = "antrea" THEN {}
              ELSE [resources |-> <<>>, rules |-> {}, panics |-> FALSE]
  /\ index = <<>> /\ left = {}
  /\ resp = [matrix |-> <<>>, errors |-> 0, warnings |-> 0, actors |-> NoActors]
  /\ answer = NoAnswer
  /\ truth = Truth(req)

\* A manifest that cannot be read is an error and one of another kind a warning; the
\* sweep goes on without it.
Load ==
  /\ pc = "load" /\ next <= Len(req.policies)
  /\ next' = next + 1
  /\ LET m == req.policies[next] IN
       \/ m.kind = "np"       /\ loaded' = loaded \cup {ResolvePolicy(req, m.np)}
                              /\ UNCHANGED resp
       \/ m.kind = "resource" /\ loaded' = [loaded EXCEPT
                                              !.resources = Stored(@, m.key, m.entries)]
                              /\ UNCHANGED resp
       \/ m.kind = "rules"    /\ loaded' = [loaded EXCEPT !.rules = @ \cup m.entries,
                                                          !.panics = @ \/ m.panics]
                              /\ UNCHANGED resp
       \/ m.kind = "bad"      /\ resp' = [resp EXCEPT !.errors = @ + 1]   /\ UNCHANGED loaded
       \/ m.kind = "other"    /\ resp' = [resp EXCEPT !.warnings = @ + 1] /\ UNCHANGED loaded
  /\ UNCHANGED <<req, pc, index, left, answer, truth>>

\* The rules that were collected are added at once; a panic is contained as an error.
Loaded ==
  /\ pc = "load" /\ next > Len(req.policies)
  /\ pc' = "index"
  /\ resp' = IF req.engine = "cilium" /\ loaded.panics
             THEN [resp EXCEPT !.errors = @ + 1] ELSE resp
  /\ UNCHANGED <<req, next, loaded, index, left, answer, truth>>

\* Variant: pairs of an endpoint with itself are not left out.
Index_Square ==
  /\ pc = "index"
  /\ pc' = "pairs"
  /\ index' = <<>>
  /\ left' = At(req) \X At(req)
  /\ UNCHANGED <<req, next, loaded, resp, answer, truth>>

Index ==
  /\ pc = "index"
  /\ pc' = "pairs"
  /\ index' = IF ~req.optimize THEN <<>>
              ELSE [i \in At(req) |->
                      IF req.engine = "antrea"
                      THEN IndexEndpoint(loaded, req.endpoints[i], req.proto, req.port)
                      ELSE AffectedDirections(Entries(loaded),
                                              EndpointLabels(req, req.endpoints[i]))]
  /\ left' = EndpointPairs(req)
  /\ UNCHANGED <<req, next, loaded, resp, answer, truth>>

\* Both ends of the pair answer from the index.
IndexedAllows(i, j) ==
  LET src == req.endpoints[i]
      dst == req.endpoints[j]
  IN  /\ DirectionAllows(index[j].ingress, src, req.proto, req.port, dst.ports)
      /\ DirectionAllows(index[i].egress, dst, req.proto, req.port, dst.ports)

\* Variant: the two ends are mistaken for each other.
Skipped_Swapped(i, j) ==
  Valid(req.proto, req.port) /\ ~index[i].ingress /\ ~index[j].egress

\* No lookup for a pair no entry is about.
Skipped(i, j) ==
  Valid(req.proto, req.port) /\ ~index[i].egress /\ ~index[j].ingress

Allows(i, j) ==
  IF req.optimize /\ req.engine = "antrea"
  THEN IndexedAllows(i, j)
  ELSE \/ req.optimize /\ Skipped(i, j)
       \/ Native(req, loaded, req.endpoints[i], req.endpoints[j])

\* Row by row, or in the order the pairs were asked for, which is any; positions of
\* the same two ids are always visited row by row.
Before(ij, kl) ==
  \/ req.pairs # {} /\ Name(req, ij) # Name(req, kl)
  \/ ij[1] < kl[1] \/ (ij[1] = kl[1] /\ ij[2] <= kl[2])

Answer ==
  /\ pc = "pairs"
  /\ \E ij \in left :
       /\ \A kl \in left : Before(ij, kl)
       /\ left' = left \ {ij}
       /\ resp' = [resp EXCEPT
                     !.matrix = Stored(@, Name(req, ij), Word(Allows(ij[1], ij[2]))),
                     !.warnings = IF req.engine = "cilium" /\ ~Valid(req.proto, req.port)
                                  THEN @ + 1 ELSE @]
  /\ UNCHANGED <<req, pc, next, loaded, index, answer, truth>>

Report ==
  /\ pc = "pairs" /\ left = {}
  /\ pc' = "done"
  /\ resp' = [resp EXCEPT !.actors =
                [i \in At(req) |->
                   [id   |-> req.endpoints[i].id,
                    kind |-> IF req.endpoints[i].role = "" THEN "workload"
                             ELSE req.endpoints[i].role]]]
  /\ UNCHANGED <<req, next, loaded, index, left, answer, truth>>

\* Variant: what a failing engine has written is kept.
RunFails_Kept ==
  /\ pc \in {"load", "index", "pairs", "done"}
  /\ pc' = "failed"
  /\ answer' = resp
  /\ UNCHANGED <<req, next, loaded, index, left, resp, truth>>

\* The engine is not found, refuses the request, is killed or writes something else:
\* the answer is an error and nothing more.
RunFails ==
  /\ pc \in {"load", "index", "pairs", "done"}
  /\ pc' = "failed"
  /\ answer' = [matrix |-> <<>>, errors |-> 1, warnings |-> 0, actors |-> NoActors]
  /\ UNCHANGED <<req, next, loaded, index, left, resp, truth>>

\* The response is read once the engine has ended well; actors that are none are left out.
Decode ==
  /\ pc = "done"
  /\ pc' = "answered"
  /\ answer' = [resp EXCEPT !.actors = IF DOMAIN @ = {} THEN NoActors ELSE @]
  /\ UNCHANGED <<req, next, loaded, index, left, resp, truth>>

Works == Load \/ Loaded \/ Index \/ Answer \/ Report \/ Decode
Next  == Works \/ RunFails

\* One goroutine in the engine and one that waits for it: they go on until there is an
\* answer, with or without a failure.
Spec == Init /\ [][Next]_vars /\ WF_vars(Works)
-----------------------------------------------------------------------------
TypeOK ==
  /\ pc \in {"load", "index", "pairs", "done", "answered", "failed"}
  /\ next \in 1..(Len(req.policies) + 1)
  /\ left \subseteq EndpointPairs(req)
  /\ \A p \in DOMAIN resp.matrix : resp.matrix[p] \in {"allow", "deny"}
  /\ resp.errors \in Nat /\ resp.warnings \in Nat

Promise == INSTANCE MatrixSpec
             WITH matrix <- resp.matrix,
                  status <- CASE pc = "answered" -> "complete"
                              [] pc = "failed"   -> "failed"
                              [] OTHER           -> "running"

\* Both engines implement MatrixSpec, with their shortcuts and without: what is
\* answered from the index is what the policies say, an endpoint whose rules all miss
\* the probe stays isolated, a named port is its owner's, and a pair is only let
\* through unasked when no entry is about either end.
ImplementsMatrixSpec == Promise!MSpec

\* The index answers for every two endpoints, asked for or not, what the rules would:
\* no rule it set aside could have met the probe.
IndexExact ==
  pc = "pairs" =>
    \A i, j \in At(req) :
      Allows(i, j) = Native(req, loaded, req.endpoints[i], req.endpoints[j])

Whole(a)   == DOMAIN a.matrix = DOMAIN truth
Refused(a) == a.matrix = <<>> /\ a.errors > 0

\* Whoever asks gets an answer, and never half of one: every pair has its verdict, or
\* there is an error and no verdict at all, wherever the engine stops.
AnsweredWhole == <>(answer # NoAnswer /\ (Whole(answer) \/ Refused(answer)))
=============================================================================
