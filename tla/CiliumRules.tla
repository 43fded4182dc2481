---------------------------- MODULE CiliumRules ----------------------------
(***************************************************************************)
(* What the Cilium engine asks of Cilium's policy repository               *)
(* (engines/cilium: eval.go, defaults.go).  The repository and LookupFlow  *)
(* are Cilium's; they are modelled by what the engine relies on.           *)
(*                                                                         *)
(* An entry of the repository is [subject, ingress, deny, enforce, peer,   *)
(* ports]: the labels it requires of the endpoint it is about and of the   *)
(* other end, its direction, whether it denies, whether it turns on the    *)
(* default deny, and the <<protocol, port>> it is for ({} = any).          *)
(***************************************************************************)
EXTENDS AntreaRules

CONSTANT AnySubject     \* an entry without a subject: about every endpoint

Uint16(n) == n % 65536

\* The labels of a fabricated identity.  Only an endpoint that is off-cluster has the
\* label of its address.
EndpointLabels(r, e) ==
  LET n == EndpointNamespace(e)
  IN  {<<"pod", l>> : l \in e.labels}
        \cup (IF n = "" THEN {}
              ELSE {<<"pod.namespace", n>>} \cup {<<"namespace", l>> : l \in NamespaceLabels(r, n)})
        \cup (IF e.role = "external" THEN {<<"cidr", e.ip>>, <<"reserved", "world">>} ELSE {})

\* Cilium enforces on an endpoint that is still being labelled.
IsInit(labels) == <<"pod", "init">> \in labels

About(entry, labels) == entry.subject = AnySubject \/ entry.subject \subseteq labels

\* One direction of LookupFlow under default enforcement.
DirectionAllowed(entries, ingress, labels, peer, proto, port) ==
  LET mine == {e \in entries : e.ingress = ingress /\ About(e, labels)}
      hit  == {e \in mine : e.peer \subseteq peer /\ (e.ports = {} \/ <<proto, port>> \in e.ports)}
  IN  /\ ~\E e \in hit : e.deny
      /\ (IsInit(labels) \/ \E e \in mine : e.enforce) => \E e \in hit : ~e.deny

\* LookupFlow refuses a flow without protocol or port; a refusal reads as deny.
Valid(proto, port) == Uint16(port) # 0 /\ proto # "any"

LookupAllows(entries, src, dst, proto, port) ==
  /\ Valid(proto, port)
  /\ DirectionAllowed(entries, FALSE, src, dst, proto, Uint16(port))
  /\ DirectionAllowed(entries, TRUE, dst, src, proto, Uint16(port))

\* A direction some entry is about, whatever the entry does.
AffectedDirections(entries, labels) ==
  [ingress |-> IsInit(labels) \/ \E e \in entries : e.ingress /\ About(e, labels),
   egress  |-> IsInit(labels) \/ \E e \in entries : ~e.ingress /\ About(e, labels)]
=============================================================================
