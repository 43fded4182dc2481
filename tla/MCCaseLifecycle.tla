-------------------------- MODULE MCCaseLifecycle --------------------------
(***************************************************************************)
(* Small instances of CaseLifecycle.                                       *)
(***************************************************************************)
EXTENDS CaseLifecycle

P(of, kind, n) == [of |-> of, kind |-> kind, ns |-> n]

\* A host firewall; a tier, with a set and a namespace of the system that the case names
\* like its own; an external client of a namespace the first case uses too.
HostCase ==
  [name |-> "hep", ns |-> {"n1"}, hep |-> TRUE, netset |-> FALSE, observer |-> FALSE,
   policies |-> {P("hep", "cluster", "-"), P("hep", "namespaced", "n1")}]
TierCase ==
  [name |-> "tier", ns |-> {"n2", "default"}, hep |-> FALSE, netset |-> TRUE,
   observer |-> FALSE, policies |-> {P("tier", "cluster", "-"), P("tier", "tier", "-")}]
ExternalCase ==
  [name |-> "ext", ns |-> {"n1"}, hep |-> FALSE, netset |-> FALSE, observer |-> TRUE,
   policies |-> {P("ext", "namespaced", "n1")}]
MCCases == {HostCase, TierCase, ExternalCase}

MCProtected == {"default"}
MCFaulty    == {"crd", "delete", "apply", "health", "engine"}
NoFaults    == {}
EitherKeep  == BOOLEAN
NeverKeep   == {FALSE}
ListFaulty  == {"list"}
=============================================================================
