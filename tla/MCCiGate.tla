------------------------------ MODULE MCCiGate ------------------------------
(***************************************************************************)
(* Two pushes to one pull request, over three flows and two probes.        *)
(***************************************************************************)
EXTENDS CiGate, TLC

Web == <<8080, "tcp">>
Dns == <<53, "udp">>
Alt == <<53, "tcp">>
F == <<"a", "b">>
G == <<"b", "a">>
H == <<"a", "c">>

M(f, g)    == (F :> f @@ G :> g)
Wide(f, g) == (F :> f @@ G :> g @@ H :> "allow")
Rev(web, dns, errs) ==
  (Web :> [matrix |-> web, errors |-> errs] @@ Dns :> [matrix |-> dns, errors |-> errs]
     @@ Alt :> [matrix |-> M("deny", "allow"), errors |-> errs])

\* Connectivity that differs under the probes, an endpoint more, a broken policy, and an
\* engine that answers nothing.
MCRevisions ==
  { Rev(M("allow", "deny"), M("deny", "deny"), <<>>),
    Rev(Wide("allow", "allow"), Wide("allow", "deny"), <<"bad policy">>),
    Rev(<<>>, <<>>, <<"no engine", "no graph">>) }

A(from, to, port, protocol, expect) ==
  [from |-> from, to |-> to, port |-> port, protocol |-> protocol, expect |-> expect]

Honoured == <<A("a", "b", 0, "", "allow"), A("b", "a", 8080, "", "deny")>>
Mixed == <<A("a", "b", 53, "udp", "allow"), A("a", "b", 0, "", "deny"), A("a", "b", 53, "tcp", "deny")>>
Typos == <<A("a", "gone", 0, "tcp", "deny"), A("", "b", 0, "", "allow"), A("a", "b", 0, "", "other"),
           A("a", "b", 0, "", "allow")>>
MCFiles == {<<>>, Honoured, Mixed, Typos}

W(mode, as, port, baseRef, comment, failOnDiff) ==
  [mode |-> mode, assertions |-> as, port |-> port, protocol |-> "", baseRef |-> baseRef,
   comment |-> comment, failOnDiff |-> failOnDiff]

MCWorkflows ==
  {W("auto", as, 0, TRUE, TRUE, TRUE) : as \in {Honoured, Mixed}}
  \cup {W("diff", NoFile, 0, TRUE, FALSE, FALSE), W("auto", NoFile, 0, TRUE, TRUE, TRUE)}
  \cup {W("test", as, 8080, TRUE, TRUE, FALSE) : as \in MCFiles \cup {NoFile}}
  \cup {W("both", as, 0, FALSE, TRUE, TRUE) : as \in MCFiles \cup {NoFile}}
  \cup {W("never", NoFile, 0, TRUE, TRUE, TRUE)}
=============================================================================
