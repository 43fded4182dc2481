------------------------------- MODULE Report -------------------------------
(***************************************************************************)
(* What is made of finished matrices: assertions checked against one       *)
(* (api/assert.go, matrix.go) and two compared (api/diff.go).              *)
(*                                                                         *)
(* A matrix is a function from flows <<from, to>> to "allow" or "deny".    *)
(* An assertion is [from, to, port, protocol, expect], where 0 and "" stand *)
(* for what was left out and expect is trimmed and in lower case.  A probe *)
(* is <<port, protocol>>.                                                  *)
(***************************************************************************)
EXTENDS Integers, FiniteSets, Functions

\* An assertion's own probe, else the request's, else the engines' default.
ProbeOf(a, r) ==
  <<IF a.port # 0      THEN a.port     ELSE IF r.port # 0      THEN r.port     ELSE 8080,
    IF a.protocol # "" THEN a.protocol ELSE IF r.protocol # "" THEN r.protocol ELSE "tcp">>

Flow(a) == <<a.from, a.to>>

ProtocolRank == [sctp |-> 1, tcp |-> 2, udp |-> 3]
ProbeBefore(k, l) ==
  k[1] < l[1] \/ (k[1] = l[1] /\ ProtocolRank[k[2]] <= ProtocolRank[l[2]])

WellFormed(a) == a.from # "" /\ a.to # "" /\ a.expect \in {"allow", "deny"}
Malformed     == [got |-> "", pass |-> FALSE, err |-> "malformed"]

\* A flow that is not in the matrix fails whatever was expected.
CheckAssertion(a, m) ==
  IF Flow(a) \in DOMAIN m
  THEN [got |-> m[Flow(a)], pass |-> m[Flow(a)] = a.expect, err |-> ""]
  ELSE [got |-> "", pass |-> FALSE, err |-> "no flow"]

\* Nothing failed, and something passed.
Ok(results) == DOMAIN results # {} /\ \A i \in DOMAIN results : results[i].pass
-----------------------------------------------------------------------------
(* Assertions against a matrix that was streamed to a file *)

RunAssertionsOnMatrix(m, as) ==
  [i \in DOMAIN as |-> IF WellFormed(as[i]) THEN CheckAssertion(as[i], m) ELSE Malformed]

\* Variant: the asserted flows are looked up the wrong way round.
Resident_Reversed(m, as) ==
  Restrict(m, DOMAIN m \cap {<<as[i].to, as[i].from>> : i \in DOMAIN as})

\* Only asserted flows are kept of the file.
Resident(m, as) == Restrict(m, DOMAIN m \cap {Flow(as[i]) : i \in DOMAIN as})

RunAssertionsFromMatrixFile(m, as) == RunAssertionsOnMatrix(Resident(m, as), as)
-----------------------------------------------------------------------------
(* Two matrices compared *)

\* Variant: a flow that vanished with its endpoint is noise even if it was allowed.
Kinds_OneSided(base, head) ==
  [opened  |-> {f \in DOMAIN base \cap DOMAIN head : base[f] = "deny" /\ head[f] = "allow"},
   closed  |-> {f \in DOMAIN base \cap DOMAIN head : base[f] # head[f] /\ head[f] # "allow"},
   added   |-> {f \in DOMAIN head \ DOMAIN base : head[f] = "allow"},
   removed |-> {}]

\* The flows of each kind of change.  One that only one side knows is a change when it
\* is allowed there.
Kinds(base, head) ==
  LET both == DOMAIN base \cap DOMAIN head
      open == {f \in both : base[f] = "deny" /\ head[f] = "allow"}
  IN  [opened  |-> open,
       closed  |-> {f \in both \ open : base[f] # head[f]},
       added   |-> {f \in DOMAIN head \ DOMAIN base : head[f] = "allow"},
       removed |-> {f \in DOMAIN base \ DOMAIN head : base[f] = "allow"}]

Changes(kinds) == kinds.opened \cup kinds.closed \cup kinds.added \cup kinds.removed

\* The report; its order is its layout.
DiffResponses(base, head) ==
  LET kinds == Kinds(base.matrix, head.matrix)
  IN  [kinds     |-> kinds,
       unchanged |-> Cardinality({f \in DOMAIN base.matrix \cap DOMAIN head.matrix :
                                    base.matrix[f] = head.matrix[f]}),
       errors    |-> head.errors]
=============================================================================
